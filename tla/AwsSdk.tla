-------------------------------- MODULE AwsSdk --------------------------------
(***************************************************************************)
(* The lifetime of the AWS SDK in                                          *)
(* src/src/authentication/authentication_provider.cc: it is initialised by *)
(* the first call that needs it and shut down by the last one.  Token      *)
(* generation holds global_auth_mutex from beginning to end, fetching      *)
(* credentials does not; sdk_ref_count is atomic, and sdk_mutex protects   *)
(* InitAPI and ShutdownAPI but not the decision to call them.              *)
(***************************************************************************)
EXTENDS Integers, FiniteSets

CONSTANTS
    Threads,
    Mixtures   \* values of mixed to consider

ASSUME AwsSdkAssumption == IsFiniteSet(Threads) /\ Mixtures \subseteq BOOLEAN

VARIABLES
    mixed,          \* credentials are fetched beside the generation of tokens
    sdk,            \* the SDK is initialised
    sdk_ref_count,
    pc,             \* thread -> control point
    kind            \* thread -> the call it is in, or was last

vars == <<mixed, sdk, sdk_ref_count, pc, kind>>

Init ==
    /\ mixed \in Mixtures
    /\ sdk = FALSE
    /\ sdk_ref_count = 0
    /\ pc = [t \in Threads |-> "idle"]
    /\ kind = [t \in Threads |-> "token"]

GlobalAuthMutexFree == \A t \in Threads : kind[t] = "token" => pc[t] = "idle"

(* 1 == ++sdk_ref_count decides who initialises.                           *)
Count(t, k) ==
    /\ sdk_ref_count' = sdk_ref_count + 1
    /\ pc' = [pc EXCEPT ![t] = IF sdk_ref_count = 0 THEN "init" ELSE "use"]
    /\ kind' = [kind EXCEPT ![t] = k]
    /\ UNCHANGED <<mixed, sdk>>

(* Mutant of GenerateConnectAuthToken: the mutex is not taken.             *)
GenerateUnlocked(t) == pc[t] = "idle" /\ Count(t, "token")

GenerateConnectAuthToken(t) ==
    /\ pc[t] = "idle" /\ GlobalAuthMutexFree
    /\ Count(t, "token")

GetCredentialsFromSecretsManager(t) ==
    /\ pc[t] = "idle" /\ mixed
    /\ Count(t, "secret")

InitAPI(t) ==
    /\ pc[t] = "init"
    /\ sdk' = TRUE
    /\ pc' = [pc EXCEPT ![t] = "use"]
    /\ UNCHANGED <<mixed, sdk_ref_count, kind>>

(* Mutant of Release: 0 == sdk_ref_count-- decides.                        *)
ReleasePostfix(t) ==
    /\ pc[t] = "use"
    /\ sdk_ref_count' = sdk_ref_count - 1
    /\ pc' = [pc EXCEPT ![t] = IF sdk_ref_count = 0 THEN "shutdown" ELSE "idle"]
    /\ UNCHANGED <<mixed, sdk, kind>>

(* The SDK has given a token or credentials, or an error: 0 ==             *)
(* --sdk_ref_count decides who shuts down.                                 *)
Release(t) ==
    /\ pc[t] = "use"
    /\ sdk_ref_count' = sdk_ref_count - 1
    /\ pc' = [pc EXCEPT ![t] = IF sdk_ref_count = 1 THEN "shutdown" ELSE "idle"]
    /\ UNCHANGED <<mixed, sdk, kind>>

ShutdownAPI(t) ==
    /\ pc[t] = "shutdown"
    /\ sdk' = FALSE
    /\ pc' = [pc EXCEPT ![t] = "idle"]
    /\ UNCHANGED <<mixed, sdk_ref_count, kind>>

Next ==
    \E t \in Threads :
        \/ GenerateConnectAuthToken(t) \/ GetCredentialsFromSecretsManager(t)
        \/ InitAPI(t) \/ Release(t) \/ ShutdownAPI(t)

Spec == Init /\ [][Next]_vars

-----------------------------------------------------------------------------
Counted == {t \in Threads : pc[t] \in {"init", "use"}}

(* Every variable has its type, and the count is that of the calls between *)
(* the increment and the decrement, on their error paths as well.          *)
TypeOK ==
    /\ mixed \in BOOLEAN /\ sdk \in BOOLEAN
    /\ pc \in [Threads -> {"idle", "init", "use", "shutdown"}]
    /\ kind \in [Threads -> {"token", "secret"}]
    /\ sdk_ref_count = Cardinality(Counted)

(* The SDK is there for everybody who uses it, as long as nobody fetches   *)
(* credentials from the secrets manager.  (Without the proviso TLC refutes *)
(* it: another call may shut the SDK down, or be about to initialise it.)  *)
SdkUpWhileUsed == ~mixed => \A t \in Threads : pc[t] = "use" => sdk

(* In either case the SDK is shut down in the end, in whatever order the   *)
(* calls get the mutex they decided for before.                            *)
SdkDownWhenIdle == (\A t \in Threads : pc[t] = "idle") => ~sdk
=============================================================================
