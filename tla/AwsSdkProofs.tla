---------------------------- MODULE AwsSdkProofs ----------------------------
(***************************************************************************)
(* Proofs about the lifetime of the AWS SDK, for every finite set of       *)
(* threads.                                                                *)
(***************************************************************************)
EXTENDS AwsSdk, FiniteSetTheorems, TLAPS

(* The SDK is up only while a thread is on its way to shut it down, or is  *)
(* counted.  Without credentials there are tokens only, so that a single   *)
(* thread is under way; it finds the SDK as it left it.                    *)
Inv ==
    /\ TypeOK
    /\ SdkDownWhenIdle
    /\ ~mixed =>
          /\ \A t \in Threads : kind[t] = "token"
          /\ \A t, u \in Threads : pc[t] # "idle" /\ pc[u] # "idle" => t = u
          /\ SdkUpWhileUsed

USE AwsSdkAssumption DEF AwsSdkAssumption

LEMMA CountedFinite ==
    /\ IsFiniteSet(Counted) /\ Cardinality(Counted) \in Nat
    /\ Cardinality(Counted) = 0 <=> Counted = {}
<1>1. Counted \in SUBSET Threads
  BY DEF Counted
<1>2. QED
  BY <1>1, FS_Subset, FS_CardinalityType, FS_EmptySet

LEMMA InitInv == Init => Inv
<1> SUFFICES ASSUME Init PROVE Inv
  OBVIOUS
<1>1. Counted = {}
  BY DEF Init, Counted
<1>2. TypeOK
  BY <1>1, FS_EmptySet DEF Init, TypeOK
<1>3. QED
  BY <1>2 DEF Init, Inv, SdkDownWhenIdle, SdkUpWhileUsed

LEMMA CountInv ==
    ASSUME Inv, NEW t \in Threads, NEW k \in {"token", "secret"},
           pc[t] = "idle", Count(t, k),
           ~mixed => k = "token" /\ GlobalAuthMutexFree
    PROVE  Inv'
<1> USE DEF Count
<1>1. t \notin Counted /\ Counted' = Counted \cup {t}
  BY DEF Counted, Inv, TypeOK
<1>2. TypeOK'
  <2>1. sdk_ref_count' = Cardinality(Counted')
    BY <1>1, CountedFinite, FS_AddElement DEF Inv, TypeOK
  <2>2. QED
    BY <2>1 DEF Inv, TypeOK
<1>3. SdkDownWhenIdle'
  BY DEF Inv, TypeOK, SdkDownWhenIdle
<1>4. ASSUME ~mixed'
      PROVE  /\ \A u \in Threads : kind'[u] = "token"
             /\ \A u, v \in Threads : pc'[u] # "idle" /\ pc'[v] # "idle" => u = v
             /\ SdkUpWhileUsed'
  <2>1. \A u \in Threads : pc[u] = "idle"
    BY <1>4 DEF GlobalAuthMutexFree, Inv
  <2>2. sdk_ref_count = 0
    BY <2>1, CountedFinite DEF Counted, Inv, TypeOK
  <2>3. QED
    BY <1>4, <2>1, <2>2 DEF Inv, TypeOK, SdkUpWhileUsed
<1>5. QED
  BY <1>2, <1>3, <1>4 DEF Inv

LEMMA InitAPIInv ==
    ASSUME Inv, NEW t \in Threads, InitAPI(t)
    PROVE  Inv'
<1> USE DEF InitAPI
<1>1. Counted' = Counted
  BY DEF Counted, Inv, TypeOK
<1>2. TypeOK'
  BY <1>1 DEF Inv, TypeOK
<1>3. QED
  BY <1>2 DEF Inv, TypeOK, SdkDownWhenIdle, SdkUpWhileUsed

LEMMA ReleaseInv ==
    ASSUME Inv, NEW t \in Threads, Release(t)
    PROVE  Inv'
<1> USE DEF Release
<1>1. t \in Counted /\ Counted' = Counted \ {t}
  BY DEF Counted, Inv, TypeOK
<1>2. sdk_ref_count' = Cardinality(Counted')
  BY <1>1, CountedFinite, FS_RemoveElement DEF Inv, TypeOK
<1>3. TypeOK'
  BY <1>2 DEF Inv, TypeOK
<1>4. SdkDownWhenIdle'
  <2>1. CASE sdk_ref_count = 1
    BY <2>1 DEF SdkDownWhenIdle, Inv, TypeOK
  <2>2. CASE sdk_ref_count # 1
    <3>1. Cardinality(Counted') # 0
      BY <1>2, <2>2, CountedFinite DEF Inv, TypeOK
    <3>2. \E u \in Threads \ {t} : pc[u] \in {"init", "use"}
      BY <1>1, <3>1, FS_EmptySet DEF Counted
    <3>3. QED
      BY <3>2 DEF SdkDownWhenIdle, Inv, TypeOK
  <2>3. QED
    BY <2>1, <2>2
<1>5. QED
  BY <1>3, <1>4 DEF Inv, TypeOK, SdkUpWhileUsed

LEMMA ShutdownAPIInv ==
    ASSUME Inv, NEW t \in Threads, ShutdownAPI(t)
    PROVE  Inv'
<1> USE DEF ShutdownAPI
<1>1. Counted' = Counted
  BY DEF Counted, Inv, TypeOK
<1>2. TypeOK' /\ SdkDownWhenIdle'
  BY <1>1 DEF Inv, TypeOK, SdkDownWhenIdle
<1>3. QED
  BY <1>2 DEF Inv, TypeOK, SdkUpWhileUsed

LEMMA StepInv == Inv /\ [Next]_vars => Inv'
<1> SUFFICES ASSUME Inv, [Next]_vars PROVE Inv'
  OBVIOUS
<1>1. ASSUME NEW t \in Threads, GenerateConnectAuthToken(t)
      PROVE  Inv'
  BY <1>1, CountInv DEF GenerateConnectAuthToken
<1>2. ASSUME NEW t \in Threads, GetCredentialsFromSecretsManager(t)
      PROVE  Inv'
  BY <1>2, CountInv DEF GetCredentialsFromSecretsManager
<1>3. CASE UNCHANGED vars
  BY <1>3 DEF vars, Inv, TypeOK, Counted, SdkDownWhenIdle, SdkUpWhileUsed
<1>4. QED
  BY <1>1, <1>2, <1>3, InitAPIInv, ReleaseInv, ShutdownAPIInv DEF Next

THEOREM Invariant == Spec => []Inv
BY InitInv, StepInv, PTL DEF Spec

(* Type correctness; no reference to the SDK is lost.                      *)
THEOREM CountIsExact == Spec => []TypeOK
<1>1. Inv => TypeOK
  BY DEF Inv
<1>2. QED
  BY <1>1, Invariant, PTL

(* Threads that only generate tokens find the SDK initialised.             *)
THEOREM SdkIsUp == Spec => []SdkUpWhileUsed
<1>1. Inv => SdkUpWhileUsed
  BY DEF Inv, SdkUpWhileUsed
<1>2. QED
  BY <1>1, Invariant, PTL

(* The SDK is shut down when nobody is left, with and without threads that *)
(* fetch credentials.                                                      *)
THEOREM SdkGoesDown == Spec => []SdkDownWhenIdle
<1>1. Inv => SdkDownWhenIdle
  BY DEF Inv
<1>2. QED
  BY <1>1, Invariant, PTL
==============================================================================
