---------------------------- MODULE Authentication ----------------------------
(***************************************************************************)
(* A call for a token or for credentials from beginning to end             *)
(* (src/src/authentication/: authentication_provider.cc, adfs/adfs.cc,     *)
(* okta/okta.cc, federation.cc, html_util.cc, secrets_manager_helper.cc),  *)
(* and the cache of tokens.  What a thread does while the SDK counts it is *)
(* added to AwsSdk: the exchanges with the identity provider, the objects  *)
(* of the SDK it creates and destroys, the copy it returns.  An action is  *)
(* one exchange with a server, with what follows, or one turn of the loop  *)
(* over a page that has come.                                              *)
(***************************************************************************)
EXTENDS AwsSdk, Sequences

CONSTANTS
    Pages,     \* pages of identity providers: text, an attribute with content in which
               \* HTML entities are escaped; inputs, the number of parameters
    Lifetime,  \* for how long a token is valid, and told to the cache
    MaxTime,   \* bound on the time
    Prompt,    \* clients cache a token within the unit of time it was signed in
    None,
    Torn       \* a value that a data race may produce

AuthTypes == {"ADFS", "IAM", "OKTA", "INVALID"}
Markup    == [text : Seq({"char", "amp", "entity", "semi"}), inputs : Nat]

ASSUME AuthenticationAssumption ==
    /\ Pages \subseteq Markup
    /\ Lifetime \in Nat /\ MaxTime \in Nat /\ Prompt \in BOOLEAN
    /\ None \notin Nat /\ Torn \notin Nat \cup {None}

VARIABLES
    at,            \* thread -> where it is within its call
    type,          \* thread -> the method its token is asked for with
    page,          \* thread -> the page it escapes, what is left of its text
    clients,       \* thread -> the objects of the SDK it owns
    failed,        \* thread -> a step of its call has failed or found nothing
    token,         \* thread -> the token it has: the time it was signed
    clock,         \* thread -> the time its call to the cache has read
    now,
    cached_tokens, \* one entry of the cache, or None
    raced          \* accesses to the cache have overlapped

authVars == <<at, type, page, clients, failed, token, clock, now, cached_tokens, raced>>
cacheVars == <<clock, now, cached_tokens, raced>>
allVars == <<vars, authVars>>

AuthInit ==
    /\ Init
    /\ at = [t \in Threads |-> "idle"]
    /\ type = [t \in Threads |-> None]
    /\ page = [t \in Threads |-> None]
    /\ clients = [t \in Threads |-> {}]
    /\ failed = [t \in Threads |-> FALSE]
    /\ token = [t \in Threads |-> None]
    /\ clock = [t \in Threads |-> 0]
    /\ now = 0 /\ cached_tokens = None /\ raced = FALSE

-----------------------------------------------------------------------------
(* Mutant of Escaped: the loop does not get beyond an ampersand without a  *)
(* semicolon either.                                                       *)
EscapedUnlessAmp(text) == IF Head(text) = "amp" THEN text ELSE Tail(text)

(* A turn of the loop: it does not get beyond an ampersand that has a      *)
(* semicolon after it but does not begin a known entity.                   *)
Escaped(text) ==
    IF Head(text) = "amp" /\ \E n \in DOMAIN text : text[n] \in {"entity", "semi"}
    THEN text ELSE Tail(text)

(* Every input tag with a name, once, gives a parameter of the form, but   *)
(* for an authentication method without a value.                           *)
HasParameters(form) == form.inputs > 0

(* The thread owns what it owns and goes on at another point; its step     *)
(* fails, and what the provider owned is destroyed.                        *)
Goto(t, point) ==
    /\ at' = [at EXCEPT ![t] = point]
    /\ UNCHANGED <<page, clients, failed>>

GiveUp(t, point) ==
    /\ at' = [at EXCEPT ![t] = point] /\ UNCHANGED page
    /\ clients' = [clients EXCEPT ![t] = @ \ {"http", "sts"}]
    /\ failed' = [failed EXCEPT ![t] = TRUE]

(* A step of a thread that the SDK counts.                                 *)
Using(t, point) ==
    /\ pc[t] = "use" /\ at[t] = point
    /\ UNCHANGED <<vars, type, cacheVars>>

-----------------------------------------------------------------------------
(* Tokens.  global_auth_mutex is held until the call returns.              *)
Generate(t) ==
    /\ at[t] = "idle" /\ GenerateConnectAuthToken(t)
    /\ \A u \in Threads : at[u] = "copy" => kind[u] = "secret"
    /\ Goto(t, "create")
    /\ \E method \in AuthTypes : type' = [type EXCEPT ![t] = method]
    /\ token' = [token EXCEPT ![t] = None]
    /\ UNCHANGED cacheVars

(* ADFS and OKTA need a configuration that is complete; the clients for    *)
(* HTTP and STS are local to the function.                                 *)
CreateRDSClient(t) ==
    /\ Using(t, "create") /\ UNCHANGED token
    /\ \/ type[t] # "IAM" /\ GiveUp(t, "free")
       \/ /\ type[t] \in {"ADFS", "OKTA"}
          /\ at' = [at EXCEPT ![t] = IF type[t] = "ADFS" THEN "signin" ELSE "session"]
          /\ clients' = [clients EXCEPT ![t] = {"http", "sts"}]
          /\ UNCHANGED <<page, failed>>
       \/ type[t] = "IAM" /\ Goto(t, "chain")

(* A page has come from the identity provider.                             *)
Receive(t) ==
    /\ at' = [at EXCEPT ![t] = "escape"]
    /\ \E new \in Pages : page' = [page EXCEPT ![t] = new]
    /\ UNCHANGED <<clients, failed>>

(* ADFS: the sign-on page.                                                 *)
GetSigninPage(t) ==
    /\ Using(t, "signin") /\ UNCHANGED token
    /\ GiveUp(t, "free") \/ Receive(t)

(* The loop over a page, and what follows: the assertion of OKTA, the form *)
(* of ADFS.  Without parameters, pop_back is called on an empty string.    *)
EscapeHtmlEntity(t) ==
    /\ Using(t, "escape") /\ UNCHANGED <<token, clients, failed>>
    /\ IF page[t].text # << >>
       THEN page' = [page EXCEPT ![t].text = Escaped(@)] /\ UNCHANGED at
       ELSE /\ page' = [page EXCEPT ![t] = None]
            /\ at' = [at EXCEPT ![t] = IF type[t] = "OKTA" THEN "assume"
                                       ELSE IF HasParameters(page[t]) THEN "form"
                                       ELSE "undefined"]

(* The form is sent; its URL may be refused.                               *)
GetFormActionBody(t) ==
    /\ Using(t, "form") /\ UNCHANGED token
    /\ GiveUp(t, "free") \/ Goto(t, "assume")

(* OKTA: the session token, and the assertion.                             *)
GetSessionToken(t) ==
    /\ Using(t, "session") /\ UNCHANGED token
    /\ GiveUp(t, "free") \/ Goto(t, "signon")

GetSignonPage(t) ==
    /\ Using(t, "signon") /\ UNCHANGED token
    /\ GiveUp(t, "free") \/ Receive(t)

(* Mutant of AssumeRoleWithSAML: the outcome is not looked at.             *)
AssumeUnchecked(t) ==
    /\ Using(t, "assume") /\ UNCHANGED <<token, page>>
    /\ at' = [at EXCEPT ![t] = "sign"]
    /\ clients' = [clients EXCEPT ![t] = {"rds"}]
    /\ failed' \in {failed, [failed EXCEPT ![t] = TRUE]}

AssumeRoleWithSAML(t) ==
    /\ Using(t, "assume") /\ UNCHANGED token
    /\ \/ GiveUp(t, "free")
       \/ /\ at' = [at EXCEPT ![t] = "sign"]
          /\ clients' = [clients EXCEPT ![t] = {"rds"}]
          /\ UNCHANGED <<page, failed>>

(* IAM: the provider chain gives empty credentials if it finds none, and   *)
(* the call goes on with them.                                             *)
GetAWSCredentials(t) ==
    /\ Using(t, "chain") /\ UNCHANGED <<token, page>>
    /\ at' = [at EXCEPT ![t] = "sign"]
    /\ clients' = [clients EXCEPT ![t] = {"rds"}]
    /\ failed' \in {failed, [failed EXCEPT ![t] = TRUE]}

SignToken(t) ==
    /\ Using(t, "sign")
    /\ token' = [token EXCEPT ![t] = now]
    /\ Goto(t, "free")

(* Mutant of FreeAwsResource: the client is left to the end of the call.   *)
FreeLate(t) ==
    /\ Using(t, "free") /\ UNCHANGED token
    /\ Goto(t, "release")

FreeAwsResource(t) ==
    /\ Using(t, "free") /\ UNCHANGED <<token, page, failed>>
    /\ clients' = [clients EXCEPT ![t] = {}]
    /\ at' = [at EXCEPT ![t] = "release"]

-----------------------------------------------------------------------------
(* Credentials from the secrets manager.                                   *)
GetSecret(t) ==
    /\ at[t] = "idle" /\ GetCredentialsFromSecretsManager(t)
    /\ Goto(t, "client")
    /\ token' = [token EXCEPT ![t] = None]
    /\ UNCHANGED <<type, cacheVars>>

CreateSecretsManagerClient(t) ==
    /\ Using(t, "client") /\ UNCHANGED <<token, page, failed>>
    /\ clients' = [clients EXCEPT ![t] = {"sm"}]
    /\ at' = [at EXCEPT ![t] = "fetch"]

(* An error, a secret that is no JSON or has no username or password.      *)
FetchCredentials(t) ==
    /\ Using(t, "fetch") /\ UNCHANGED token
    /\ GiveUp(t, "release") \/ Goto(t, "release")

-----------------------------------------------------------------------------
InitSdk(t) == InitAPI(t) /\ UNCHANGED authVars

ReleaseSdk(t) ==
    /\ at[t] = "release" /\ Release(t)
    /\ Goto(t, "copy") /\ UNCHANGED <<type, token, cacheVars>>

ShutdownSdk(t) == ShutdownAPI(t) /\ UNCHANGED authVars

(* The end of the call: what was got is copied if it fits.  The client of  *)
(* the secrets manager is destroyed here, after the SDK.                   *)
Return(t) ==
    /\ at[t] = "copy" /\ pc[t] = "idle"
    /\ at' = [at EXCEPT ![t] = "idle"]
    /\ type' = [type EXCEPT ![t] = None]
    /\ clients' = [clients EXCEPT ![t] = {}]
    /\ failed' = [failed EXCEPT ![t] = FALSE]
    /\ token' \in {token, [token EXCEPT ![t] = None]}
    /\ UNCHANGED <<vars, page, cacheVars>>

-----------------------------------------------------------------------------
(* The cache.  Both calls read the time first; neither takes a mutex.      *)
CacheCall(t, from, to) ==
    /\ at[t] = from
    /\ at' = [at EXCEPT ![t] = to]
    /\ UNCHANGED <<vars, type, page, clients, failed, now>>

GetCachedToken(t) ==
    /\ CacheCall(t, "idle", "look")
    /\ clock' = [clock EXCEPT ![t] = now]
    /\ token' = [token EXCEPT ![t] = None]
    /\ UNCHANGED <<cached_tokens, raced>>

(* A client caches the token it has got, and connects with it.             *)
UpdateCachedToken(t) ==
    /\ CacheCall(t, "idle", "stamp")
    /\ token[t] \in Nat /\ (Prompt => token[t] = now)
    /\ clock' = [clock EXCEPT ![t] = now]
    /\ UNCHANGED <<token, cached_tokens, raced>>

(* A read overlaps with a write of another thread, a write with anything.  *)
BeginFind(t) ==
    /\ CacheCall(t, "look", "find")
    /\ raced' = (raced \/ \E u \in Threads : at[u] = "write")
    /\ UNCHANGED <<token, clock, cached_tokens>>

BeginWrite(t) ==
    /\ CacheCall(t, "stamp", "write")
    /\ raced' = (raced \/ \E u \in Threads : at[u] \in {"find", "write"})
    /\ UNCHANGED <<token, clock, cached_tokens>>

(* Mutant of Hit: the time a token was cached at is taken for its end.     *)
HitAlways(t) == cached_tokens # None

Hit(t) == cached_tokens # None /\ clock[t] <= cached_tokens.expiration

(* A hit counts only if the token fits.                                    *)
EndFind(t) ==
    /\ CacheCall(t, "find", "idle")
    /\ \/ token' = [token EXCEPT ![t] = None]
       \/ raced /\ token' = [token EXCEPT ![t] = Torn]
       \/ Hit(t) /\ token' = [token EXCEPT ![t] = cached_tokens.token]
    /\ clock' = [clock EXCEPT ![t] = 0]
    /\ UNCHANGED <<cached_tokens, raced>>

EndWrite(t) ==
    /\ CacheCall(t, "write", "idle")
    /\ cached_tokens' = [token |-> token[t], expiration |-> clock[t] + Lifetime]
    /\ clock' = [clock EXCEPT ![t] = 0]
    /\ token' = [token EXCEPT ![t] = None]
    /\ UNCHANGED raced

(* The client drops its connection and the token with it.                  *)
Forget(t) ==
    /\ at[t] = "idle"
    /\ token' = [token EXCEPT ![t] = None]
    /\ UNCHANGED <<vars, at, type, page, clients, failed, cacheVars>>

Tick ==
    /\ now < MaxTime /\ now' = now + 1
    /\ UNCHANGED <<vars, at, type, page, clients, failed, token, clock, cached_tokens, raced>>

-----------------------------------------------------------------------------
Call(t) == Generate(t) \/ GetSecret(t) \/ GetCachedToken(t) \/ UpdateCachedToken(t)

Step(t) ==
    \/ InitSdk(t) \/ ReleaseSdk(t) \/ ShutdownSdk(t) \/ Return(t)
    \/ CreateRDSClient(t) \/ GetSigninPage(t) \/ EscapeHtmlEntity(t) \/ GetFormActionBody(t)
    \/ GetSessionToken(t) \/ GetSignonPage(t) \/ AssumeRoleWithSAML(t)
    \/ GetAWSCredentials(t) \/ SignToken(t) \/ FreeAwsResource(t)
    \/ CreateSecretsManagerClient(t) \/ FetchCredentials(t)
    \/ BeginFind(t) \/ EndFind(t) \/ BeginWrite(t) \/ EndWrite(t)

AuthNext == Tick \/ \E t \in Threads : Call(t) \/ Step(t) \/ Forget(t)

AuthSpec == AuthInit /\ [][AuthNext]_allVars
-----------------------------------------------------------------------------
(* Properties.                                                             *)

Cache    == {"look", "find", "stamp", "write"}
Exchange == {"create", "signin", "escape", "form", "session", "signon", "assume",
             "chain", "sign", "free", "client", "fetch", "release", "undefined"}

(* Every variable has its type, and the count of the SDK's users is exact. *)
AuthTypeOK ==
    /\ TypeOK
    /\ at \in [Threads -> {"idle", "copy"} \cup Cache \cup Exchange]
    /\ type \in [Threads -> AuthTypes \cup {None}]
    /\ page \in [Threads -> Markup \cup {None}]
    /\ clients \in [Threads -> SUBSET {"http", "sts", "rds", "sm"}]
    /\ failed \in [Threads -> BOOLEAN]
    /\ token \in [Threads -> Nat \cup {None, Torn}]
    /\ clock \in [Threads -> Nat] /\ now \in Nat
    /\ cached_tokens = None \/ cached_tokens \in [token : Nat, expiration : Nat]
    /\ raced \in BOOLEAN

(* No object of the SDK is alive while the SDK is not, whichever of the    *)
(* exchanges failed.  (The client of the secrets manager is: it is         *)
(* destroyed when GetCredentialsFromSecretsManager returns.)               *)
ObjectsNeedSdk == ~mixed => \A t \in Threads : clients[t] # {} => sdk

(* A call in which an exchange of ADFS or OKTA failed gives no token, and  *)
(* one that gives a token to its caller took it from the RDS client in     *)
(* this call.  (A call for IAM that has found no credentials gives one.)   *)
NoTokenAfterFailure ==
    [][\A t \in Threads :
          at[t] = "copy" /\ at'[t] = "idle" /\ token'[t] # None =>
              /\ kind[t] = "token"
              /\ failed[t] => type[t] = "IAM"]_allVars

(* A token from the cache was still valid when it was asked for, unless    *)
(* calls to the cache have overlapped; if clients cache tokens promptly.   *)
HitIsValid ==
    [][\A t \in Threads :
          at[t] = "find" /\ at'[t] = "idle" /\ token'[t] # None /\ ~raced /\ Prompt =>
              clock[t] <= token'[t] + Lifetime]_allVars

(* The text of a page on which the loop does not end.                      *)
Endless(text) ==
    \E n, m \in DOMAIN text :
        n < m /\ text[n] = "amp" /\ text[m] \in {"entity", "semi"}

(* A call returns, and global_auth_mutex does not stay locked for the other *)
(* connections, whichever exchange fails and whatever the pages are, but   *)
(* for two kinds of page: one that the loop does not get through, and one  *)
(* whose form has no parameters.                                           *)
CallReturns ==
    \A t \in Threads :
        at[t] # "idle" ~> \/ at[t] \in {"idle", "undefined"}
                          \/ at[t] = "escape" /\ Endless(page[t].text)

-----------------------------------------------------------------------------
(* What the code does not see to; TLC refutes each on the configuration    *)
(* that README.md names.                                                   *)

(* A lookup in the cache does not see half of an update.                   *)
CacheIsWhole == \A t \in Threads : token[t] # Torn

(* The cache knows when a token ends.                                      *)
CachedTokenIsValid ==
    [][\A t \in Threads :
          at[t] = "find" /\ at'[t] = "idle" /\ token'[t] # None /\ ~raced =>
              clock[t] <= token'[t] + Lifetime]_allVars

(* As ObjectsNeedSdk, with the secrets manager.                            *)
ObjectsAlwaysNeedSdk == \A t \in Threads : clients[t] # {} => sdk

(* A token was signed with credentials.                                    *)
TokenHasCredentials ==
    [][\A t \in Threads :
          at[t] = "copy" /\ at'[t] = "idle" /\ token'[t] # None => ~failed[t]]_allVars

(* The loop over a page ends, whatever the page is.                        *)
EscapingEnds == \A t \in Threads : at[t] = "escape" ~> at[t] # "escape"

(* The form of a sign-on page has parameters.                              *)
FormHasParameters == \A t \in Threads : at[t] # "undefined"
=============================================================================
