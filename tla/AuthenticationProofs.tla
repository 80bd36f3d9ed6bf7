------------------------- MODULE AuthenticationProofs -------------------------
(***************************************************************************)
(* Proofs about calls for tokens and credentials, the cache of tokens and  *)
(* the logger, for every finite set of threads.                            *)
(***************************************************************************)
EXTENDS AuthenticatedClients, AwsSdkProofs

USE AuthenticationAssumption DEF AuthenticationAssumption

-----------------------------------------------------------------------------
(* The detailed calls use the SDK as AwsSdk says.                          *)

LEMMA StepUsesSdk == [AuthNext]_allVars => [Next]_vars
<1> SUFFICES ASSUME [AuthNext]_allVars PROVE Next \/ UNCHANGED vars
  OBVIOUS
<1>1. CASE UNCHANGED allVars
  BY <1>1 DEF allVars
<1>2. CASE Tick
  BY <1>2 DEF Tick
<1>3. ASSUME NEW t \in Threads, Call(t) \/ Forget(t)
      PROVE  Next \/ UNCHANGED vars
  BY <1>3 DEF Call, Forget, Generate, GetSecret, GetCachedToken, UpdateCachedToken,
     CacheCall, Next
<1>4. ASSUME NEW t \in Threads, Step(t)
      PROVE  Next \/ UNCHANGED vars
  <2>1. CASE InitSdk(t) \/ ReleaseSdk(t) \/ ShutdownSdk(t)
    BY <2>1 DEF InitSdk, ReleaseSdk, ShutdownSdk, Next
  <2>2. CASE UNCHANGED vars
    BY <2>2
  <2>3. QED
    BY <1>4, <2>1, <2>2 DEF Step, Return, CreateRDSClient, GetSigninPage,
       EscapeHtmlEntity, GetFormActionBody, GetSessionToken, GetSignonPage, AssumeRoleWithSAML,
       GetAWSCredentials, SignToken, FreeAwsResource, CreateSecretsManagerClient,
       FetchCredentials, BeginFind, EndFind, BeginWrite, EndWrite, Using, CacheCall
<1>5. QED
  BY <1>1, <1>2, <1>3, <1>4 DEF AuthNext

THEOREM UsesSdk == AuthSpec => Spec
BY StepUsesSdk, PTL DEF AuthSpec, AuthInit, Spec

-----------------------------------------------------------------------------
(* Where a thread is within its call, what it owns there and what has      *)
(* happened before.                                                        *)

Provider == {"signin", "escape", "form", "session", "signon", "assume", "undefined"}
ForToken == {"create", "chain", "sign", "free"} \cup Provider

PlaceInv ==
    /\ at \in [Threads -> {"idle", "copy"} \cup Cache \cup Exchange]
    /\ type \in [Threads -> AuthTypes \cup {None}]
    /\ page \in [Threads -> Markup \cup {None}]
    /\ clients \in [Threads -> SUBSET {"http", "sts", "rds", "sm"}]
    /\ failed \in [Threads -> BOOLEAN]
    /\ \A t \in Threads :
          /\ at[t] = "escape" => page[t] \in Markup
          /\ at[t] = "chain" => type[t] = "IAM"
          /\ pc[t] = "init" => at[t] \in {"create", "client"}
          /\ pc[t] = "use" => at[t] \in Exchange
          /\ pc[t] = "shutdown" => at[t] = "copy"
          /\ pc[t] = "idle" => at[t] \notin Exchange
          /\ at[t] \in ForToken => kind[t] = "token"
          /\ at[t] \in {"client", "fetch"} => kind[t] = "secret"
          /\ at[t] \in {"idle"} \cup Cache => clients[t] = {}
          /\ kind[t] = "token" /\ clients[t] # {} => at[t] \in Provider \cup {"sign", "free"}

TokenInv ==
    /\ token \in [Threads -> Nat \cup {None, Torn}]
    /\ now \in Nat
    /\ \A t \in Threads :
          /\ failed[t] => \/ at[t] \in {"free", "release", "copy"}
                          \/ at[t] = "sign" /\ type[t] = "IAM"
          /\ at[t] \in Exchange \cup {"copy"} /\ token[t] # None
                => /\ kind[t] = "token" /\ (failed[t] => type[t] = "IAM")
                   /\ at[t] \in {"free", "release", "copy"}

CacheInv ==
    /\ clock \in [Threads -> Nat] /\ raced \in BOOLEAN
    /\ cached_tokens = None \/ cached_tokens \in [token : Nat, expiration : Nat]
    /\ \A t \in Threads : at[t] \in {"stamp", "write"} =>
          token[t] \in Nat /\ (Prompt => clock[t] = token[t])
    /\ Prompt /\ cached_tokens # None =>
          cached_tokens.expiration = cached_tokens.token + Lifetime

AuthInv == PlaceInv /\ TokenInv /\ CacheInv

LEMMA AuthInitInv == AuthInit => AuthInv
<1> SUFFICES ASSUME AuthInit PROVE AuthInv
  OBVIOUS
<1>1. PlaceInv
  BY DEF AuthInit, Init, PlaceInv, Cache, Exchange, ForToken, Provider
<1>2. TokenInv /\ CacheInv
  BY DEF AuthInit, TokenInv, CacheInv
<1>3. QED
  BY <1>1, <1>2 DEF AuthInv

(* The thread has another page, or none, or the same.                      *)
Turns(t) == /\ page' \in [Threads -> Markup \cup {None}]
            /\ \A u \in Threads \ {t} : page'[u] = page[u]

(* A step between two servers: a thread that the SDK counts goes to        *)
(* another point of its call, which owns what belongs there.               *)
LEMMA UsingInv ==
    ASSUME Inv, AuthInv, NEW t \in Threads, UNCHANGED <<vars, type, cacheVars>>,
           pc[t] = "use", NEW point \in Exchange, NEW owned \in SUBSET {"http", "sts", "rds", "sm"},
           NEW fails \in BOOLEAN,
           at' = [at EXCEPT ![t] = point],
           clients' = [clients EXCEPT ![t] = owned],
           failed' = [failed EXCEPT ![t] = fails],
           Turns(t), point = "escape" => page'[t] \in Markup,
           point = "chain" => type[t] = "IAM",
           kind[t] = "token" => point \in ForToken \cup {"release"},
           kind[t] = "secret" => point \in {"client", "fetch", "release"},
           kind[t] = "token" /\ owned # {} => point \in Provider \cup {"sign", "free"},
           fails => \/ point \in {"free", "release"} /\ token'[t] = None
                    \/ type[t] = "IAM" /\ point \in {"sign", "free", "release"},
           token'[t] # None => point \in {"free", "release"},
           \/ UNCHANGED token
           \/ token' = [token EXCEPT ![t] = now] /\ kind[t] = "token"
    PROVE  AuthInv'
<1> USE DEF vars, cacheVars, Turns
<1>1. PlaceInv'
  <2>1. /\ at' \in [Threads -> {"idle", "copy"} \cup Cache \cup Exchange]
        /\ type' \in [Threads -> AuthTypes \cup {None}]
        /\ clients' \in [Threads -> SUBSET {"http", "sts", "rds", "sm"}]
        /\ failed' \in [Threads -> BOOLEAN]
    BY DEF AuthInv, PlaceInv
  <2>2. ASSUME NEW u \in Threads
        PROVE  /\ at'[u] = "escape" => page'[u] \in Markup
               /\ at'[u] = "chain" => type'[u] = "IAM"
    BY DEF AuthInv, PlaceInv
  <2>3. ASSUME NEW u \in Threads
        PROVE  /\ pc'[u] = "init" => at'[u] \in {"create", "client"}
               /\ pc'[u] = "use" => at'[u] \in Exchange
               /\ pc'[u] = "shutdown" => at'[u] = "copy"
               /\ pc'[u] = "idle" => at'[u] \notin Exchange
    BY DEF AuthInv, PlaceInv, Exchange
  <2>4. ASSUME NEW u \in Threads
        PROVE  /\ at'[u] \in ForToken => kind'[u] = "token"
               /\ at'[u] \in {"client", "fetch"} => kind'[u] = "secret"
               /\ at'[u] \in {"idle"} \cup Cache => clients'[u] = {}
               /\ kind'[u] = "token" /\ clients'[u] # {}
                     => at'[u] \in Provider \cup {"sign", "free"}
    BY DEF AuthInv, PlaceInv, Inv, TypeOK, ForToken, Provider, Exchange, Cache
  <2>5. QED
    BY <2>1, <2>2, <2>3, <2>4 DEF PlaceInv
<1>2. TokenInv'
  BY DEF AuthInv, PlaceInv, TokenInv, Inv, TypeOK, Exchange, Cache
<1>3. CacheInv'
  BY DEF AuthInv, PlaceInv, TokenInv, CacheInv, Exchange
<1>4. QED
  BY <1>1, <1>2, <1>3 DEF AuthInv

(* What a thread may do between two servers.                               *)
Between(t) ==
    \/ CreateRDSClient(t) \/ GetSigninPage(t) \/ EscapeHtmlEntity(t) \/ GetFormActionBody(t)
    \/ GetSessionToken(t) \/ GetSignonPage(t) \/ AssumeRoleWithSAML(t)
    \/ GetAWSCredentials(t) \/ SignToken(t) \/ FreeAwsResource(t)
    \/ CreateSecretsManagerClient(t) \/ FetchCredentials(t)

LEMMA KindOfPoint ==
    ASSUME Inv, AuthInv, NEW t \in Threads
    PROVE  /\ kind[t] \in {"token", "secret"}
           /\ at[t] \in ForToken => kind[t] = "token"
           /\ at[t] \in {"client", "fetch"} => kind[t] = "secret"
           /\ at[t] \notin {"sign", "free", "release", "copy"} => ~failed[t]
           /\ failed[t] /\ at[t] = "sign" => type[t] = "IAM"
           /\ page[t] \in Markup \cup {None}
           /\ at[t] = "escape" => page[t] \in Markup
           /\ failed[t] \in BOOLEAN
           /\ clients[t] \in SUBSET {"http", "sts", "rds", "sm"}
           /\ at[t] \in Exchange \ {"free", "release"} => token[t] = None
BY DEF Inv, TypeOK, AuthInv, PlaceInv, TokenInv, Exchange

(* Giving up destroys what the provider owns, and there is no token.       *)
LEMMA GiveUpInv ==
    ASSUME Inv, AuthInv, NEW t \in Threads, NEW point \in {"free", "release"},
           UNCHANGED <<vars, type, cacheVars, token>>, pc[t] = "use", GiveUp(t, point),
           kind[t] = "token" => at[t] \in {"create"} \cup Provider /\ point = "free",
           kind[t] = "secret" => point = "release" /\ at[t] = "fetch"
    PROVE  AuthInv'
<1>1. /\ clients[t] \in SUBSET {"http", "sts", "rds", "sm"}
      /\ token[t] = None
      /\ point \in Exchange
  BY DEF AuthInv, PlaceInv, TokenInv, Inv, TypeOK, Exchange, Provider
<1>2. PlaceInv'
  BY <1>1 DEF GiveUp, AuthInv, PlaceInv, Inv, TypeOK, ForToken, Provider, Exchange,
     Cache, vars
<1>3. TokenInv'
  BY <1>1 DEF GiveUp, AuthInv, TokenInv, PlaceInv, Inv, TypeOK, Exchange, Cache, vars,
     cacheVars
<1>4. CacheInv'
  BY <1>1 DEF GiveUp, AuthInv, PlaceInv, CacheInv, Exchange, cacheVars
<1>5. QED
  BY <1>2, <1>3, <1>4 DEF AuthInv

LEMMA GotoInv ==
    ASSUME Inv, AuthInv, NEW t \in Threads, NEW point \in Exchange,
           UNCHANGED <<vars, type, cacheVars, token>>, pc[t] = "use", Goto(t, point),
           kind[t] = "token" => at[t] \in {"create"} \cup Provider
                                /\ point \in (Provider \ {"escape"}) \cup {"chain"},
           at[t] = "create" => point = "chain",
           point = "chain" => at[t] = "create" /\ type[t] = "IAM",
           kind[t] = "secret" => point = "release" /\ at[t] = "fetch"
    PROVE  AuthInv'
<1>1. ~failed[t] /\ token[t] = None
  BY KindOfPoint DEF Provider, Exchange
<1>2. PlaceInv'
  BY DEF Goto, AuthInv, PlaceInv, Inv, TypeOK, ForToken, Provider, Exchange, Cache, vars
<1>3. TokenInv'
  BY <1>1 DEF Goto, AuthInv, TokenInv, PlaceInv, Inv, TypeOK, Exchange, Cache, vars,
     cacheVars
<1>4. CacheInv'
  BY DEF Goto, AuthInv, PlaceInv, CacheInv, Exchange, cacheVars
<1>5. QED
  BY <1>2, <1>3, <1>4 DEF AuthInv

LEMMA BetweenInv ==
    ASSUME Inv, AuthInv, NEW t \in Threads, Between(t)
    PROVE  AuthInv'
<1> USE KindOfPoint DEF Using
<1>1. CASE CreateRDSClient(t)
  <2>1. /\ kind[t] = "token" /\ pc[t] = "use" /\ at[t] = "create"
        /\ UNCHANGED <<vars, type, cacheVars, token>> /\ token[t] = None
    BY <1>1 DEF CreateRDSClient, ForToken, Exchange
  <2>2. CASE GiveUp(t, "free")
    BY <1>1, <2>1, <2>2, GiveUpInv DEF CreateRDSClient
  <2>3. CASE Goto(t, "chain")
    <3>1. type[t] = "IAM"
      BY <1>1, <2>3 DEF CreateRDSClient, Goto, GiveUp, AuthInv, PlaceInv
    <3>2. QED
      BY <1>1, <2>1, <2>3, <3>1, GotoInv DEF CreateRDSClient, Exchange
  <2>4. ASSUME NEW point \in {"signin", "session"},
               at' = [at EXCEPT ![t] = point],
               clients' = [clients EXCEPT ![t] = {"http", "sts"}], UNCHANGED <<page, failed>>
        PROVE  AuthInv'
    <3>1. failed' = [failed EXCEPT ![t] = FALSE] /\ Turns(t)
      BY <2>1, <2>4 DEF AuthInv, PlaceInv, Turns
    <3>2. point \in Exchange /\ point \in Provider /\ point \in ForToken
      BY DEF Exchange, ForToken, Provider
    <3>3. QED
      BY <2>1, <2>4, <3>1, <3>2, UsingInv
  <2>5. QED
    BY <1>1, <2>2, <2>3, <2>4 DEF CreateRDSClient
<1>2. CASE GetSigninPage(t) \/ GetSignonPage(t)
  <2>1. /\ kind[t] = "token" /\ pc[t] = "use" /\ at[t] \in {"signin", "signon"}
        /\ UNCHANGED <<vars, type, cacheVars, token>> /\ token[t] = None
    BY <1>2 DEF GetSigninPage, GetSignonPage, ForToken, Provider, Exchange
  <2>2. CASE GiveUp(t, "free")
    BY <2>1, <2>2, GiveUpInv DEF Provider
  <2>3. CASE Receive(t)
    <3>1. /\ failed' = [failed EXCEPT ![t] = FALSE]
          /\ clients' = [clients EXCEPT ![t] = clients[t]]
          /\ at' = [at EXCEPT ![t] = "escape"]
      BY <2>1, <2>3 DEF Receive, AuthInv, PlaceInv
    <3>2. Turns(t) /\ page'[t] \in Markup
      BY <2>3 DEF Receive, AuthInv, PlaceInv, Turns
    <3>3. QED
      BY <2>1, <3>1, <3>2, UsingInv DEF Exchange, ForToken, Provider
  <2>4. QED
    BY <1>2, <2>2, <2>3 DEF GetSigninPage, GetSignonPage
<1>3. CASE GetFormActionBody(t)
  <2>1. kind[t] = "token" /\ pc[t] = "use" /\ at[t] = "form"
    BY <1>3 DEF GetFormActionBody, ForToken, Provider
  <2>2. QED
    BY <1>3, <2>1, GiveUpInv, GotoInv DEF GetFormActionBody, Provider, Exchange
<1>4. CASE GetSessionToken(t)
  <2>1. kind[t] = "token" /\ pc[t] = "use" /\ at[t] = "session"
    BY <1>4 DEF GetSessionToken, ForToken, Provider
  <2>2. QED
    BY <1>4, <2>1, GiveUpInv, GotoInv DEF GetSessionToken, Provider, Exchange
<1>5. CASE EscapeHtmlEntity(t)
  <2>1. /\ kind[t] = "token" /\ pc[t] = "use" /\ at[t] = "escape" /\ ~failed[t]
        /\ UNCHANGED <<vars, type, cacheVars, token>> /\ token[t] = None
        /\ page[t] \in Markup
    BY <1>5 DEF EscapeHtmlEntity, ForToken, Provider, Exchange
  <2>2. /\ failed' = [failed EXCEPT ![t] = FALSE]
        /\ clients' = [clients EXCEPT ![t] = clients[t]]
    BY <1>5, <2>1 DEF EscapeHtmlEntity, AuthInv, PlaceInv
  <2>3. CASE page[t].text # << >>
    <3>1. /\ at' = [at EXCEPT ![t] = "escape"]
          /\ page' = [page EXCEPT ![t] = [page[t] EXCEPT !.text = Escaped(page[t].text)]]
      BY <1>5, <2>1, <2>3 DEF EscapeHtmlEntity, AuthInv, PlaceInv
    <3>2. Escaped(page[t].text) \in Seq({"char", "amp", "entity", "semi"})
      BY <2>1, <2>3 DEF Escaped, Markup
    <3>3. [page[t] EXCEPT !.text = Escaped(page[t].text)] \in Markup
      BY <2>1, <3>2 DEF Markup
    <3>4. Turns(t) /\ page'[t] \in Markup
      BY <3>1, <3>3 DEF AuthInv, PlaceInv, Turns
    <3>5. QED
      BY <2>1, <2>2, <3>1, <3>4, UsingInv DEF Exchange, ForToken, Provider
  <2>4. CASE page[t].text = << >>
    <3>1. PICK point \in {"assume", "form", "undefined"} : at' = [at EXCEPT ![t] = point]
      BY <1>5, <2>4 DEF EscapeHtmlEntity
    <3>2. Turns(t)
      BY <1>5, <2>4 DEF EscapeHtmlEntity, AuthInv, PlaceInv, Turns
    <3>3. QED
      BY <2>1, <2>2, <3>1, <3>2, UsingInv DEF Exchange, ForToken, Provider
  <2>5. QED
    BY <2>3, <2>4
<1>6. CASE AssumeRoleWithSAML(t) \/ GetAWSCredentials(t)
  <2>1. /\ kind[t] = "token" /\ pc[t] = "use" /\ at[t] \in {"assume", "chain"}
        /\ UNCHANGED <<vars, type, cacheVars, token>> /\ token[t] = None /\ ~failed[t]
    BY <1>6 DEF AssumeRoleWithSAML, GetAWSCredentials, ForToken, Provider, Exchange
  <2>2. CASE GiveUp(t, "free") /\ AssumeRoleWithSAML(t)
    BY <2>1, <2>2, GiveUpInv DEF AssumeRoleWithSAML, Provider
  <2>3. ASSUME ~GiveUp(t, "free") \/ GetAWSCredentials(t)
        PROVE  AuthInv'
    <3>1. PICK fails \in BOOLEAN : /\ failed' = [failed EXCEPT ![t] = fails]
                                   /\ fails => type[t] = "IAM"
      <4>1. failed = [failed EXCEPT ![t] = FALSE]
        BY <2>1 DEF AuthInv, PlaceInv
      <4>2. CASE AssumeRoleWithSAML(t) /\ ~GiveUp(t, "free")
        BY <4>1, <4>2 DEF AssumeRoleWithSAML
      <4>3. CASE GetAWSCredentials(t)
        <5>1. type[t] = "IAM"
          BY <4>3 DEF GetAWSCredentials, AuthInv, PlaceInv
        <5>2. QED
          BY <4>1, <4>3, <5>1 DEF GetAWSCredentials
      <4>4. QED
        BY <1>6, <2>3, <4>2, <4>3
    <3>2. /\ at' = [at EXCEPT ![t] = "sign"] /\ clients' = [clients EXCEPT ![t] = {"rds"}]
          /\ Turns(t)
      BY <1>6, <2>3 DEF AssumeRoleWithSAML, GetAWSCredentials, AuthInv, PlaceInv, Turns
    <3>3. "sign" \in Exchange /\ "sign" \in ForToken
      BY DEF Exchange, ForToken
    <3>4. QED
      BY <2>1, <3>1, <3>2, <3>3, UsingInv
  <2>4. QED
    BY <1>6, <2>2, <2>3
<1>7. CASE SignToken(t)
  <2>1. /\ kind[t] = "token" /\ pc[t] = "use" /\ at[t] = "sign"
        /\ UNCHANGED <<vars, type, cacheVars>> /\ token' = [token EXCEPT ![t] = now]
        /\ at' = [at EXCEPT ![t] = "free"] /\ UNCHANGED <<page, clients, failed>>
    BY <1>7 DEF SignToken, ForToken, Goto
  <2>2. /\ failed' = [failed EXCEPT ![t] = failed[t]] /\ Turns(t)
        /\ clients' = [clients EXCEPT ![t] = clients[t]]
        /\ failed[t] => type[t] = "IAM"
    BY <2>1 DEF AuthInv, PlaceInv, Turns
  <2>3. "free" \in Exchange /\ "free" \in ForToken
    BY DEF Exchange, ForToken
  <2>4. QED
    BY <2>1, <2>2, <2>3, UsingInv
<1>8. CASE FreeAwsResource(t)
  <2>1. /\ kind[t] = "token" /\ pc[t] = "use" /\ at[t] = "free"
        /\ UNCHANGED <<vars, type, page, cacheVars, token, failed>>
        /\ at' = [at EXCEPT ![t] = "release"] /\ clients' = [clients EXCEPT ![t] = {}]
    BY <1>8 DEF FreeAwsResource, ForToken
  <2>2. /\ failed' = [failed EXCEPT ![t] = failed[t]] /\ Turns(t)
        /\ failed[t] => token[t] = None \/ type[t] = "IAM"
    BY <2>1 DEF AuthInv, PlaceInv, Turns, TokenInv, Exchange
  <2>3. "release" \in Exchange
    BY DEF Exchange
  <2>4. QED
    BY <2>1, <2>2, <2>3, UsingInv
<1>9. CASE CreateSecretsManagerClient(t)
  <2>1. /\ kind[t] = "secret" /\ pc[t] = "use" /\ at[t] = "client"
        /\ UNCHANGED <<vars, type, page, cacheVars, token, failed>>
        /\ at' = [at EXCEPT ![t] = "fetch"] /\ clients' = [clients EXCEPT ![t] = {"sm"}]
    BY <1>9 DEF CreateSecretsManagerClient
  <2>2. failed' = [failed EXCEPT ![t] = FALSE] /\ Turns(t)
    BY <2>1 DEF AuthInv, PlaceInv, Turns
  <2>3. QED
    BY <2>1, <2>2, UsingInv DEF Exchange
<1>10. CASE FetchCredentials(t)
  <2>1. kind[t] = "secret" /\ pc[t] = "use" /\ at[t] = "fetch"
    BY <1>10 DEF FetchCredentials
  <2>2. QED
    BY <1>10, <2>1, GiveUpInv, GotoInv DEF FetchCredentials, Exchange
<1>11. QED
  BY <1>1, <1>2, <1>3, <1>4, <1>5, <1>6, <1>7, <1>8, <1>9, <1>10 DEF Between

(* The beginning of a call, the steps that AwsSdk has, and the return.     *)
LEMMA CallInv ==
    ASSUME Inv, AuthInv, NEW t \in Threads, Generate(t) \/ GetSecret(t)
    PROVE  AuthInv'
<1>1. PICK k \in {"token", "secret"}, point \in {"create", "client"} :
        /\ (k = "token" <=> point = "create") /\ Count(t, k) /\ pc[t] = "idle"
        /\ at[t] = "idle" /\ Goto(t, point)
        /\ token' = [token EXCEPT ![t] = None] /\ UNCHANGED cacheVars
        /\ type' = type \/ \E method \in AuthTypes : type' = [type EXCEPT ![t] = method]
  BY DEF Generate, GetSecret, GenerateConnectAuthToken, GetCredentialsFromSecretsManager
<1>2. ~failed[t] /\ pc'[t] \in {"init", "use"} /\ clients[t] \in SUBSET {"http", "sts", "rds", "sm"}
  BY <1>1, KindOfPoint DEF Count, Inv, TypeOK
<1>3. PlaceInv'
  <2>1. k = "token" => clients[t] = {}
    BY <1>1 DEF AuthInv, PlaceInv
  <2>2. QED
    BY <1>1, <1>2, <2>1 DEF Goto, Count, AuthInv, PlaceInv, Inv, TypeOK, ForToken,
       Provider, Exchange, Cache
<1>4. TokenInv'
  BY <1>1, <1>2 DEF Goto, Count, AuthInv, TokenInv, PlaceInv, Inv, TypeOK, Exchange,
     Cache, cacheVars
<1>5. CacheInv'
  BY <1>1 DEF Goto, AuthInv, PlaceInv, CacheInv, Exchange, cacheVars
<1>6. QED
  BY <1>3, <1>4, <1>5 DEF AuthInv

LEMMA SdkStepInv ==
    ASSUME Inv, AuthInv, NEW t \in Threads,
           InitSdk(t) \/ ReleaseSdk(t) \/ ShutdownSdk(t) \/ Return(t)
    PROVE  AuthInv'
<1>1. CASE InitSdk(t)
  <2>1. pc' = [pc EXCEPT ![t] = "use"] /\ pc[t] = "init" /\ UNCHANGED <<kind, authVars>>
    BY <1>1 DEF InitSdk, InitAPI
  <2>2. PlaceInv'
    BY <2>1 DEF authVars, AuthInv, PlaceInv, Inv, TypeOK, Exchange
  <2>3. TokenInv' /\ CacheInv'
    BY <2>1 DEF authVars, AuthInv, TokenInv, CacheInv
  <2>4. QED
    BY <2>2, <2>3 DEF AuthInv
<1>2. CASE ReleaseSdk(t)
  <2>1. /\ pc' \in {[pc EXCEPT ![t] = "shutdown"], [pc EXCEPT ![t] = "idle"]}
        /\ pc[t] = "use" /\ at[t] = "release" /\ at' = [at EXCEPT ![t] = "copy"]
        /\ UNCHANGED <<kind, type, page, clients, failed, token, cacheVars>>
    BY <1>2 DEF ReleaseSdk, Release, Goto
  <2>2. PlaceInv'
    BY <2>1 DEF AuthInv, PlaceInv, Inv, TypeOK, Exchange, ForToken, Provider, Cache
  <2>3. TokenInv'
    BY <2>1 DEF cacheVars, AuthInv, TokenInv, PlaceInv, Inv, TypeOK, Exchange
  <2>4. CacheInv'
    BY <2>1 DEF cacheVars, AuthInv, CacheInv, PlaceInv
  <2>5. QED
    BY <2>2, <2>3, <2>4 DEF AuthInv
<1>3. CASE ShutdownSdk(t)
  <2>1. pc' = [pc EXCEPT ![t] = "idle"] /\ pc[t] = "shutdown" /\ UNCHANGED <<kind, authVars>>
    BY <1>3 DEF ShutdownSdk, ShutdownAPI
  <2>2. PlaceInv'
    BY <2>1 DEF authVars, AuthInv, PlaceInv, Inv, TypeOK, Exchange
  <2>3. TokenInv' /\ CacheInv'
    BY <2>1 DEF authVars, AuthInv, TokenInv, CacheInv
  <2>4. QED
    BY <2>2, <2>3 DEF AuthInv
<1>4. CASE Return(t)
  <2>1. /\ at[t] = "copy" /\ pc[t] = "idle" /\ at' = [at EXCEPT ![t] = "idle"]
        /\ clients' = [clients EXCEPT ![t] = {}] /\ failed' = [failed EXCEPT ![t] = FALSE]
        /\ token' = token \/ token' = [token EXCEPT ![t] = None]
        /\ type' = [type EXCEPT ![t] = None] /\ UNCHANGED <<vars, page, cacheVars>>
    BY <1>4 DEF Return
  <2>2. PlaceInv'
    BY <2>1 DEF vars, AuthInv, PlaceInv, Exchange, ForToken, Provider, Cache
  <2>3. TokenInv'
    BY <2>1 DEF vars, cacheVars, AuthInv, TokenInv, PlaceInv, Exchange
  <2>4. CacheInv'
    BY <2>1 DEF cacheVars, AuthInv, CacheInv, PlaceInv, TokenInv
  <2>5. QED
    BY <2>2, <2>3, <2>4 DEF AuthInv
<1>5. QED
  BY <1>1, <1>2, <1>3, <1>4

(* The cache changes hands between threads that the SDK does not count.    *)
LEMMA CacheStepPlace ==
    ASSUME AuthInv, NEW t \in Threads, NEW from \in {"idle"} \cup Cache,
           NEW to \in {"idle"} \cup Cache, CacheCall(t, from, to)
    PROVE  /\ PlaceInv'
           /\ pc[t] = "idle" => at'[t] \notin Exchange \cup {"copy"}
BY DEF CacheCall, vars, AuthInv, PlaceInv, Exchange, ForToken, Provider, Cache

LEMMA CacheStepInv ==
    ASSUME AuthInv, NEW t \in Threads,
           \/ GetCachedToken(t) \/ UpdateCachedToken(t)
           \/ BeginFind(t) \/ EndFind(t) \/ BeginWrite(t) \/ EndWrite(t)
    PROVE  AuthInv'
<1>1. CASE GetCachedToken(t) \/ UpdateCachedToken(t)
  <2>1. PlaceInv'
    BY <1>1, CacheStepPlace DEF GetCachedToken, UpdateCachedToken, Cache
  <2>2. TokenInv'
    BY <1>1 DEF GetCachedToken, UpdateCachedToken, CacheCall, vars, AuthInv, PlaceInv,
       TokenInv, Exchange
  <2>3. /\ at[t] = "idle" /\ at' \in {[at EXCEPT ![t] = "look"], [at EXCEPT ![t] = "stamp"]}
        /\ clock' = [clock EXCEPT ![t] = now] /\ UNCHANGED <<cached_tokens, raced>>
        /\ \A u \in Threads \ {t} : token'[u] = token[u]
        /\ at'[t] = "stamp" => token'[t] \in Nat /\ (Prompt => now = token'[t])
    BY <1>1 DEF GetCachedToken, UpdateCachedToken, CacheCall, AuthInv, PlaceInv, TokenInv
  <2>4. CacheInv'
    BY <2>3 DEF AuthInv, PlaceInv, TokenInv, CacheInv
  <2>5. QED
    BY <2>1, <2>2, <2>4 DEF AuthInv
<1>2. CASE BeginFind(t) \/ BeginWrite(t)
  <2>1. PlaceInv'
    BY <1>2, CacheStepPlace DEF BeginFind, BeginWrite, Cache
  <2>2. raced' \in BOOLEAN
    BY <1>2 DEF BeginFind, BeginWrite, AuthInv, CacheInv
  <2>3. TokenInv'
    BY <1>2 DEF BeginFind, BeginWrite, CacheCall, vars, AuthInv, PlaceInv, TokenInv,
       Exchange
  <2>4. CacheInv'
    BY <1>2, <2>2 DEF BeginFind, BeginWrite, CacheCall, AuthInv, PlaceInv, CacheInv
  <2>5. QED
    BY <2>1, <2>3, <2>4 DEF AuthInv
<1>3. CASE EndFind(t)
  <2>1. PlaceInv'
    BY <1>3, CacheStepPlace DEF EndFind, Cache
  <2>2. /\ \E value \in Nat \cup {None, Torn} : token' = [token EXCEPT ![t] = value]
        /\ at[t] = "find" /\ at' = [at EXCEPT ![t] = "idle"]
        /\ clock' = [clock EXCEPT ![t] = 0]
        /\ UNCHANGED <<vars, type, failed, now, cached_tokens, raced>>
    BY <1>3 DEF EndFind, CacheCall, Hit, AuthInv, CacheInv
  <2>3. TokenInv'
    BY <2>2 DEF vars, AuthInv, PlaceInv, TokenInv, Exchange
  <2>4. CacheInv'
    BY <2>2 DEF AuthInv, PlaceInv, CacheInv
  <2>5. QED
    BY <2>1, <2>3, <2>4 DEF AuthInv
<1>4. CASE EndWrite(t)
  <2>1. PlaceInv'
    BY <1>4, CacheStepPlace DEF EndWrite, Cache
  <2>2. TokenInv'
    BY <1>4 DEF EndWrite, CacheCall, vars, AuthInv, PlaceInv, TokenInv, Exchange
  <2>3. /\ cached_tokens' \in [token : Nat, expiration : Nat]
        /\ Prompt => cached_tokens'.expiration = cached_tokens'.token + Lifetime
    BY <1>4 DEF EndWrite, CacheCall, AuthInv, CacheInv
  <2>4. CacheInv'
    BY <1>4, <2>3 DEF EndWrite, CacheCall, AuthInv, PlaceInv, CacheInv
  <2>5. QED
    BY <2>1, <2>2, <2>4 DEF AuthInv
<1>5. QED
  BY <1>1, <1>2, <1>3, <1>4

LEMMA AuthStepInv == Inv /\ AuthInv /\ [AuthNext]_allVars => AuthInv'
<1> SUFFICES ASSUME Inv, AuthInv, [AuthNext]_allVars PROVE AuthInv'
  OBVIOUS
<1>1. CASE UNCHANGED allVars
  BY <1>1 DEF allVars, authVars, vars, AuthInv, PlaceInv, TokenInv, CacheInv
<1>2. CASE Tick
  <2>1. PlaceInv' /\ CacheInv'
    BY <1>2 DEF Tick, vars, AuthInv, PlaceInv, CacheInv
  <2>2. TokenInv'
    BY <1>2 DEF Tick, vars, AuthInv, TokenInv
  <2>3. QED
    BY <2>1, <2>2 DEF AuthInv
<1>3. ASSUME NEW t \in Threads, Forget(t)
      PROVE  AuthInv'
  <2>1. PlaceInv'
    BY <1>3 DEF Forget, vars, AuthInv, PlaceInv
  <2>2. TokenInv' /\ CacheInv'
    BY <1>3 DEF Forget, vars, cacheVars, AuthInv, PlaceInv, TokenInv, CacheInv
  <2>3. QED
    BY <2>1, <2>2 DEF AuthInv
<1>4. ASSUME NEW t \in Threads, Call(t) \/ Step(t)
      PROVE  AuthInv'
  BY <1>4, CallInv, CacheStepInv, SdkStepInv, BetweenInv DEF Call, Step, Between
<1>5. QED
  BY <1>1, <1>2, <1>3, <1>4 DEF AuthNext

-----------------------------------------------------------------------------
(* What the invariant gives.                                               *)

LEMMA AuthInvariant == AuthSpec => []Inv /\ []AuthInv
<1>1. Inv /\ [AuthNext]_allVars => Inv'
  BY StepUsesSdk, StepInv
<1>2. AuthInit => Inv
  BY InitInv DEF AuthInit
<1>3. QED
  BY <1>1, <1>2, AuthInitInv, AuthStepInv, PTL DEF AuthSpec

(* Type correctness; the count of the SDK's users is exact.                *)
THEOREM AuthTypeCorrect == AuthSpec => []AuthTypeOK
<1>1. Inv /\ AuthInv => AuthTypeOK
  BY DEF Inv, AuthInv, PlaceInv, TokenInv, CacheInv, AuthTypeOK
<1>2. QED
  BY <1>1, AuthInvariant, PTL

(* No client of the SDK, http, sts or rds, is left when it is shut down.   *)
THEOREM ObjectsDestroyedInTime == AuthSpec => []ObjectsNeedSdk
<1>1. Inv /\ AuthInv => ObjectsNeedSdk
  <2> SUFFICES ASSUME Inv, AuthInv, ~mixed, NEW t \in Threads, clients[t] # {}
               PROVE  sdk
    BY DEF ObjectsNeedSdk
  <2>1. kind[t] = "token" /\ at[t] \in Provider \cup {"sign", "free"}
    BY DEF Inv, AuthInv, PlaceInv
  <2>2. pc[t] = "use"
    BY <2>1 DEF Inv, TypeOK, AuthInv, PlaceInv, Provider, Exchange
  <2>3. QED
    BY <2>2 DEF Inv, SdkUpWhileUsed
<1>2. QED
  BY <1>1, AuthInvariant, PTL

(* A thread leaves the copy by returning, and the lookup by its end.       *)
LEMMA LeavesCopy ==
    ASSUME Inv, AuthInv, NEW t \in Threads, [AuthNext]_allVars,
           at[t] = "copy", at'[t] = "idle"
    PROVE  token'[t] \in {token[t], None} /\ UNCHANGED kind
<1> USE DEF AuthInv, PlaceInv, TokenInv
<1>1. CASE UNCHANGED allVars \/ Tick
  BY <1>1 DEF allVars, authVars, Tick
<1>2. ASSUME NEW u \in Threads, Call(u) \/ Forget(u)
      PROVE  FALSE
  BY <1>2 DEF Call, Forget, Generate, GetSecret, GetCachedToken, UpdateCachedToken,
     CacheCall, Goto
<1>3. ASSUME NEW u \in Threads, Step(u), ~Return(u)
      PROVE  FALSE
  <2>1. CASE InitSdk(u) \/ ShutdownSdk(u) \/ ReleaseSdk(u)
    BY <2>1 DEF InitSdk, ShutdownSdk, authVars, ReleaseSdk, Goto
  <2>2. CASE Between(u)
    <3>1. pc[u] = "use" /\ at[u] # "copy"
      BY <2>2 DEF Between, CreateRDSClient, GetSigninPage, EscapeHtmlEntity,
         GetFormActionBody, GetSessionToken, GetSignonPage, AssumeRoleWithSAML, GetAWSCredentials,
         SignToken, FreeAwsResource, CreateSecretsManagerClient, FetchCredentials, Using
    <3>2. UNCHANGED at \/ \E point : at' = [at EXCEPT ![u] = point]
      BY <2>2 DEF Between, CreateRDSClient, GetSigninPage, EscapeHtmlEntity,
         GetFormActionBody, GetSessionToken, GetSignonPage, AssumeRoleWithSAML, GetAWSCredentials,
         SignToken, FreeAwsResource, CreateSecretsManagerClient, FetchCredentials,
         GiveUp, Goto, Receive
    <3>3. QED
      BY <3>1, <3>2
  <2>3. CASE BeginFind(u) \/ EndFind(u) \/ BeginWrite(u) \/ EndWrite(u)
    BY <2>3 DEF BeginFind, EndFind, BeginWrite, EndWrite, CacheCall
  <2>4. QED
    BY <1>3, <2>1, <2>2, <2>3 DEF Step, Between
<1>4. ASSUME NEW u \in Threads, Return(u)
      PROVE  token'[t] \in {token[t], None} /\ UNCHANGED kind
  BY <1>4 DEF Return, vars
<1>5. QED
  BY <1>1, <1>2, <1>3, <1>4 DEF AuthNext

(* A call for ADFS or OKTA in which an exchange failed gives no token.     *)
THEOREM FailureGivesNothing == AuthSpec => NoTokenAfterFailure
<1>1. Inv /\ AuthInv /\ [AuthNext]_allVars =>
        \A t \in Threads :
          at[t] = "copy" /\ at'[t] = "idle" /\ token'[t] # None =>
              /\ kind[t] = "token"
              /\ failed[t] => type[t] = "IAM"
  <2> SUFFICES ASSUME Inv, AuthInv, [AuthNext]_allVars, NEW t \in Threads,
                      at[t] = "copy", at'[t] = "idle", token'[t] # None
               PROVE  kind[t] = "token" /\ (failed[t] => type[t] = "IAM")
    OBVIOUS
  <2>1. token[t] # None
    BY LeavesCopy
  <2>2. QED
    BY <2>1 DEF AuthInv, TokenInv
<1>2. QED
  BY <1>1, AuthInvariant, PTL DEF AuthSpec, NoTokenAfterFailure

(* The end of a lookup is the only way from there to an idle thread.       *)
LEMMA LeavesFind ==
    ASSUME Inv, AuthInv, NEW t \in Threads, [AuthNext]_allVars,
           at[t] = "find", at'[t] = "idle"
    PROVE  EndFind(t)
<1> USE DEF AuthInv, PlaceInv
<1>1. CASE UNCHANGED allVars \/ Tick
  BY <1>1 DEF allVars, authVars, Tick
<1>2. ASSUME NEW u \in Threads, Call(u) \/ Forget(u)
      PROVE  FALSE
  BY <1>2 DEF Call, Forget, Generate, GetSecret, GetCachedToken, UpdateCachedToken,
     CacheCall, Goto
<1>3. ASSUME NEW u \in Threads, Step(u), ~EndFind(u)
      PROVE  FALSE
  <2>1. CASE InitSdk(u) \/ ShutdownSdk(u) \/ ReleaseSdk(u) \/ Return(u)
    BY <2>1 DEF InitSdk, ShutdownSdk, authVars, ReleaseSdk, Goto, Return
  <2>2. CASE Between(u)
    <3>1. pc[u] = "use" /\ at[u] # "find"
      BY <2>2 DEF Between, CreateRDSClient, GetSigninPage, EscapeHtmlEntity,
         GetFormActionBody, GetSessionToken, GetSignonPage, AssumeRoleWithSAML, GetAWSCredentials,
         SignToken, FreeAwsResource, CreateSecretsManagerClient, FetchCredentials, Using
    <3>2. UNCHANGED at \/ \E point : at' = [at EXCEPT ![u] = point]
      BY <2>2 DEF Between, CreateRDSClient, GetSigninPage, EscapeHtmlEntity,
         GetFormActionBody, GetSessionToken, GetSignonPage, AssumeRoleWithSAML, GetAWSCredentials,
         SignToken, FreeAwsResource, CreateSecretsManagerClient, FetchCredentials,
         GiveUp, Goto, Receive
    <3>3. QED
      BY <3>1, <3>2
  <2>3. CASE BeginFind(u) \/ BeginWrite(u) \/ EndWrite(u)
    BY <2>3 DEF BeginFind, BeginWrite, EndWrite, CacheCall
  <2>4. QED
    BY <1>3, <2>1, <2>2, <2>3 DEF Step, Between
<1>4. ASSUME NEW u \in Threads, EndFind(u)
      PROVE  EndFind(t)
  BY <1>4 DEF EndFind, CacheCall
<1>5. QED
  BY <1>1, <1>2, <1>3, <1>4 DEF AuthNext

(* What the cache gives was valid when it was asked.                       *)
THEOREM CacheGivesValidTokens == AuthSpec => HitIsValid
<1>1. Inv /\ AuthInv /\ [AuthNext]_allVars =>
        \A t \in Threads :
          at[t] = "find" /\ at'[t] = "idle" /\ token'[t] # None /\ ~raced /\ Prompt =>
              clock[t] <= token'[t] + Lifetime
  <2> SUFFICES ASSUME Inv, AuthInv, [AuthNext]_allVars, NEW t \in Threads,
                      at[t] = "find", at'[t] = "idle", token'[t] # None, ~raced, Prompt
               PROVE  clock[t] <= token'[t] + Lifetime
    OBVIOUS
  <2>1. EndFind(t)
    BY LeavesFind
  <2>2. Hit(t) /\ token'[t] = cached_tokens.token
    BY <2>1 DEF EndFind, AuthInv, TokenInv
  <2>3. QED
    BY <2>2 DEF Hit, AuthInv, CacheInv
<1>2. QED
  BY <1>1, AuthInvariant, PTL DEF AuthSpec, HitIsValid

-----------------------------------------------------------------------------
(* The logger.                                                             *)

LogInv ==
    /\ wants \in [LogUsers -> {"none", "minimal", "full"}]
    /\ ~thrown => logger_init_count = Cardinality(Full)
    /\ ~thrown /\ glog_initialized /\ Full = {} => minloglevel = 4
    /\ LogFollowsUsers
    /\ thrown \in BOOLEAN /\ glog_initialized \in BOOLEAN /\ logger_init_count \in Int

LEMMA FullFinite ==
    /\ IsFiniteSet(Full) /\ Cardinality(Full) \in Nat
    /\ Cardinality(Full) = 0 <=> Full = {}
<1>1. Full \in SUBSET LogUsers
  BY DEF Full
<1>2. QED
  BY <1>1, FS_Subset, FS_CardinalityType, FS_EmptySet, LoggerAssumption DEF LoggerAssumption

LEMMA LogInitInv == LoggerInit => LogInv
<1> SUFFICES ASSUME LoggerInit PROVE LogInv
  OBVIOUS
<1>1. Full = {}
  BY DEF LoggerInit, Full
<1>2. logger_init_count = Cardinality(Full)
  BY <1>1, FS_EmptySet DEF LoggerInit
<1>3. LogFollowsUsers
  BY <1>1 DEF LoggerInit, LogFollowsUsers
<1>4. /\ wants \in [LogUsers -> {"none", "minimal", "full"}]
      /\ thrown = FALSE /\ glog_initialized = FALSE /\ logger_init_count = 0
  BY DEF LoggerInit
<1>5. logger_init_count \in Int
  BY <1>4
<1>6. QED
  BY <1>2, <1>3, <1>4, <1>5, Zenon DEF LogInv

(* One user more, one user less.                                           *)
LEMMA UserCounted ==
    ASSUME LogInv, NEW u \in LogUsers, wants[u] = "none",
           wants' = [wants EXCEPT ![u] = "full"]
    PROVE  Full' = Full \cup {u} /\ Cardinality(Full') = Cardinality(Full) + 1
<1>1. Full' = Full \cup {u} /\ u \notin Full
  BY DEF LogInv, Full
<1>2. QED
  BY <1>1, FullFinite, FS_AddElement

LEMMA UserGone ==
    ASSUME LogInv, NEW u \in LogUsers, wants[u] = "full",
           wants' = [wants EXCEPT ![u] = "none"]
    PROVE  Full' = Full \ {u} /\ Cardinality(Full') = Cardinality(Full) - 1
           /\ Cardinality(Full') \in Nat /\ (Cardinality(Full') = 0 <=> Full' = {})
<1>1. Full' = Full \ {u} /\ u \in Full
  BY DEF LogInv, Full
<1>2. Cardinality(Full') = Cardinality(Full) - 1
  BY <1>1, FullFinite, FS_RemoveElement
<1>3. IsFiniteSet(Full') /\ Cardinality(Full') \in Nat
  BY <1>1, FullFinite, FS_Subset, FS_CardinalityType
<1>4. QED
  BY <1>1, <1>2, <1>3, FS_EmptySet

LEMMA LogStepInv == LogInv /\ [LoggerNext]_logVars => LogInv'
<1> SUFFICES ASSUME LogInv, [LoggerNext]_logVars PROVE LogInv'
  OBVIOUS
<1>1. CASE UNCHANGED logVars
  BY <1>1 DEF logVars, LogInv, LogFollowsUsers, Full
<1>2. ASSUME NEW u \in LogUsers, NEW dir \in Directories, Initialize(u, dir)
      PROVE  LogInv'
  <2>1. CASE thrown'
    <3>1. wants' \in {wants, [wants EXCEPT ![u] = "full"]}
          /\ glog_initialized' \in BOOLEAN /\ logger_init_count' = logger_init_count + 1
      BY <1>2 DEF Initialize, InitializeFirst, LogInv
    <3>2. wants' \in [LogUsers -> {"none", "minimal", "full"}]
      BY <3>1 DEF LogInv
    <3>3. QED
      BY <2>1, <3>1, <3>2 DEF LogInv, LogFollowsUsers
  <2>2. CASE ~thrown'
    <3>1. /\ ~thrown /\ thrown' \in BOOLEAN /\ wants[u] = "none"
          /\ wants' = [wants EXCEPT ![u] = "full"]
          /\ logger_init_count' = logger_init_count + 1
      BY <1>2, <2>2 DEF Initialize, InitializeFirst, LogInv
    <3>2. Full' # {} /\ logger_init_count' = Cardinality(Full')
      BY <3>1, UserCounted DEF LogInv
    <3>3. wants' \in [LogUsers -> {"none", "minimal", "full"}]
      BY <3>1 DEF LogInv
    <3>4. glog' = "up" /\ glog_initialized' = TRUE /\ minloglevel' = 0 /\ ~logtostderr'
      <4>1. CASE logger_init_count = 0
        BY <1>2, <2>2, <3>1, <4>1 DEF Initialize, InitializeFirst, InitGoogleLogging,
           ShutdownGoogleLogging, LogInv, LogFollowsUsers
      <4>2. CASE logger_init_count # 0
        <5>1. Full # {}
          BY <3>1, <4>2, FullFinite DEF LogInv
        <5>2. UNCHANGED <<glog_initialized, glog, minloglevel, logtostderr>>
          BY <1>2, <4>2 DEF Initialize, InitializeFirst
        <5>3. QED
          BY <3>1, <5>1, <5>2 DEF LogInv, LogFollowsUsers
      <4>3. QED
        BY <4>1, <4>2
    <3>5. QED
      BY <3>1, <3>2, <3>3, <3>4 DEF LogInv, LogFollowsUsers
  <2>3. QED
    BY <2>1, <2>2
<1>3. ASSUME NEW u \in LogUsers, InitializeMinimal(u)
      PROVE  LogInv'
  <2>1. Full' = Full /\ wants' \in [LogUsers -> {"none", "minimal", "full"}]
    BY <1>3 DEF InitializeMinimal, LogInv, Full
  <2>2. CASE glog_initialized
    BY <1>3, <2>1, <2>2 DEF InitializeMinimal, LogInv, LogFollowsUsers
  <2>3. CASE ~glog_initialized
    BY <1>3, <2>1, <2>3 DEF InitializeMinimal, InitGoogleLogging, LogInv, LogFollowsUsers
  <2>4. QED
    BY <2>2, <2>3
<1>4. ASSUME NEW u \in LogUsers, Shutdown(u)
      PROVE  LogInv'
  <2>1. /\ wants[u] = "full" /\ wants' = [wants EXCEPT ![u] = "none"]
        /\ wants' \in [LogUsers -> {"none", "minimal", "full"}]
        /\ thrown' = thrown /\ logtostderr' = logtostderr
    BY <1>4 DEF Shutdown, LogInv
  <2>2. glog_initialized' \in BOOLEAN /\ logger_init_count' \in Int
    <3>1. logger_init_count \in Int /\ glog_initialized \in BOOLEAN
      BY DEF LogInv
    <3>2. logger_init_count' \in Int
      BY <1>4, <3>1 DEF Shutdown
    <3>3. glog_initialized' \in BOOLEAN
      BY <1>4, <3>1 DEF Shutdown
    <3>4. QED
      BY <3>2, <3>3
  <2>3. CASE thrown
    BY <2>1, <2>2, <2>3 DEF LogInv, LogFollowsUsers
  <2>4. CASE ~thrown
    <3>1. u \in Full /\ logger_init_count = Cardinality(Full) /\ logger_init_count # 0
      BY <2>1, <2>4, FullFinite DEF LogInv, Full
    <3>2. logger_init_count' = Cardinality(Full')
      <4>1. logger_init_count > 0
        BY <3>1, FullFinite
      <4>2. logger_init_count' = logger_init_count - 1
        BY <1>4, <4>1 DEF Shutdown
      <4>3. QED
        BY <2>1, <3>1, <4>2, UserGone
    <3>3. glog = "up" /\ minloglevel = 0 /\ ~logtostderr /\ glog_initialized
      BY <2>4, <3>1 DEF LogInv, LogFollowsUsers
    <3>4. CASE logger_init_count = 1
      <4>1. glog' = "down" /\ glog_initialized' = FALSE /\ minloglevel' = 4 /\ Full' = {}
        <5>1. Full' = {}
          <6>1. Cardinality(Full') = 0 <=> Full' = {}
            BY <2>1, UserGone
          <6>2. Cardinality(Full') = logger_init_count - 1 /\ Cardinality(Full) \in Nat
            BY <2>1, <3>1, UserGone, FullFinite
          <6>3. Cardinality(Full') = 0
            BY <3>1, <3>4, <6>2
          <6>4. QED
            BY <6>1, <6>3
        <5>2. QED
          BY <1>4, <3>3, <3>4, <5>1 DEF Shutdown, ShutdownGoogleLogging
      <4>2. QED
        BY <2>1, <2>2, <3>2, <4>1 DEF LogInv, LogFollowsUsers
    <3>5. CASE logger_init_count # 1
      <4>1. Full' # {} /\ UNCHANGED <<glog, glog_initialized, minloglevel>>
        <5>1. Full' # {}
          <6>1. Cardinality(Full') = 0 <=> Full' = {}
            BY <2>1, UserGone
          <6>2. Cardinality(Full') = logger_init_count - 1 /\ Cardinality(Full) \in Nat
            BY <2>1, <3>1, UserGone, FullFinite
          <6>3. Cardinality(Full') # 0
            BY <3>1, <3>5, <6>2
          <6>4. QED
            BY <6>1, <6>3
        <5>2. QED
          BY <1>4, <3>5, <5>1 DEF Shutdown
      <4>2. QED
        BY <2>1, <2>2, <3>2, <3>3, <4>1 DEF LogInv, LogFollowsUsers
    <3>6. QED
      BY <3>4, <3>5
  <2>5. QED
    BY <2>3, <2>4
<1>5. ASSUME NEW u \in LogUsers, Leave(u)
      PROVE  LogInv'
  <2>1. Full' = Full /\ wants' \in [LogUsers -> {"none", "minimal", "full"}]
        /\ (\A v \in LogUsers : wants'[v] = "minimal" => wants[v] = "minimal")
    BY <1>5 DEF Leave, LogInv, Full
  <2>2. QED
    BY <1>5, <2>1 DEF Leave, LogInv, LogFollowsUsers
<1>6. QED
  BY <1>1, <1>2, <1>3, <1>4, <1>5 DEF LoggerNext, Start, End

(* The log goes where its users want it, and glog is used as it must.      *)
THEOREM LogIsRight == LoggerSpec => []LogFollowsUsers
<1>1. LogInv => LogFollowsUsers
  BY DEF LogInv
<1>2. QED
  BY <1>1, LogInitInv, LogStepInv, PTL DEF LoggerSpec

-----------------------------------------------------------------------------
(* The composition is an implementation of both.                           *)
THEOREM ClientsKeepBoth == ClientSpec => AuthSpec /\ LoggerSpec
<1>1. [ClientNext]_clientVars => [AuthNext]_allVars /\ [LoggerNext]_logVars
  <2> SUFFICES ASSUME [ClientNext]_clientVars
               PROVE  [AuthNext]_allVars /\ [LoggerNext]_logVars
    OBVIOUS
  <2>1. CASE UNCHANGED clientVars
    BY <2>1 DEF clientVars
  <2>2. CASE Time
    BY <2>2 DEF Time, AuthNext
  <2>3. ASSUME NEW t \in Threads, CallAuth(t) \/ StepAuth(t)
        PROVE  [AuthNext]_allVars /\ [LoggerNext]_logVars
    BY <2>3 DEF CallAuth, StepAuth, AuthNext
  <2>4. ASSUME NEW t \in Threads, Connect(t) \/ Disconnect(t)
        PROVE  [AuthNext]_allVars /\ [LoggerNext]_logVars
    BY <2>4, ClientsAssumption DEF ClientsAssumption, Connect, Disconnect, AuthNext, LoggerNext
  <2>5. QED
    BY <2>1, <2>2, <2>3, <2>4 DEF ClientNext
<1>2. QED
  BY <1>1, PTL DEF ClientSpec, ClientInit, AuthSpec, LoggerSpec
=============================================================================
