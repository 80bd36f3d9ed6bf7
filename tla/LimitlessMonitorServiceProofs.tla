-------------------- MODULE LimitlessMonitorServiceProofs --------------------
(***************************************************************************)
(* Proofs about the limitless monitor service, for every finite set of     *)
(* clients and routers, any number of attempts and of faults.              *)
(***************************************************************************)
EXTENDS LimitlessMonitorService, FiniteSetTheorems, TLAPS

(* One client joins the thread, and the service is gone by then.           *)
OneJoins ==
    /\ \A c \in Clients : pc[c] = "join" => ~service
    /\ \A c, d \in Clients : pc[c] = "join" /\ pc[d] = "join" => c = d

(* A thread that is not there has no handles; without a service, and with  *)
(* nobody waiting for the thread to end, there is no thread.               *)
ResourceInv ==
    /\ tpc \in {"off", "done"} => ~henv /\ conn = "null"
    /\ ~service /\ ServicesMutexFree => tpc = "off" /\ limitless_routers = {}

(* The retry loop sets one of the copied routers DOWN in each iteration; a *)
(* call has no result before it ends.                                      *)
SearchInv ==
    \A c \in Clients :
        /\ down[c] \subseteq hosts[c]
        /\ tries[c] = Cardinality(down[c])
        /\ pc[c] # "highestWeight" => down[c] = {}
        /\ pc[c] # "idle" => result[c] = "none"

Inv == TypeOK /\ OneJoins /\ ResourceInv /\ SearchInv

USE LimitlessAssumption DEF LimitlessAssumption

LEMMA InitInv == Init => Inv
<1> SUFFICES ASSUME Init PROVE Inv
  OBVIOUS
<1>1. TypeOK
  <2>1. /\ serial \in BOOLEAN /\ faults \in 0..MaxFaults
        /\ reference_counter \in Nat /\ (service <=> reference_counter > 0)
    BY DEF Init
  <2>2. /\ down \in [Clients -> SUBSET Routers]
        /\ tries \in [Clients -> 0..Attempts]
    BY DEF Init
  <2>3. QED
    BY <2>1, <2>2 DEF Init, TypeOK, Control, ThreadControl
<1>2. OneJoins /\ ResourceInv
  BY DEF Init, OneJoins, ResourceInv
<1>3. SearchInv
  BY FS_EmptySet DEF Init, SearchInv
<1>4. QED
  BY <1>1, <1>2, <1>3 DEF Inv

(* Setting one more router DOWN.                                           *)
LEMMA OneMoreDown ==
    ASSUME Inv, NEW c \in Clients, NEW host \in hosts[c] \ down[c]
    PROVE  Cardinality(down[c] \cup {host}) = tries[c] + 1
<1>1. down[c] \in SUBSET Routers /\ host \notin down[c]
  BY DEF Inv, TypeOK
<1>2. IsFiniteSet(down[c]) /\ Cardinality(down[c]) = tries[c]
  BY <1>1, FS_Subset DEF Inv, SearchInv
<1>3. QED
  BY <1>1, <1>2, FS_AddElement

LEMMA GetLimitlessInstanceInv ==
    ASSUME Inv, NEW c \in Clients, GetLimitlessInstance(c)
    PROVE  Inv'
<1> USE DEF GetLimitlessInstance, Goto, Set, serviceVars, threadVars, searchVars
<1>1. TypeOK'
  BY DEF Inv, TypeOK, Control
<1>2. OneJoins'
  BY DEF Inv, TypeOK, OneJoins, ServicesMutexFree
<1>3. ResourceInv'
  BY DEF Inv, TypeOK, OneJoins, ResourceInv, ServicesMutexFree
<1>4. SearchInv'
  BY DEF Inv, TypeOK, SearchInv
<1>5. QED
  BY <1>1, <1>2, <1>3, <1>4 DEF Inv

LEMMA NewServiceInv ==
    ASSUME Inv, NEW c \in Clients, NewService(c)
    PROVE  Inv'
<1> USE DEF NewService, Goto, Set, serviceVars, threadVars, searchVars
<1>1. TypeOK'
  <2>1. reference_counter' \in Nat /\ (service' <=> reference_counter' > 0)
    BY DEF Inv, TypeOK
  <2>2. /\ limitless_routers' \subseteq Routers /\ faults' \in 0..MaxFaults
        /\ tpc' \in ThreadControl /\ henv' \in BOOLEAN
        /\ conn' \in {"null", "closed", "open", "lost", "freed"}
    <3>1. CASE service
      BY <3>1 DEF Inv, TypeOK
    <3>2. CASE ~service /\ OpenLazy
      BY <3>2 DEF Inv, TypeOK, ThreadControl, OpenLazy
    <3>3. CASE ~service /\ OpenFails
      BY <3>3 DEF Inv, TypeOK, OpenFails, Fault
    <3>4. CASE ~service /\ OpenUnconnected
      BY <3>4 DEF Inv, TypeOK, ThreadControl, OpenUnconnected, Fault
    <3>5. CASE ~service /\ OpenConnected
      BY <3>5 DEF Inv, TypeOK, ThreadControl, OpenConnected,
         QueryForLimitlessRouters, Fault
    <3>6. QED
      BY <3>1, <3>2, <3>3, <3>4, <3>5
  <2>3. QED
    BY <2>1, <2>2 DEF Inv, TypeOK, Control
<1>2. OneJoins'
  BY DEF Inv, TypeOK, OneJoins, ServicesMutexFree
<1>3. ResourceInv'
  BY DEF Inv, TypeOK, OneJoins, ResourceInv, ServicesMutexFree, OpenLazy,
     OpenFails, OpenConnected, OpenUnconnected
<1>4. SearchInv'
  BY DEF Inv, TypeOK, SearchInv
<1>5. QED
  BY <1>1, <1>2, <1>3, <1>4 DEF Inv

LEMMA IncrementReferenceCounterInv ==
    ASSUME Inv, NEW c \in Clients, IncrementReferenceCounter(c)
    PROVE  Inv'
<1> USE DEF IncrementReferenceCounter, Goto, Set, serviceVars, threadVars, searchVars
<1>1. TypeOK'
  BY DEF Inv, TypeOK, Control
<1>2. OneJoins'
  BY DEF Inv, TypeOK, OneJoins, ServicesMutexFree
<1>3. ResourceInv'
  BY DEF Inv, TypeOK, OneJoins, ResourceInv, ServicesMutexFree
<1>4. SearchInv'
  BY DEF Inv, TypeOK, SearchInv
<1>5. QED
  BY <1>1, <1>2, <1>3, <1>4 DEF Inv

LEMMA GetHostInfoInv ==
    ASSUME Inv, NEW c \in Clients, GetHostInfo(c)
    PROVE  Inv'
<1> USE DEF GetHostInfo, Goto, Set, serviceVars, threadVars, searchVars
<1>1. TypeOK'
  BY DEF Inv, TypeOK, Control
<1>2. OneJoins'
  BY DEF Inv, TypeOK, OneJoins, ServicesMutexFree
<1>3. ResourceInv'
  BY DEF Inv, TypeOK, OneJoins, ResourceInv, ServicesMutexFree
<1>4. SearchInv'
  BY FS_EmptySet DEF Inv, TypeOK, SearchInv
<1>5. QED
  BY <1>1, <1>2, <1>3, <1>4 DEF Inv

LEMMA TestRoundRobinInv ==
    ASSUME Inv, NEW c \in Clients, TestRoundRobin(c)
    PROVE  Inv'
<1> USE DEF TestRoundRobin, Goto, Set, serviceVars, threadVars, searchVars
<1>1. TypeOK'
  BY DEF Inv, TypeOK, Control, Found
<1>2. OneJoins'
  BY DEF Inv, TypeOK, OneJoins, ServicesMutexFree, Found
<1>3. ResourceInv'
  BY DEF Inv, TypeOK, OneJoins, ResourceInv, ServicesMutexFree, Found
<1>4. SearchInv'
  <2>1. CASE Found(c)
    BY <2>1, FS_EmptySet DEF Inv, TypeOK, SearchInv, Found
  <2>2. CASE Goto(c, "highestWeight") /\ UNCHANGED <<searchVars, result>>
    BY <2>2 DEF Inv, TypeOK, SearchInv
  <2>3. QED
    BY <2>1, <2>2
<1>5. QED
  BY <1>1, <1>2, <1>3, <1>4 DEF Inv

LEMMA TestHighestWeightInv ==
    ASSUME Inv, NEW c \in Clients, TestHighestWeight(c)
    PROVE  Inv'
<1> USE DEF TestHighestWeight, Goto, Set, serviceVars, threadVars, searchVars
<1>1. TypeOK'
  BY DEF Inv, TypeOK, Control, Found, HighestWeightHosts, SetDown
<1>2. OneJoins'
  BY DEF Inv, TypeOK, OneJoins, ServicesMutexFree, Found
<1>3. ResourceInv'
  BY DEF Inv, TypeOK, OneJoins, ResourceInv, ServicesMutexFree, Found
<1>4. SearchInv'
  <2>1. CASE Found(c)
    BY <2>1, FS_EmptySet DEF Inv, TypeOK, SearchInv, Found
  <2>2. CASE /\ UNCHANGED <<pc, hosts, result>>
            /\ \E host \in hosts[c] \ down[c] :
                  /\ SetDown(c, host)
                  /\ tries' = Set(tries, c, tries[c] + 1)
    <3>1. PICK host \in hosts[c] \ down[c] :
             /\ down' = [down EXCEPT ![c] = down[c] \cup {host}]
             /\ tries' = [tries EXCEPT ![c] = tries[c] + 1]
      BY <2>2 DEF SetDown
    <3>2. QED
      BY <2>2, <3>1, OneMoreDown DEF Inv, TypeOK, SearchInv
  <2>3. QED
    BY <2>1, <2>2 DEF HighestWeightHosts
<1>5. QED
  BY <1>1, <1>2, <1>3, <1>4 DEF Inv

LEMMA NoRouterInv ==
    ASSUME Inv, NEW c \in Clients, NoRouter(c)
    PROVE  Inv'
<1> USE DEF NoRouter, Goto, Set, serviceVars, threadVars, searchVars
<1>1. TypeOK'
  BY DEF Inv, TypeOK, Control
<1>2. OneJoins'
  BY DEF Inv, TypeOK, OneJoins, ServicesMutexFree
<1>3. ResourceInv'
  BY DEF Inv, TypeOK, OneJoins, ResourceInv, ServicesMutexFree
<1>4. SearchInv'
  BY FS_EmptySet DEF Inv, TypeOK, SearchInv
<1>5. QED
  BY <1>1, <1>2, <1>3, <1>4 DEF Inv

LEMMA DecrementReferenceCounterInv ==
    ASSUME Inv, NEW c \in Clients, DecrementReferenceCounter(c)
    PROVE  Inv'
<1> USE DEF DecrementReferenceCounter, Goto, Set, serviceVars, threadVars, searchVars
<1>1. TypeOK'
  <2>1. reference_counter' \in Nat /\ (service' <=> reference_counter' > 0)
    BY DEF Inv, TypeOK
  <2>2. QED
    BY <2>1 DEF Inv, TypeOK, Control
<1>2. OneJoins'
  BY DEF Inv, TypeOK, OneJoins, ServicesMutexFree
<1>3. ResourceInv'
  BY DEF Inv, TypeOK, OneJoins, ResourceInv, ServicesMutexFree
<1>4. SearchInv'
  BY DEF Inv, TypeOK, SearchInv
<1>5. QED
  BY <1>1, <1>2, <1>3, <1>4 DEF Inv

LEMMA JoinInv ==
    ASSUME Inv, NEW c \in Clients, Join(c)
    PROVE  Inv'
<1> USE DEF Join, Goto, Set, serviceVars, threadVars, searchVars
<1>1. TypeOK'
  BY DEF Inv, TypeOK, Control, ThreadControl
<1>2. OneJoins'
  BY DEF Inv, TypeOK, OneJoins, ServicesMutexFree
<1>3. ResourceInv'
  BY DEF Inv, TypeOK, OneJoins, ResourceInv, ServicesMutexFree
<1>4. SearchInv'
  BY DEF Inv, TypeOK, SearchInv
<1>5. QED
  BY <1>1, <1>2, <1>3, <1>4 DEF Inv

LEMMA TestStoppedInv ==
    ASSUME Inv, TestStopped
    PROVE  Inv'
<1> USE DEF TestStopped, serviceVars, clientVars, searchVars
<1>1. TypeOK'
  BY DEF Inv, TypeOK, ThreadControl
<1>2. OneJoins' /\ SearchInv'
  BY DEF Inv, OneJoins, SearchInv
<1>3. ResourceInv'
  BY DEF Inv, ResourceInv, ServicesMutexFree
<1>4. QED
  BY <1>1, <1>2, <1>3 DEF Inv

LEMMA CheckConnectionInv ==
    ASSUME Inv, CheckConnection
    PROVE  Inv'
<1> USE DEF CheckConnection, serviceVars, clientVars, searchVars
<1>1. TypeOK'
  BY DEF Inv, TypeOK, ThreadControl
<1>2. OneJoins' /\ SearchInv'
  BY DEF Inv, OneJoins, SearchInv
<1>3. ResourceInv'
  BY DEF Inv, ResourceInv, ServicesMutexFree
<1>4. QED
  BY <1>1, <1>2, <1>3 DEF Inv

LEMMA ReconnectInv ==
    ASSUME Inv, Reconnect
    PROVE  Inv'
<1> USE DEF Reconnect, serviceVars, clientVars, searchVars
<1>1. TypeOK'
  BY DEF Inv, TypeOK, ThreadControl, Fault
<1>2. OneJoins' /\ SearchInv'
  BY DEF Inv, OneJoins, SearchInv
<1>3. ResourceInv'
  BY DEF Inv, ResourceInv, ServicesMutexFree
<1>4. QED
  BY <1>1, <1>2, <1>3 DEF Inv

LEMMA QueryRoutersInv ==
    ASSUME Inv, QueryRouters
    PROVE  Inv'
<1> USE DEF QueryRouters, serviceVars, clientVars, searchVars
<1>1. TypeOK'
  BY DEF Inv, TypeOK, ThreadControl, QueryForLimitlessRouters, Fault
<1>2. OneJoins' /\ SearchInv'
  BY DEF Inv, OneJoins, SearchInv
<1>3. ResourceInv'
  BY DEF Inv, ResourceInv, ServicesMutexFree
<1>4. QED
  BY <1>1, <1>2, <1>3 DEF Inv

LEMMA PublishRoutersInv ==
    ASSUME Inv, PublishRouters
    PROVE  Inv'
<1> USE DEF PublishRouters, serviceVars, clientVars, searchVars
<1>1. TypeOK'
  BY DEF Inv, TypeOK, ThreadControl
<1>2. OneJoins' /\ SearchInv'
  BY DEF Inv, OneJoins, SearchInv
<1>3. ResourceInv'
  BY DEF Inv, ResourceInv, ServicesMutexFree
<1>4. QED
  BY <1>1, <1>2, <1>3 DEF Inv

LEMMA ThreadEndsInv ==
    ASSUME Inv, ThreadEnds
    PROVE  Inv'
<1> USE DEF ThreadEnds, serviceVars, clientVars, searchVars
<1>1. TypeOK'
  BY DEF Inv, TypeOK, ThreadControl
<1>2. OneJoins' /\ SearchInv'
  BY DEF Inv, OneJoins, SearchInv
<1>3. ResourceInv'
  BY DEF Inv, ResourceInv, ServicesMutexFree
<1>4. QED
  BY <1>1, <1>2, <1>3 DEF Inv

LEMMA DropInv ==
    ASSUME Inv, Drop
    PROVE  Inv'
<1> USE DEF Drop, serviceVars, clientVars, searchVars
<1>1. TypeOK'
  BY DEF Inv, TypeOK, ThreadControl, Fault
<1>2. OneJoins' /\ SearchInv'
  BY DEF Inv, OneJoins, SearchInv
<1>3. ResourceInv'
  BY DEF Inv, ResourceInv, ServicesMutexFree
<1>4. QED
  BY <1>1, <1>2, <1>3 DEF Inv

LEMMA StepInv == Inv /\ [Next]_vars => Inv'
<1> SUFFICES ASSUME Inv, [Next]_vars PROVE Inv'
  OBVIOUS
<1>1. ASSUME NEW c \in Clients,
             GetLimitlessInstance(c) \/ ClientStep(c) \/ DecrementReferenceCounter(c)
      PROVE  Inv'
  BY <1>1, GetLimitlessInstanceInv, NewServiceInv,
     IncrementReferenceCounterInv, GetHostInfoInv, TestRoundRobinInv,
     TestHighestWeightInv, NoRouterInv, DecrementReferenceCounterInv, JoinInv
     DEF ClientStep
<1>2. CASE ThreadStep
  BY <1>2, TestStoppedInv, CheckConnectionInv, ReconnectInv, QueryRoutersInv,
     PublishRoutersInv, ThreadEndsInv DEF ThreadStep
<1>3. CASE UNCHANGED vars
  BY <1>3 DEF vars, serviceVars, threadVars, clientVars, searchVars, Inv,
     TypeOK, OneJoins, ResourceInv, SearchInv, ServicesMutexFree
<1>4. QED
  BY <1>1, <1>2, <1>3, DropInv DEF Next

THEOREM Invariant == Spec => []Inv
BY InitInv, StepInv, PTL DEF Spec

(* Type correctness, and no service without a reference.                   *)
THEOREM TypeCorrect == Spec => []TypeOK
<1>1. Inv => TypeOK
  BY DEF Inv
<1>2. QED
  BY <1>1, Invariant, PTL

(* Whatever the clients and the thread do, and whatever fails: when the    *)
(* service is gone and nobody waits for the thread, nothing is left of it. *)
THEOREM NothingStays == Spec => []NothingLeftBehind
<1>1. Inv => NothingLeftBehind
  BY DEF Inv, ResourceInv, NothingLeftBehind
<1>2. QED
  BY <1>1, Invariant, PTL

(* The routers of a service are never forgotten.                           *)
THEOREM RoutersKnown == Spec => RoutersStayKnown
<1>1. ASSUME Inv, [Next]_vars, limitless_routers # {}, service
      PROVE  limitless_routers' # {} \/ ~service'
  <2>1. ASSUME NEW c \in Clients, NewService(c) \/ Join(c)
        PROVE  limitless_routers' = limitless_routers
    BY <1>1, <2>1 DEF NewService, Join, Inv, OneJoins, serviceVars
  <2>2. ASSUME NEW c \in Clients,
               \/ GetLimitlessInstance(c) \/ IncrementReferenceCounter(c)
               \/ GetHostInfo(c) \/ TestRoundRobin(c) \/ TestHighestWeight(c)
               \/ NoRouter(c) \/ DecrementReferenceCounter(c)
        PROVE  limitless_routers' = limitless_routers
    BY <2>2 DEF GetLimitlessInstance, IncrementReferenceCounter, GetHostInfo,
       TestRoundRobin, TestHighestWeight, NoRouter,
       DecrementReferenceCounter, serviceVars
  <2>3. CASE PublishRouters
    BY <1>1, <2>3 DEF PublishRouters
  <2>4. CASE \/ TestStopped \/ CheckConnection \/ Reconnect \/ QueryRouters
             \/ ThreadEnds \/ Drop \/ UNCHANGED vars
    BY <1>1, <2>4 DEF TestStopped, CheckConnection, Reconnect, QueryRouters,
       ThreadEnds, Drop, vars, serviceVars
  <2>5. QED
    BY <1>1, <2>1, <2>2, <2>3, <2>4 DEF Next, ClientStep, ThreadStep
<1>2. Inv /\ [Next]_vars =>
         [limitless_routers # {} /\ service
             => limitless_routers' # {} \/ ~service']_vars
  BY <1>1
<1>3. QED
  BY <1>2, Invariant, PTL DEF Spec, RoutersStayKnown

(* A search fails on a step of its own only when no try and no router is   *)
(* left.                                                                   *)
LEMMA WhoGivesUp ==
    ASSUME Inv, [Next]_vars, NEW c \in Clients,
           pc[c] = "highestWeight", result'[c] = "failed"
    PROVE  NoRouter(c)
<1> USE DEF Goto, Set
<1>1. result[c] = "none" /\ (UNCHANGED result => FALSE)
  BY DEF Inv, SearchInv
<1>2. ASSUME NEW d \in Clients,
             \/ GetLimitlessInstance(d) \/ NewService(d) \/ GetHostInfo(d)
             \/ DecrementReferenceCounter(d)
      PROVE  FALSE
  BY <1>1, <1>2 DEF GetLimitlessInstance, NewService, GetHostInfo,
     DecrementReferenceCounter, Inv, TypeOK
<1>3. ASSUME NEW d \in Clients,
             IncrementReferenceCounter(d) \/ Join(d)
      PROVE  FALSE
  BY <1>1, <1>3 DEF IncrementReferenceCounter, Join
<1>4. ASSUME NEW d \in Clients,
             TestRoundRobin(d) \/ TestHighestWeight(d)
      PROVE  FALSE
  <2>1. Found(d) \/ UNCHANGED result
    BY <1>4 DEF TestRoundRobin, TestHighestWeight
  <2>2. QED
    BY <1>1, <2>1 DEF Found, Inv, TypeOK
<1>5. ASSUME NEW d \in Clients, NoRouter(d)
      PROVE  NoRouter(c)
  BY <1>1, <1>5 DEF NoRouter, Inv, TypeOK
<1>6. CASE ThreadStep \/ Drop \/ UNCHANGED vars
  BY <1>1, <1>6 DEF ThreadStep, TestStopped, CheckConnection, Reconnect,
     QueryRouters, PublishRouters, ThreadEnds, Drop, vars, clientVars
<1>7. QED
  BY <1>2, <1>3, <1>4, <1>5, <1>6 DEF Next, ClientStep

(* GetHostInfo gives up only when all routers it knows are DOWN, for every *)
(* number of attempts that is not below that of the routers.               *)
THEOREM GivesUp == Spec => GivesUpOnlyAllDown
<1>1. ASSUME Inv, [Next]_vars, NEW c \in Clients,
             pc[c] = "highestWeight", result'[c] = "failed",
             Cardinality(hosts[c]) <= Attempts
      PROVE  down[c] = hosts[c]
  <2>1. NoRouter(c)
    BY <1>1, WhoGivesUp
  <2>2. /\ down[c] \in SUBSET hosts[c] /\ hosts[c] \in SUBSET Routers
        /\ tries[c] = Cardinality(down[c])
    BY <1>1 DEF Inv, TypeOK, SearchInv
  <2>3. CASE tries[c] = Attempts
    <3>1. IsFiniteSet(hosts[c])
      BY <2>2, FS_Subset
    <3>2. /\ Cardinality(down[c]) <= Cardinality(hosts[c])
          /\ Cardinality(hosts[c]) = Cardinality(down[c]) => hosts[c] = down[c]
      BY <2>2, <3>1, FS_Subset
    <3>3. Cardinality(hosts[c]) \in Nat
      BY <3>1, FS_CardinalityType
    <3>4. QED
      BY <1>1, <2>2, <2>3, <3>2, <3>3
  <2>4. CASE hosts[c] \subseteq down[c]
    BY <2>2, <2>4
  <2>5. QED
    BY <2>1, <2>3, <2>4 DEF NoRouter
<1>2. Inv /\ [Next]_vars =>
         [\A c \in Clients :
             pc[c] = "highestWeight" /\ result'[c] = "failed"
                /\ Cardinality(hosts[c]) <= Attempts
             => down[c] = hosts[c]]_vars
  BY <1>1
<1>3. QED
  BY <1>2, Invariant, PTL DEF Spec, GivesUpOnlyAllDown

-----------------------------------------------------------------------------
(* Clients that make their calls one at a time.                            *)

Calling == {"new", "increment", "hosts", "join"}

(* Then the one that found the service still finds it, the one that did    *)
(* not find it still does not, and the counter is exact.                   *)
SerialInv ==
    serial =>
        /\ \A c, d \in Clients : pc[c] \in Calling /\ pc[d] \in Calling => c = d
        /\ \A c \in Clients : /\ pc[c] = "increment" => service /\ held[c]
                              /\ pc[c] = "new" /\ held[c] => ~service
                              /\ pc[c] = "join" => ~held[c]
        /\ reference_counter = Cardinality(Users)

LEMMA UsersFinite ==
    /\ IsFiniteSet(Users) /\ Cardinality(Users) \in Nat
    /\ Cardinality(Users) = 0 <=> Users = {}
<1>1. Users \in SUBSET Clients
  BY DEF Users
<1>2. QED
  BY <1>1, FS_Subset, FS_CardinalityType, FS_EmptySet

LEMMA SerialInit == Init => SerialInv
<1> SUFFICES ASSUME Init PROVE SerialInv
  OBVIOUS
<1>1. Users = {}
  BY DEF Init, Users
<1>2. QED
  BY <1>1, FS_EmptySet DEF Init, SerialInv, Calling

(* What the three calls do to the set of users.                            *)
LEMMA NewServiceUsers ==
    ASSUME Inv, SerialInv, serial, NEW c \in Clients, NewService(c)
    PROVE  \/ service /\ Users' = Users /\ UNCHANGED <<service, reference_counter>>
           \/ /\ ~service /\ Users = {} /\ Users' = {c}
              /\ service' /\ reference_counter' = 1
<1> USE DEF NewService, Goto, Set, serviceVars, Inv, TypeOK
<1>1. CASE service
  BY <1>1 DEF Users, SerialInv
<1>2. CASE ~service
  <2>1. reference_counter = 0
    BY <1>2
  <2>2. Users = {}
    BY <2>1, UsersFinite DEF SerialInv
  <2>3. QED
    BY <1>2, <2>2 DEF Users
<1>3. QED
  BY <1>1, <1>2

LEMMA IncrementUsers ==
    ASSUME Inv, SerialInv, serial, NEW c \in Clients, IncrementReferenceCounter(c)
    PROVE  /\ service /\ service' /\ c \notin Users /\ Users' = Users \cup {c}
           /\ reference_counter' = reference_counter + 1
BY DEF IncrementReferenceCounter, Goto, Set, Inv, TypeOK, SerialInv, Users

LEMMA DecrementUsers ==
    ASSUME Inv, SerialInv, serial, NEW c \in Clients, DecrementReferenceCounter(c)
    PROVE  /\ service /\ c \in Users /\ Users' = Users \ {c}
           /\ reference_counter' = reference_counter - 1
           /\ service' <=> reference_counter # 1
<1> USE DEF DecrementReferenceCounter, Goto, Set, serviceVars, Inv, TypeOK
<1>1. c \in Users /\ Users' = Users \ {c}
  BY DEF Users
<1>2. reference_counter > 0
  BY <1>1, UsersFinite DEF SerialInv
<1>3. service
  BY <1>2
<1>4. CASE reference_counter > 1
  <2>1. ~(reference_counter <= 1)
    BY <1>4
  <2>2. reference_counter' = reference_counter - 1 /\ service' = service
    BY <1>3, <2>1, Zenon
  <2>3. QED
    BY <1>1, <1>3, <1>4, <2>2
<1>5. CASE reference_counter = 1
  <2>1. reference_counter' = reference_counter - 1 /\ service' = FALSE
    BY <1>3, <1>5
  <2>2. QED
    BY <1>1, <1>3, <1>5, <2>1
<1>6. QED
  BY <1>2, <1>4, <1>5

Others(c) ==
    \/ GetLimitlessInstance(c) \/ GetHostInfo(c) \/ TestRoundRobin(c)
    \/ TestHighestWeight(c) \/ NoRouter(c) \/ Join(c)

LEMMA OtherUsers ==
    ASSUME Inv, NEW c \in Clients, Others(c)
    PROVE  Users' = Users /\ UNCHANGED <<service, reference_counter, serial>>
BY DEF Others, GetLimitlessInstance, GetHostInfo, TestRoundRobin,
   TestHighestWeight, NoRouter, Join, Found, Goto, Set, serviceVars, Inv,
   TypeOK, Users

LEMMA ThreadUsers ==
    ASSUME ThreadStep \/ Drop \/ UNCHANGED vars
    PROVE  Users' = Users /\ UNCHANGED <<service, reference_counter, serial, pc, held>>
BY DEF ThreadStep, TestStopped, CheckConnection, Reconnect, QueryRouters,
   PublishRouters, ThreadEnds, Drop, vars, serviceVars, clientVars, Users

LEMMA SerialStep == Inv /\ SerialInv /\ [Next]_vars => SerialInv'
<1> SUFFICES ASSUME Inv, SerialInv, [Next]_vars, serial' PROVE SerialInv'
  BY DEF SerialInv
<1>1. ASSUME NEW c \in Clients, NewService(c)
      PROVE  SerialInv'
  <2>1. serial
    BY <1>1 DEF NewService
  <2>2. reference_counter' = Cardinality(Users')
    BY <1>1, <2>1, NewServiceUsers, FS_Singleton DEF SerialInv
  <2>3. QED
    BY <1>1, <2>1, <2>2, NewServiceUsers
       DEF NewService, Goto, Set, Inv, TypeOK, SerialInv, Calling
<1>2. ASSUME NEW c \in Clients, IncrementReferenceCounter(c)
      PROVE  SerialInv'
  <2>1. serial
    BY <1>2 DEF IncrementReferenceCounter
  <2>2. reference_counter' = Cardinality(Users')
    BY <1>2, <2>1, IncrementUsers, UsersFinite, FS_AddElement DEF SerialInv
  <2>3. QED
    BY <1>2, <2>1, <2>2, IncrementUsers
       DEF IncrementReferenceCounter, Goto, Set, Inv, TypeOK, SerialInv, Calling
<1>3. ASSUME NEW c \in Clients, DecrementReferenceCounter(c)
      PROVE  SerialInv'
  <2>1. serial /\ \A d \in Clients : pc[d] \notin Calling
    BY <1>3 DEF DecrementReferenceCounter, MayCall, Calling
  <2>2. reference_counter' = Cardinality(Users')
    BY <1>3, <2>1, DecrementUsers, UsersFinite, FS_RemoveElement DEF SerialInv
  <2>3. QED
    BY <1>3, <2>1, <2>2, DecrementUsers
       DEF DecrementReferenceCounter, Goto, Set, Inv, TypeOK, SerialInv, Calling
<1>4. ASSUME NEW c \in Clients, Others(c)
      PROVE  SerialInv'
  <2>1. serial /\ reference_counter' = Cardinality(Users') /\ service' = service
    BY <1>4, OtherUsers DEF SerialInv
  <2>2. CASE GetLimitlessInstance(c)
    <3>1. \A d \in Clients : pc[d] \notin Calling
      BY <2>1, <2>2 DEF GetLimitlessInstance, MayCall, Calling
    <3>2. QED
      BY <2>1, <2>2, <3>1 DEF GetLimitlessInstance, CheckService, Goto, Set,
         Inv, TypeOK, SerialInv, Calling
  <2>3. CASE ~GetLimitlessInstance(c)
    BY <1>4, <2>1, <2>3 DEF Others, GetHostInfo, TestRoundRobin,
       TestHighestWeight, NoRouter, Join, Found, Goto, Set, Inv, TypeOK,
       SerialInv, Calling
  <2>4. QED
    BY <2>2, <2>3
<1>5. CASE ThreadStep \/ Drop \/ UNCHANGED vars
  <2>1. serial /\ reference_counter' = Cardinality(Users')
    BY <1>5, ThreadUsers DEF SerialInv
  <2>2. QED
    BY <1>5, <2>1, ThreadUsers DEF SerialInv
<1>6. QED
  BY <1>1, <1>2, <1>3, <1>4, <1>5 DEF Next, ClientStep, Others

THEOREM SerialInvariant == Spec => [](Inv /\ SerialInv)
<1>1. Init => Inv /\ SerialInv
  BY InitInv, SerialInit
<1>2. Inv /\ SerialInv /\ [Next]_vars => (Inv /\ SerialInv)'
  BY StepInv, SerialStep
<1>3. QED
  BY <1>1, <1>2, PTL DEF Spec

(* For such clients the service implements the reference counted service.  *)
THEOREM LimitlessRefines == Spec => IsRefCounted
<1> DEFINE users == IF serial THEN Users ELSE {}
           running == serial /\ service
<1>1. Init => Abstract!Init
  BY DEF Init, Abstract!Init, Users
<1>2. ASSUME Inv, SerialInv, [Next]_vars
      PROVE  Abstract!Next \/ UNCHANGED <<users, running>>
  <2>1. ASSUME NEW c \in Clients, serial,
               NewService(c) \/ IncrementReferenceCounter(c)
        PROVE  Abstract!Next \/ UNCHANGED <<users, running>>
    <3>1. serial'
      BY <2>1 DEF NewService, IncrementReferenceCounter
    <3>2. \/ Users' = Users /\ service' = service
          \/ c \notin Users /\ Users' = Users \cup {c} /\ service'
      <4>1. CASE NewService(c)
        BY <1>2, <2>1, <4>1, NewServiceUsers
      <4>2. CASE IncrementReferenceCounter(c)
        BY <1>2, <2>1, <4>2, IncrementUsers
      <4>3. QED
        BY <2>1, <4>1, <4>2
    <3>3. QED
      BY <2>1, <3>1, <3>2 DEF Abstract!Next, Abstract!Acquire
  <2>2. ASSUME NEW c \in Clients, serial, DecrementReferenceCounter(c)
        PROVE  Abstract!Next
    <3>1. serial'
      BY <2>2 DEF DecrementReferenceCounter
    <3>2. /\ c \in Users /\ Users' = Users \ {c} /\ service
          /\ service' <=> Users' # {}
      BY <1>2, <2>2, DecrementUsers, UsersFinite, FS_RemoveElement, FS_EmptySet
         DEF SerialInv
    <3>3. QED
      BY <2>2, <3>1, <3>2 DEF Abstract!Next, Abstract!Release
  <2>3. ASSUME NEW c \in Clients, Others(c)
        PROVE  UNCHANGED <<users, running>>
    BY <1>2, <2>3, OtherUsers
  <2>4. CASE ThreadStep \/ Drop \/ UNCHANGED vars
    BY <2>4, ThreadUsers
  <2>5. CASE ~serial
    <3>1. ~serial'
      BY <1>2, <2>5 DEF Next, ClientStep, ThreadStep, vars,
         GetLimitlessInstance, NewService, IncrementReferenceCounter,
         GetHostInfo, TestRoundRobin, TestHighestWeight, NoRouter, Join,
         DecrementReferenceCounter, TestStopped, CheckConnection, Reconnect,
         QueryRouters, PublishRouters, ThreadEnds, Drop
    <3>2. QED
      BY <2>5, <3>1
  <2>6. QED
    BY <1>2, <2>1, <2>2, <2>3, <2>4, <2>5 DEF Next, ClientStep, Others
<1>3. Inv /\ SerialInv /\ [Next]_vars => [Abstract!Next]_<<users, running>>
  BY <1>2
<1>4. QED
  BY <1>1, <1>3, SerialInvariant, PTL DEF Spec, IsRefCounted, Abstract!Spec
==============================================================================
