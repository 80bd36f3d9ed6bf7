----------------------- MODULE LimitlessMonitorService -----------------------
(***************************************************************************)
(* The monitoring of the transaction routers of one limitless cluster, that*)
(* is of one service id (src/src/limitless/limitless_monitor_service.{h,cc}*)
(* and limitless_router_monitor.{h,cc}): clients that ask for a router and *)
(* stop the service, and the thread that polls the routers.  An action is  *)
(* one critical section of services_mutex or limitless_routers_mutex, or   *)
(* one ODBC call of the thread.  The connection of the thread is the       *)
(* environment's to break.                                                 *)
(***************************************************************************)
EXTENDS Naturals, FiniteSets

CONSTANTS
    Clients,      \* client threads, one connection each
    Routers,      \* transaction routers
    Attempts,     \* DEFAULT_LIMITLESS_CONNECT_RETRY_ATTEMPTS
    Disciplines,  \* values of serial to consider
    FaultKinds,   \* what goes wrong, a subset of AllFaults
    MaxFaults     \* BOUND: number of faults of a behaviour

AllFaults == {"alloc", "connect", "query", "drop"}

ASSUME LimitlessAssumption ==
    /\ IsFiniteSet(Clients) /\ IsFiniteSet(Routers)
    /\ Attempts \in Nat
    /\ Disciplines \subseteq BOOLEAN
    /\ FaultKinds \subseteq AllFaults
    /\ MaxFaults \in Nat

VARIABLES
    serial,             \* the clients make their calls one at a time
    faults,             \* faults so far
    service,            \* the service id is in services
    reference_counter,
    limitless_routers,
    stopped,            \* of the router monitor
    tpc,                \* control point of the thread; "off": no thread
    henv,               \* the thread's environment handle is allocated
    conn,               \* what the thread's connection handle refers to
    new_limitless_routers,
    pc,                 \* client -> control point
    held,               \* client -> has got, and not stopped, the service
    hosts, down, tries, \* client -> GetHostInfo: the copy of the routers,
                        \* those of them set DOWN, the loop counter i
    result              \* client -> what its last GetLimitlessInstance gave

serviceVars == <<service, reference_counter, limitless_routers, stopped>>
threadVars  == <<tpc, henv, conn, new_limitless_routers>>
searchVars  == <<hosts, down, tries>>
clientVars  == <<pc, held, searchVars, result>>

vars == <<serial, faults, serviceVars, threadVars, clientVars>>

Fault(k) == k \in FaultKinds /\ faults < MaxFaults /\ faults' = faults + 1

Init ==
    /\ serial \in Disciplines
    /\ faults = 0
    /\ service = FALSE /\ reference_counter = 0
    /\ limitless_routers = {} /\ stopped = FALSE
    /\ tpc = "off" /\ henv = FALSE /\ conn = "null"
    /\ new_limitless_routers = {}
    /\ pc = [c \in Clients |-> "idle"]
    /\ held = [c \in Clients |-> FALSE]
    /\ hosts = [c \in Clients |-> {}]
    /\ down = [c \in Clients |-> {}]
    /\ tries = [c \in Clients |-> 0]
    /\ result = [c \in Clients |-> "none"]

Set(f, c, value) == [f EXCEPT ![c] = value]

Goto(c, next) == pc' = Set(pc, c, next)

(* services_mutex is held from one step to the next only by the client     *)
(* that joins the thread in DecrementReferenceCounter.                     *)
ServicesMutexFree == \A c \in Clients : pc[c] # "join"

(* The discipline serial of the clients: no other one is between the start *)
(* of GetLimitlessInstance and its look-up of the routers, or in a stop.   *)
MayCall ==
    serial => \A c \in Clients : pc[c] \notin {"new", "increment", "hosts", "join"}

(* LimitlessQueryHelper::QueryForLimitlessRouters: the rows fetched before *)
(* fetching ends; none on an error.                                        *)
QueryForLimitlessRouters(rows) ==
    \/ rows \in (SUBSET Routers) \ {{}} /\ UNCHANGED faults
    \/ rows = {} /\ Fault("query")

-----------------------------------------------------------------------------
(* LimitlessRouterMonitor::Open, called with services_mutex held.          *)

(* Lazy mode: the thread connects later.                                   *)
OpenLazy ==
    /\ tpc' = "loop" /\ henv' = TRUE /\ conn' = "null"
    /\ limitless_routers' = {}
    /\ UNCHANGED faults

(* No handle: no thread.                                                   *)
OpenFails ==
    /\ Fault("alloc")
    /\ limitless_routers' = {}
    /\ UNCHANGED <<tpc, henv, conn>>

OpenConnected ==
    /\ tpc' = "loop" /\ henv' = TRUE /\ conn' = "open"
    /\ QueryForLimitlessRouters(limitless_routers')

OpenUnconnected ==
    /\ Fault("connect")
    /\ tpc' = "loop" /\ henv' = TRUE /\ conn' = "closed"
    /\ limitless_routers' = {}

-----------------------------------------------------------------------------
(* GetLimitlessInstance.                                                   *)

CheckService == service

(* CheckService decides between a new service and another reference; it is *)
(* not asked for an empty id, which NewService replaces by the cluster's.  *)
GetLimitlessInstance(c) ==
    /\ pc[c] = "idle" /\ ~held[c] /\ MayCall
    /\ \/ Goto(c, "new") /\ held' = held
       \/ /\ ServicesMutexFree
          /\ Goto(c, IF CheckService THEN "increment" ELSE "new")
          /\ held' = Set(held, c, TRUE)
    /\ result' = Set(result, c, "none")
    /\ UNCHANGED <<serial, faults, serviceVars, threadVars, searchVars>>

(* NewService refuses an id that is in use.  The caller whose id was empty *)
(* has no id to stop then; the caller with an id is going to stop it.      *)
NewService(c) ==
    /\ pc[c] = "new" /\ ServicesMutexFree
    /\ \/ /\ service
          /\ Goto(c, "idle")
          /\ result' = Set(result, c, "failed")
          /\ UNCHANGED <<faults, serviceVars, threadVars, held>>
       \/ /\ ~service
          /\ service' = TRUE /\ reference_counter' = 1 /\ stopped' = FALSE
          /\ OpenLazy \/ OpenFails \/ OpenConnected \/ OpenUnconnected
          /\ held' = Set(held, c, TRUE)
          /\ Goto(c, "hosts")
          /\ UNCHANGED <<new_limitless_routers, result>>
    /\ UNCHANGED <<serial, searchVars>>

(* Mutant of IncrementReferenceCounter: the call uses the service without  *)
(* counting itself.                                                        *)
IncrementForgotten(c) ==
    /\ pc[c] = "increment" /\ ServicesMutexFree
    /\ Goto(c, "hosts")
    /\ UNCHANGED <<serial, faults, serviceVars, threadVars, held, searchVars,
                   result>>

(* Nothing is counted for a service that has been stopped since it was     *)
(* looked up, and the caller is not told.                                  *)
IncrementReferenceCounter(c) ==
    /\ pc[c] = "increment" /\ ServicesMutexFree
    /\ reference_counter' = IF service THEN reference_counter + 1
                                       ELSE reference_counter
    /\ Goto(c, "hosts")
    /\ UNCHANGED <<serial, faults, service, limitless_routers, stopped,
                   threadVars, held, searchVars, result>>

(* The look-up of GetHostInfo, with both mutexes.                          *)
GetHostInfo(c) ==
    /\ pc[c] = "hosts" /\ ServicesMutexFree
    /\ IF service /\ limitless_routers # {}
       THEN /\ hosts' = Set(hosts, c, limitless_routers)
            /\ Goto(c, "roundRobin")
            /\ UNCHANGED result
       ELSE /\ Goto(c, "idle")
            /\ result' = Set(result, c, "failed")
            /\ UNCHANGED hosts
    /\ UNCHANGED <<serial, faults, serviceVars, threadVars, held, down, tries>>

Found(c) ==
    /\ Goto(c, "idle")
    /\ result' = Set(result, c, "host")
    /\ hosts' = Set(hosts, c, {}) /\ down' = Set(down, c, {})
    /\ tries' = Set(tries, c, 0)

(* OdbcHelper::TestConnectionToServer: may go either way.                  *)
TestConnectionToServer == BOOLEAN

(* The router whose turn it is gets tested; or the selector throws, which  *)
(* is as good as a failed test.                                            *)
TestRoundRobin(c) ==
    /\ pc[c] = "roundRobin"
    /\ \E connected \in TestConnectionToServer :
          IF connected
          THEN Found(c)
          ELSE Goto(c, "highestWeight") /\ UNCHANGED <<searchVars, result>>
    /\ UNCHANGED <<serial, faults, serviceVars, threadVars, held>>

(* Mutant of SetDown: the router stays UP in the copy.                     *)
NotSetDown(c, host) == UNCHANGED down

SetDown(c, host) == down' = Set(down, c, down[c] \cup {host})

(* HighestWeightHostSelector::GetHost: weights are not modelled, any of    *)
(* the routers that are UP may have the highest.                           *)
HighestWeightHosts(up) == up

(* An iteration of the retry loop.                                         *)
TestHighestWeight(c) ==
    /\ pc[c] = "highestWeight" /\ tries[c] < Attempts
    /\ \E host \in HighestWeightHosts(hosts[c] \ down[c]),
          connected \in TestConnectionToServer :
          IF connected
          THEN Found(c)
          ELSE /\ SetDown(c, host)
               /\ tries' = Set(tries, c, tries[c] + 1)
               /\ UNCHANGED <<pc, hosts, result>>
    /\ UNCHANGED <<serial, faults, serviceVars, threadVars, held>>

(* The loop ends, or no router is UP.                                      *)
NoRouter(c) ==
    /\ pc[c] = "highestWeight"
    /\ tries[c] = Attempts \/ hosts[c] \subseteq down[c]
    /\ Goto(c, "idle")
    /\ result' = Set(result, c, "failed")
    /\ hosts' = Set(hosts, c, {}) /\ down' = Set(down, c, {})
    /\ tries' = Set(tries, c, 0)
    /\ UNCHANGED <<serial, faults, serviceVars, threadVars, held>>

-----------------------------------------------------------------------------
(* StopLimitlessMonitorService.                                            *)

(* DecrementReferenceCounter: the last reference erases the service and    *)
(* closes its monitor.                                                     *)
DecrementReferenceCounter(c) ==
    /\ pc[c] = "idle" /\ held[c] /\ MayCall /\ ServicesMutexFree
    /\ held' = Set(held, c, FALSE)
    /\ result' = Set(result, c, "none")
    /\ \/ /\ ~service
          /\ UNCHANGED <<serviceVars, pc>>
       \/ /\ service /\ reference_counter > 1
          /\ reference_counter' = reference_counter - 1
          /\ UNCHANGED <<service, limitless_routers, stopped, pc>>
       \/ /\ service /\ reference_counter <= 1
          /\ reference_counter' = 0
          /\ service' = FALSE
          /\ stopped' = TRUE
          /\ Goto(c, "join")
          /\ UNCHANGED limitless_routers
    /\ UNCHANGED <<serial, faults, threadVars, searchVars>>

(* ~LimitlessRouterMonitor ends when the thread has, with services_mutex   *)
(* held; the routers go with it.                                           *)
Join(c) ==
    /\ pc[c] = "join" /\ tpc \in {"off", "done"}
    /\ tpc' = "off"
    /\ limitless_routers' = {}
    /\ Goto(c, "idle")
    /\ UNCHANGED <<serial, faults, service, reference_counter, stopped, henv,
                   conn, new_limitless_routers, held, searchVars, result>>

ClientStep(c) ==
    \/ NewService(c) \/ IncrementReferenceCounter(c)
    \/ GetHostInfo(c) \/ TestRoundRobin(c) \/ TestHighestWeight(c)
    \/ NoRouter(c) \/ Join(c)

-----------------------------------------------------------------------------
(* LimitlessRouterMonitor::Run, the thread.                                *)

(* Mutant of TestStopped: the thread runs for ever.                        *)
NeverStopped ==
    /\ tpc = "loop"
    /\ tpc' = "check"
    /\ UNCHANGED <<serial, faults, serviceVars, henv, conn,
                   new_limitless_routers, clientVars>>

(* The loop's test; the interval is slept without another one.             *)
TestStopped ==
    /\ tpc = "loop"
    /\ tpc' = IF stopped THEN "cleanup" ELSE "check"
    /\ UNCHANGED <<serial, faults, serviceVars, henv, conn,
                   new_limitless_routers, clientVars>>

CheckConnection ==
    /\ tpc = "check"
    /\ tpc' = IF conn = "open" THEN "query" ELSE "reconnect"
    /\ UNCHANGED <<serial, faults, serviceVars, henv, conn,
                   new_limitless_routers, clientVars>>

(* The handle there is, if any, is freed.  When the connect fails the new  *)
(* one is freed as well, but conn keeps its value.  The driver manager     *)
(* knows a handle it has freed and rejects it.                             *)
Reconnect ==
    /\ tpc = "reconnect"
    /\ \/ Fault("alloc") /\ conn' = "null" /\ tpc' = "cleanup"
       \/ Fault("connect") /\ conn' = "freed" /\ tpc' = "loop"
       \/ conn' = "open" /\ tpc' = "query" /\ UNCHANGED faults
    /\ UNCHANGED <<serial, serviceVars, henv, new_limitless_routers, clientVars>>

QueryRouters ==
    /\ tpc = "query"
    /\ IF conn = "open" THEN QueryForLimitlessRouters(new_limitless_routers')
                        ELSE new_limitless_routers' = {} /\ UNCHANGED faults
    /\ tpc' = "publish"
    /\ UNCHANGED <<serial, serviceVars, henv, conn, clientVars>>

(* Mutant of PublishRouters: an empty answer is published as well.         *)
PublishAnyway ==
    /\ tpc = "publish"
    /\ limitless_routers' = new_limitless_routers
    /\ new_limitless_routers' = {}
    /\ tpc' = "loop"
    /\ UNCHANGED <<serial, faults, service, reference_counter, stopped, henv,
                   conn, clientVars>>

(* Mutant of PublishRouters: the answer is not published.                  *)
PublishNothing ==
    /\ tpc = "publish"
    /\ new_limitless_routers' = {}
    /\ tpc' = "loop"
    /\ UNCHANGED <<serial, faults, serviceVars, henv, conn, clientVars>>

PublishRouters ==
    /\ tpc = "publish"
    /\ limitless_routers' = IF new_limitless_routers = {} THEN limitless_routers
                            ELSE new_limitless_routers
    /\ new_limitless_routers' = {}
    /\ tpc' = "loop"
    /\ UNCHANGED <<serial, faults, service, reference_counter, stopped, henv,
                   conn, clientVars>>

(* Mutant of ThreadEnds: the environment handle is not freed.              *)
EndsWithoutEnvironment ==
    /\ tpc = "cleanup"
    /\ conn' = "null"
    /\ tpc' = "done"
    /\ UNCHANGED <<serial, faults, serviceVars, henv, new_limitless_routers,
                   clientVars>>

ThreadEnds ==
    /\ tpc = "cleanup"
    /\ henv' = FALSE /\ conn' = "null"
    /\ tpc' = "done"
    /\ UNCHANGED <<serial, faults, serviceVars, new_limitless_routers, clientVars>>

ThreadStep ==
    \/ TestStopped \/ CheckConnection \/ Reconnect
    \/ QueryRouters \/ PublishRouters \/ ThreadEnds

(* The thread's connection breaks.                                         *)
Drop ==
    /\ conn = "open"
    /\ Fault("drop")
    /\ conn' = "lost"
    /\ UNCHANGED <<serial, serviceVars, tpc, henv, new_limitless_routers,
                   clientVars>>

-----------------------------------------------------------------------------
Next ==
    \/ \E c \in Clients : \/ GetLimitlessInstance(c) \/ ClientStep(c)
                          \/ DecrementReferenceCounter(c)
    \/ ThreadStep
    \/ Drop

Spec == Init /\ [][Next]_vars

(* The thread is scheduled and its ODBC calls return; so are the clients   *)
(* inside a call.  They need not make calls.                               *)
Fairness == WF_vars(ThreadStep) /\ \A c \in Clients : WF_vars(ClientStep(c))

FairSpec == Spec /\ Fairness

-----------------------------------------------------------------------------
(* Properties.                                                             *)

Control == {"idle", "new", "increment", "hosts", "roundRobin",
            "highestWeight", "join"}
ThreadControl == {"off", "loop", "check", "reconnect", "query", "publish",
                  "cleanup", "done"}

(* Every variable has its type, and the service in the map is referred to. *)
TypeOK ==
    /\ serial \in BOOLEAN /\ faults \in 0..MaxFaults
    /\ service \in BOOLEAN /\ stopped \in BOOLEAN
    /\ reference_counter \in Nat /\ (service <=> reference_counter > 0)
    /\ limitless_routers \subseteq Routers
    /\ new_limitless_routers \subseteq Routers
    /\ tpc \in ThreadControl /\ henv \in BOOLEAN
    /\ conn \in {"null", "closed", "open", "lost", "freed"}
    /\ pc \in [Clients -> Control] /\ held \in [Clients -> BOOLEAN]
    /\ hosts \in [Clients -> SUBSET Routers]
    /\ down \in [Clients -> SUBSET Routers]
    /\ tries \in [Clients -> 0..Attempts]
    /\ result \in [Clients -> {"none", "host", "failed"}]

(* The clients that count: from the return of NewService or the increment  *)
(* to the stop, whether or not they were given a router.                   *)
Users == {c \in Clients : held[c] /\ pc[c] \notin {"new", "increment"}}

(* "Each call will increment the reference count, and will be joined when  *)
(* reference counts reaches 0" (docs/limitless/limitless_example.cpp:42):  *)
(* clients that make their calls one at a time share a reference counted   *)
(* service, whether a call gives them a router or not, and although half   *)
(* of them may come without an id.                                         *)
Abstract == INSTANCE RefCountedService
    WITH Users <- Clients,
         users <- IF serial THEN Users ELSE {},
         running <- serial /\ service

IsRefCounted == Abstract!Spec

(* The thread and its handles outlive the service only as long as the      *)
(* client that stopped it waits, also when Open failed half way or the     *)
(* thread gave up by itself, and whatever the clients do.                  *)
NothingLeftBehind ==
    ~service /\ ServicesMutexFree
        => tpc = "off" /\ ~henv /\ conn = "null" /\ limitless_routers = {}

(* Known routers are not forgotten because a query fails or a connection   *)
(* breaks: the list of a service changes to another list only.             *)
RoutersStayKnown ==
    [][limitless_routers # {} /\ service => limitless_routers' # {} \/ ~service']_vars

(* GetHostInfo gives up only after each of the routers it copied failed    *)
(* its test, as long as there are no more of them than attempts.           *)
GivesUpOnlyAllDown ==
    [][\A c \in Clients :
          pc[c] = "highestWeight" /\ result'[c] = "failed"
             /\ Cardinality(hosts[c]) <= Attempts
          => down[c] = hosts[c]]_vars

(* A service whose thread runs has routers in the end, although connects   *)
(* and queries fail for a while; or its thread has ended.                  *)
RoutersArrive ==
    tpc \notin {"off", "done"} /\ limitless_routers = {}
        ~> limitless_routers # {} \/ tpc \in {"off", "done"}

(* The join of the thread with services_mutex held ends.                   *)
StopEnds == \A c \in Clients : pc[c] = "join" ~> pc[c] # "join"

-----------------------------------------------------------------------------
(* What comments and docs say and the code does not do.  TLC refutes each  *)
(* of them: the first in a run of its own, the other with the              *)
(* configuration the README describes.                                     *)

(* "OdbcHelper::CheckConnection failed on a pre-existing handle, so free   *)
(* it" (limitless_router_monitor.cc:113): a handle that is about to be     *)
(* freed has not been freed before.                                        *)
HandleFreedOnce == tpc \in {"reconnect", "cleanup"} => conn # "freed"

(* "Increments a reference count for the given service ID"                 *)
(* (limitless_monitor_service.h:92): a client that was given a router is   *)
(* counted.                                                                *)
ServedClientCounted ==
    Cardinality({c \in Clients : held[c] /\ result[c] = "host"})
        <= reference_counter
=============================================================================
