------------------------------ MODULE OdbcQuery -------------------------------
(***************************************************************************)
(* The queries the library makes for its own purposes and the ODBC handles *)
(* they need (src/src/util/odbc_helper.cc, failover/                       *)
(* cluster_topology_query_helper.cc, limitless/limitless_query_helper.cc,  *)
(* CheckLimitlessCluster of limitless/limitless_monitor_service.cc and     *)
(* is_connected_to_reader of failover/failover_service.cc).  Each works on *)
(* a connection nobody else uses meanwhile, or opens one of its own.  An   *)
(* action is one call into the driver, which may fail, with what follows;  *)
(* binding the columns of a query is one call.                             *)
(***************************************************************************)
EXTENDS Integers, Sequences

CONSTANTS
    Rows,     \* rows of a result set: id (name and role), lag, num (the
              \* processor usage or the load in percent, or Null)
    Results,  \* result sets: sequences of rows
    Garbage,  \* what a variable that was never assigned may hold
    Null

ListCalls == {"QueryTopology", "QueryForLimitlessRouters"}
Singles   == {"GetWriterId", "GetNodeId", "is_connected_to_reader",
              "CheckLimitlessCluster"}
Checks    == {"CheckConnection", "TestConnectionToServer"}
Calls     == ListCalls \cup Singles \cup Checks

(* CheckLimitlessCluster and TestConnectionToServer connect themselves.    *)
OpensConnection == {"CheckLimitlessCluster", "TestConnectionToServer"}

ASSUME OdbcQueryAssumption ==
    /\ \A row \in Rows : /\ DOMAIN row = {"id", "lag", "num"}
                         /\ row.lag \in Nat /\ row.num \in Int \cup {Null}
    /\ Results \subseteq Seq(Rows)
    /\ Garbage \subseteq Int /\ Garbage # {} /\ Null \notin Int

VARIABLES
    pc, call,
    result,   \* what the server has to say to the call
    next,     \* the row the next fetch returns
    held,     \* the handles the call has allocated and not freed
    buffer,   \* the bound variable for the column that may be NULL
    hosts,    \* the answer
    failed    \* the driver has reported an error in this call

vars == <<pc, call, result, next, held, buffer, hosts, failed>>

(* A query with a single answer looks at the first row only, and a check   *)
(* asks for no row.                                                        *)
AnswersTo(c) ==
    CASE c \in ListCalls -> Results
      [] c \in Singles   -> {r \in Results : Len(r) <= 1}
      [] c \in Checks    -> {r \in Results : Len(r) = 1}

Init ==
    /\ pc = "idle" /\ call \in Calls /\ result \in AnswersTo(call)
    /\ next = 1 /\ held = {} /\ buffer \in Garbage
    /\ hosts = <<>> /\ failed = FALSE

-----------------------------------------------------------------------------
(* The weights of hosts.                                                   *)

TopologyWeight(row, cpu) == row.lag * 100 + cpu

MinWeight == 1
MaxWeight == 10

(* Mutant of RouterWeight: the weight is not checked against its limits.   *)
RouterWeightUnchecked(load) == (105 - load) \div 10

(* round(10 - load * 10), with the load in percent; what is out of range   *)
(* becomes the least weight.                                               *)
RouterWeight(load) ==
    LET weight == (105 - load) \div 10
    IN IF weight \in MinWeight..MaxWeight THEN weight ELSE MinWeight

(* The variables a row is fetched into: a NULL column leaves its variable  *)
(* as it was.                                                              *)
Fetched(row) == IF row.num = Null THEN buffer ELSE row.num

CreateHost(row) ==
    [id |-> row.id,
     weight |-> IF call = "QueryForLimitlessRouters" THEN RouterWeight(Fetched(row))
                                         ELSE TopologyWeight(row, Fetched(row))]

-----------------------------------------------------------------------------
(* A driver call either succeeds or reports an error; either way the       *)
(* program goes on at another point.                                       *)
Driver(at, success, failure) ==
    /\ pc = at
    /\ \/ pc' = success /\ UNCHANGED failed
       \/ pc' = failure /\ failed' = TRUE

Ask ==
    /\ pc = "idle"
    /\ call' \in Calls /\ result' \in AnswersTo(call')
    /\ pc' = IF call' \in OpensConnection THEN "environment" ELSE "statement"
    /\ buffer' \in IF call' = "QueryForLimitlessRouters" THEN {0} ELSE Garbage
    /\ next' = 1 /\ hosts' = <<>> /\ failed' = FALSE
    /\ UNCHANGED held

(* What an allocation adds to the handles, if it succeeds.                 *)
Allocates(handle) == held' = IF failed' THEN held ELSE held \cup {handle}

AllocateEnvironment ==
    /\ Driver("environment", "odbc3", "cleanup")
    /\ Allocates("env")
    /\ UNCHANGED <<call, result, next, buffer, hosts>>

SetHenvToOdbc3 ==
    /\ Driver("odbc3", "connection", "cleanup")
    /\ UNCHANGED <<call, result, next, held, buffer, hosts>>

AllocateConnection ==
    /\ Driver("connection", "connect", "cleanup")
    /\ Allocates("dbc")
    /\ UNCHANGED <<call, result, next, buffer, hosts>>

ConnStrConnect ==
    /\ Driver("connect", "statement", "cleanup")
    /\ UNCHANGED <<call, result, next, held, buffer, hosts>>

(* This fails as well when the connection is null.  The routers' columns   *)
(* are bound before the query is executed.                                 *)
AllocateStatement ==
    /\ Driver("statement",
              IF call = "QueryForLimitlessRouters" THEN "bind" ELSE "execute",
              "cleanup")
    /\ Allocates("stmt")
    /\ UNCHANGED <<call, result, next, buffer, hosts>>

BindColumns ==
    /\ Driver("bind",
              IF call = "QueryForLimitlessRouters" THEN "execute" ELSE "fetch",
              "free")
    /\ UNCHANGED <<call, result, next, held, buffer, hosts>>

(* SELECT 1 is answered by its execution.                                  *)
ExecuteQuery ==
    /\ Driver("execute",
              CASE call \in Checks                     -> "free"
                [] call = "CheckLimitlessCluster"      -> "fetch"
                [] call = "QueryForLimitlessRouters"   -> "count"
                [] OTHER                               -> "bind",
              "free")
    /\ hosts' = IF call \in Checks /\ ~failed' THEN <<CreateHost(result[1])>> ELSE <<>>
    /\ UNCHANGED <<call, result, next, held, buffer>>

RowCount ==
    /\ Driver("count", "fetch", "free")
    /\ UNCHANGED <<call, result, next, held, buffer, hosts>>

(* Mutants of FetchResults: the row is taken before the fetch is known to  *)
(* have succeeded; the loop does not look at the outcome.                  *)
FetchLastTwice ==
    /\ pc = "fetch"
    /\ pc' = IF next > Len(result) THEN "free" ELSE "fetch"
    /\ LET row == result[IF next > Len(result) THEN Len(result) ELSE next]
       IN /\ result # <<>>
          /\ buffer' = Fetched(row) /\ hosts' = Append(hosts, CreateHost(row))
    /\ next' = next + 1
    /\ UNCHANGED <<call, result, held, failed>>
FetchForever ==
    /\ pc = "fetch"
    /\ IF next <= Len(result)
       THEN hosts' = Append(hosts, CreateHost(result[next])) /\ next' = next + 1
       ELSE UNCHANGED <<hosts, next>>
    /\ UNCHANGED <<pc, call, result, held, buffer, failed>>

(* SQLFetch, and what is done with a row.  A query with one answer stops   *)
(* after the first; the value of CheckLimitlessCluster is asked for        *)
(* separately.  The end of the rows and an error end the loop alike.       *)
FetchResults ==
    \/ /\ pc = "fetch" /\ next <= Len(result)
       /\ next' = next + 1
       /\ buffer' = Fetched(result[next])
       /\ IF call = "CheckLimitlessCluster"
          THEN UNCHANGED hosts
          ELSE hosts' = Append(hosts, CreateHost(result[next]))
       /\ pc' = CASE call \in ListCalls              -> "fetch"
                  [] call = "CheckLimitlessCluster"  -> "data"
                  [] OTHER                           -> "free"
       /\ UNCHANGED <<call, result, held, failed>>
    \/ /\ Driver("fetch", "free", "free")
       /\ next > Len(result) \/ failed'
       /\ UNCHANGED <<call, result, next, held, buffer, hosts>>

GetData ==
    /\ Driver("data", "free", "free")
    /\ hosts' = IF failed' THEN <<>> ELSE <<CreateHost(result[1])>>
    /\ UNCHANGED <<call, result, next, held, buffer>>

(* Mutants of FreeStatement: the failing helper has freed the statement,   *)
(* its caller's copy of the handle still being set, and the caller frees   *)
(* it again; the statement is left to the driver.                          *)
FreeAgain ==
    /\ pc = "free"
    /\ held' = held \ {"stmt"}
    /\ pc' = IF failed /\ "stmt" \in held THEN "free" ELSE "cleanup"
    /\ UNCHANGED <<call, result, next, buffer, hosts, failed>>
FreeOnSuccess ==
    /\ pc = "free"
    /\ held' = IF failed THEN held ELSE held \ {"stmt"}
    /\ pc' = "cleanup"
    /\ UNCHANGED <<call, result, next, buffer, hosts, failed>>

(* Cleanup of the statement: by the helper that failed, or by its caller.  *)
FreeStatement ==
    /\ pc = "free"
    /\ held' = held \ {"stmt"}
    /\ pc' = "cleanup"
    /\ UNCHANGED <<call, result, next, buffer, hosts, failed>>

(* Cleanup of a connection and an environment of the call's own, whichever *)
(* of them it got, and the return.                                         *)
Cleanup ==
    /\ pc = "cleanup"
    /\ held' = held \ {"dbc", "env"}
    /\ pc' = "idle"
    /\ UNCHANGED <<call, result, next, buffer, hosts, failed>>

Step ==
    \/ AllocateEnvironment \/ SetHenvToOdbc3 \/ AllocateConnection
    \/ ConnStrConnect \/ AllocateStatement \/ BindColumns \/ ExecuteQuery
    \/ RowCount \/ FetchResults \/ GetData \/ FreeStatement \/ Cleanup

Next == Ask \/ Step

(* The driver answers every call.                                          *)
Spec == Init /\ [][Next]_vars /\ WF_vars(Step)

-----------------------------------------------------------------------------
(* Properties.                                                             *)

Control == {"idle", "environment", "odbc3", "connection", "connect",
            "statement", "bind", "execute", "count", "fetch", "data", "free",
            "cleanup"}

(* Every variable has its type.                                            *)
TypeOK ==
    /\ pc \in Control /\ call \in Calls /\ result \in AnswersTo(call)
    /\ next \in 1..Len(result) + 1
    /\ held \subseteq {"env", "dbc", "stmt"}
    /\ buffer \in Int
    /\ hosts \in Seq([id : {row.id : row \in Rows}, weight : Int])
    /\ failed \in BOOLEAN

(* The driver is given handles that are allocated, by whatever way a call  *)
(* got to where it is: OdbcHelper frees the statement when one of its      *)
(* steps fails and leaves the caller with a handle that is not null.       *)
HandlesAlive ==
    /\ pc \in {"bind", "execute", "count", "fetch", "data", "free"} => "stmt" \in held
    /\ pc \in {"odbc3", "connection"} => "env" \in held
    /\ pc = "connect" \/ (call \in OpensConnection /\ "stmt" \in held)
          => {"dbc", "env"} \subseteq held

(* No call leaves a handle behind, whichever of its steps failed.          *)
NothingLeft == pc = "idle" => held = {}

(* The weights of routers are weights that the round robin selector takes, *)
(* whatever the load column held.                                          *)
RouterWeightsValid ==
    call = "QueryForLimitlessRouters" =>
        \A i \in DOMAIN hosts : hosts[i].weight \in MinWeight..MaxWeight

(* A call is answered as if in one step: with all the server has to say,   *)
(* or, after an error, with nothing or with the head of a list.            *)
Ids(seq) == [i \in DOMAIN seq |-> seq[i].id]

Promise == INSTANCE QueryPromise WITH
    Calls <- Calls, ListCalls <- ListCalls,
    ServerAnswers <- [c \in Calls |-> {Ids(r) : r \in AnswersTo(c)}],
    call <- call, server <- Ids(result), asked <- pc # "idle",
    answer <- IF pc = "idle" THEN Ids(hosts) ELSE <<>>,
    failed <- pc = "idle" /\ failed

KeepsPromise == Promise!Spec

(* A call returns: the loops over rows end, whatever the driver reports.   *)
CallReturns == pc # "idle" ~> pc = "idle"

-----------------------------------------------------------------------------
(* What the code does not see to, as it does not look at the length the    *)
(* driver reports for a column; TLC refutes it.                            *)

(* A host of a topology is created from its own row.                       *)
WeightIsOwn ==
    call = "QueryTopology" =>
        \A i \in DOMAIN hosts :
            result[i].num # Null /\ hosts[i].weight = TopologyWeight(result[i], result[i].num)
===============================================================================
