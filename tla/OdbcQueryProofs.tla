---------------------------- MODULE OdbcQueryProofs ----------------------------
(***************************************************************************)
(* Proofs about the queries and their handles, for all result sets.        *)
(***************************************************************************)
EXTENDS OdbcQuery, TLAPS

USE OdbcQueryAssumption DEF OdbcQueryAssumption

(* The handles of a call are known from where it is and what it asks; an   *)
(* error ends the call.                                                    *)
HandleInv ==
    /\ pc \in Control /\ call \in Calls /\ failed \in BOOLEAN
    /\ pc \notin {"idle", "free", "cleanup"} => ~failed
    /\ held \subseteq {"env", "dbc", "stmt"}
    /\ pc \in {"idle", "environment"} => held = {}
    /\ pc \in {"odbc3", "connection"} => held = {"env"}
    /\ pc \in {"environment", "odbc3", "connection", "connect"} => call \in OpensConnection
    /\ call \notin OpensConnection => held \subseteq {"stmt"}
    /\ pc = "connect" => held = {"env", "dbc"}
    /\ pc \in {"statement", "cleanup"} => "stmt" \notin held
    /\ pc \in {"bind", "execute", "count", "fetch", "data", "free"} => "stmt" \in held
    /\ call \in OpensConnection
          /\ pc \notin {"idle", "environment", "odbc3", "connection", "connect", "cleanup"}
          => {"env", "dbc"} \subseteq held

LEMMA InitHandles == Init => HandleInv
BY DEF Init, HandleInv, Control, Calls, ListCalls, Singles, Checks

LEMMA StepHandles == HandleInv /\ [Next]_vars => HandleInv'
<1> SUFFICES ASSUME HandleInv, [Next]_vars PROVE HandleInv'
  OBVIOUS
<1> USE DEF HandleInv, Control
<1>1. CASE Ask
  <2>1. pc = "idle" /\ held' = {} /\ call' \in Calls /\ failed' = FALSE
    BY <1>1 DEF Ask
  <2>2. pc' = IF call' \in OpensConnection THEN "environment" ELSE "statement"
    BY <1>1 DEF Ask
  <2>3. QED
    BY <2>1, <2>2
<1>2. CASE AllocateEnvironment
  <2>1. pc = "environment" /\ ~failed /\ call' = call /\ held = {}
    BY <1>2 DEF AllocateEnvironment, Driver
  <2>2. \/ pc' = "odbc3" /\ held' = {"env"} /\ failed' = FALSE
        \/ pc' = "cleanup" /\ held' = {} /\ failed' = TRUE
    BY <1>2, <2>1 DEF AllocateEnvironment, Driver, Allocates
  <2>3. QED
    BY <2>1, <2>2
<1>3. CASE SetHenvToOdbc3
  <2>1. pc = "odbc3" /\ ~failed /\ call' = call /\ held = {"env"}
    BY <1>3 DEF SetHenvToOdbc3, Driver
  <2>2. \/ pc' = "connection" /\ held' = {"env"} /\ failed' = FALSE
        \/ pc' = "cleanup" /\ held' = {"env"} /\ failed' = TRUE
    BY <1>3, <2>1 DEF SetHenvToOdbc3, Driver
  <2>3. QED
    BY <2>1, <2>2
<1>4. CASE AllocateConnection
  <2>1. pc = "connection" /\ ~failed /\ call' = call /\ held = {"env"}
    BY <1>4 DEF AllocateConnection, Driver
  <2>2. \/ pc' = "connect" /\ held' = {"env", "dbc"} /\ failed' = FALSE
        \/ pc' = "cleanup" /\ held' = {"env"} /\ failed' = TRUE
    BY <1>4, <2>1 DEF AllocateConnection, Driver, Allocates
  <2>3. QED
    BY <2>1, <2>2
<1>5. CASE ConnStrConnect
  <2>1. pc = "connect" /\ ~failed /\ call' = call /\ held = {"env", "dbc"}
    BY <1>5 DEF ConnStrConnect, Driver
  <2>2. \/ pc' = "statement" /\ held' = held /\ failed' = FALSE
        \/ pc' = "cleanup" /\ held' = held /\ failed' = TRUE
    BY <1>5, <2>1 DEF ConnStrConnect, Driver
  <2>3. QED
    BY <2>1, <2>2
<1>6. CASE AllocateStatement
  <2>1. pc = "statement" /\ ~failed /\ call' = call /\ "stmt" \notin held
    BY <1>6 DEF AllocateStatement, Driver
  <2>2. \/ pc' \in {"bind", "execute"} /\ held' = held \cup {"stmt"} /\ failed' = FALSE
        \/ pc' = "cleanup" /\ held' = held /\ failed' = TRUE
    BY <1>6, <2>1 DEF AllocateStatement, Driver, Allocates
  <2>3. QED
    BY <2>1, <2>2
<1>7. CASE BindColumns
  <2>1. pc = "bind" /\ ~failed /\ call' = call /\ held' = held /\ "stmt" \in held
    BY <1>7 DEF BindColumns, Driver
  <2>2. \/ pc' \in {"execute", "fetch"} /\ failed' = FALSE
        \/ pc' = "free" /\ failed' = TRUE
    BY <1>7, <2>1 DEF BindColumns, Driver
  <2>3. QED
    BY <2>1, <2>2
<1>8. CASE ExecuteQuery
  <2>1. pc = "execute" /\ ~failed /\ call' = call /\ held' = held /\ "stmt" \in held
    BY <1>8 DEF ExecuteQuery, Driver
  <2>2. \/ pc' \in {"free", "fetch", "count", "bind"} /\ failed' = FALSE
        \/ pc' = "free" /\ failed' = TRUE
    BY <1>8, <2>1 DEF ExecuteQuery, Driver
  <2>3. QED
    BY <2>1, <2>2
<1>9. CASE RowCount
  <2>1. pc = "count" /\ ~failed /\ call' = call /\ held' = held /\ "stmt" \in held
    BY <1>9 DEF RowCount, Driver
  <2>2. \/ pc' \in {"fetch"} /\ failed' = FALSE
        \/ pc' = "free" /\ failed' = TRUE
    BY <1>9, <2>1 DEF RowCount, Driver
  <2>3. QED
    BY <2>1, <2>2
<1>10. CASE FetchResults
  <2>1. pc = "fetch" /\ ~failed /\ call' = call /\ held' = held /\ "stmt" \in held
    BY <1>10 DEF FetchResults, Driver
  <2>2. \/ pc' \in {"fetch", "data", "free"} /\ failed' = FALSE
        \/ pc' = "free" /\ failed' = TRUE
    BY <1>10, <2>1 DEF FetchResults, Driver
  <2>3. QED
    BY <2>1, <2>2
<1>11. CASE GetData
  <2>1. pc = "data" /\ ~failed /\ call' = call /\ held' = held /\ "stmt" \in held
    BY <1>11 DEF GetData, Driver
  <2>2. \/ pc' \in {"free"} /\ failed' = FALSE
        \/ pc' = "free" /\ failed' = TRUE
    BY <1>11, <2>1 DEF GetData, Driver
  <2>3. QED
    BY <2>1, <2>2
<1>12. CASE FreeStatement
  <2>1. pc = "free" /\ pc' = "cleanup" /\ held' = held \ {"stmt"} /\ call' = call /\ failed' = failed
    BY <1>12 DEF FreeStatement
  <2>2. QED
    BY <2>1
<1>13. CASE Cleanup
  <2>1. pc = "cleanup" /\ pc' = "idle" /\ held' = {} /\ call' = call /\ failed' = failed
    BY <1>13 DEF Cleanup
  <2>2. QED
    BY <2>1
<1>14. CASE UNCHANGED vars
  BY <1>14 DEF vars
<1>15. QED
  BY <1>1, <1>2, <1>3, <1>4, <1>5, <1>6, <1>7, <1>8, <1>9, <1>10, <1>11,
     <1>12, <1>13, <1>14 DEF Next, Step

(* The driver never gets a handle that was freed, whichever step failed.   *)
THEOREM OnlyLiveHandles == Spec => []HandlesAlive
<1>1. HandleInv => HandlesAlive
  BY DEF HandleInv, HandlesAlive
<1>2. QED
  BY <1>1, InitHandles, StepHandles, PTL DEF Spec

(* A call leaves no handle behind.                                         *)
THEOREM CallsCleanUp == Spec => []NothingLeft
<1>1. HandleInv => NothingLeft
  BY DEF HandleInv, NothingLeft
<1>2. QED
  BY <1>1, InitHandles, StepHandles, PTL DEF Spec

-----------------------------------------------------------------------------
(* The answers.                                                            *)

HostType == [id : {row.id : row \in Rows}, weight : Int]

(* Before the first fetch there is no host.  A list grows with the rows    *)
(* that were fetched, anything else has its answer at the end.             *)
Early == {"environment", "odbc3", "connection", "connect", "statement", "bind",
          "execute", "count"}

Late == {"idle", "free", "cleanup"}

DataInv ==
    /\ call \in Calls /\ result \in AnswersTo(call)
    /\ next \in 1..Len(result) + 1 /\ buffer \in Int
    /\ hosts \in Seq(HostType) /\ Len(hosts) <= Len(result)
    /\ \A i \in 1..Len(hosts) : hosts[i].id = result[i].id
    /\ RouterWeightsValid

PlaceInv ==
    /\ pc \in Control /\ failed \in BOOLEAN
    /\ pc \notin Late => ~failed
    /\ pc \in {"bind", "fetch"} => call \notin Checks
    /\ pc = "count" => call \in ListCalls
    /\ pc = "data" => call = "CheckLimitlessCluster"

AnswerInv ==
    /\ pc \in Early => next = 1 /\ hosts = <<>>
    /\ pc = "fetch" /\ call \in ListCalls => Len(hosts) = next - 1
    /\ pc = "fetch" /\ call \notin ListCalls => next = 1 /\ hosts = <<>>
    /\ pc = "data" => hosts = <<>> /\ Len(result) = 1
    /\ pc \in {"free", "cleanup"} /\ ~failed => Len(hosts) = Len(result)
    /\ pc \in {"free", "cleanup"} /\ failed /\ call \notin ListCalls => hosts = <<>>

Inv == DataInv /\ PlaceInv /\ AnswerInv

LEMMA ServerRows ==
    ASSUME NEW c \in Calls, NEW r \in AnswersTo(c)
    PROVE  /\ r \in Seq(Rows)
           /\ c \in Singles => Len(r) <= 1
           /\ c \in Checks => Len(r) = 1
BY DEF AnswersTo, Calls, ListCalls, Singles, Checks

LEMMA RouterWeightRange == \A load \in Int : RouterWeight(load) \in MinWeight..MaxWeight
BY DEF RouterWeight, MinWeight, MaxWeight

(* A row gives a host, and a value for the bound variable.                 *)
LEMMA HostOfRow ==
    ASSUME NEW row \in Rows, buffer \in Int
    PROVE  /\ Fetched(row) \in Int
           /\ CreateHost(row) \in HostType
           /\ CreateHost(row).id = row.id
           /\ call = "QueryForLimitlessRouters" =>
                 CreateHost(row).weight \in MinWeight..MaxWeight
<1>1. Fetched(row) \in Int
  BY DEF Fetched
<1>2. RouterWeight(Fetched(row)) \in MinWeight..MaxWeight /\ MinWeight..MaxWeight \subseteq Int
  BY <1>1, RouterWeightRange DEF MinWeight, MaxWeight
<1>3. TopologyWeight(row, Fetched(row)) \in Int
  BY <1>1 DEF TopologyWeight
<1>4. QED
  BY <1>1, <1>2, <1>3 DEF CreateHost, HostType

LEMMA NoHosts == <<>> \in Seq(HostType) /\ Len(<<>>) = 0
OBVIOUS

LEMMA InitInv == Init => Inv
<1> SUFFICES ASSUME Init PROVE Inv
  OBVIOUS
<1>1. call \in Calls /\ result \in AnswersTo(call) /\ Len(result) \in Nat
  BY ServerRows DEF Init
<1>2. pc = "idle" /\ next = 1 /\ hosts = <<>> /\ failed = FALSE /\ buffer \in Int
  BY DEF Init
<1>3. DataInv
  BY <1>1, <1>2, NoHosts DEF DataInv, RouterWeightsValid
<1>4. PlaceInv /\ AnswerInv
  BY <1>2 DEF PlaceInv, AnswerInv, Control, Late, Early
<1>5. QED
  BY <1>3, <1>4 DEF Inv

LEMMA CallKinds ==
    /\ ListCalls \cap Singles = {} /\ ListCalls \cap Checks = {} /\ Singles \cap Checks = {}
    /\ Calls = ListCalls \cup Singles \cup Checks
    /\ "CheckLimitlessCluster" \in Singles
    /\ "QueryForLimitlessRouters" \in ListCalls
BY DEF Calls, ListCalls, Singles, Checks

(* A step that keeps the answer and goes from an early point to another,   *)
(* to the first fetch, or to the end with an error.                        *)
LEMMA EarlyStep ==
    ASSUME Inv, pc \in Early,
           UNCHANGED <<call, result, next, buffer, hosts>>,
           \/ /\ pc' \in Early \cup {"fetch"} /\ failed' = failed
              /\ pc' \in {"bind", "fetch"} => call \notin Checks
              /\ pc' = "count" => call \in ListCalls
           \/ pc' \in {"free", "cleanup"} /\ failed' = TRUE
    PROVE  Inv'
<1>1. DataInv'
  BY DEF Inv, DataInv, RouterWeightsValid
<1>2. PlaceInv'
  <2>1. ~failed /\ call' = call /\ failed \in BOOLEAN
    BY DEF Inv, PlaceInv, Early, Late
  <2>2. CASE pc' \in Early \cup {"fetch"}
    <3>1. failed' = failed /\ pc' \in Control /\ pc' # "data"
      BY <2>2 DEF Early, Control
    <3>2. (pc' \in {"bind", "fetch"} => call \notin Checks) /\ (pc' = "count" => call \in ListCalls)
      BY <2>2 DEF Early
    <3>3. QED
      BY <2>1, <3>1, <3>2 DEF PlaceInv
  <2>3. CASE pc' \in {"free", "cleanup"} /\ failed' = TRUE
    BY <2>3 DEF PlaceInv, Late, Control
  <2>4. QED
    BY <2>2, <2>3
<1>3. next = 1 /\ hosts = <<>> /\ Len(hosts) = 0
  BY NoHosts DEF Inv, AnswerInv
<1>4. AnswerInv'
  BY <1>3 DEF AnswerInv, Early, Inv, PlaceInv, Late
<1>5. QED
  BY <1>1, <1>2, <1>4 DEF Inv

(* A fetched row, or the value of the single row, becomes a host.          *)
LEMMA HostAdded ==
    ASSUME DataInv, NEW n \in 1..Len(result), Len(hosts) = n - 1,
           UNCHANGED <<call, result>>,
           hosts' = Append(hosts, CreateHost(result[n])),
           next' \in 1..Len(result) + 1, buffer' \in Int
    PROVE  DataInv' /\ Len(hosts') = n
<1>1. result \in Seq(Rows) /\ Len(result) \in Nat /\ result[n] \in Rows
  BY ServerRows DEF DataInv
<1>2. /\ CreateHost(result[n]) \in HostType
      /\ CreateHost(result[n]).id = result[n].id
      /\ call = "QueryForLimitlessRouters" =>
            CreateHost(result[n]).weight \in MinWeight..MaxWeight
  BY <1>1, HostOfRow DEF DataInv
<1>3. /\ hosts' \in Seq(HostType) /\ Len(hosts') = n
      /\ hosts'[n] = CreateHost(result[n])
      /\ \A i \in 1..(n - 1) : hosts'[i] = hosts[i]
      /\ DOMAIN hosts' = 1..n /\ DOMAIN hosts = 1..(n - 1)
  BY <1>2 DEF DataInv
<1>4. \A i \in 1..Len(hosts') : hosts'[i].id = result'[i].id
  BY <1>2, <1>3 DEF DataInv
<1>5. RouterWeightsValid'
  BY <1>2, <1>3 DEF DataInv, RouterWeightsValid
<1>6. QED
  BY <1>1, <1>3, <1>4, <1>5 DEF DataInv

LEMMA ExecuteInv == Inv /\ ExecuteQuery => Inv'
<1> SUFFICES ASSUME Inv, ExecuteQuery PROVE Inv'
  OBVIOUS
<1>1. pc = "execute" /\ UNCHANGED <<call, result, next, buffer>> /\ ~failed
  BY DEF ExecuteQuery, Driver, Inv, PlaceInv, Late
<1>2. next = 1 /\ hosts = <<>> /\ Len(hosts) = 0
  BY <1>1, NoHosts DEF Inv, AnswerInv, Early
<1>3. CASE call \in Checks /\ ~failed'
  <2>1. Len(result) = 1 /\ call \notin ListCalls
    BY <1>3, ServerRows, CallKinds DEF Inv, DataInv
  <2>2. hosts' = Append(hosts, CreateHost(result[1]))
    BY <1>2, <1>3 DEF ExecuteQuery
  <2>3. next' \in 1..Len(result) + 1 /\ buffer' \in Int /\ 1 \in 1..Len(result)
        /\ Len(hosts) = 1 - 1
    BY <1>1, <1>2, <2>1 DEF Inv, DataInv
  <2>4. DataInv' /\ Len(hosts') = 1
    BY <1>1, <2>2, <2>3, HostAdded DEF Inv
  <2>5. pc' = "free" /\ failed' \in BOOLEAN
    BY <1>1, <1>3, CallKinds DEF ExecuteQuery, Driver, Inv, PlaceInv
  <2>6. PlaceInv' /\ AnswerInv'
    BY <1>1, <1>3, <2>1, <2>4, <2>5 DEF PlaceInv, AnswerInv, Early, Late, Control
  <2>7. QED
    BY <2>4, <2>6 DEF Inv
<1>4. CASE ~(call \in Checks /\ ~failed')
  <2>1. UNCHANGED hosts
    BY <1>2, <1>4 DEF ExecuteQuery
  <2>2. \/ pc' \in Early \cup {"fetch"} /\ failed' = failed
           /\ (pc' \in {"bind", "fetch"} => call \notin Checks)
           /\ (pc' = "count" => call \in ListCalls)
        \/ pc' \in {"free", "cleanup"} /\ failed' = TRUE
    <3>1. CASE failed'
      BY <1>1, <3>1 DEF ExecuteQuery, Driver
    <3>2. CASE ~failed'
      BY <1>1, <1>4, <3>2, CallKinds DEF ExecuteQuery, Driver, Early
    <3>3. QED
      BY <3>1, <3>2
  <2>3. QED
    BY <1>1, <2>1, <2>2, EarlyStep DEF Early
<1>5. QED
  BY <1>3, <1>4

LEMMA FetchInv == Inv /\ FetchResults => Inv'
<1> SUFFICES ASSUME Inv, FetchResults PROVE Inv'
  OBVIOUS
<1>1. /\ pc = "fetch" /\ ~failed /\ failed \in BOOLEAN /\ call \notin Checks
      /\ UNCHANGED <<call, result>> /\ Len(result) \in Nat /\ result \in Seq(Rows)
      /\ call \in ListCalls \/ (call \notin ListCalls /\ Len(result) <= 1)
  BY ServerRows, CallKinds DEF FetchResults, Driver, Inv, PlaceInv, DataInv, Late
<1>2. Len(hosts) = next - 1 /\ (call \notin ListCalls => next = 1 /\ hosts = <<>>)
  BY <1>1, NoHosts DEF Inv, AnswerInv
<1>3. CASE next <= Len(result) /\ failed' = failed /\ next' = next + 1
           /\ buffer' = Fetched(result[next])
           /\ hosts' = Append(hosts, CreateHost(result[next]))
           /\ pc' = (IF call \in ListCalls THEN "fetch" ELSE "free")
  <2>1. next \in 1..Len(result) /\ next' \in 1..Len(result) + 1
    BY <1>1, <1>3 DEF Inv, DataInv
  <2>2. buffer' \in Int
    BY <1>1, <1>3, <2>1, HostOfRow DEF Inv, DataInv
  <2>3. DataInv' /\ Len(hosts') = next
    BY <1>1, <1>2, <1>3, <2>1, <2>2, HostAdded DEF Inv
  <2>4. PlaceInv'
    BY <1>1, <1>3 DEF PlaceInv, Late, Control
  <2>5. AnswerInv'
    BY <1>1, <1>2, <1>3, <2>1, <2>3 DEF AnswerInv, Early
  <2>6. QED
    BY <2>3, <2>4, <2>5 DEF Inv
<1>4. CASE next <= Len(result) /\ failed' = failed /\ next' = next + 1
           /\ buffer' = Fetched(result[next]) /\ UNCHANGED hosts
           /\ call = "CheckLimitlessCluster" /\ pc' = "data"
  <2>1. call \notin ListCalls
    BY <1>4, CallKinds
  <2>2. next \in 1..Len(result) /\ next' \in 1..Len(result) + 1 /\ Len(result) = 1
    <3>1. next = 1 /\ Len(result) <= 1 /\ Len(result) \in Nat
      BY <1>1, <1>2, <2>1
    <3>2. 1 <= Len(result) /\ next' = 2
      BY <1>4, <3>1
    <3>3. Len(result) = 1
      <4>1. \A n \in Nat : n <= 1 /\ 1 <= n => n = 1
        OBVIOUS
      <4>2. QED
        BY <3>1, <3>2, <4>1
    <3>4. QED
      BY <3>1, <3>2, <3>3
  <2>3. buffer' \in Int
    BY <1>1, <1>4, <2>2, HostOfRow DEF Inv, DataInv
  <2>4. DataInv'
    BY <1>1, <1>4, <2>2, <2>3 DEF Inv, DataInv, RouterWeightsValid
  <2>5. PlaceInv'
    BY <1>1, <1>4 DEF PlaceInv, Late, Control
  <2>6. AnswerInv'
    BY <1>1, <1>2, <1>4, <2>1, <2>2 DEF AnswerInv, Early
  <2>7. QED
    BY <2>4, <2>5, <2>6 DEF Inv
<1>5. CASE pc' = "free" /\ (next > Len(result) \/ failed') /\ failed' \in BOOLEAN
           /\ UNCHANGED <<next, buffer, hosts>>
  <2>1. DataInv'
    BY <1>1, <1>5 DEF Inv, DataInv, RouterWeightsValid
  <2>2. PlaceInv'
    BY <1>5 DEF PlaceInv, Late, Control
  <2>3. next > Len(result) => Len(hosts) = Len(result)
    BY <1>1, <1>2 DEF Inv, DataInv
  <2>4. AnswerInv'
    BY <1>1, <1>2, <1>5, <2>3 DEF AnswerInv, Early
  <2>5. QED
    BY <2>1, <2>2, <2>4 DEF Inv
<1>6. QED
  <2>1. CASE /\ next <= Len(result) /\ next' = next + 1
             /\ buffer' = Fetched(result[next])
             /\ IF call = "CheckLimitlessCluster"
                THEN UNCHANGED hosts
                ELSE hosts' = Append(hosts, CreateHost(result[next]))
             /\ pc' = CASE call \in ListCalls              -> "fetch"
                        [] call = "CheckLimitlessCluster"  -> "data"
                        [] OTHER                           -> "free"
             /\ failed' = failed
    <3>1. CASE call = "CheckLimitlessCluster"
      BY <1>4, <2>1, <3>1, CallKinds
    <3>2. CASE call \in ListCalls
      BY <1>3, <2>1, <3>2, CallKinds
    <3>3. CASE call \notin ListCalls /\ call # "CheckLimitlessCluster"
      BY <1>3, <2>1, <3>3
    <3>4. QED
      BY <3>1, <3>2, <3>3
  <2>2. CASE /\ Driver("fetch", "free", "free") /\ (next > Len(result) \/ failed')
             /\ UNCHANGED <<next, buffer, hosts>>
    <3>1. pc' = "free" /\ failed' \in BOOLEAN
      BY <1>1, <2>2 DEF Driver
    <3>2. QED
      BY <1>5, <2>2, <3>1
  <2>3. QED
    BY <2>1, <2>2 DEF FetchResults

LEMMA DataStepInv == Inv /\ GetData => Inv'
<1> SUFFICES ASSUME Inv, GetData PROVE Inv'
  OBVIOUS
<1>1. /\ pc = "data" /\ pc' = "free" /\ UNCHANGED <<call, result, next, buffer>>
      /\ call = "CheckLimitlessCluster" /\ call \notin ListCalls
      /\ hosts = <<>> /\ Len(hosts) = 0 /\ Len(result) = 1 /\ failed' \in BOOLEAN
  BY NoHosts, CallKinds DEF GetData, Driver, Inv, PlaceInv, AnswerInv
<1>2. PlaceInv'
  BY <1>1 DEF PlaceInv, Late, Control
<1>3. CASE failed'
  <2>1. UNCHANGED hosts
    BY <1>1, <1>3 DEF GetData
  <2>2. DataInv'
    BY <1>1, <2>1 DEF Inv, DataInv, RouterWeightsValid
  <2>3. AnswerInv'
    BY <1>1, <1>3, <2>1 DEF AnswerInv, Early
  <2>4. QED
    BY <1>2, <2>2, <2>3 DEF Inv
<1>4. CASE ~failed'
  <2>1. hosts' = Append(hosts, CreateHost(result[1]))
    BY <1>1, <1>4 DEF GetData
  <2>2. 1 \in 1..Len(result) /\ Len(hosts) = 1 - 1
        /\ next' \in 1..Len(result) + 1 /\ buffer' \in Int
    BY <1>1 DEF Inv, DataInv
  <2>3. DataInv' /\ Len(hosts') = 1
    BY <1>1, <2>1, <2>2, HostAdded DEF Inv
  <2>4. AnswerInv'
    BY <1>1, <1>4, <2>3 DEF AnswerInv, Early
  <2>5. QED
    BY <1>2, <2>3, <2>4 DEF Inv
<1>5. QED
  BY <1>3, <1>4

LEMMA AskInv == Inv /\ Ask => Inv'
<1> SUFFICES ASSUME Inv, Ask PROVE Inv'
  OBVIOUS
<1>1. /\ call' \in Calls /\ result' \in AnswersTo(call') /\ Len(result') \in Nat
      /\ pc' \in {"environment", "statement"} /\ next' = 1 /\ hosts' = <<>>
      /\ failed' = FALSE /\ buffer' \in Int
  BY ServerRows DEF Ask
<1>2. DataInv'
  BY <1>1, NoHosts DEF DataInv, RouterWeightsValid
<1>3. PlaceInv' /\ AnswerInv'
  BY <1>1 DEF PlaceInv, AnswerInv, Early, Late, Control
<1>4. QED
  BY <1>2, <1>3 DEF Inv

(* The frees, and steps that change nothing, leave the answer as it is.    *)
LEMMA FreeInv ==
    ASSUME Inv, UNCHANGED <<call, result, next, buffer, hosts, failed>>,
           \/ pc = "free" /\ pc' = "cleanup"
           \/ pc = "cleanup" /\ pc' = "idle"
           \/ pc' = pc
    PROVE  Inv'
<1>1. DataInv'
  BY DEF Inv, DataInv, RouterWeightsValid
<1>2. PlaceInv'
  BY DEF Inv, PlaceInv, Late, Control
<1>3. AnswerInv'
  BY DEF Inv, AnswerInv, Early
<1>4. QED
  BY <1>1, <1>2, <1>3 DEF Inv

LEMMA StepInv == Inv /\ [Next]_vars => Inv'
<1> SUFFICES ASSUME Inv, [Next]_vars PROVE Inv'
  OBVIOUS
<1>1. ASSUME AllocateEnvironment \/ SetHenvToOdbc3 \/ AllocateConnection \/ ConnStrConnect
      PROVE  Inv'
  BY <1>1, EarlyStep DEF AllocateEnvironment, SetHenvToOdbc3, AllocateConnection,
     ConnStrConnect, Driver, Early
<1>2. CASE AllocateStatement
  BY <1>2, EarlyStep, CallKinds DEF AllocateStatement, Driver, Early
<1>3. CASE BindColumns
  BY <1>3, EarlyStep DEF BindColumns, Driver, Early, Inv, PlaceInv
<1>4. CASE RowCount
  BY <1>4, EarlyStep, CallKinds DEF RowCount, Driver, Early, Inv, PlaceInv
<1>5. CASE FreeStatement
  BY <1>5, FreeInv DEF FreeStatement
<1>6. CASE Cleanup
  BY <1>6, FreeInv DEF Cleanup
<1>7. CASE UNCHANGED vars
  BY <1>7, FreeInv DEF vars
<1>8. QED
  BY <1>1, <1>2, <1>3, <1>4, <1>5, <1>6, <1>7, AskInv, ExecuteInv, FetchInv,
     DataStepInv DEF Next, Step

(* Type correctness.                                                       *)
THEOREM TypeCorrect == Spec => []TypeOK
<1>1. Inv /\ HandleInv => TypeOK
  BY DEF Inv, DataInv, PlaceInv, HandleInv, TypeOK, HostType
<1>2. QED
  BY <1>1, InitInv, StepInv, InitHandles, StepHandles, PTL DEF Spec

(* No router has a weight that the round robin selector refuses.           *)
THEOREM WeightsInRange == Spec => []RouterWeightsValid
<1>1. Inv => RouterWeightsValid
  BY DEF Inv, DataInv
<1>2. QED
  BY <1>1, InitInv, StepInv, PTL DEF Spec

-----------------------------------------------------------------------------
(* The refinement.                                                         *)

LEMMA IdsOfServer ==
    ASSUME NEW c \in Calls, NEW r \in AnswersTo(c)
    PROVE  /\ Ids(r) \in Seq({row.id : row \in Rows}) /\ Len(Ids(r)) = Len(r)
           /\ \A i \in 1..Len(r) : Ids(r)[i] = r[i].id
           /\ Ids(r) \in [k \in Calls |-> {Ids(q) : q \in AnswersTo(k)}][c]
<1>1. r \in Seq(Rows) /\ Len(r) \in Nat /\ DOMAIN r = 1..Len(r)
  BY ServerRows
<1>2. Ids(r) \in [1..Len(r) -> {row.id : row \in Rows}]
  BY <1>1 DEF Ids
<1>3. QED
  BY <1>1, <1>2 DEF Ids

(* What a call has collected when it cleans up is the head of what the     *)
(* server said, and all of it if there was no error.                       *)
LEMMA AnswerIsHead ==
    ASSUME Inv, pc = "cleanup"
    PROVE  /\ ~failed => Ids(hosts) = Ids(result)
           /\ failed => \/ Ids(hosts) = <<>>
                        \/ /\ call \in ListCalls
                           /\ \E n \in 1..Len(Ids(result)) :
                                 Ids(hosts) = SubSeq(Ids(result), 1, n)
<1>1. /\ hosts \in Seq(HostType) /\ Len(hosts) \in Nat /\ DOMAIN hosts = 1..Len(hosts)
      /\ Len(hosts) <= Len(result) /\ Len(result) \in Nat /\ result \in Seq(Rows)
      /\ \A i \in 1..Len(hosts) : hosts[i].id = result[i].id
  BY ServerRows DEF Inv, DataInv
<1>2. /\ Len(Ids(result)) = Len(result) /\ Ids(result) \in Seq({row.id : row \in Rows})
      /\ \A i \in 1..Len(result) : Ids(result)[i] = result[i].id
      /\ DOMAIN Ids(result) = 1..Len(result)
  BY <1>1, IdsOfServer DEF Inv, DataInv, Ids
<1>3. Ids(hosts) = [i \in 1..Len(hosts) |-> Ids(result)[i]]
  BY <1>1, <1>2 DEF Ids
<1>4. CASE ~failed
  <2>1. Len(hosts) = Len(result)
    BY <1>4 DEF Inv, AnswerInv
  <2>2. QED
    BY <1>2, <1>3, <1>4, <2>1 DEF Ids
<1>5. CASE failed /\ Len(hosts) = 0
  <2>1. Ids(hosts) = <<>>
    BY <1>1, <1>5 DEF Ids
  <2>2. QED
    BY <1>5, <2>1
<1>6. CASE failed /\ Len(hosts) # 0
  <2>1. Len(hosts) \in 1..Len(Ids(result)) /\ call \in ListCalls
    BY <1>1, <1>2, <1>6, NoHosts DEF Inv, AnswerInv
  <2>2. Ids(hosts) = SubSeq(Ids(result), 1, Len(hosts))
    BY <1>1, <1>2, <1>3, <2>1
  <2>3. QED
    BY <1>6, <2>1, <2>2
<1>7. QED
  BY <1>1, <1>4, <1>5, <1>6

LEMMA InitPromised == Init => Promise!Init
<1> SUFFICES ASSUME Init PROVE Promise!Init
  OBVIOUS
<1>1. call \in Calls /\ Ids(result) \in [k \in Calls |-> {Ids(q) : q \in AnswersTo(k)}][call]
  BY IdsOfServer DEF Init
<1>2. Ids(hosts) = <<>>
  BY DEF Init, Ids
<1>3. QED
  BY <1>1, <1>2 DEF Init, Promise!Init

LEMMA AskPromised == Inv /\ Inv' /\ Ask => Promise!Ask
<1> SUFFICES ASSUME Inv, Inv', Ask PROVE Promise!Ask
  OBVIOUS
<1>1. call' \in Calls
      /\ Ids(result') \in [k \in Calls |-> {Ids(q) : q \in AnswersTo(k)}][call']
  BY IdsOfServer DEF Ask
<1>2. Ids(result)' = Ids(result')
  BY DEF Ids
<1>3. pc = "idle" /\ pc' # "idle"
  BY DEF Ask
<1>4. QED
  BY <1>1, <1>2, <1>3 DEF Promise!Ask

LEMMA ReplyPromised == Inv /\ Cleanup => Promise!Reply
<1> SUFFICES ASSUME Inv, Cleanup PROVE Promise!Reply
  OBVIOUS
<1>1. /\ pc = "cleanup" /\ pc' = "idle" /\ failed' = failed /\ failed \in BOOLEAN
      /\ call' = call /\ Ids(result)' = Ids(result) /\ Ids(hosts)' = Ids(hosts)
  BY DEF Cleanup, Ids, Inv, PlaceInv
<1>2. /\ ~failed => Ids(hosts) = Ids(result)
      /\ failed => \/ Ids(hosts) = <<>>
                   \/ /\ call \in ListCalls
                      /\ \E n \in 1..Len(Ids(result)) :
                            Ids(hosts) = SubSeq(Ids(result), 1, n)
  BY <1>1, AnswerIsHead
<1>3. QED
  BY <1>1, <1>2 DEF Promise!Reply

(* The other steps are between the question and the answer.                *)
LEMMA OthersSilent ==
    ASSUME Inv, Step, ~Cleanup
    PROVE  UNCHANGED Promise!vars
<1>1. pc # "idle" /\ pc' # "idle" /\ UNCHANGED <<call, result>>
  BY DEF Step, Driver, AllocateEnvironment, SetHenvToOdbc3, AllocateConnection,
     ConnStrConnect, AllocateStatement, BindColumns, ExecuteQuery, RowCount,
     FetchResults, GetData, FreeStatement
<1>2. Ids(result)' = Ids(result)
  BY <1>1 DEF Ids
<1>3. QED
  BY <1>1, <1>2 DEF Promise!vars

(* A call, with all its steps into the driver, is answered as if at once.  *)
THEOREM Implements == Spec => KeepsPromise
<1>1. Inv /\ Inv' /\ [Next]_vars => [Promise!Next]_(Promise!vars)
  <2> SUFFICES ASSUME Inv, Inv', [Next]_vars
               PROVE  Promise!Next \/ UNCHANGED Promise!vars
    OBVIOUS
  <2>1. CASE UNCHANGED vars
    BY <2>1 DEF vars, Promise!vars, Ids
  <2>2. CASE Ask
    BY <2>2, AskPromised DEF Promise!Next
  <2>3. CASE Cleanup
    BY <2>3, ReplyPromised DEF Promise!Next
  <2>4. CASE Step /\ ~Cleanup
    BY <2>4, OthersSilent
  <2>5. QED
    BY <2>1, <2>2, <2>3, <2>4 DEF Next
<1>2. QED
  BY <1>1, InitPromised, InitInv, StepInv, PTL DEF Spec, KeepsPromise, Promise!Spec
================================================================================
