-------------------- MODULE ClusterTopologyMonitorProofs --------------------
(***************************************************************************)
(* Proofs about the cluster topology monitor, for every set of hosts,      *)
(* handles and clients and every number of faults.                         *)
(***************************************************************************)
EXTENDS ClusterTopologyMonitor, TLAPS

-----------------------------------------------------------------------------
(* Type correctness.  TypeOK has a part for each group of variables; a     *)
(* step is proved to keep the parts it touches, and the lemma Same keeps   *)
(* the others.                                                             *)

(* A group that is unchanged keeps its types.                              *)
LEMMA Same ==
    ASSUME TypeOK
    PROVE  /\ UNCHANGED <<conn, writer, faults>> => EnvTypeOK'
           /\ UNCHANGED mainVars => MainTypeOK'
           /\ UNCHANGED localVars => LocalTypeOK'
           /\ UNCHANGED shareVars => ShareTypeOK'
           /\ UNCHANGED nodeVars => NodeTypeOK'
           /\ UNCHANGED cacheVars => CacheTypeOK'
           /\ UNCHANGED callVars => CallTypeOK'
           /\ UNCHANGED dtorVars => DtorTypeOK'
<1> USE DEF TypeOK
<1>1. UNCHANGED <<conn, writer, faults>> => EnvTypeOK'
  BY DEF EnvTypeOK
<1>2. UNCHANGED mainVars => MainTypeOK'
  BY DEF MainTypeOK, mainVars
<1>3. UNCHANGED localVars => LocalTypeOK'
  BY DEF LocalTypeOK, localVars
<1>4. UNCHANGED shareVars => ShareTypeOK'
  BY DEF ShareTypeOK, shareVars
<1>5. UNCHANGED nodeVars => NodeTypeOK'
  BY DEF NodeTypeOK, nodeVars
<1>6. UNCHANGED cacheVars => CacheTypeOK'
  BY DEF CacheTypeOK, cacheVars
<1>7. UNCHANGED callVars => CallTypeOK'
  BY DEF CallTypeOK, callVars
<1>8. UNCHANGED dtorVars => DtorTypeOK'
  BY DEF DtorTypeOK, dtorVars
<1>9. QED
  BY <1>1, <1>2, <1>3, <1>4, <1>5, <1>6, <1>7, <1>8

(* A handle that is allocated is a handle, and was free.                   *)
LEMMA FreshIsHandle ==
    ASSUME NEW c, CanAllocate(c)
    PROVE  FreshHandle(c) \in Handles /\ c[FreshHandle(c)] = Free
BY DEF CanAllocate, FreshHandle

(* Freeing handles leaves every handle with a state.                       *)
LEMMA FreedType ==
    ASSUME NEW S, EnvTypeOK
    PROVE  Freed(S) \in [Handles -> Hosts \cup {Free, Closed}]
BY DEF Freed, EnvTypeOK

(* Counting a fault, a query and asking for the writer stay within the     *)
(* bound.                                                                  *)
LEMMA FaultType ==
    ASSUME NEW k, EnvTypeOK, Fault(k)
    PROVE  faults' \in 0..MaxFaults
BY MonitorAssumption DEF Fault, EnvTypeOK, MonitorAssumption

LEMMA QueryType ==
    ASSUME NEW t, EnvTypeOK, QueryTopology(t)
    PROVE  faults' \in 0..MaxFaults
BY FaultType DEF QueryTopology, EnvTypeOK

LEMMA CheckAndQueryType ==
    ASSUME NEW h, NEW t, EnvTypeOK, CheckAndQuery(h, t)
    PROVE  faults' \in 0..MaxFaults
BY QueryType DEF CheckAndQuery, EnvTypeOK

LEMMA GetWriterIdType ==
    ASSUME NEW h, NEW yes, EnvTypeOK, GetWriterId(h, yes)
    PROVE  faults' \in 0..MaxFaults
BY FaultType DEF GetWriterId, EnvTypeOK

(* Starting and joining node threads.                                      *)
LEMMA SpawnType ==
    ASSUME NEW S, NodeTypeOK, MainTypeOK, SpawnNodes(S)
    PROVE  NodeTypeOK'
BY DEF NodeTypeOK, MainTypeOK, SpawnNodes, NodeControl

LEMMA ClearType ==
    ASSUME NodeTypeOK, ClearNodes
    PROVE  NodeTypeOK'
BY DEF NodeTypeOK, ClearNodes, NodeControl

(* Publishing what a query returned.                                       *)
LEMMA PublishType ==
    ASSUME NEW t \in Topology, CacheTypeOK, PublishFetched(t)
    PROVE  CacheTypeOK'
BY DEF CacheTypeOK, PublishFetched, UpdateTopologyCache, cacheVars

LEMMA UpdateType ==
    ASSUME NEW t \in Topology, UpdateTopologyCache(t)
    PROVE  CacheTypeOK'
BY DEF CacheTypeOK, UpdateTopologyCache

(* The initial states have the types.                                      *)
LEMMA InitType == Init => TypeOK
<1> SUFFICES ASSUME Init PROVE TypeOK
  OBVIOUS
<1>1. EnvTypeOK
  BY MonitorAssumption DEF Init, EnvTypeOK, MonitorAssumption
<1>2. MainTypeOK /\ LocalTypeOK /\ ShareTypeOK
  BY DEF Init, MainTypeOK, LocalTypeOK, ShareTypeOK, Handle, Topology
<1>3. NodeTypeOK
  BY DEF Init, NodeTypeOK, NodeControl, Handle, Topology
<1>4. CacheTypeOK
  BY MonitorAssumption DEF Init, CacheTypeOK, MonitorAssumption, Topology
<1>5. CallTypeOK /\ DtorTypeOK
  BY DEF Init, CallTypeOK, CallControl, DtorTypeOK, Topology
<1>6. QED
  BY <1>1, <1>2, <1>3, <1>4, <1>5 DEF Init, TypeOK, MainControl

(* Every step of the main thread keeps the types.                          *)
LEMMA MainType ==
    ASSUME TypeOK, MainStep
    PROVE  TypeOK'
<1> USE DEF TypeOK
<1>1. CASE RunLoop
  BY <1>1, Same DEF RunLoop, MainControl
<1>2. CASE InitNodeMonitors
  <2>1. EnvTypeOK'
    BY <1>2, FreedType DEF InitNodeMonitors, EnvTypeOK
  <2>2. LocalTypeOK'
    BY <1>2 DEF InitNodeMonitors, LocalTypeOK, CacheTypeOK
  <2>3. ShareTypeOK'
    BY <1>2 DEF InitNodeMonitors, ShareTypeOK, Handle, Topology
  <2>4. QED
    BY <1>2, <2>1, <2>2, <2>3, Same DEF InitNodeMonitors, MainControl
<1>3. CASE OpenAnyConn
  <2>1. EnvTypeOK'
    BY <1>3, FreshIsHandle, FaultType DEF OpenAnyConn, EnvTypeOK
  <2>2. LocalTypeOK'
    BY <1>3, FreshIsHandle DEF OpenAnyConn, LocalTypeOK, Handle
  <2>3. QED
    BY <1>3, <2>1, <2>2, Same DEF OpenAnyConn, MainControl
<1>4. CASE SetMainConn
  <2>1. EnvTypeOK'
    BY <1>4, FreedType, GetWriterIdType DEF SetMainConn, EnvTypeOK
  <2>2. MainTypeOK'
    BY <1>4 DEF SetMainConn, MainTypeOK, LocalTypeOK, EnvTypeOK
  <2>3. LocalTypeOK'
    BY <1>4 DEF SetMainConn, LocalTypeOK, Handle
  <2>4. QED
    BY <1>4, <2>1, <2>2, <2>3, Same DEF SetMainConn, MainControl
<1>5. CASE DerefMainConn
  <2>1. LocalTypeOK'
    BY <1>5 DEF DerefMainConn, LocalTypeOK, MainTypeOK
  <2>2. QED
    BY <1>5, <2>1, Same DEF DerefMainConn, MainControl
<1>6. CASE QueryMainConn
  <2>1. EnvTypeOK'
    BY <1>6, CheckAndQueryType DEF QueryMainConn, EnvTypeOK
  <2>2. LocalTypeOK'
    BY <1>6 DEF QueryMainConn, LocalTypeOK, Handle, Topology
  <2>3. QED
    BY <1>6, <2>1, <2>2, Same DEF QueryMainConn, MainControl
<1>7. CASE PublishAnyConn
  <2>1. EnvTypeOK'
    BY <1>7, FreedType DEF PublishAnyConn, EnvTypeOK
  <2>2. MainTypeOK'
    BY <1>7 DEF PublishAnyConn, MainTypeOK, Handle, Stamped
  <2>3. LocalTypeOK'
    BY <1>7 DEF PublishAnyConn, LocalTypeOK
  <2>4. CacheTypeOK'
    BY <1>7, PublishType DEF PublishAnyConn, CacheTypeOK, LocalTypeOK
  <2>5. QED
    BY <1>7, <2>1, <2>2, <2>3, <2>4, Same DEF PublishAnyConn, MainControl
<1>8. CASE SpawnNodeMonitors
  <2>1. LocalTypeOK'
    BY <1>8 DEF SpawnNodeMonitors, LocalTypeOK, Topology
  <2>2. NodeTypeOK'
    BY <1>8, SpawnType, Same DEF SpawnNodeMonitors, NodeTypeOK
  <2>3. QED
    BY <1>8, <2>1, <2>2, Same DEF SpawnNodeMonitors, MainControl
<1>9. CASE AdoptWriterConn
  <2>1. EnvTypeOK'
    BY <1>9, FreedType DEF AdoptWriterConn, EnvTypeOK
  <2>2. MainTypeOK'
    BY <1>9 DEF AdoptWriterConn, MainTypeOK, ShareTypeOK, Stamped
  <2>3. ShareTypeOK'
    BY <1>9 DEF AdoptWriterConn, ShareTypeOK, Handle
  <2>4. QED
    BY <1>9, <2>1, <2>2, <2>3, Same DEF AdoptWriterConn, MainControl
<1>10. CASE JoinNodeMonitors
  <2>1. NodeTypeOK'
    BY <1>10, ClearType DEF JoinNodeMonitors
  <2>2. QED
    BY <1>10, <2>1, Same DEF JoinNodeMonitors, MainControl
<1>11. CASE KeepMonitoring
  <2>1. NodeTypeOK'
    BY <1>11, SpawnType, Same DEF KeepMonitoring, NodeTypeOK
  <2>2. QED
    BY <1>11, <2>1, Same DEF KeepMonitoring, MainControl
<1>12. CASE DelayAndTiming
  <2>1. MainTypeOK'
    BY <1>12 DEF DelayAndTiming, MainTypeOK
  <2>2. QED
    BY <1>12, <2>1, Same DEF DelayAndTiming, MainControl
<1>13. CASE RegularFetch
  <2>1. EnvTypeOK'
    BY <1>13, CheckAndQueryType DEF RegularFetch, EnvTypeOK
  <2>2. LocalTypeOK'
    BY <1>13 DEF RegularFetch, LocalTypeOK, Topology
  <2>3. NodeTypeOK'
    BY <1>13, ClearType DEF RegularFetch
  <2>4. QED
    BY <1>13, <2>1, <2>2, <2>3, Same DEF RegularFetch, MainControl
<1>14. CASE RegularPublish
  <2>1. EnvTypeOK'
    BY <1>14, FreedType DEF RegularPublish, EnvTypeOK
  <2>2. MainTypeOK'
    BY <1>14 DEF RegularPublish, MainTypeOK, Handle
  <2>3. LocalTypeOK'
    BY <1>14 DEF RegularPublish, LocalTypeOK, Topology
  <2>4. CacheTypeOK'
    BY <1>14, PublishType DEF RegularPublish, CacheTypeOK, LocalTypeOK
  <2>5. QED
    BY <1>14, <2>1, <2>2, <2>3, <2>4, Same DEF RegularPublish, MainControl
<1>15. QED
  BY <1>1, <1>2, <1>3, <1>4, <1>5, <1>6, <1>7, <1>8, <1>9, <1>10, <1>11,
     <1>12, <1>13, <1>14 DEF MainStep

(* Every step of a node monitoring thread keeps the types.                 *)
LEMMA NodeType ==
    ASSUME TypeOK, NEW n \in Hosts, NodeStep(n)
    PROVE  TypeOK'
<1> USE DEF TypeOK
<1>1. CASE NodeExit(n)
  <2>1. EnvTypeOK'
    BY <1>1, FreedType DEF NodeExit, EnvTypeOK
  <2>2. NodeTypeOK'
    BY <1>1 DEF NodeExit, NodeTypeOK, Handle, NodeControl
  <2>3. QED
    BY <1>1, <2>1, <2>2, Same DEF NodeExit
<1>2. CASE NodeReconnect(n)
  <2> DEFINE left == Freed({hdbc[n]})
  <2>1. left \in [Handles -> Hosts \cup {Free, Closed}]
    BY FreedType
  <2>2. FreshHandle(left) \in Handles
    BY <1>2, FreshIsHandle DEF NodeReconnect
  <2>3. EnvTypeOK'
    BY <1>2, <2>1, <2>2, FaultType DEF NodeReconnect, EnvTypeOK
  <2>4. NodeTypeOK'
    BY <1>2, <2>2 DEF NodeReconnect, NodeTypeOK, Handle
  <2>5. QED
    BY <1>2, <2>3, <2>4, Same DEF NodeReconnect, TypeOK
<1>3. CASE NodeDetect(n)
  <2>1. EnvTypeOK'
    BY <1>3, GetWriterIdType DEF NodeDetect, EnvTypeOK
  <2>2. NodeTypeOK'
    BY <1>3 DEF NodeDetect, NodeTypeOK, NodeControl
  <2>3. QED
    BY <1>3, <2>1, <2>2, Same DEF NodeDetect
<1>4. CASE NodeWriterDuplicate(n)
  <2>1. EnvTypeOK'
    BY <1>4, FreedType DEF NodeWriterDuplicate, EnvTypeOK
  <2>2. NodeTypeOK'
    BY <1>4 DEF NodeWriterDuplicate, NodeTypeOK, Handle, NodeControl
  <2>3. QED
    BY <1>4, <2>1, <2>2, Same DEF NodeWriterDuplicate
<1>5. CASE NodeWriterConn(n)
  <2>1. EnvTypeOK'
    BY <1>5, CheckAndQueryType DEF NodeWriterConn, EnvTypeOK
  <2>2. ShareTypeOK'
    BY <1>5 DEF NodeWriterConn, ShareTypeOK, NodeTypeOK
  <2>3. NodeTypeOK'
    BY <1>5 DEF NodeWriterConn, NodeTypeOK, NodeControl, Topology
  <2>4. QED
    BY <1>5, <2>1, <2>2, <2>3, Same DEF NodeWriterConn
<1>6. CASE NodeWriterPublish(n)
  <2>1. ShareTypeOK'
    BY <1>6 DEF NodeWriterPublish, ShareTypeOK
  <2>2. NodeTypeOK'
    BY <1>6 DEF NodeWriterPublish, NodeTypeOK, Handle, NodeControl,
       Topology
  <2>3. CacheTypeOK'
    BY <1>6, PublishType DEF NodeWriterPublish, CacheTypeOK, NodeTypeOK
  <2>4. QED
    BY <1>6, <2>1, <2>2, <2>3, Same DEF NodeWriterPublish
<1>7. CASE NodeReaderIdle(n)
  <2>1. NodeTypeOK'
    BY <1>7 DEF NodeReaderIdle, NodeTypeOK, NodeControl
  <2>2. QED
    BY <1>7, <2>1, Same DEF NodeReaderIdle
<1>8. CASE NodeReaderRefresh(n)
  <2>1. EnvTypeOK'
    BY <1>8, QueryType DEF NodeReaderRefresh, EnvTypeOK, ReaderFetch
  <2>2. NodeTypeOK'
    BY <1>8 DEF NodeReaderRefresh, NodeTypeOK, ReaderFetch, NodeControl,
       Topology
  <2>3. QED
    BY <1>8, <2>1, <2>2, Same DEF NodeReaderRefresh
<1>9. CASE NodeReaderClaim(n)
  <2>1. EnvTypeOK'
    BY <1>9, QueryType DEF NodeReaderClaim, EnvTypeOK, ReaderFetch
  <2>2. ShareTypeOK'
    BY <1>9 DEF NodeReaderClaim, ShareTypeOK, NodeTypeOK
  <2>3. NodeTypeOK'
    BY <1>9 DEF NodeReaderClaim, NodeTypeOK, ReaderFetch, NodeControl,
       Topology, Handle
  <2>4. QED
    BY <1>9, <2>1, <2>2, <2>3, Same DEF NodeReaderClaim
<1>10. CASE NodeReaderPublish(n)
  <2>1. ShareTypeOK'
    BY <1>10 DEF NodeReaderPublish, ShareTypeOK, NodeTypeOK
  <2>2. NodeTypeOK'
    BY <1>10 DEF NodeReaderPublish, NodeTypeOK, NodeControl, Topology,
       MatchesKnownWriter
  <2>3. CacheTypeOK'
    BY <1>10, UpdateType, Same DEF NodeReaderPublish, CacheTypeOK,
       NodeTypeOK
  <2>4. QED
    BY <1>10, <2>1, <2>2, <2>3, Same DEF NodeReaderPublish
<1>11. QED
  BY <1>1, <1>2, <1>3, <1>4, <1>5, <1>6, <1>7, <1>8, <1>9, <1>10 DEF
     NodeStep

(* Every step of a client keeps the types.                                 *)
LEMMA CallType ==
    ASSUME TypeOK, NEW c \in Callers, CallForceRefresh(c) \/ CallStep(c)
    PROVE  TypeOK'
<1> USE DEF TypeOK
<1>1. CASE CallForceRefresh(c)
  <2>1. CallTypeOK'
    BY <1>1 DEF CallForceRefresh, CallTypeOK, CallControl
  <2>2. QED
    BY <1>1, <2>1, Same DEF CallForceRefresh
<1>2. CASE CallDropMainConn(c)
  <2>1. EnvTypeOK'
    BY <1>2, FreedType DEF CallDropMainConn, EnvTypeOK
  <2>2. MainTypeOK'
    BY <1>2 DEF CallDropMainConn, MainTypeOK, Handle
  <2>3. CallTypeOK'
    BY <1>2 DEF CallDropMainConn, CallTypeOK, CallControl
  <2>4. QED
    BY <1>2, <2>1, <2>2, <2>3, Same DEF CallDropMainConn
<1>3. CASE CallReadCache(c)
  <2>1. CallTypeOK'
    BY <1>3 DEF CallReadCache, CallTypeOK, CallControl, CacheTypeOK
  <2>2. QED
    BY <1>3, <2>1, Same DEF CallReadCache
<1>4. CASE CallRaiseRequest(c)
  <2>1. CacheTypeOK'
    BY <1>4 DEF CallRaiseRequest, CacheTypeOK
  <2>2. CallTypeOK'
    BY <1>4 DEF CallRaiseRequest, CallTypeOK, CallControl
  <2>3. QED
    BY <1>4, <2>1, <2>2, Same DEF CallRaiseRequest
<1>5. CASE CallWake(c)
  <2>1. CallTypeOK'
    BY <1>5 DEF CallWake, CallTypeOK, CallControl, CacheTypeOK, Topology
  <2>2. QED
    BY <1>5, <2>1, Same DEF CallWake
<1>6. CASE CallPutBack(c)
  <2>1. CacheTypeOK'
    BY <1>6 DEF CallPutBack, CacheTypeOK, CallTypeOK
  <2>2. CallTypeOK'
    BY <1>6 DEF CallPutBack, CallTypeOK, CallControl, Topology
  <2>3. QED
    BY <1>6, <2>1, <2>2, Same DEF CallPutBack
<1>7. CASE CallFetch(c)
  <2>1. EnvTypeOK'
    BY <1>7, QueryType DEF CallFetch, EnvTypeOK
  <2>2. CallTypeOK'
    BY <1>7 DEF CallFetch, CallTypeOK, CallControl, Topology
  <2>3. QED
    BY <1>7, <2>1, <2>2, Same DEF CallFetch
<1>8. CASE CallPublish(c)
  <2>1. CacheTypeOK'
    BY <1>8, PublishType DEF CallPublish, CacheTypeOK, CallTypeOK
  <2>2. CallTypeOK'
    BY <1>8 DEF CallPublish, CallTypeOK, CallControl, Topology
  <2>3. QED
    BY <1>8, <2>1, <2>2, Same DEF CallPublish
<1>9. QED
  BY <1>1, <1>2, <1>3, <1>4, <1>5, <1>6, <1>7, <1>8 DEF CallStep

(* Every step of the destructor and of the environment keeps the types.    *)
LEMMA RestType ==
    ASSUME TypeOK, DestroyStep \/ EnvStep
    PROVE  TypeOK'
<1> USE DEF TypeOK
<1>1. CASE BeginDestroy
  <2>1. CacheTypeOK'
    BY <1>1 DEF BeginDestroy, CacheTypeOK
  <2>2. DtorTypeOK'
    BY <1>1 DEF BeginDestroy, DtorTypeOK
  <2>3. QED
    BY <1>1, <2>1, <2>2, Same DEF BeginDestroy
<1>2. CASE DestroyNodeMonitors
  <2>1. NodeTypeOK'
    BY <1>2, ClearType DEF DestroyNodeMonitors
  <2>2. DtorTypeOK'
    BY <1>2 DEF DestroyNodeMonitors, DtorTypeOK
  <2>3. QED
    BY <1>2, <2>1, <2>2, Same DEF DestroyNodeMonitors
<1>3. CASE DestroyMainMonitor
  <2>1. EnvTypeOK'
    BY <1>3, FreedType DEF DestroyMainMonitor, EnvTypeOK
  <2>2. MainTypeOK'
    BY <1>3 DEF DestroyMainMonitor, MainTypeOK, Handle
  <2>3. DtorTypeOK'
    BY <1>3 DEF DestroyMainMonitor, DtorTypeOK
  <2>4. QED
    BY <1>3, <2>1, <2>2, <2>3, Same DEF DestroyMainMonitor
<1>4. CASE Failover
  <2>1. EnvTypeOK'
    BY <1>4, FaultType DEF Failover, EnvTypeOK
  <2>2. QED
    BY <1>4, <2>1, Same DEF Failover
<1>5. CASE \E h \in Handles : Drop(h)
  <2>1. EnvTypeOK'
    BY <1>5, FaultType DEF Drop, EnvTypeOK
  <2>2. QED
    BY <1>5, <2>1, Same DEF Drop
<1>6. CASE Expire
  <2>1. EnvTypeOK'
    BY <1>6, FaultType DEF Expire, EnvTypeOK
  <2>2. CacheTypeOK'
    BY <1>6 DEF Expire, CacheTypeOK, Topology
  <2>3. QED
    BY <1>6, <2>1, <2>2, Same DEF Expire
<1>7. CASE WindowEnds
  <2>1. MainTypeOK'
    BY <1>7 DEF WindowEnds, MainTypeOK
  <2>2. QED
    BY <1>7, <2>1, Same DEF WindowEnds
<1>8. QED
  BY <1>1, <1>2, <1>3, <1>4, <1>5, <1>6, <1>7 DEF DestroyStep, EnvStep

LEMMA StutterType == TypeOK /\ UNCHANGED vars => TypeOK'
BY Same DEF vars, TypeOK

LEMMA NextType == TypeOK /\ [Next]_vars => TypeOK'
BY MainType, NodeType, CallType, RestType, StutterType DEF Next

(* The type invariant holds in every instance of the model: no step of any *)
(* thread takes a member of the monitor outside its type, and a handle     *)
(* that is assigned is one that was allocated.                             *)
THEOREM TypeCorrect == Spec => []TypeOK
<1>1. Init => TypeOK
  BY InitType
<1>2. TypeOK /\ [Next]_vars => TypeOK'
  BY NextType
<1>3. QED
  BY <1>1, <1>2, PTL DEF Spec

-----------------------------------------------------------------------------
(* The safety invariants.  None of them is inductive by itself; Inv adds   *)
(* what they rest on: init_node_monitors runs only while there are no node *)
(* threads, the main thread looks for a writer only without a writer       *)
(* connection, and a node thread that reached a server has a handle.       *)

MainInv ==
    /\ mpc \in {"init", "open", "set", "deref", "query", "publish", "spawn"}
          => NodesEmpty
    /\ mpc \in {"init", "open", "set", "adopt"} => ~is_writer_connection
    /\ is_writer_connection /\ dpc # "members" => main_hdbc # Null
    /\ dpc = "members" => mpc = "done"

ThreadInv ==
    \A n \in Hosts :
        /\ npc[n] = "off" => ~reader_update[n]
        /\ npc[n] \in {"writer", "publishWriter", "reader"} => hdbc[n] # Null

Inv == /\ MainInv /\ ThreadInv
       /\ HandOverStopsNodes /\ RegularModeStopsNodes /\ ReaderConnectionStays

(* What a node thread can do to the state the invariants speak of.         *)
LEMMA NodeFrame ==
    ASSUME TypeOK, NEW n \in Hosts, NodeStep(n)
    PROVE  /\ UNCHANGED <<mainVars, mpc, dtorVars>>
           /\ npc[n] \notin {"off", "done"}
           /\ npc' = [npc EXCEPT ![n] = npc'[n]]
           /\ npc'[n] # "off"
           /\ node_threads_stop => node_threads_stop'
<1> USE DEF TypeOK, NodeTypeOK
<1>1. CASE NodeExit(n)
  BY <1>1 DEF NodeExit
<1>2. CASE NodeReconnect(n)
  BY <1>2 DEF NodeReconnect
<1>3. CASE NodeDetect(n)
  BY <1>3 DEF NodeDetect
<1>4. CASE NodeWriterDuplicate(n)
  BY <1>4 DEF NodeWriterDuplicate
<1>5. CASE NodeWriterConn(n)
  BY <1>5 DEF NodeWriterConn
<1>6. CASE NodeWriterPublish(n)
  BY <1>6 DEF NodeWriterPublish
<1>7. CASE NodeReaderIdle(n)
  BY <1>7 DEF NodeReaderIdle
<1>8. CASE NodeReaderRefresh(n)
  BY <1>8 DEF NodeReaderRefresh, ReaderFetch
<1>9. CASE NodeReaderClaim(n)
  BY <1>9 DEF NodeReaderClaim, ReaderFetch
<1>10. CASE NodeReaderPublish(n)
  BY <1>10 DEF NodeReaderPublish
<1>11. QED
  BY <1>1, <1>2, <1>3, <1>4, <1>5, <1>6, <1>7, <1>8, <1>9, <1>10 DEF NodeStep

(* What a client can do to it: only take the connection away.              *)
LEMMA CallFrame ==
    ASSUME NEW c \in Callers, CallForceRefresh(c) \/ CallStep(c)
    PROVE  /\ UNCHANGED <<mpc, shareVars, nodeVars, node_threads_stop,
                          dtorVars>>
           /\ \/ UNCHANGED <<main_hdbc, is_writer_connection>>
              \/ is_writer_connection' = FALSE
BY DEF CallForceRefresh, CallStep, CallDropMainConn, CallReadCache,
       CallRaiseRequest, CallWake, CallPutBack, CallFetch, CallPublish,
       mainVars

(* What the environment can do to it.                                      *)
LEMMA EnvFrame ==
    ASSUME EnvStep
    PROVE  UNCHANGED <<mpc, main_hdbc, is_writer_connection, shareVars,
                       nodeVars, node_threads_stop, dtorVars>>
BY DEF EnvStep, Failover, Drop, Expire, WindowEnds, mainVars

LEMMA SpawnFrame ==
    ASSUME TypeOK, NEW S, SpawnNodes(S)
    PROVE  /\ \A n \in Hosts : npc'[n] = npc[n] \/ npc[n] = "off"
           /\ \A n \in Hosts : npc'[n] = npc[n] \/ npc'[n] = "top"
           /\ UNCHANGED <<hdbc, reader_update>>
BY DEF SpawnNodes, TypeOK, NodeTypeOK

LEMMA ClearFrame ==
    ASSUME TypeOK, ClearNodes
    PROVE  /\ NodesJoinable
           /\ \A n \in Hosts : npc'[n] = "off" /\ ~reader_update'[n]
BY DEF ClearNodes, TypeOK, NodeTypeOK

LEMMA InitInv == Init => Inv
BY DEF Init, Inv, MainInv, ThreadInv, HandOverStopsNodes,
       RegularModeStopsNodes, ReaderConnectionStays, NodesEmpty

(* A step that leaves the state of the invariants alone, up to taking the  *)
(* writer connection away, keeps them.                                     *)
LEMMA FrameInv ==
    ASSUME Inv,
           UNCHANGED <<mpc, shareVars, nodeVars, node_threads_stop, dtorVars>>,
           \/ UNCHANGED <<main_hdbc, is_writer_connection>>
           \/ is_writer_connection' = FALSE
    PROVE  Inv'
<1> USE DEF Inv, shareVars, nodeVars, dtorVars
<1>1. MainInv'
  BY DEF MainInv, NodesEmpty
<1>2. ThreadInv' /\ ReaderConnectionStays'
  BY DEF ThreadInv, ReaderConnectionStays
<1>3. HandOverStopsNodes'
  BY DEF HandOverStopsNodes
<1>4. RegularModeStopsNodes'
  BY DEF RegularModeStopsNodes, NodesEmpty
<1>5. QED
  BY <1>1, <1>2, <1>3, <1>4

LEMMA NodeInv ==
    ASSUME TypeOK, Inv, NEW n \in Hosts, NodeStep(n)
    PROVE  Inv'
<1> USE DEF Inv
<1>1. ~NodesEmpty /\ UNCHANGED <<mainVars, mpc, dtorVars>>
  BY NodeFrame DEF NodesEmpty
<1>2. MainInv'
  BY <1>1 DEF MainInv, mainVars, dtorVars
<1>3. RegularModeStopsNodes'
  BY <1>1, NodeFrame DEF RegularModeStopsNodes, mainVars
<1>4. ThreadInv' /\ HandOverStopsNodes' /\ ReaderConnectionStays'
  <2> USE DEF TypeOK, NodeTypeOK, ThreadInv, HandOverStopsNodes,
              ReaderConnectionStays, shareVars, nodeVars
  <2>1. CASE NodeExit(n)
    BY <2>1 DEF NodeExit
  <2>2. CASE NodeReconnect(n)
    BY <2>2 DEF NodeReconnect
  <2>3. CASE NodeDetect(n)
    BY <2>3 DEF NodeDetect, Alive
  <2>4. CASE NodeWriterDuplicate(n)
    BY <2>4 DEF NodeWriterDuplicate
  <2>5. CASE NodeWriterConn(n)
    BY <2>5 DEF NodeWriterConn
  <2>6. CASE NodeWriterPublish(n)
    BY <2>6 DEF NodeWriterPublish
  <2>7. CASE NodeReaderIdle(n)
    BY <2>7 DEF NodeReaderIdle
  <2>8. CASE NodeReaderRefresh(n)
    BY <2>8 DEF NodeReaderRefresh, ReaderFetch
  <2>9. CASE NodeReaderClaim(n)
    BY <2>9 DEF NodeReaderClaim, ReaderFetch
  <2>10. CASE NodeReaderPublish(n)
    BY <2>10 DEF NodeReaderPublish
  <2>11. QED
    BY <2>1, <2>2, <2>3, <2>4, <2>5, <2>6, <2>7, <2>8, <2>9, <2>10
       DEF NodeStep
<1>5. QED
  BY <1>2, <1>3, <1>4

LEMMA MainThreadInv ==
    ASSUME TypeOK, Inv, MainStep
    PROVE  Inv'
<1> USE DEF Inv
<1>1. CASE RunLoop
  <2>1. MainInv'
    BY <1>1 DEF RunLoop, MainInv, InPanicMode, NodesEmpty, TypeOK, DtorTypeOK,
                mainVars, nodeVars, dtorVars
  <2>2. QED
    BY <1>1, <2>1 DEF RunLoop, ThreadInv, HandOverStopsNodes,
       RegularModeStopsNodes, ReaderConnectionStays, NodesEmpty, mainVars,
       shareVars, nodeVars
<1>2. CASE InitNodeMonitors
  <2>1. NodesEmpty /\ ~is_writer_connection /\ UNCHANGED <<mainVars, nodeVars>>
    BY <1>2 DEF InitNodeMonitors, MainInv
  <2>2. MainInv' /\ RegularModeStopsNodes'
    BY <1>2, <2>1 DEF InitNodeMonitors, MainInv, RegularModeStopsNodes,
       NodesEmpty, mainVars, nodeVars, dtorVars
  <2>3. ThreadInv' /\ HandOverStopsNodes' /\ ReaderConnectionStays'
    BY <1>2, <2>1 DEF InitNodeMonitors, ThreadInv, HandOverStopsNodes,
       ReaderConnectionStays, NodesEmpty, nodeVars
  <2>4. QED
    BY <2>2, <2>3
<1>3. CASE OpenAnyConn
  BY <1>3 DEF OpenAnyConn, MainInv, ThreadInv, HandOverStopsNodes,
     RegularModeStopsNodes, ReaderConnectionStays, NodesEmpty, mainVars,
     shareVars, nodeVars, dtorVars
<1>4. CASE SetMainConn
  <2>1. NodesEmpty /\ UNCHANGED <<shareVars, nodeVars>>
    BY <1>4 DEF SetMainConn, MainInv
  <2>2. QED
    BY <1>4, <2>1 DEF SetMainConn, MainInv, ThreadInv, HandOverStopsNodes,
       RegularModeStopsNodes, ReaderConnectionStays, NodesEmpty, GetWriterId,
       OnWriter, shareVars, nodeVars, dtorVars
<1>5. CASE DerefMainConn
  BY <1>5 DEF DerefMainConn, MainInv, ThreadInv, HandOverStopsNodes,
     RegularModeStopsNodes, ReaderConnectionStays, NodesEmpty, mainVars,
     shareVars, nodeVars, dtorVars
<1>6. CASE QueryMainConn
  BY <1>6 DEF QueryMainConn, MainInv, ThreadInv, HandOverStopsNodes,
     RegularModeStopsNodes, ReaderConnectionStays, NodesEmpty, mainVars,
     shareVars, nodeVars, dtorVars
<1>7. CASE PublishAnyConn
  BY <1>7 DEF PublishAnyConn, MainInv, ThreadInv, HandOverStopsNodes,
     RegularModeStopsNodes, ReaderConnectionStays, NodesEmpty, shareVars,
     nodeVars, dtorVars
<1>8. CASE SpawnNodeMonitors
  <2>1. /\ UNCHANGED <<mainVars, shareVars, node_threads_stop, dtorVars>>
        /\ mpc = "spawn" /\ mpc' = "delay"
    BY <1>8 DEF SpawnNodeMonitors
  <2>2. CASE hosts # Null /\ ~is_writer_connection
    <3>1. SpawnNodes(hosts.m)
      BY <1>8, <2>2 DEF SpawnNodeMonitors
    <3>2. QED
      BY <2>1, <2>2, <3>1, SpawnFrame DEF MainInv, ThreadInv,
         HandOverStopsNodes, RegularModeStopsNodes, ReaderConnectionStays,
         mainVars, shareVars, dtorVars
  <2>3. CASE ~(hosts # Null /\ ~is_writer_connection)
    BY <1>8, <2>1, <2>3 DEF SpawnNodeMonitors, MainInv, ThreadInv,
       HandOverStopsNodes, RegularModeStopsNodes, ReaderConnectionStays,
       NodesEmpty, mainVars, shareVars, nodeVars, dtorVars
  <2>4. QED
    BY <2>2, <2>3
<1>9. CASE AdoptWriterConn
  BY <1>9 DEF AdoptWriterConn, MainInv, ThreadInv, HandOverStopsNodes,
     RegularModeStopsNodes, ReaderConnectionStays, Alive, nodeVars, dtorVars
<1>10. CASE JoinNodeMonitors
  BY <1>10, ClearFrame DEF JoinNodeMonitors, MainInv, ThreadInv,
     HandOverStopsNodes, RegularModeStopsNodes, ReaderConnectionStays,
     NodesEmpty, NodesJoinable, mainVars, shareVars, dtorVars
<1>11. CASE KeepMonitoring
  <2>1. /\ UNCHANGED <<mainVars, shareVars, node_threads_stop, dtorVars>>
        /\ mpc = "adopt" /\ mpc' = "delay" /\ ~is_writer_connection
    BY <1>11 DEF KeepMonitoring, MainInv
  <2>2. CASE latest_topology # Null
    <3>1. SpawnNodes(latest_topology.m)
      BY <1>11, <2>2 DEF KeepMonitoring
    <3>2. QED
      BY <2>1, <3>1, SpawnFrame DEF MainInv, ThreadInv, HandOverStopsNodes,
         RegularModeStopsNodes, ReaderConnectionStays, mainVars, shareVars,
         dtorVars
  <2>3. CASE latest_topology = Null
    BY <1>11, <2>1, <2>3 DEF KeepMonitoring, MainInv, ThreadInv,
       HandOverStopsNodes, RegularModeStopsNodes, ReaderConnectionStays,
       mainVars, shareVars, nodeVars, dtorVars
  <2>4. QED
    BY <2>2, <2>3
<1>12. CASE DelayAndTiming
  BY <1>12 DEF DelayAndTiming, MainInv, ThreadInv, HandOverStopsNodes,
     RegularModeStopsNodes, ReaderConnectionStays, NodesEmpty, shareVars,
     nodeVars, dtorVars
<1>13. CASE RegularFetch
  BY <1>13, ClearFrame DEF RegularFetch, MainInv, ThreadInv,
     HandOverStopsNodes, RegularModeStopsNodes, ReaderConnectionStays,
     NodesEmpty, NodesJoinable, mainVars, shareVars, dtorVars
<1>14. CASE RegularPublish
  BY <1>14 DEF RegularPublish, MainInv, ThreadInv, HandOverStopsNodes,
     RegularModeStopsNodes, ReaderConnectionStays, NodesEmpty, shareVars,
     nodeVars, dtorVars
<1>15. QED
  BY <1>1, <1>2, <1>3, <1>4, <1>5, <1>6, <1>7, <1>8, <1>9, <1>10, <1>11,
     <1>12, <1>13, <1>14 DEF MainStep

LEMMA DestroyInv ==
    ASSUME TypeOK, Inv, DestroyStep
    PROVE  Inv'
<1> USE DEF Inv
<1>1. CASE BeginDestroy
  BY <1>1 DEF BeginDestroy, MainInv, ThreadInv, HandOverStopsNodes,
     RegularModeStopsNodes, ReaderConnectionStays, NodesEmpty, mainVars,
     shareVars, nodeVars
<1>2. CASE DestroyNodeMonitors
  BY <1>2, ClearFrame DEF DestroyNodeMonitors, MainInv, ThreadInv,
     HandOverStopsNodes, RegularModeStopsNodes, ReaderConnectionStays,
     NodesEmpty, NodesJoinable, mainVars, shareVars
<1>3. CASE DestroyMainMonitor
  BY <1>3 DEF DestroyMainMonitor, MainInv, ThreadInv, HandOverStopsNodes,
     RegularModeStopsNodes, ReaderConnectionStays, NodesEmpty, shareVars,
     nodeVars
<1>4. QED
  BY <1>1, <1>2, <1>3 DEF DestroyStep

LEMMA NextInv == TypeOK /\ Inv /\ [Next]_vars => Inv'
<1> SUFFICES ASSUME TypeOK, Inv, [Next]_vars PROVE Inv'
  OBVIOUS
<1>1. CASE MainStep
  BY <1>1, MainThreadInv
<1>2. CASE \E n \in Hosts : NodeStep(n)
  BY <1>2, NodeInv
<1>3. CASE \E c \in Callers : CallForceRefresh(c) \/ CallStep(c)
  BY <1>3, CallFrame, FrameInv
<1>4. CASE DestroyStep
  BY <1>4, DestroyInv
<1>5. CASE EnvStep
  BY <1>5, EnvFrame, FrameInv
<1>6. CASE UNCHANGED vars
  BY <1>6, FrameInv DEF vars, mainVars
<1>7. QED
  BY <1>1, <1>2, <1>3, <1>4, <1>5, <1>6 DEF Next

LEMMA InvHolds == Spec => []Inv
<1>1. Init => TypeOK /\ Inv
  BY InitType, InitInv
<1>2. TypeOK /\ Inv /\ [Next]_vars => TypeOK' /\ Inv'
  BY NextType, NextInv
<1>3. QED
  BY <1>1, <1>2, PTL DEF Spec

(* A connection handed over by handle_writer_conn always comes with the    *)
(* order to stop for the other node threads, in every instance.            *)
THEOREM HandOverStops == Spec => []HandOverStopsNodes
<1>1. Inv => HandOverStopsNodes
  BY DEF Inv
<1>2. QED
  BY <1>1, InvHolds, PTL

(* With a writer connection of its own the main thread never leaves node   *)
(* threads running unstopped, in every instance.                           *)
THEOREM RegularModeStops == Spec => []RegularModeStopsNodes
<1>1. Inv => RegularModeStopsNodes
  BY DEF Inv
<1>2. QED
  BY <1>1, InvHolds, PTL

(* The unlocked dereference of node_threads_reader_hdbc_ in                *)
(* reader_thread_fetch_topology never meets a null pointer and has one     *)
(* user only, in every instance.                                           *)
THEOREM ReaderConnectionIsStable == Spec => []ReaderConnectionStays
<1>1. Inv => ReaderConnectionStays
  BY DEF Inv
<1>2. QED
  BY <1>1, InvHolds, PTL

-----------------------------------------------------------------------------
(* Connection handles.  The parts of Owners name each place that owns a    *)
(* handle: no two of them hold the same one, what they hold is allocated,  *)
(* and what is allocated is held by one of them.                           *)

Opening == IF mpc = "set" THEN local_hdbc ELSE Null

Apart(a, b) == a # Null => a # b

MembersApart ==
    /\ Apart(main_hdbc, node_writer_hdbc) /\ Apart(main_hdbc, node_reader_hdbc)
    /\ Apart(main_hdbc, Opening) /\ Apart(node_writer_hdbc, node_reader_hdbc)
    /\ Apart(node_writer_hdbc, Opening) /\ Apart(node_reader_hdbc, Opening)

NodesApart ==
    \A n \in Hosts :
        /\ Apart(NodeSlot(n), main_hdbc) /\ Apart(NodeSlot(n), node_writer_hdbc)
        /\ Apart(NodeSlot(n), node_reader_hdbc) /\ Apart(NodeSlot(n), Opening)
        /\ \A m \in Hosts \ {n} : Apart(NodeSlot(n), NodeSlot(m))

Allocated(h) == h # Null => conn[h] # Free

OwnedAllocated ==
    /\ Allocated(main_hdbc) /\ Allocated(node_writer_hdbc)
    /\ Allocated(node_reader_hdbc) /\ Allocated(Opening)
    /\ \A n \in Hosts : Allocated(NodeSlot(n))

AllocatedOwned ==
    \A h \in Handles : conn[h] # Free =>
        \/ h \in {main_hdbc, node_writer_hdbc, node_reader_hdbc, Opening}
        \/ \E n \in Hosts : NodeSlot(n) = h

Owners == MembersApart /\ NodesApart /\ OwnedAllocated /\ AllocatedOwned

(* Where connections lead: a node thread's to its own host, and one that   *)
(* is handed over to the host named with it, which the thread that holds   *)
(* the mutex is about to do.                                               *)
LeadsTo(h, n) == h # Null => conn[h] \notin Hosts \ {n}

Destinations ==
    /\ \A n \in Hosts : LeadsTo(hdbc[n], n)
    /\ \A n \in Hosts : npc[n] = "publishWriter" =>
          /\ hdbc[n] # Null /\ node_writer_hdbc = hdbc[n]
          /\ \A m \in Hosts \ {n} : npc[m] # "publishWriter"
    /\ (\A n \in Hosts : npc[n] # "publishWriter")
          => LeadsTo(node_writer_hdbc, node_writer_host)
    /\ is_writer_connection => LeadsTo(main_hdbc, main_writer_host)

(* A step that moves no handle keeps the owners.                           *)
LEMMA SameOwners ==
    ASSUME Owners,
           UNCHANGED <<conn, main_hdbc, node_writer_hdbc, node_reader_hdbc,
                       Opening>>,
           \A n \in Hosts : NodeSlot(n)' = NodeSlot(n)
    PROVE  Owners'
BY DEF Owners, MembersApart, NodesApart, OwnedAllocated, AllocatedOwned, Apart,
       Allocated

(* What Freed does to the handle of a slot, and to the others.             *)
LEMMA FreedConn ==
    ASSUME NEW S, NEW h \in Handles
    PROVE  /\ h \in S => Freed(S)[h] = Free
           /\ h \notin S => Freed(S)[h] = conn[h]
BY DEF Freed

LEMMA NodeSlotType ==
    ASSUME TypeOK, NEW n \in Hosts
    PROVE  NodeSlot(n) \in Handles \cup {Null}
BY DEF TypeOK, NodeTypeOK, NodeSlot, Handle

LEMMA OpeningType ==
    ASSUME TypeOK
    PROVE  Opening \in Handles \cup {Null}
BY DEF TypeOK, LocalTypeOK, Opening, Handle

LEMMA InitOwners == Init => Owners
BY DEF Init, Owners, MembersApart, NodesApart, OwnedAllocated, AllocatedOwned,
       Apart, Allocated, Opening, NodeSlot

(* The disposal of the connection of the main thread.                      *)
LEMMA DropMainOwners ==
    ASSUME TypeOK, Owners, conn' = Freed({main_hdbc}), main_hdbc' = Null,
           UNCHANGED <<node_writer_hdbc, node_reader_hdbc, Opening>>,
           \A n \in Hosts : NodeSlot(n)' = NodeSlot(n)
    PROVE  Owners'
<1> USE MonitorAssumption, NodeSlotType, OpeningType DEF MonitorAssumption
<1>1. MembersApart' /\ NodesApart'
  BY DEF Owners, MembersApart, NodesApart, Apart
<1>2. OwnedAllocated'
  BY DEF Owners, OwnedAllocated, MembersApart, NodesApart, Apart, Allocated,
         Freed, TypeOK, ShareTypeOK, Handle
<1>3. AllocatedOwned'
  BY DEF Owners, AllocatedOwned, Freed, TypeOK, EnvTypeOK
<1>4. QED
  BY <1>1, <1>2, <1>3 DEF Owners

LEMMA InitNodeMonitorsOwners ==
    ASSUME TypeOK, Owners, InitNodeMonitors
    PROVE  Owners'
<1> USE MonitorAssumption, NodeSlotType, OpeningType DEF MonitorAssumption
<1>1. /\ conn' = Freed({node_writer_hdbc, node_reader_hdbc})
      /\ node_writer_hdbc' = Null /\ node_reader_hdbc' = Null
      /\ main_hdbc' = main_hdbc /\ Opening = Null /\ Opening' = Null
      /\ \A n \in Hosts : NodeSlot(n)' = NodeSlot(n)
  BY DEF InitNodeMonitors, Opening, NodeSlot, nodeVars, mainVars
<1>2. MembersApart' /\ NodesApart'
  BY <1>1 DEF Owners, MembersApart, NodesApart, Apart
<1>3. OwnedAllocated'
  BY <1>1 DEF Owners, OwnedAllocated, MembersApart, NodesApart, Apart, Allocated,
         Freed, TypeOK, MainTypeOK, Handle
<1>4. AllocatedOwned'
  BY <1>1 DEF Owners, AllocatedOwned, Freed, TypeOK, EnvTypeOK
<1>5. QED
  BY <1>2, <1>3, <1>4 DEF Owners

LEMMA OpenAnyConnOwners ==
    ASSUME TypeOK, Owners, OpenAnyConn
    PROVE  Owners'
<1>1. /\ UNCHANGED <<main_hdbc, node_writer_hdbc, node_reader_hdbc>>
      /\ \A n \in Hosts : NodeSlot(n)' = NodeSlot(n)
      /\ Opening = Null
  BY DEF OpenAnyConn, NodeSlot, nodeVars, mainVars, shareVars, Opening
<1>2. CASE mpc' # "set"
  <2>1. conn' = conn /\ Opening' = Null
    BY <1>2 DEF OpenAnyConn, Opening
  <2>2. QED
    BY <1>1, <2>1, SameOwners
<1>3. ASSUME NEW f \in Handles, NEW n \in Hosts, conn[f] = Free,
             conn' = [conn EXCEPT ![f] = n], Opening' = f
      PROVE  Owners'
  <2> USE MonitorAssumption, NodeSlotType, OpeningType DEF MonitorAssumption
  <2>1. /\ f \notin {main_hdbc, node_writer_hdbc, node_reader_hdbc}
        /\ \A m \in Hosts : NodeSlot(m) # f
    BY <1>3 DEF Owners, OwnedAllocated, Allocated
  <2>2. MembersApart' /\ NodesApart'
    BY <1>1, <1>3, <2>1 DEF Owners, MembersApart, NodesApart, Apart
  <2>3. OwnedAllocated'
    BY <1>1, <1>3, <2>1 DEF Owners, OwnedAllocated, Allocated,
       TypeOK, EnvTypeOK, MainTypeOK, ShareTypeOK, Handle
  <2>4. AllocatedOwned'
    BY <1>1, <1>3 DEF Owners, AllocatedOwned, TypeOK, EnvTypeOK
  <2>5. QED
    BY <2>2, <2>3, <2>4 DEF Owners
<1>4. CASE mpc' = "set"
  BY <1>3, <1>4, FreshIsHandle DEF OpenAnyConn, Opening
<1>5. QED
  BY <1>2, <1>4

LEMMA SetMainConnOwners ==
    ASSUME TypeOK, Owners, SetMainConn
    PROVE  Owners'
<1> USE MonitorAssumption, NodeSlotType, OpeningType DEF MonitorAssumption
<1>1. /\ UNCHANGED <<node_writer_hdbc, node_reader_hdbc>>
      /\ \A n \in Hosts : NodeSlot(n)' = NodeSlot(n)
      /\ Opening = local_hdbc /\ Opening' = Null
      /\ IF main_hdbc = Null
         THEN main_hdbc' = local_hdbc /\ conn' = conn
         ELSE main_hdbc' = main_hdbc /\ conn' = Freed({local_hdbc})
  BY DEF SetMainConn, NodeSlot, nodeVars, shareVars, Opening
<1>2. MembersApart' /\ NodesApart'
  BY <1>1 DEF Owners, MembersApart, NodesApart, Apart
<1>3. OwnedAllocated'
  BY <1>1 DEF Owners, OwnedAllocated, MembersApart, NodesApart, Apart, Allocated,
         Freed, TypeOK, MainTypeOK, ShareTypeOK, Handle
<1>4. AllocatedOwned'
  BY <1>1 DEF Owners, AllocatedOwned, Freed, TypeOK, EnvTypeOK
<1>5. QED
  BY <1>2, <1>3, <1>4 DEF Owners

LEMMA AdoptWriterConnOwners ==
    ASSUME TypeOK, Owners, AdoptWriterConn
    PROVE  Owners'
<1> USE MonitorAssumption, NodeSlotType, OpeningType DEF MonitorAssumption
<1>1. /\ conn' = Freed({main_hdbc}) /\ main_hdbc' = node_writer_hdbc
      /\ node_writer_hdbc' = Null /\ node_reader_hdbc' = node_reader_hdbc
      /\ \A n \in Hosts : NodeSlot(n)' = NodeSlot(n)
      /\ Opening = Null /\ Opening' = Null
  BY DEF AdoptWriterConn, NodeSlot, nodeVars, Opening
<1>2. MembersApart' /\ NodesApart'
  BY <1>1 DEF Owners, MembersApart, NodesApart, Apart
<1>3. OwnedAllocated'
  BY <1>1 DEF Owners, OwnedAllocated, MembersApart, NodesApart, Apart, Allocated,
         Freed, TypeOK, MainTypeOK, ShareTypeOK, Handle
<1>4. AllocatedOwned'
  BY <1>1 DEF Owners, AllocatedOwned, Freed, TypeOK, EnvTypeOK
<1>5. QED
  BY <1>2, <1>3, <1>4 DEF Owners

(* A step of node thread n that moves no handle of the members.            *)
LEMMA NodeExitOwners ==
    ASSUME TypeOK, Owners, NEW n \in Hosts,
           NodeExit(n) \/ NodeWriterDuplicate(n)
    PROVE  Owners'
<1> USE MonitorAssumption, NodeSlotType, OpeningType DEF MonitorAssumption
<1>1. /\ UNCHANGED <<main_hdbc, node_writer_hdbc, node_reader_hdbc, Opening>>
      /\ conn' = Freed({hdbc[n]}) /\ npc[n] # "publishWriter"
      /\ hdbc' = [hdbc EXCEPT ![n] = Null]
      /\ \/ npc' = [npc EXCEPT ![n] = "done"]
         \/ npc' = [npc EXCEPT ![n] = "top"]
  BY DEF NodeExit, NodeWriterDuplicate, Opening, mainVars, shareVars, localVars
<1>2. /\ conn' = Freed({NodeSlot(n)}) /\ NodeSlot(n)' = Null
      /\ \A m \in Hosts \ {n} : NodeSlot(m)' = NodeSlot(m)
  BY <1>1 DEF NodeSlot, TypeOK, NodeTypeOK
<1>3. MembersApart' /\ NodesApart'
  BY <1>1, <1>2 DEF Owners, MembersApart, NodesApart, Apart
<1>4. OwnedAllocated'
  BY <1>1, <1>2 DEF Owners, OwnedAllocated, NodesApart, Apart, Allocated, Freed, TypeOK,
         MainTypeOK, ShareTypeOK, Handle
<1>5. AllocatedOwned'
  BY <1>1, <1>2 DEF Owners, AllocatedOwned, Freed, TypeOK, EnvTypeOK
<1>6. QED
  BY <1>3, <1>4, <1>5 DEF Owners

LEMMA NodeReconnectOwners ==
    ASSUME TypeOK, Owners, NEW n \in Hosts, NodeReconnect(n)
    PROVE  Owners'
<1> USE MonitorAssumption, NodeSlotType, OpeningType DEF MonitorAssumption
<1> DEFINE left == Freed({hdbc[n]})
           f    == FreshHandle(left)
<1>1. f \in Handles /\ left[f] = Free
  BY FreshIsHandle DEF NodeReconnect
<1>2. /\ UNCHANGED <<main_hdbc, node_writer_hdbc, node_reader_hdbc, Opening>>
      /\ NodeSlot(n) = hdbc[n] /\ NodeSlot(n)' = f
      /\ \A m \in Hosts \ {n} : NodeSlot(m)' = NodeSlot(m)
      /\ conn' = [left EXCEPT ![f] = n] \/ conn' = [left EXCEPT ![f] = Closed]
  BY DEF NodeReconnect, NodeSlot, Opening, mainVars, shareVars, localVars, TypeOK,
         NodeTypeOK
<1>3. conn[f] = Free \/ f = NodeSlot(n)
  BY <1>1, <1>2 DEF Freed
<1> HIDE DEF f
<1>4. /\ f \notin {main_hdbc, node_writer_hdbc, node_reader_hdbc, Opening}
      /\ \A m \in Hosts \ {n} : NodeSlot(m) # f
  BY <1>1, <1>3 DEF Owners, OwnedAllocated, Allocated, NodesApart, Apart
<1>5. /\ conn'[f] # Free
      /\ \A h \in Handles : h # f /\ h # NodeSlot(n) => conn'[h] = conn[h]
      /\ \A h \in Handles : h # f /\ h = NodeSlot(n) => conn'[h] = Free
  BY <1>1, <1>2 DEF Freed
<1>6. MembersApart' /\ NodesApart'
  BY <1>2, <1>4 DEF Owners, MembersApart, NodesApart, Apart
<1>7. OwnedAllocated'
  BY <1>2, <1>4, <1>5 DEF Owners, OwnedAllocated, NodesApart, Apart, Allocated,
     TypeOK, MainTypeOK, ShareTypeOK, Handle
<1>8. AllocatedOwned'
  BY <1>2, <1>5 DEF Owners, AllocatedOwned
<1>9. QED
  BY <1>6, <1>7, <1>8 DEF Owners

LEMMA NodeWriterConnOwners ==
    ASSUME TypeOK, Owners, NEW n \in Hosts, NodeWriterConn(n)
    PROVE  Owners'
<1>1. /\ UNCHANGED <<conn, main_hdbc, node_reader_hdbc, Opening>>
      /\ node_writer_hdbc = Null /\ node_writer_hdbc' = NodeSlot(n)
      /\ NodeSlot(n)' = Null
      /\ \A m \in Hosts \ {n} : NodeSlot(m)' = NodeSlot(m)
  BY DEF NodeWriterConn, NodeSlot, Opening, mainVars, localVars, TypeOK, NodeTypeOK
<1>2. QED
  BY <1>1 DEF Owners, MembersApart, NodesApart, OwnedAllocated, AllocatedOwned,
         Apart, Allocated

LEMMA NodeReaderClaimOwners ==
    ASSUME TypeOK, Owners, NEW n \in Hosts, NodeReaderClaim(n)
    PROVE  Owners'
<1>1. /\ UNCHANGED <<conn, main_hdbc, node_writer_hdbc, Opening>>
      /\ node_reader_hdbc = Null /\ node_reader_hdbc' = NodeSlot(n)
      /\ NodeSlot(n)' = Null
      /\ \A m \in Hosts \ {n} : NodeSlot(m)' = NodeSlot(m)
  BY DEF NodeReaderClaim, ReaderFetch, NodeSlot, Opening, mainVars, localVars,
         TypeOK, NodeTypeOK
<1>2. QED
  BY <1>1 DEF Owners, MembersApart, NodesApart, OwnedAllocated, AllocatedOwned,
         Apart, Allocated

(* The other steps of a node thread move no handle: one that has been      *)
(* handed over is only forgotten.                                          *)
LEMMA NodeOwners ==
    ASSUME TypeOK, Owners, NEW n \in Hosts, NodeStep(n)
    PROVE  Owners'
<1>1. CASE \/ NodeDetect(n) \/ NodeWriterPublish(n) \/ NodeReaderIdle(n)
           \/ NodeReaderRefresh(n) \/ NodeReaderPublish(n)
  <2>1. UNCHANGED <<conn, main_hdbc, node_writer_hdbc, node_reader_hdbc, Opening>>
    BY <1>1 DEF NodeDetect, NodeWriterPublish, NodeReaderIdle, NodeReaderRefresh,
       NodeReaderPublish, mainVars, shareVars, localVars, Opening
  <2>2. \A m \in Hosts : NodeSlot(m)' = NodeSlot(m)
    BY <1>1 DEF NodeDetect, NodeWriterPublish, NodeReaderIdle, NodeReaderRefresh,
       NodeReaderPublish, ReaderFetch, NodeSlot, TypeOK, NodeTypeOK
  <2>3. QED
    BY <2>1, <2>2, SameOwners
<1>2. QED
  BY <1>1, NodeExitOwners, NodeReconnectOwners, NodeWriterConnOwners,
     NodeReaderClaimOwners DEF NodeStep

(* Starting and joining node threads moves no handle.                      *)
LEMMA SpawnSlots ==
    ASSUME TypeOK, NEW S, SpawnNodes(S)
    PROVE  \A n \in Hosts : NodeSlot(n)' = NodeSlot(n)
BY SpawnFrame DEF NodeSlot

LEMMA ClearSlots ==
    ASSUME TypeOK, ClearNodes
    PROVE  \A n \in Hosts : NodeSlot(n)' = NodeSlot(n)
BY ClearFrame DEF NodeSlot, NodesJoinable, ClearNodes

LEMMA MainOwners ==
    ASSUME TypeOK, Owners, MainStep
    PROVE  Owners'
<1>1. CASE RunLoop \/ DerefMainConn \/ QueryMainConn \/ DelayAndTiming
  BY <1>1, SameOwners DEF RunLoop, DerefMainConn, QueryMainConn, DelayAndTiming,
     Opening, NodeSlot, mainVars, shareVars, nodeVars, localVars
<1>2. CASE SpawnNodeMonitors \/ KeepMonitoring
  <2>1. UNCHANGED <<conn, main_hdbc, node_writer_hdbc, node_reader_hdbc, Opening>>
    BY <1>2 DEF SpawnNodeMonitors, KeepMonitoring, Opening, mainVars, shareVars
  <2>2. \A n \in Hosts : NodeSlot(n)' = NodeSlot(n)
    BY <1>2, SpawnSlots DEF SpawnNodeMonitors, KeepMonitoring, NodeSlot, nodeVars
  <2>3. QED
    BY <2>1, <2>2, SameOwners
<1>3. CASE JoinNodeMonitors \/ RegularFetch
  <2>1. UNCHANGED <<conn, main_hdbc, node_writer_hdbc, node_reader_hdbc, Opening>>
    BY <1>3 DEF JoinNodeMonitors, RegularFetch, Opening, mainVars, shareVars
  <2>2. QED
    BY <1>3, <2>1, ClearSlots, SameOwners DEF JoinNodeMonitors, RegularFetch
<1>4. CASE PublishAnyConn \/ RegularPublish
  <2>1. /\ UNCHANGED <<node_writer_hdbc, node_reader_hdbc, Opening>>
        /\ \A n \in Hosts : NodeSlot(n)' = NodeSlot(n)
    BY <1>4 DEF PublishAnyConn, RegularPublish, Opening, NodeSlot, shareVars,
       nodeVars
  <2>2. CASE hosts = Null
    BY <1>4, <2>1, <2>2, DropMainOwners DEF PublishAnyConn, RegularPublish
  <2>3. CASE hosts # Null
    BY <1>4, <2>1, <2>3, SameOwners DEF PublishAnyConn, RegularPublish
  <2>4. QED
    BY <2>2, <2>3
<1>5. QED
  BY <1>1, <1>2, <1>3, <1>4, InitNodeMonitorsOwners, OpenAnyConnOwners,
     SetMainConnOwners, AdoptWriterConnOwners DEF MainStep

LEMMA CallOwners ==
    ASSUME TypeOK, Owners, NEW c \in Callers, CallForceRefresh(c) \/ CallStep(c)
    PROVE  Owners'
<1>1. /\ UNCHANGED <<node_writer_hdbc, node_reader_hdbc, Opening>>
      /\ \A n \in Hosts : NodeSlot(n)' = NodeSlot(n)
  BY CallFrame DEF shareVars, nodeVars, NodeSlot, Opening, CallForceRefresh,
     CallStep, CallDropMainConn, CallReadCache, CallRaiseRequest, CallWake,
     CallPutBack, CallFetch, CallPublish, localVars
<1>2. CASE CallDropMainConn(c)
  BY <1>1, <1>2, DropMainOwners DEF CallDropMainConn
<1>3. CASE ~CallDropMainConn(c)
  <2>1. UNCHANGED <<conn, main_hdbc>>
    BY <1>3 DEF CallForceRefresh, CallStep, CallReadCache, CallRaiseRequest,
       CallWake, CallPutBack, CallFetch, CallPublish, mainVars
  <2>2. QED
    BY <1>1, <2>1, SameOwners
<1>4. QED
  BY <1>2, <1>3

LEMMA DestroyOwners ==
    ASSUME TypeOK, Owners, DestroyStep
    PROVE  Owners'
<1>1. CASE BeginDestroy
  BY <1>1, SameOwners DEF BeginDestroy, Opening, NodeSlot, mainVars, shareVars,
     nodeVars, localVars
<1>2. CASE DestroyNodeMonitors
  <2>1. UNCHANGED <<conn, main_hdbc, node_writer_hdbc, node_reader_hdbc, Opening>>
    BY <1>2 DEF DestroyNodeMonitors, Opening, mainVars, shareVars, localVars
  <2>2. QED
    BY <1>2, <2>1, ClearSlots, SameOwners DEF DestroyNodeMonitors
<1>3. CASE DestroyMainMonitor
  BY <1>3, DropMainOwners DEF DestroyMainMonitor, Opening, NodeSlot, shareVars,
     nodeVars, localVars
<1>4. QED
  BY <1>1, <1>2, <1>3 DEF DestroyStep

(* A connection that breaks keeps its handle.                              *)
LEMMA EnvOwners ==
    ASSUME TypeOK, Owners, EnvStep
    PROVE  Owners'
<1>1. /\ UNCHANGED <<main_hdbc, node_writer_hdbc, node_reader_hdbc, Opening>>
      /\ \A n \in Hosts : NodeSlot(n)' = NodeSlot(n)
  BY DEF EnvStep, Failover, Drop, Expire, WindowEnds, Opening, NodeSlot, mainVars,
         shareVars, nodeVars, localVars
<1>2. \A h \in Handles : conn'[h] = Free <=> conn[h] = Free
  BY MonitorAssumption DEF EnvStep, Failover, Drop, Expire, WindowEnds, TypeOK,
     EnvTypeOK, MonitorAssumption
<1>3. MembersApart' /\ NodesApart' /\ AllocatedOwned'
  BY <1>1, <1>2 DEF Owners, MembersApart, NodesApart, AllocatedOwned, Apart
<1>4. OwnedAllocated'
  BY <1>1, <1>2, NodeSlotType, OpeningType DEF Owners, OwnedAllocated, Allocated,
     TypeOK, MainTypeOK, ShareTypeOK, Handle
<1>5. QED
  BY <1>3, <1>4 DEF Owners

LEMMA NextOwners == TypeOK /\ Owners /\ [Next]_vars => Owners'
<1>1. ASSUME Owners, UNCHANGED vars PROVE Owners'
  BY <1>1, SameOwners DEF vars, Opening, NodeSlot, mainVars, shareVars, nodeVars,
     localVars
<1>2. QED
  BY <1>1, MainOwners, NodeOwners, CallOwners, DestroyOwners, EnvOwners DEF Next

LEMMA OwnersHold == Spec => []Owners
<1>1. Init => TypeOK /\ Owners
  BY InitType, InitOwners
<1>2. TypeOK /\ Owners /\ [Next]_vars => TypeOK' /\ Owners'
  BY NextType, NextOwners
<1>3. QED
  BY <1>1, <1>2, PTL DEF Spec

(* No handle is freed twice or used by two threads as their own, in every  *)
(* instance: the hand-overs between threads, the disposals and the         *)
(* reconnects of the monitor keep one owner for each.                      *)
THEOREM HandlesHaveOneOwner == Spec => []OneOwner
<1>1. Owners => OneOwner
  BY DEF Owners, MembersApart, NodesApart, OwnedAllocated, Apart, Allocated,
         OneOwner, MemberSlot, Opening
<1>2. QED
  BY <1>1, OwnersHold, PTL

(* No connection handle of the monitor is lost, in every instance.         *)
THEOREM NoHandleIsLost == Spec => []NoHandleLeak
<1>1. Owners => NoHandleLeak
  BY DEF Owners, AllocatedOwned, NoHandleLeak, MemberSlot, Opening
<1>2. QED
  BY <1>1, OwnersHold, PTL

-----------------------------------------------------------------------------
(* The connection of the main thread leads to the host it is taken for.    *)

(* A step that opens no connection and moves no handle leads nowhere else. *)
LEMMA SameDestinations ==
    ASSUME TypeOK, Destinations,
           UNCHANGED <<hdbc, node_writer_hdbc, node_writer_host>>,
           \A n \in Hosts : npc'[n] = "publishWriter" <=> npc[n] = "publishWriter",
           \A h \in Handles : conn'[h] \in Hosts => conn'[h] = conn[h],
           is_writer_connection' =>
               UNCHANGED <<is_writer_connection, main_hdbc, main_writer_host>>
    PROVE  Destinations'
<1> USE DEF Destinations, LeadsTo
<1>1. \A n \in Hosts : LeadsTo(hdbc[n], n)'
  BY DEF TypeOK, NodeTypeOK, Handle
<1>2. (\A n \in Hosts : npc'[n] # "publishWriter")
          => LeadsTo(node_writer_hdbc, node_writer_host)'
  BY DEF TypeOK, ShareTypeOK, Handle
<1>3. is_writer_connection' => LeadsTo(main_hdbc, main_writer_host)'
  BY DEF TypeOK, MainTypeOK, Handle
<1>4. QED
  BY <1>1, <1>2, <1>3

(* Freeing handles opens no connection.                                    *)
LEMMA FreedOpensNone ==
    ASSUME TypeOK, NEW S, NEW h \in Handles, Freed(S)[h] \in Hosts
    PROVE  Freed(S)[h] = conn[h]
BY MonitorAssumption DEF MonitorAssumption, Freed

LEMMA InitDestinations == Init => Destinations
BY DEF Init, Destinations, LeadsTo

(* A new connection is opened on a handle that nobody else has.            *)
LEMMA FreshUnused ==
    ASSUME TypeOK, Owners, Destinations, NEW f, conn[f] = Free
    PROVE  /\ f # Null => f # main_hdbc /\ f # node_writer_hdbc
           /\ f # Null => \A n \in Hosts : hdbc[n] # f
<1>1. f # Null => f # main_hdbc /\ f # node_writer_hdbc
  BY DEF Owners, OwnedAllocated, Allocated
<1>2. ASSUME NEW n \in Hosts, f # Null PROVE hdbc[n] # f
  <2>1. CASE npc[n] = "publishWriter"
    BY <1>1, <1>2, <2>1 DEF Destinations
  <2>2. CASE npc[n] # "publishWriter"
    BY <1>2, <2>2 DEF Owners, OwnedAllocated, Allocated, NodeSlot
  <2>3. QED
    BY <2>1, <2>2
<1>3. QED
  BY <1>1, <1>2

LEMMA MainDestinations ==
    ASSUME TypeOK, Inv, Owners, Destinations, MainStep
    PROVE  Destinations'
<1> USE MonitorAssumption DEF MonitorAssumption
<1>1. CASE RunLoop \/ DerefMainConn \/ QueryMainConn \/ DelayAndTiming
  BY <1>1, SameDestinations DEF RunLoop, DerefMainConn, QueryMainConn,
     DelayAndTiming, mainVars, shareVars, nodeVars
<1>2. CASE InitNodeMonitors
  <2>1. ~is_writer_connection /\ NodesEmpty
    BY <1>2 DEF InitNodeMonitors, Inv, MainInv
  <2>2. \A n \in Hosts : LeadsTo(hdbc[n], n)'
    BY <1>2, FreedOpensNone DEF InitNodeMonitors, nodeVars, Destinations, LeadsTo,
       TypeOK, NodeTypeOK, Handle
  <2>3. QED
    BY <1>2, <2>1, <2>2 DEF InitNodeMonitors, NodesEmpty, Destinations, LeadsTo,
       nodeVars, mainVars
<1>3. CASE OpenAnyConn
  <2>1. /\ UNCHANGED <<mainVars, shareVars, nodeVars>> /\ ~is_writer_connection
    BY <1>3 DEF OpenAnyConn, Inv, MainInv
  <2>2. CASE conn' = conn
    BY <2>1, <2>2, SameDestinations DEF mainVars, shareVars, nodeVars
  <2>3. ASSUME NEW f \in Handles, NEW n \in Hosts, conn[f] = Free,
               conn' = [conn EXCEPT ![f] = n]
        PROVE  Destinations'
    BY <2>1, <2>3, FreshUnused DEF Destinations, LeadsTo, mainVars, shareVars,
       nodeVars, TypeOK, EnvTypeOK, NodeTypeOK, ShareTypeOK, Handle
  <2>4. QED
    BY <1>3, <2>2, <2>3, FreshIsHandle DEF OpenAnyConn
<1>4. CASE SetMainConn
  <2>1. ~is_writer_connection /\ UNCHANGED <<shareVars, nodeVars>>
    BY <1>4 DEF SetMainConn, Inv, MainInv
  <2>2. CASE main_hdbc = Null
    <3>1. conn' = conn
      BY <1>4, <2>2 DEF SetMainConn
    <3>2. is_writer_connection' => LeadsTo(main_hdbc, main_writer_host)'
      BY <1>4, <2>1, <2>2 DEF SetMainConn, GetWriterId, OnWriter, LeadsTo
    <3>3. QED
      BY <2>1, <3>1, <3>2 DEF Destinations, LeadsTo, shareVars, nodeVars
  <2>3. CASE main_hdbc # Null
    BY <1>4, <2>1, <2>3, FreedOpensNone, SameDestinations DEF SetMainConn,
       shareVars, nodeVars
  <2>4. QED
    BY <2>2, <2>3
<1>5. CASE PublishAnyConn \/ RegularPublish
  <2>1. UNCHANGED <<shareVars, nodeVars>>
    BY <1>5 DEF PublishAnyConn, RegularPublish
  <2>2. \A h \in Handles : conn'[h] \in Hosts => conn'[h] = conn[h]
    BY <1>5, FreedOpensNone DEF PublishAnyConn, RegularPublish
  <2>3. is_writer_connection' =>
            UNCHANGED <<is_writer_connection, main_hdbc, main_writer_host>>
    BY <1>5 DEF PublishAnyConn, RegularPublish
  <2>4. QED
    BY <2>1, <2>2, <2>3, SameDestinations DEF shareVars, nodeVars
<1>6. CASE SpawnNodeMonitors \/ KeepMonitoring
  <2>1. /\ UNCHANGED <<conn, mainVars, shareVars>>
        /\ UNCHANGED nodeVars \/ \E S : SpawnNodes(S)
    BY <1>6 DEF SpawnNodeMonitors, KeepMonitoring
  <2>2. /\ UNCHANGED hdbc
        /\ \A n \in Hosts :
              npc'[n] = "publishWriter" <=> npc[n] = "publishWriter"
    BY <2>1, SpawnFrame DEF nodeVars
  <2>3. QED
    BY <2>1, <2>2, SameDestinations DEF mainVars, shareVars
<1>7. CASE AdoptWriterConn
  <2>1. /\ \A n \in Hosts : npc[n] # "publishWriter"
        /\ node_writer_hdbc # Null /\ node_writer_hdbc \in Handles
        /\ main_hdbc # node_writer_hdbc
    BY <1>7 DEF AdoptWriterConn, WriterMutexFree, Alive, Owners, MembersApart,
       Apart, TypeOK, ShareTypeOK, Handle
  <2>2. \A n \in Hosts : LeadsTo(hdbc[n], n)'
    BY <1>7, FreedOpensNone DEF AdoptWriterConn, nodeVars, Destinations, LeadsTo,
       TypeOK, NodeTypeOK, Handle
  <2>3. LeadsTo(main_hdbc, main_writer_host)'
    BY <1>7, <2>1, FreedConn DEF AdoptWriterConn, Destinations, LeadsTo
  <2>4. QED
    BY <1>7, <2>1, <2>2, <2>3 DEF AdoptWriterConn, nodeVars, Destinations,
       LeadsTo
<1>8. CASE JoinNodeMonitors \/ RegularFetch
  <2>1. /\ UNCHANGED <<conn, mainVars, shareVars, hdbc>>
        /\ \A n \in Hosts :
              npc'[n] = "publishWriter" <=> npc[n] = "publishWriter"
    BY <1>8, ClearFrame DEF JoinNodeMonitors, RegularFetch, ClearNodes,
       NodesJoinable
  <2>2. QED
    BY <2>1, SameDestinations DEF mainVars, shareVars
<1>9. QED
  BY <1>1, <1>2, <1>3, <1>4, <1>5, <1>6, <1>7, <1>8 DEF MainStep

LEMMA NodeDestinations ==
    ASSUME TypeOK, Inv, Owners, Destinations, NEW n \in Hosts, NodeStep(n)
    PROVE  Destinations'
<1> USE MonitorAssumption DEF MonitorAssumption
<1>1. CASE NodeDetect(n) \/ NodeReaderIdle(n) \/ NodeReaderRefresh(n)
           \/ NodeReaderPublish(n)
  <2>1. UNCHANGED <<conn, mainVars, hdbc, node_writer_hdbc, node_writer_host>>
    BY <1>1 DEF NodeDetect, NodeReaderIdle, NodeReaderRefresh, NodeReaderPublish,
       shareVars
  <2>2. \A m \in Hosts : npc'[m] = "publishWriter" <=> npc[m] = "publishWriter"
    BY <1>1 DEF NodeDetect, NodeReaderIdle, NodeReaderRefresh, NodeReaderPublish,
       ReaderFetch, TypeOK, NodeTypeOK
  <2>3. QED
    BY <2>1, <2>2, SameDestinations DEF mainVars
<1>2. CASE NodeExit(n) \/ NodeWriterDuplicate(n)
  <2>1. /\ UNCHANGED <<mainVars, node_writer_hdbc, node_writer_host>>
        /\ hdbc' = [hdbc EXCEPT ![n] = Null] /\ conn' = Freed({hdbc[n]})
        /\ npc[n] # "publishWriter"
        /\ \A m \in Hosts :
              npc'[m] = "publishWriter" <=> npc[m] = "publishWriter"
    BY <1>2 DEF NodeExit, NodeWriterDuplicate, shareVars, TypeOK, NodeTypeOK
  <2>2. \A h \in Handles : conn'[h] \in Hosts => conn'[h] = conn[h]
    BY <2>1, FreedOpensNone
  <2>3. ASSUME NEW m \in Hosts PROVE LeadsTo(hdbc[m], m)'
    <3>1. hdbc[m] \in Handles \cup {Null} /\ hdbc'[m] \in {hdbc[m], Null}
      BY <2>1 DEF TypeOK, NodeTypeOK, Handle
    <3>2. LeadsTo(hdbc[m], m)
      BY DEF Destinations
    <3>3. QED
      BY <2>2, <3>1, <3>2 DEF LeadsTo
  <2>4. \A m \in Hosts : npc'[m] = "publishWriter" =>
            /\ hdbc'[m] # Null /\ node_writer_hdbc' = hdbc'[m]
            /\ \A k \in Hosts \ {m} : npc'[k] # "publishWriter"
    BY <2>1 DEF Destinations, TypeOK, NodeTypeOK
  <2>5. (\A m \in Hosts : npc'[m] # "publishWriter")
            => LeadsTo(node_writer_hdbc, node_writer_host)'
    BY <2>1, <2>2 DEF Destinations, LeadsTo, TypeOK, ShareTypeOK, Handle
  <2>6. is_writer_connection' => LeadsTo(main_hdbc, main_writer_host)'
    BY <2>1, <2>2 DEF Destinations, LeadsTo, TypeOK, MainTypeOK, Handle,
       mainVars
  <2>7. QED
    BY <2>3, <2>4, <2>5, <2>6 DEF Destinations
<1>3. CASE NodeReconnect(n)
  <2> DEFINE left == Freed({hdbc[n]})
             f    == FreshHandle(left)
  <2>1. f \in Handles /\ left[f] = Free
    BY <1>3, FreshIsHandle DEF NodeReconnect
  <2>2. /\ UNCHANGED <<mainVars, node_writer_hdbc, node_writer_host, npc>>
        /\ npc[n] = "top" /\ hdbc' = [hdbc EXCEPT ![n] = f]
        /\ conn' = [left EXCEPT ![f] = n] \/ conn' = [left EXCEPT ![f] = Closed]
    BY <1>3 DEF NodeReconnect, shareVars
  <2>3. conn[f] = Free \/ f = NodeSlot(n)
    BY <2>1, <2>2 DEF Freed, NodeSlot
  <2>4. left \in [Handles -> Hosts \cup {Free, Closed}]
    BY FreedType DEF TypeOK
  <2> HIDE DEF f
  <2>5. f # main_hdbc /\ f # node_writer_hdbc
    BY <2>1, <2>3, FreshUnused DEF Owners, NodesApart, Apart
  <2>6. \A m \in Hosts \ {n} : hdbc[m] # f
    <3> SUFFICES ASSUME NEW m \in Hosts \ {n} PROVE hdbc[m] # f
      OBVIOUS
    <3>1. CASE npc[m] = "publishWriter"
      BY <2>5, <3>1 DEF Destinations
    <3>2. CASE npc[m] # "publishWriter"
      BY <2>1, <2>3, <3>2, FreshUnused DEF Owners, NodesApart, Apart, NodeSlot
    <3>3. QED
      BY <3>1, <3>2
  <2>7. /\ \A h \in Handles \ {f} : conn'[h] \in Hosts => conn'[h] = conn[h]
        /\ conn'[f] \notin Hosts \ {n}
    <3>1. \A h \in Handles : left[h] \in Hosts => left[h] = conn[h]
      BY FreedOpensNone
    <3> HIDE DEF left
    <3>2. QED
      BY <2>1, <2>2, <2>4, <3>1
  <2>8. \A m \in Hosts : LeadsTo(hdbc[m], m)'
    BY <2>2, <2>6, <2>7 DEF Destinations, LeadsTo, TypeOK, NodeTypeOK, Handle
  <2>9. \A m \in Hosts : npc'[m] = "publishWriter" =>
            /\ hdbc'[m] # Null /\ node_writer_hdbc' = hdbc'[m]
            /\ \A k \in Hosts \ {m} : npc'[k] # "publishWriter"
    BY <2>2 DEF Destinations, TypeOK, NodeTypeOK
  <2>10. (\A m \in Hosts : npc'[m] # "publishWriter")
            => LeadsTo(node_writer_hdbc, node_writer_host)'
    BY <2>2, <2>5, <2>7 DEF Destinations, LeadsTo, TypeOK, ShareTypeOK, Handle
  <2>11. is_writer_connection' => LeadsTo(main_hdbc, main_writer_host)'
    BY <2>2, <2>5, <2>7 DEF Destinations, LeadsTo, TypeOK, MainTypeOK, Handle,
       mainVars
  <2>12. QED
    BY <2>8, <2>9, <2>10, <2>11 DEF Destinations
<1>4. CASE NodeWriterConn(n)
  <2>1. hdbc[n] # Null
    BY <1>4 DEF NodeWriterConn, Inv, ThreadInv
  <2>2. QED
    BY <1>4, <2>1 DEF NodeWriterConn, WriterMutexFree, Destinations, LeadsTo,
       mainVars, TypeOK, NodeTypeOK
<1>5. CASE NodeWriterPublish(n)
  BY <1>5 DEF NodeWriterPublish, Destinations, LeadsTo, mainVars, TypeOK,
     NodeTypeOK
<1>6. CASE NodeReaderClaim(n)
  <2>1. /\ UNCHANGED <<conn, mainVars, node_writer_hdbc, node_writer_host>>
        /\ npc[n] = "reader" /\ hdbc' = [hdbc EXCEPT ![n] = Null]
        /\ \A m \in Hosts :
              npc'[m] = "publishWriter" <=> npc[m] = "publishWriter"
    BY <1>6 DEF NodeReaderClaim, ReaderFetch, TypeOK, NodeTypeOK
  <2>2. QED
    BY <2>1 DEF Destinations, LeadsTo, mainVars, TypeOK, NodeTypeOK
<1>7. QED
  BY <1>1, <1>2, <1>3, <1>4, <1>5, <1>6 DEF NodeStep

LEMMA RestDestinations ==
    ASSUME TypeOK, Inv, Owners, Destinations,
           \/ \E c \in Callers : CallForceRefresh(c) \/ CallStep(c)
           \/ DestroyStep \/ EnvStep
    PROVE  Destinations'
<1> USE MonitorAssumption DEF MonitorAssumption
<1>1. CASE \E c \in Callers : CallForceRefresh(c) \/ CallStep(c)
  <2> SUFFICES ASSUME NEW c \in Callers, CallForceRefresh(c) \/ CallStep(c)
               PROVE  Destinations'
    BY <1>1
  <2>1. UNCHANGED <<shareVars, nodeVars>>
    BY CallFrame
  <2>2. \A h \in Handles : conn'[h] \in Hosts => conn'[h] = conn[h]
    BY FreedOpensNone DEF CallForceRefresh, CallStep, CallDropMainConn,
       CallReadCache, CallRaiseRequest, CallWake, CallPutBack, CallFetch,
       CallPublish
  <2>3. is_writer_connection' =>
            UNCHANGED <<is_writer_connection, main_hdbc, main_writer_host>>
    BY DEF CallForceRefresh, CallStep, CallDropMainConn, CallReadCache,
       CallRaiseRequest, CallWake, CallPutBack, CallFetch, CallPublish, mainVars
  <2>4. QED
    BY <2>1, <2>2, <2>3, SameDestinations DEF shareVars, nodeVars
<1>2. CASE BeginDestroy
  BY <1>2, SameDestinations DEF BeginDestroy, mainVars, shareVars, nodeVars
<1>3. CASE DestroyNodeMonitors
  <2>1. /\ UNCHANGED <<conn, mainVars, shareVars, hdbc>>
        /\ \A n \in Hosts :
              npc'[n] = "publishWriter" <=> npc[n] = "publishWriter"
    BY <1>3, ClearFrame DEF DestroyNodeMonitors, ClearNodes, NodesJoinable
  <2>2. QED
    BY <2>1, SameDestinations DEF mainVars, shareVars
<1>4. CASE DestroyMainMonitor
  <2>1. \A h \in Handles : conn'[h] \in Hosts => conn'[h] = conn[h]
    BY <1>4, FreedOpensNone DEF DestroyMainMonitor
  <2>2. ASSUME NEW n \in Hosts PROVE LeadsTo(hdbc[n], n)'
    <3>1. hdbc[n] \in Handles \cup {Null} /\ hdbc' = hdbc
      BY <1>4 DEF DestroyMainMonitor, nodeVars, TypeOK, NodeTypeOK, Handle
    <3>2. LeadsTo(hdbc[n], n)
      BY DEF Destinations
    <3>3. QED
      BY <2>1, <3>1, <3>2 DEF LeadsTo
  <2>3. (\A n \in Hosts : npc[n] # "publishWriter")
            => LeadsTo(node_writer_hdbc, node_writer_host)'
    BY <1>4, <2>1 DEF DestroyMainMonitor, Destinations, LeadsTo, shareVars, TypeOK,
       ShareTypeOK, Handle
  <2>4. QED
    BY <1>4, <2>2, <2>3 DEF DestroyMainMonitor, Destinations, LeadsTo, shareVars,
       nodeVars
<1>5. CASE EnvStep
  <2>1. \A h \in Handles : conn'[h] \in Hosts => conn'[h] = conn[h]
    BY <1>5 DEF EnvStep, Failover, Drop, Expire, WindowEnds, TypeOK, EnvTypeOK
  <2>2. UNCHANGED main_writer_host
    BY <1>5 DEF EnvStep, Failover, Drop, Expire, WindowEnds, mainVars
  <2>3. QED
    BY <1>5, <2>1, <2>2, EnvFrame, SameDestinations DEF shareVars, nodeVars
<1>6. QED
  BY <1>1, <1>2, <1>3, <1>4, <1>5 DEF DestroyStep

LEMMA NextDestinations ==
    TypeOK /\ Inv /\ Owners /\ Destinations /\ [Next]_vars => Destinations'
<1>1. ASSUME TypeOK, Destinations, UNCHANGED vars PROVE Destinations'
  BY <1>1, SameDestinations DEF vars, mainVars, shareVars, nodeVars
<1>2. QED
  BY <1>1, MainDestinations, NodeDestinations, RestDestinations DEF Next

LEMMA DestinationsHold == Spec => []Destinations
<1>1. Init => Destinations
  BY InitDestinations
<1>2. TypeOK /\ Inv /\ Owners /\ Destinations /\ [Next]_vars => Destinations'
  BY NextDestinations
<1>3. QED
  BY <1>1, <1>2, TypeCorrect, InvHolds, OwnersHold, PTL DEF Spec

(* As long as the monitor claims a writer connection, that connection      *)
(* leads to the host it names, in every instance: whoever opened it,       *)
(* handed it over or disposed of it meanwhile.                             *)
THEOREM WriterConnectionIsRight == Spec => []WriterConnectionMatchesHost
<1>1. Inv /\ Destinations => WriterConnectionMatchesHost
  BY DEF Inv, MainInv, Destinations, LeadsTo, WriterConnectionMatchesHost, Alive
<1>2. QED
  BY <1>1, InvHolds, DestinationsHold, PTL

-----------------------------------------------------------------------------
(* The query made without the mutex: the handle was there when it began.   *)
QueriedOwn == QueriedHandleNotReused /\ (mpc = "query" => local_hdbc # Null)

LEMMA NextQueried ==
    ASSUME TypeOK, Inv, QueriedOwn, [Next]_vars
    PROVE  QueriedOwn'
<1> USE MonitorAssumption DEF MonitorAssumption, QueriedOwn,
        QueriedHandleNotReused
<1>1. CASE MainStep
  BY <1>1 DEF MainStep, RunLoop, InitNodeMonitors, OpenAnyConn, SetMainConn,
     DerefMainConn, QueryMainConn, PublishAnyConn, SpawnNodeMonitors,
     AdoptWriterConn, JoinNodeMonitors, KeepMonitoring, DelayAndTiming,
     RegularFetch, RegularPublish, mainVars
<1>2. CASE \E n \in Hosts : NodeStep(n)
  <2>1. mpc # "query" /\ UNCHANGED mpc
    BY <1>2, NodeFrame DEF Inv, MainInv, NodesEmpty
  <2>2. QED
    BY <2>1
<1>3. CASE \E c \in Callers : CallForceRefresh(c) \/ CallStep(c)
  <2>1. /\ UNCHANGED <<mpc, local_hdbc>>
        /\ \/ UNCHANGED <<conn, main_hdbc>>
           \/ conn' = Freed({main_hdbc}) /\ main_hdbc' = Null
    BY <1>3 DEF CallForceRefresh, CallStep, CallDropMainConn, CallReadCache,
       CallRaiseRequest, CallWake, CallPutBack, CallFetch, CallPublish, mainVars,
       localVars
  <2>2. QED
    BY <2>1 DEF Freed, TypeOK, LocalTypeOK, Handle
<1>4. CASE DestroyStep
  BY <1>4 DEF DestroyStep, BeginDestroy, DestroyNodeMonitors,
     DestroyMainMonitor, mainVars, localVars
<1>5. CASE EnvStep
  <2>1. /\ UNCHANGED <<mpc, main_hdbc, local_hdbc>>
        /\ \/ UNCHANGED conn
           \/ \E h \in Handles : /\ conn[h] \in Hosts
                                 /\ conn' = [conn EXCEPT ![h] = Closed]
    BY <1>5 DEF EnvStep, Failover, Drop, Expire, WindowEnds, mainVars, localVars
  <2>2. QED
    BY <2>1 DEF TypeOK, EnvTypeOK, LocalTypeOK, Handle
<1>6. CASE UNCHANGED vars
  BY <1>6 DEF vars, mainVars, localVars
<1>7. QED
  BY <1>1, <1>2, <1>3, <1>4, <1>5, <1>6 DEF Next

(* The query of open_any_conn_get_hosts meets its own connection or none,  *)
(* in every instance: while it runs there are no node threads, and nobody  *)
(* else allocates a handle.                                                *)
THEOREM QueryMeetsItsConnection == Spec => []QueriedHandleNotReused
<1>1. Init => QueriedOwn
  BY DEF Init, QueriedOwn, QueriedHandleNotReused
<1>2. TypeOK /\ Inv /\ QueriedOwn /\ [Next]_vars => QueriedOwn'
  BY NextQueried
<1>3. QueriedOwn => QueriedHandleNotReused
  BY DEF QueriedOwn
<1>4. QED
  BY <1>1, <1>2, <1>3, TypeCorrect, InvHolds, PTL DEF Spec
=============================================================================
