----------------------- MODULE ClusterTopologyMonitor -----------------------
(***************************************************************************)
(* The topology monitor of one Aurora cluster                              *)
(* (src/src/failover/cluster_topology_monitor.{h,cc}): the main monitoring *)
(* thread (Run), one node monitoring thread per host while the monitor is  *)
(* in panic mode, client threads calling ForceRefresh, and the destructor. *)
(*                                                                         *)
(* Atomicity follows the mutexes: an action is one critical section, or    *)
(* one ODBC call, or one access to shared state made without a lock.  A    *)
(* mutex that is held across several actions is not a variable of its own: *)
(* it is held exactly when its holder is at one of the control points      *)
(* named in HdbcMutexFree, WriterMutexFree and ReaderMutexFree.  The waits *)
(* of DelayMainThread and the sleeps of the node threads pass time and     *)
(* change nothing, so they are interleaving.  Time is abstract: the end of *)
(* the ignore window is unset, ahead or behind.                            *)
(***************************************************************************)
EXTENDS Naturals

CONSTANTS
    Hosts,        \* instances of the cluster
    Handles,      \* ODBC connection handles; enough never to run out
    Callers,      \* client threads
    Requests,     \* the calls they make, a subset of RequestKinds
    Memberships,  \* sets of hosts a topology query can list
    StaleCache,   \* topologies the shared cache may hold at the start
    Null,         \* a null handle, no host, an empty topology
    Free,         \* state of a handle that is not allocated
    Closed,       \* state of an allocated handle without a connection
    FaultKinds,   \* what goes wrong, a subset of AllFaults
    MaxFaults,    \* BOUND: number of faults of a behaviour
    CanDestroy    \* whether the destructor runs

RequestKinds == {"verify", "nowait", "conn"}
AllFaults == {"failover", "drop", "connect", "query", "partial", "expire"}

(* What a topology query returns: the host marked writer, which may be     *)
(* missing, and all hosts.                                                 *)
Topologies == [w : Hosts \cup {Null}, m : SUBSET Hosts]

ASSUME MonitorAssumption ==
    /\ Null \notin Hosts /\ Null \notin Handles /\ Null \notin Topologies
    /\ Free \notin Hosts /\ Closed \notin Hosts /\ Free # Closed
    /\ Requests \subseteq RequestKinds
    /\ Memberships \subseteq SUBSET Hosts
    /\ StaleCache \subseteq Topologies
    /\ FaultKinds \subseteq AllFaults
    /\ MaxFaults \in Nat
    /\ CanDestroy \in BOOLEAN

VARIABLES
    conn,       \* handle -> Free, Closed or the host it is connected to
    writer,     \* the host that is the writer now
    faults,     \* faults so far
    main_hdbc, is_writer_connection, main_writer_host, ignore_end,
    mpc,        \* control point of the main thread
    local_hdbc, \* open_any_conn_get_hosts: local_hdbc, then *main_hdbc_
    hosts,      \* local of the main thread: the topology it works on
    verified,   \* open_any_conn_get_hosts: thread_writer_verified
    node_threads_stop, node_writer_hdbc, node_writer_host,
    node_reader_hdbc, latest_topology,
    npc,        \* host -> control point of its node thread; "off": no entry
                \* in node_monitoring_threads_
    hdbc, reader_update, writer_changed, known_writer,
    found,      \* host -> topology a node thread has queried, not yet shared
    cache,      \* topology_map_[cluster_id_]
    request,    \* request_update_topology_
    cpc, ckind,
    chosts,     \* caller -> curr_hosts, then new_hosts
    is_running,
    dpc         \* control point of the destructor

mainVars  == <<main_hdbc, is_writer_connection, main_writer_host, ignore_end>>
localVars == <<local_hdbc, hosts, verified>>
shareVars == <<node_writer_hdbc, node_writer_host, node_reader_hdbc,
               latest_topology>>
nodeVars  == <<npc, hdbc, reader_update, writer_changed, known_writer, found>>
cacheVars == <<cache, request>>
callVars  == <<cpc, ckind, chosts>>
dtorVars  == <<is_running, dpc>>

vars == <<conn, writer, faults, mainVars, mpc, localVars, node_threads_stop,
          shareVars, nodeVars, cacheVars, callVars, dtorVars>>

-----------------------------------------------------------------------------
(* The ODBC layer and the cluster, as this component uses them.            *)

(* A fault of kind k: allowed by the run and within the bound.             *)
Fault(k) == k \in FaultKinds /\ faults < MaxFaults /\ faults' = faults + 1

(* OdbcHelper::CheckConnection.                                            *)
Alive(h) == h # Null /\ conn[h] \in Hosts

(* ClusterTopologyQueryHelper::GetWriterId returns a name (yes) on a live   *)
(* connection when the instance it reaches is the writer, and an empty one  *)
(* otherwise or when the query fails.                                       *)
OnWriter(h) == h # Null /\ conn[h] = writer
GetWriterId(h, yes) ==
    \/ yes = OnWriter(h) /\ UNCHANGED faults
    \/ OnWriter(h) /\ ~yes /\ Fault("query")

(* What an instance reports of the cluster now.                            *)
Views == {[w |-> writer, m |-> s] : s \in {s \in Memberships : writer \in s}}

(* The rows of a view that are fetched before fetching fails.              *)
PartialViews == {[w |-> IF writer \in s THEN writer ELSE Null, m |-> s] :
                    s \in (UNION {SUBSET v.m : v \in Views}) \ {{}}}

(* ClusterTopologyQueryHelper::QueryTopology on a live connection: a view; *)
(* when executing it fails nothing, when fetching fails the rows so far.   *)
QueryTopology(t) ==
    \/ t \in Views /\ UNCHANGED faults
    \/ t = Null /\ Fault("query")
    \/ t \in PartialViews /\ Fault("partial")

(* CheckConnection followed by QueryTopology, as FetchTopologyUpdateCache  *)
(* begins: nothing is found on a connection that is gone.                  *)
CheckAndQuery(h, t) ==
    IF Alive(h) THEN QueryTopology(t) ELSE t = Null /\ UNCHANGED faults

(* Mutant of Freed: the handle is disconnected but not freed.              *)
FreedOnlyDisconnects(S) ==
    [h \in Handles |-> IF h \in S THEN Closed ELSE conn[h]]

(* Disconnect and free the handles of a set that holds any (dbc_clean_up,  *)
(* OdbcHelper::Cleanup).                                                   *)
Freed(S) == [h \in Handles |-> IF h \in S THEN Free ELSE conn[h]]

(* SQLAllocHandle for a connection, in the handle table c.                 *)
FreshHandle(c) == CHOOSE h \in Handles : c[h] = Free
CanAllocate(c) == \E h \in Handles : c[h] = Free

-----------------------------------------------------------------------------
(* Mutexes that are held from one action to the next.                      *)

HdbcMutexFree   == mpc \notin {"publishRegular", "join"}
WriterMutexFree == mpc # "join" /\ \A n \in Hosts : npc[n] # "publishWriter"
ReaderMutexFree == \A n \in Hosts : npc[n] # "shareLocked"

NodesJoinable == \A n \in Hosts : npc[n] \in {"off", "done"}
NodesEmpty    == \A n \in Hosts : npc[n] = "off"

-----------------------------------------------------------------------------
Init ==
    /\ conn = [h \in Handles |-> Free]
    /\ writer \in Hosts
    /\ faults = 0
    /\ main_hdbc = Null /\ is_writer_connection = FALSE
    /\ main_writer_host = Null /\ ignore_end = "epoch"
    /\ mpc = "top"
    /\ local_hdbc = Null /\ hosts = Null /\ verified = FALSE
    /\ node_threads_stop = FALSE
    /\ node_writer_hdbc = Null /\ node_writer_host = Null
    /\ node_reader_hdbc = Null /\ latest_topology = Null
    /\ npc = [n \in Hosts |-> "off"]
    /\ hdbc = [n \in Hosts |-> Null]
    /\ reader_update = [n \in Hosts |-> FALSE]
    /\ writer_changed = [n \in Hosts |-> FALSE]
    /\ known_writer = [n \in Hosts |-> Null]
    /\ found = [n \in Hosts |-> Null]
    /\ cache \in StaleCache \cup {Null}
    /\ request = FALSE
    /\ cpc = [c \in Callers |-> "idle"]
    /\ ckind = [c \in Callers |-> Null]
    /\ chosts = [c \in Callers |-> Null]
    /\ is_running = TRUE
    /\ dpc = "idle"

-----------------------------------------------------------------------------
(* The main monitoring thread.                                             *)

(* Mutant of UpdateTopologyCache: the request stays raised.                *)
UpdateKeepsRequest(t) == cache' = t /\ UNCHANGED request

(* UpdateTopologyCache: publish a topology, satisfy the pending request.   *)
UpdateTopologyCache(t) == cache' = t /\ request' = FALSE

(* Mutant of PublishFetched: the fetched topology is not published.        *)
FetchWithoutUpdate(t) == UNCHANGED cacheVars

(* FetchTopologyUpdateCache, from the query's answer on: an empty answer   *)
(* is not published.                                                       *)
PublishFetched(t) ==
    IF t = Null THEN UNCHANGED cacheVars ELSE UpdateTopologyCache(t)

(* compare_exchange_strong of ignore_topology_request_end_ms_: only from   *)
(* the epoch.                                                              *)
Stamped == IF ignore_end = "epoch" THEN "ahead" ELSE ignore_end

InPanicMode == main_hdbc = Null \/ ~is_writer_connection

(* Mutant of SpawnNodes: hosts that appear later get no thread.            *)
SpawnNone(S) == UNCHANGED nodeVars

(* The entries node_monitoring_threads_ gets for the hosts of S that have  *)
(* none yet; every new thread is given the writer known to the monitor.    *)
SpawnNodes(S) ==
    LET new == {n \in S : npc[n] = "off"}
    IN /\ npc' = [n \in Hosts |-> IF n \in new THEN "top" ELSE npc[n]]
       /\ known_writer' = [n \in Hosts |-> IF n \in new THEN main_writer_host
                                           ELSE known_writer[n]]
       /\ UNCHANGED <<hdbc, reader_update, writer_changed, found>>

(* Mutant of ClearNodes: the flags of a thread outlive it.                 *)
ClearNodesKeepsFlags ==
    /\ NodesJoinable
    /\ npc' = [n \in Hosts |-> "off"]
    /\ UNCHANGED <<hdbc, reader_update, writer_changed, known_writer, found>>

(* node_monitoring_threads_.clear() once every thread in it has ended.     *)
ClearNodes ==
    /\ NodesJoinable
    /\ npc' = [n \in Hosts |-> "off"]
    /\ reader_update' = [n \in Hosts |-> FALSE]
    /\ writer_changed' = [n \in Hosts |-> FALSE]
    /\ known_writer' = [n \in Hosts |-> Null]
    /\ UNCHANGED <<hdbc, found>>

(* The head of Run's loop and the branch of handle_panic_mode.             *)
RunLoop ==
    /\ mpc = "top"
    /\ mpc' = CASE ~is_running -> "done"
                [] is_running /\ ~InPanicMode -> "regular"
                [] is_running /\ InPanicMode /\ NodesEmpty -> "init"
                [] OTHER -> "adopt"
    /\ UNCHANGED <<conn, writer, faults, mainVars, localVars,
                   node_threads_stop, shareVars, nodeVars, cacheVars, callVars,
                   dtorVars>>

(* init_node_monitors up to the lookup of the cached hosts.                *)
InitNodeMonitors ==
    /\ mpc = "init"
    /\ WriterMutexFree /\ ReaderMutexFree
    /\ node_threads_stop' = FALSE
    /\ conn' = Freed({node_writer_hdbc, node_reader_hdbc})
    /\ node_writer_hdbc' = Null /\ node_reader_hdbc' = Null
    /\ node_writer_host' = Null /\ latest_topology' = Null
    /\ hosts' = cache
    /\ mpc' = IF cache = Null THEN "open" ELSE "spawn"
    /\ UNCHANGED <<writer, faults, mainVars, local_hdbc, verified, nodeVars,
                   cacheVars, callVars, dtorVars>>

(* open_any_conn_get_hosts: main_hdbc_ is tested without the mutex; a new  *)
(* connection reaches any host of the cluster, or fails.                   *)
OpenAnyConn ==
    /\ mpc = "open"
    /\ \/ /\ main_hdbc # Null
          /\ mpc' = "deref"
          /\ UNCHANGED <<conn, faults, local_hdbc>>
       \/ /\ main_hdbc = Null
          /\ CanAllocate(conn)
          /\ \E n \in Hosts : conn' = [conn EXCEPT ![FreshHandle(conn)] = n]
          /\ local_hdbc' = FreshHandle(conn)
          /\ mpc' = "set"
          /\ UNCHANGED faults
       \/ /\ main_hdbc = Null
          /\ Fault("connect")
          /\ mpc' = "spawn"
          /\ UNCHANGED <<conn, local_hdbc>>
    /\ UNCHANGED <<writer, mainVars, hosts, verified, node_threads_stop,
                   shareVars, nodeVars, cacheVars, callVars, dtorVars>>

(* The critical section of hdbc_mutex_ that installs the new connection    *)
(* and asks it whether it reaches the writer.                              *)
SetMainConn ==
    /\ mpc = "set"
    /\ HdbcMutexFree /\ WriterMutexFree
    /\ IF main_hdbc = Null
       THEN \E yes \in BOOLEAN :
              /\ GetWriterId(local_hdbc, yes)
              /\ main_hdbc' = local_hdbc
              /\ is_writer_connection' = (is_writer_connection \/ yes)
              /\ main_writer_host' = IF yes THEN writer ELSE main_writer_host
              /\ verified' = yes
              /\ UNCHANGED conn
       ELSE /\ conn' = Freed({local_hdbc})
            /\ UNCHANGED <<faults, main_hdbc, is_writer_connection,
                           main_writer_host, verified>>
    /\ local_hdbc' = Null
    /\ mpc' = "deref"
    /\ UNCHANGED <<writer, ignore_end, hosts, node_threads_stop,
                   shareVars, nodeVars, cacheVars, callVars, dtorVars>>

(* *(main_hdbc_.get()) is evaluated without the mutex: the null pointer    *)
(* ends the process.                                                       *)
DerefMainConn ==
    /\ mpc = "deref"
    /\ local_hdbc' = main_hdbc
    /\ mpc' = IF main_hdbc = Null THEN "crashed" ELSE "query"
    /\ UNCHANGED <<conn, writer, faults, mainVars, hosts, verified,
                   node_threads_stop, shareVars, nodeVars, cacheVars, callVars,
                   dtorVars>>

(* The query runs on the handle read before, without the mutex.            *)
QueryMainConn ==
    /\ mpc = "query"
    /\ \E t \in Topologies \cup {Null} :
          CheckAndQuery(local_hdbc, t) /\ hosts' = t
    /\ local_hdbc' = Null
    /\ mpc' = "publish"
    /\ UNCHANGED <<conn, writer, mainVars, verified, node_threads_stop,
                   shareVars, nodeVars, cacheVars, callVars, dtorVars>>

(* The rest of open_any_conn_get_hosts: publish, open the ignore window if *)
(* the writer was verified, close the connection if it gave no topology.   *)
PublishAnyConn ==
    /\ mpc = "publish"
    /\ PublishFetched(hosts)
    /\ ignore_end' = IF verified THEN Stamped ELSE ignore_end
    /\ verified' = FALSE
    /\ IF hosts = Null
       THEN /\ conn' = Freed({main_hdbc})
            /\ main_hdbc' = Null
            /\ is_writer_connection' = FALSE
       ELSE UNCHANGED <<conn, main_hdbc, is_writer_connection>>
    /\ mpc' = "spawn"
    /\ UNCHANGED <<writer, faults, main_writer_host, local_hdbc, hosts,
                   node_threads_stop, shareVars, nodeVars, callVars, dtorVars>>

(* The end of init_node_monitors: one thread for each host of the          *)
(* topology, unless the connection just opened reaches the writer.         *)
SpawnNodeMonitors ==
    /\ mpc = "spawn"
    /\ IF hosts # Null /\ ~is_writer_connection
       THEN SpawnNodes(hosts.m)
       ELSE UNCHANGED nodeVars
    /\ hosts' = Null
    /\ mpc' = "delay"
    /\ UNCHANGED <<conn, writer, faults, mainVars, local_hdbc, verified,
                   node_threads_stop, shareVars, cacheVars, callVars, dtorVars>>

(* get_possible_writer_conn finds a usable connection: the main thread     *)
(* takes it over and stops the node threads; it goes on to join them with  *)
(* the three mutexes held.                                                 *)
AdoptWriterConn ==
    /\ mpc = "adopt"
    /\ WriterMutexFree /\ HdbcMutexFree
    /\ Alive(node_writer_hdbc) /\ node_writer_host # Null
    /\ conn' = Freed({main_hdbc})
    /\ main_hdbc' = node_writer_hdbc
    /\ node_writer_hdbc' = Null
    /\ main_writer_host' = node_writer_host
    /\ is_writer_connection' = TRUE
    /\ ignore_end' = Stamped
    /\ node_threads_stop' = TRUE
    /\ mpc' = "join"
    /\ UNCHANGED <<writer, faults, localVars, node_writer_host,
                   node_reader_hdbc, latest_topology, nodeVars, cacheVars,
                   callVars, dtorVars>>

(* node_monitoring_threads_.clear() inside get_possible_writer_conn.       *)
JoinNodeMonitors ==
    /\ mpc = "join"
    /\ ClearNodes
    /\ mpc' = "top"
    /\ UNCHANGED <<conn, writer, faults, mainVars, localVars,
                   node_threads_stop, shareVars, cacheVars, callVars, dtorVars>>

(* get_possible_writer_conn finds none: threads for the hosts that the     *)
(* reader thread has discovered.                                           *)
KeepMonitoring ==
    /\ mpc = "adopt"
    /\ WriterMutexFree
    /\ ~(Alive(node_writer_hdbc) /\ node_writer_host # Null)
    /\ IF latest_topology # Null
       THEN SpawnNodes(latest_topology.m)
       ELSE UNCHANGED nodeVars
    /\ mpc' = "delay"
    /\ UNCHANGED <<conn, writer, faults, mainVars, localVars,
                   node_threads_stop, shareVars, cacheVars, callVars, dtorVars>>

(* Mutant of DelayAndTiming: the comparison with the end is inverted.      *)
TimingInverted ==
    /\ mpc = "delay"
    /\ ignore_end' = IF ignore_end = "ahead" THEN "epoch" ELSE ignore_end
    /\ mpc' = "top"
    /\ UNCHANGED <<conn, writer, faults, main_hdbc, is_writer_connection,
                   main_writer_host, localVars, node_threads_stop, shareVars,
                   nodeVars, cacheVars, callVars, dtorVars>>

(* DelayMainThread, then handle_ignore_topology_timing.                    *)
DelayAndTiming ==
    /\ mpc = "delay"
    /\ ignore_end' = IF ignore_end = "behind" THEN "epoch" ELSE ignore_end
    /\ mpc' = "top"
    /\ UNCHANGED <<conn, writer, faults, main_hdbc, is_writer_connection,
                   main_writer_host, localVars, node_threads_stop, shareVars,
                   nodeVars, cacheVars, callVars, dtorVars>>

(* handle_regular_mode: the query is made with hdbc_mutex_ held.           *)
RegularFetch ==
    /\ mpc = "regular"
    /\ ClearNodes
    /\ \E t \in Topologies \cup {Null} :
          CheckAndQuery(main_hdbc, t) /\ hosts' = t
    /\ mpc' = "publishRegular"
    /\ UNCHANGED <<conn, writer, mainVars, local_hdbc, verified,
                   node_threads_stop, shareVars, cacheVars, callVars, dtorVars>>

(* The rest of handle_regular_mode: without hosts, back to panic mode and  *)
(* no delay.                                                               *)
RegularPublish ==
    /\ mpc = "publishRegular"
    /\ PublishFetched(hosts)
    /\ IF hosts = Null
       THEN /\ conn' = Freed({main_hdbc})
            /\ main_hdbc' = Null
            /\ is_writer_connection' = FALSE
            /\ mpc' = "top"
       ELSE /\ mpc' = "delay"
            /\ UNCHANGED <<conn, main_hdbc, is_writer_connection>>
    /\ hosts' = Null
    /\ UNCHANGED <<writer, faults, main_writer_host, ignore_end, local_hdbc,
                   verified, node_threads_stop, shareVars, nodeVars, callVars,
                   dtorVars>>

MainStep ==
    \/ RunLoop
    \/ InitNodeMonitors
    \/ OpenAnyConn
    \/ SetMainConn
    \/ DerefMainConn
    \/ QueryMainConn
    \/ PublishAnyConn
    \/ SpawnNodeMonitors
    \/ AdoptWriterConn
    \/ JoinNodeMonitors
    \/ KeepMonitoring
    \/ DelayAndTiming
    \/ RegularFetch
    \/ RegularPublish

-----------------------------------------------------------------------------
(* The node monitoring threads (NodeMonitoringThread::run).  The test of   *)
(* node_threads_stop_ is the head of the loop, at "top".                   *)

(* Mutant of NodeExit: the loop does not test node_threads_stop_.          *)
NodeNeverExits(n) == FALSE

(* The loop ends and the thread closes its own connection.                 *)
NodeExit(n) ==
    /\ npc[n] = "top" /\ node_threads_stop
    /\ conn' = Freed({hdbc[n]})
    /\ hdbc' = [hdbc EXCEPT ![n] = Null]
    /\ npc' = [npc EXCEPT ![n] = "done"]
    /\ UNCHANGED <<writer, faults, mainVars, mpc, localVars,
                   node_threads_stop, shareVars, reader_update,
                   writer_changed, known_writer, found, cacheVars, callVars,
                   dtorVars>>

(* handle_reconnect: replace the connection by a new one to the own host,  *)
(* or by a handle that failed to connect.                                  *)
NodeReconnect(n) ==
    /\ npc[n] = "top" /\ ~node_threads_stop /\ ~Alive(hdbc[n])
    /\ LET left  == Freed({hdbc[n]})
           fresh == FreshHandle(left)
       IN /\ CanAllocate(left)
          /\ \/ conn' = [left EXCEPT ![fresh] = n] /\ UNCHANGED faults
             \/ conn' = [left EXCEPT ![fresh] = Closed] /\ Fault("connect")
          /\ hdbc' = [hdbc EXCEPT ![n] = fresh]
    /\ UNCHANGED <<writer, mainVars, mpc, localVars, node_threads_stop,
                   shareVars, npc, reader_update, writer_changed,
                   known_writer, found, cacheVars, callVars, dtorVars>>

(* CheckConnection and GetWriterId on the own connection.                  *)
NodeDetect(n) ==
    /\ npc[n] = "top" /\ ~node_threads_stop /\ Alive(hdbc[n])
    /\ \E yes \in BOOLEAN :
          /\ GetWriterId(hdbc[n], yes)
          /\ npc' = [npc EXCEPT ![n] = IF yes THEN "writer" ELSE "reader"]
    /\ UNCHANGED <<conn, writer, mainVars, mpc, localVars, node_threads_stop,
                   shareVars, hdbc, reader_update, writer_changed,
                   known_writer, found, cacheVars, callVars, dtorVars>>

(* Mutant of NodeWriterDuplicate: hdbc_ keeps the freed handle.            *)
DuplicateKeepsHandle(n) ==
    /\ npc[n] = "writer" /\ WriterMutexFree
    /\ node_writer_hdbc # Null
    /\ conn' = Freed({hdbc[n]})
    /\ node_threads_stop' = TRUE
    /\ npc' = [npc EXCEPT ![n] = "top"]
    /\ UNCHANGED <<writer, faults, mainVars, mpc, localVars, shareVars, hdbc,
                   reader_update, writer_changed, known_writer, found,
                   cacheVars, callVars, dtorVars>>

(* handle_writer_conn, first: the main thread has a writer connection to   *)
(* pick up already, so this one is closed.                                 *)
NodeWriterDuplicate(n) ==
    /\ npc[n] = "writer" /\ WriterMutexFree
    /\ node_writer_hdbc # Null
    /\ conn' = Freed({hdbc[n]})
    /\ hdbc' = [hdbc EXCEPT ![n] = Null]
    /\ node_threads_stop' = TRUE
    /\ npc' = [npc EXCEPT ![n] = "top"]
    /\ UNCHANGED <<writer, faults, mainVars, mpc, localVars, shareVars,
                   reader_update, writer_changed, known_writer, found,
                   cacheVars, callVars, dtorVars>>

(* handle_writer_conn, second: hand the connection over to the main thread *)
(* and query the topology on it, with the mutex held.                      *)
NodeWriterConn(n) ==
    /\ npc[n] = "writer" /\ WriterMutexFree
    /\ node_writer_hdbc = Null
    /\ node_writer_hdbc' = hdbc[n]
    /\ \E t \in Topologies \cup {Null} :
          CheckAndQuery(hdbc[n], t) /\ found' = [found EXCEPT ![n] = t]
    /\ npc' = [npc EXCEPT ![n] = "publishWriter"]
    /\ UNCHANGED <<conn, writer, mainVars, mpc, localVars, node_threads_stop,
                   node_writer_host, node_reader_hdbc, latest_topology, hdbc,
                   reader_update, writer_changed, known_writer, cacheVars,
                   callVars, dtorVars>>

(* Mutant of NodeWriterPublish: the other threads are not told to stop.    *)
HandOverWithoutStop(n) ==
    /\ npc[n] = "publishWriter"
    /\ PublishFetched(found[n])
    /\ found' = [found EXCEPT ![n] = Null]
    /\ node_writer_host' = n
    /\ hdbc' = [hdbc EXCEPT ![n] = Null]
    /\ npc' = [npc EXCEPT ![n] = "top"]
    /\ UNCHANGED <<conn, writer, faults, mainVars, mpc, localVars,
                   node_threads_stop, node_writer_hdbc, node_reader_hdbc,
                   latest_topology, reader_update, writer_changed,
                   known_writer, callVars, dtorVars>>

(* The rest of handle_writer_conn: publish, name the host, let go of the   *)
(* handle and tell every node thread to stop.                              *)
NodeWriterPublish(n) ==
    /\ npc[n] = "publishWriter"
    /\ PublishFetched(found[n])
    /\ found' = [found EXCEPT ![n] = Null]
    /\ node_writer_host' = n
    /\ hdbc' = [hdbc EXCEPT ![n] = Null]
    /\ node_threads_stop' = TRUE
    /\ npc' = [npc EXCEPT ![n] = "top"]
    /\ UNCHANGED <<conn, writer, faults, mainVars, mpc, localVars,
                   node_writer_hdbc, node_reader_hdbc, latest_topology,
                   reader_update, writer_changed, known_writer, callVars,
                   dtorVars>>

(* handle_reader_conn when a writer was handed over (read without the      *)
(* mutex) or another thread is the reader: nothing to do.                  *)
NodeReaderIdle(n) ==
    /\ npc[n] = "reader"
    /\ \/ node_writer_hdbc # Null
       \/ ~reader_update[n] /\ ReaderMutexFree /\ node_reader_hdbc # Null
    /\ npc' = [npc EXCEPT ![n] = "top"]
    /\ UNCHANGED <<conn, writer, faults, mainVars, mpc, localVars,
                   node_threads_stop, shareVars, hdbc, reader_update,
                   writer_changed, known_writer, found, cacheVars, callVars,
                   dtorVars>>

(* reader_thread_fetch_topology up to the answer: back to the loop when    *)
(* the reader connection is gone, else share at control point next.        *)
ReaderFetch(n, h, next) ==
    IF Alive(h)
    THEN /\ \E t \in Topologies \cup {Null} :
              QueryTopology(t) /\ found' = [found EXCEPT ![n] = t]
         /\ npc' = [npc EXCEPT ![n] = next]
    ELSE /\ npc' = [npc EXCEPT ![n] = "top"]
         /\ UNCHANGED <<faults, found>>

(* handle_reader_conn of the thread that updates the topology already.     *)
NodeReaderRefresh(n) ==
    /\ npc[n] = "reader" /\ node_writer_hdbc = Null
    /\ reader_update[n]
    /\ ReaderFetch(n, node_reader_hdbc, "share")
    /\ UNCHANGED <<conn, writer, mainVars, mpc, localVars, node_threads_stop,
                   shareVars, hdbc, reader_update, writer_changed,
                   known_writer, cacheVars, callVars, dtorVars>>

(* handle_reader_conn of the first reader: its connection becomes the      *)
(* shared reader connection; the mutex stays held during the fetch.        *)
NodeReaderClaim(n) ==
    /\ npc[n] = "reader" /\ node_writer_hdbc = Null
    /\ ~reader_update[n] /\ ReaderMutexFree /\ node_reader_hdbc = Null
    /\ node_reader_hdbc' = hdbc[n]
    /\ reader_update' = [reader_update EXCEPT ![n] = TRUE]
    /\ hdbc' = [hdbc EXCEPT ![n] = Null]
    /\ ReaderFetch(n, hdbc[n], "shareLocked")
    /\ UNCHANGED <<conn, writer, mainVars, mpc, localVars, node_threads_stop,
                   node_writer_hdbc, node_writer_host, latest_topology,
                   writer_changed, known_writer, cacheVars, callVars,
                   dtorVars>>

(* GetHostPortPair of the writer in the topology equals the writer the     *)
(* thread was created with, or it was created with none.                   *)
MatchesKnownWriter(n) ==
    /\ found[n] # Null /\ found[n].w # Null
    /\ known_writer[n] = Null \/ found[n].w = known_writer[n]

(* The rest of reader_thread_fetch_topology: share the answer, and publish *)
(* it (an empty one too) once a writer that matches has been seen.         *)
NodeReaderPublish(n) ==
    /\ npc[n] \in {"share", "shareLocked"}
    /\ latest_topology' = found[n]
    /\ IF writer_changed[n] \/ MatchesKnownWriter(n)
       THEN UpdateTopologyCache(found[n])
       ELSE UNCHANGED cacheVars
    /\ writer_changed' =
         [writer_changed EXCEPT ![n] = @ \/ MatchesKnownWriter(n)]
    /\ found' = [found EXCEPT ![n] = Null]
    /\ npc' = [npc EXCEPT ![n] = "top"]
    /\ UNCHANGED <<conn, writer, faults, mainVars, mpc, localVars,
                   node_threads_stop, node_writer_hdbc, node_writer_host,
                   node_reader_hdbc, hdbc, reader_update, known_writer,
                   callVars, dtorVars>>

NodeStep(n) ==
    \/ NodeExit(n)
    \/ NodeReconnect(n)
    \/ NodeDetect(n)
    \/ NodeWriterDuplicate(n)
    \/ NodeWriterConn(n)
    \/ NodeWriterPublish(n)
    \/ NodeReaderIdle(n)
    \/ NodeReaderRefresh(n)
    \/ NodeReaderClaim(n)
    \/ NodeReaderPublish(n)

-----------------------------------------------------------------------------
(* Client threads in ForceRefresh.  A "verify" call is ForceRefresh(true,  *)
(* t > 0), a "nowait" call ForceRefresh(false, 0) and a "conn" call        *)
(* ForceRefresh(hdbc, t) with a connection of the client.                  *)

(* The call begins: inside what the code takes for the ignore window a     *)
(* cached topology is the answer.                                          *)
CallForceRefresh(c) ==
    /\ cpc[c] = "idle" /\ dpc = "idle"
    /\ \E k \in Requests :
          /\ ckind' = [ckind EXCEPT ![c] = k]
          /\ cpc' = [cpc EXCEPT ![c] =
                CASE k = "conn" ->
                       IF is_writer_connection THEN "read" ELSE "fetch"
                  [] k # "conn" /\ ignore_end = "behind" /\ cache # Null ->
                       "idle"
                  [] OTHER -> IF k = "verify" THEN "drop" ELSE "read"]
    /\ UNCHANGED <<conn, writer, faults, mainVars, mpc, localVars,
                   node_threads_stop, shareVars, nodeVars, cacheVars, chosts,
                   dtorVars>>

(* Mutant of CallDropMainConn: is_writer_connection_ is left set.          *)
DropKeepsWriterFlag(c) ==
    /\ cpc[c] = "drop" /\ HdbcMutexFree
    /\ conn' = Freed({main_hdbc})
    /\ main_hdbc' = Null
    /\ cpc' = [cpc EXCEPT ![c] = "read"]
    /\ UNCHANGED <<writer, faults, is_writer_connection, main_writer_host,
                   ignore_end, mpc, localVars, node_threads_stop, shareVars,
                   nodeVars, cacheVars, ckind, chosts, dtorVars>>

(* ForceRefresh(true, t) disposes of the connection of the main thread.    *)
CallDropMainConn(c) ==
    /\ cpc[c] = "drop" /\ HdbcMutexFree
    /\ conn' = Freed({main_hdbc})
    /\ main_hdbc' = Null
    /\ is_writer_connection' = FALSE
    /\ cpc' = [cpc EXCEPT ![c] = "read"]
    /\ UNCHANGED <<writer, faults, main_writer_host, ignore_end, mpc,
                   localVars, node_threads_stop, shareVars, nodeVars,
                   cacheVars, ckind, chosts, dtorVars>>

(* WaitForTopologyUpdate: read the cached hosts.                           *)
CallReadCache(c) ==
    /\ cpc[c] = "read"
    /\ chosts' = [chosts EXCEPT ![c] = cache]
    /\ cpc' = [cpc EXCEPT ![c] = "raise"]
    /\ UNCHANGED <<conn, writer, faults, mainVars, mpc, localVars,
                   node_threads_stop, shareVars, nodeVars, cacheVars, ckind,
                   dtorVars>>

(* WaitForTopologyUpdate: raise the request; a call without a timeout has  *)
(* its answer.                                                             *)
CallRaiseRequest(c) ==
    /\ cpc[c] = "raise"
    /\ request' = TRUE
    /\ cpc' = [cpc EXCEPT ![c] = IF ckind[c] = "nowait" THEN "put" ELSE "wait"]
    /\ UNCHANGED <<conn, writer, faults, mainVars, mpc, localVars,
                   node_threads_stop, shareVars, nodeVars, cache, ckind,
                   chosts, dtorVars>>

(* WaitForTopologyUpdate ends: the cached hosts differ from those read     *)
(* before, or time is up.  Only ForceRefresh(bool, t) writes them back.    *)
CallWake(c) ==
    /\ cpc[c] = "wait"
    /\ chosts' = [chosts EXCEPT ![c] = IF ckind[c] = "conn" THEN Null
                                       ELSE cache]
    /\ cpc' = [cpc EXCEPT ![c] = IF ckind[c] = "conn" THEN "idle" ELSE "put"]
    /\ UNCHANGED <<conn, writer, faults, mainVars, mpc, localVars,
                   node_threads_stop, shareVars, nodeVars, cacheVars, ckind,
                   dtorVars>>

(* ForceRefresh(bool, t) puts the hosts it is about to return in the cache.*)
CallPutBack(c) ==
    /\ cpc[c] = "put"
    /\ cache' = IF chosts[c] = Null THEN cache ELSE chosts[c]
    /\ chosts' = [chosts EXCEPT ![c] = Null]
    /\ cpc' = [cpc EXCEPT ![c] = "idle"]
    /\ UNCHANGED <<conn, writer, faults, mainVars, mpc, localVars,
                   node_threads_stop, shareVars, nodeVars, request, ckind,
                   dtorVars>>

(* ForceRefresh(hdbc, t) without a writer connection: query the connection *)
(* of the client, which may be gone.                                       *)
CallFetch(c) ==
    /\ cpc[c] = "fetch"
    /\ \E t \in Topologies \cup {Null} :
          /\ QueryTopology(t)
          /\ chosts' = [chosts EXCEPT ![c] = t]
    /\ cpc' = [cpc EXCEPT ![c] = "publish"]
    /\ UNCHANGED <<conn, writer, mainVars, mpc, localVars,
                   node_threads_stop, shareVars, nodeVars, cacheVars, ckind,
                   dtorVars>>

CallPublish(c) ==
    /\ cpc[c] = "publish"
    /\ PublishFetched(chosts[c])
    /\ chosts' = [chosts EXCEPT ![c] = Null]
    /\ cpc' = [cpc EXCEPT ![c] = "idle"]
    /\ UNCHANGED <<conn, writer, faults, mainVars, mpc, localVars,
                   node_threads_stop, shareVars, nodeVars, ckind, dtorVars>>

(* The steps of a call that has begun.                                     *)
CallStep(c) ==
    \/ CallDropMainConn(c)
    \/ CallReadCache(c)
    \/ CallRaiseRequest(c)
    \/ CallWake(c)
    \/ CallPutBack(c)
    \/ CallFetch(c)
    \/ CallPublish(c)

-----------------------------------------------------------------------------
(* ~ClusterTopologyMonitor.  The owner of the monitor runs it when no      *)
(* client is in a call.                                                    *)

BeginDestroy ==
    /\ CanDestroy /\ dpc = "idle"
    /\ \A c \in Callers : cpc[c] = "idle"
    /\ is_running' = FALSE
    /\ node_threads_stop' = TRUE
    /\ request' = TRUE
    /\ dpc' = "clear"
    /\ UNCHANGED <<conn, writer, faults, mainVars, mpc, localVars, shareVars,
                   nodeVars, cache, callVars>>

DestroyNodeMonitors ==
    /\ dpc = "clear"
    /\ ClearNodes
    /\ dpc' = "join"
    /\ UNCHANGED <<conn, writer, faults, mainVars, mpc, localVars,
                   node_threads_stop, shareVars, cacheVars, callVars,
                   is_running>>

(* The main thread is joined, then its connection is disposed of.  The     *)
(* members are destroyed after that; node_monitoring_threads_ may have got *)
(* new entries by then.                                                    *)
DestroyMainMonitor ==
    /\ dpc = "join" /\ mpc = "done"
    /\ conn' = Freed({main_hdbc})
    /\ main_hdbc' = Null
    /\ dpc' = "members"
    /\ UNCHANGED <<writer, faults, is_writer_connection, main_writer_host,
                   ignore_end, mpc, localVars, node_threads_stop, shareVars,
                   nodeVars, cacheVars, callVars, is_running>>

DestroyStep == BeginDestroy \/ DestroyNodeMonitors \/ DestroyMainMonitor

-----------------------------------------------------------------------------
(* The environment.                                                        *)

(* The cluster promotes another instance.                                  *)
Failover ==
    /\ Fault("failover")
    /\ \E n \in Hosts \ {writer} : writer' = n
    /\ UNCHANGED <<conn, mainVars, mpc, localVars, node_threads_stop,
                   shareVars, nodeVars, cacheVars, callVars, dtorVars>>

(* A connection breaks.                                                    *)
Drop(h) ==
    /\ conn[h] \in Hosts
    /\ Fault("drop")
    /\ conn' = [conn EXCEPT ![h] = Closed]
    /\ UNCHANGED <<writer, mainVars, mpc, localVars, node_threads_stop,
                   shareVars, nodeVars, cacheVars, callVars, dtorVars>>

(* The entry of the topology cache expires (SlidingCacheMap).              *)
Expire ==
    /\ cache # Null
    /\ Fault("expire")
    /\ cache' = Null
    /\ UNCHANGED <<conn, writer, mainVars, mpc, localVars, node_threads_stop,
                   shareVars, nodeVars, request, callVars, dtorVars>>

(* The clock passes the end of the ignore window.                          *)
WindowEnds ==
    /\ ignore_end = "ahead"
    /\ ignore_end' = "behind"
    /\ UNCHANGED <<conn, writer, faults, main_hdbc, is_writer_connection,
                   main_writer_host, mpc, localVars, node_threads_stop,
                   shareVars, nodeVars, cacheVars, callVars, dtorVars>>

EnvStep == Failover \/ (\E h \in Handles : Drop(h)) \/ Expire \/ WindowEnds

Next ==
    \/ MainStep
    \/ \E n \in Hosts : NodeStep(n)
    \/ \E c \in Callers : CallForceRefresh(c) \/ CallStep(c)
    \/ DestroyStep
    \/ EnvStep

Spec == Init /\ [][Next]_vars

(* Every thread that can run is scheduled in the end; time passes.         *)
(* Clients need not call, faults need not happen, the owner need not       *)
(* destroy the monitor.                                                    *)
Fairness ==
    /\ WF_vars(MainStep)
    /\ \A n \in Hosts : WF_vars(NodeStep(n))
    /\ \A c \in Callers : WF_vars(CallStep(c))
    /\ WF_vars(DestroyNodeMonitors) /\ WF_vars(DestroyMainMonitor)
    /\ WF_vars(WindowEnds)

FairSpec == Spec /\ Fairness

-----------------------------------------------------------------------------
(* Properties.                                                             *)

Topology == Topologies \cup {Null}
Handle   == Handles \cup {Null}

MainControl == {"top", "init", "open", "set", "deref", "query", "publish",
                "spawn", "adopt", "join", "delay", "regular",
                "publishRegular", "done", "crashed"}
NodeControl == {"off", "top", "writer", "publishWriter", "reader", "share",
                "shareLocked", "done"}
CallControl == {"idle", "drop", "read", "raise", "wait", "put", "fetch",
                "publish"}

EnvTypeOK ==
    /\ conn \in [Handles -> Hosts \cup {Free, Closed}]
    /\ writer \in Hosts /\ faults \in 0..MaxFaults
MainTypeOK ==
    /\ main_hdbc \in Handle /\ is_writer_connection \in BOOLEAN
    /\ main_writer_host \in Hosts \cup {Null}
    /\ ignore_end \in {"epoch", "ahead", "behind"}
LocalTypeOK ==
    local_hdbc \in Handle /\ hosts \in Topology /\ verified \in BOOLEAN
ShareTypeOK ==
    /\ node_writer_hdbc \in Handle /\ node_writer_host \in Hosts \cup {Null}
    /\ node_reader_hdbc \in Handle /\ latest_topology \in Topology
NodeTypeOK ==
    /\ npc \in [Hosts -> NodeControl]
    /\ hdbc \in [Hosts -> Handle]
    /\ reader_update \in [Hosts -> BOOLEAN]
    /\ writer_changed \in [Hosts -> BOOLEAN]
    /\ known_writer \in [Hosts -> Hosts \cup {Null}]
    /\ found \in [Hosts -> Topology]
CacheTypeOK == cache \in Topology /\ request \in BOOLEAN
CallTypeOK ==
    /\ cpc \in [Callers -> CallControl]
    /\ ckind \in [Callers -> Requests \cup {Null}]
    /\ chosts \in [Callers -> Topology]
DtorTypeOK ==
    is_running \in BOOLEAN /\ dpc \in {"idle", "clear", "join", "members"}

(* Every variable has its type.                                            *)
TypeOK ==
    /\ EnvTypeOK /\ MainTypeOK /\ LocalTypeOK /\ ShareTypeOK /\ NodeTypeOK
    /\ CacheTypeOK /\ CallTypeOK /\ DtorTypeOK
    /\ mpc \in MainControl /\ node_threads_stop \in BOOLEAN

(* The places that own a handle: the members of the monitor, the local     *)
(* variable of open_any_conn_get_hosts until the handle is installed, and  *)
(* hdbc_ of every node thread until it is handed over.                     *)
MemberSlot == [main    |-> main_hdbc,
               writer  |-> node_writer_hdbc,
               reader  |-> node_reader_hdbc,
               opening |-> IF mpc = "set" THEN local_hdbc ELSE Null]
NodeSlot(n) == IF npc[n] = "publishWriter" THEN Null ELSE hdbc[n]

(* No connection handle is owned twice, so that none is freed twice or     *)
(* used by two threads as their own, and an owned handle is allocated:     *)
(* the hand-overs of handle_writer_conn, handle_reader_conn,               *)
(* get_possible_writer_conn and open_any_conn_get_hosts move handles from  *)
(* thread to thread while ForceRefresh disposes of them.                   *)
OneOwner ==
    /\ \A a, b \in DOMAIN MemberSlot :
          a # b /\ MemberSlot[a] # Null => MemberSlot[a] # MemberSlot[b]
    /\ \A n \in Hosts : NodeSlot(n) # Null =>
          /\ \A a \in DOMAIN MemberSlot : MemberSlot[a] # NodeSlot(n)
          /\ \A m \in Hosts \ {n} : NodeSlot(m) # NodeSlot(n)
    /\ \A a \in DOMAIN MemberSlot :
          MemberSlot[a] # Null => conn[MemberSlot[a]] # Free
    /\ \A n \in Hosts : NodeSlot(n) # Null => conn[NodeSlot(n)] # Free

(* Every allocated handle is owned by some place: reconnecting, losing the *)
(* race to install or hand over a connection, and returning to panic mode  *)
(* leak none.                                                              *)
NoHandleLeak ==
    \A h \in Handles : conn[h] # Free =>
        \/ \E a \in DOMAIN MemberSlot : MemberSlot[a] = h
        \/ \E n \in Hosts : NodeSlot(n) = h

(* is_writer_connection_ and main_hdbc_ change together: while the monitor *)
(* claims a writer connection it has one, and as long as that connection   *)
(* lives it leads to the host main_writer_host_info_ names.                *)
WriterConnectionMatchesHost ==
    is_writer_connection /\ dpc # "members" =>
        /\ main_hdbc # Null
        /\ Alive(main_hdbc) => conn[main_hdbc] = main_writer_host

(* open_any_conn_get_hosts queries on the handle it has read from          *)
(* main_hdbc_ without the mutex, and ForceRefresh may dispose of it        *)
(* meanwhile: the query then meets a handle that is free, never one that   *)
(* was allocated anew for the connection of another thread.                *)
QueriedHandleNotReused ==
    mpc = "query" => local_hdbc = main_hdbc \/ conn[local_hdbc] = Free

(* A writer connection that a node thread has handed over ends the other   *)
(* node threads: node_threads_stop_ is raised, or its thread is about to   *)
(* raise it and still holds the mutex.                                     *)
HandOverStopsNodes ==
    node_writer_hdbc # Null =>
        node_threads_stop \/ \E n \in Hosts : npc[n] = "publishWriter"

(* The monitor follows the writer on its own connection only after the     *)
(* node threads are told to stop or are gone: no node thread keeps         *)
(* publishing beside the main thread.                                      *)
RegularModeStopsNodes ==
    is_writer_connection => node_threads_stop \/ NodesEmpty

(* reader_thread_fetch_topology reads node_threads_reader_hdbc_ without    *)
(* its mutex and dereferences it: the thread that updates the topology is  *)
(* the only one, and its connection stays set as long as it runs.          *)
ReaderConnectionStays ==
    \A n \in Hosts : reader_update[n] =>
        /\ node_reader_hdbc # Null
        /\ \A m \in Hosts \ {n} : ~reader_update[m]

(* The three states in which the code leaves the monitor for ever: the     *)
(* main thread joins, with the mutexes held, a node thread that waits for  *)
(* one of them (get_possible_writer_conn, handle_writer_conn); the         *)
(* connection that was handed over has died before the main thread has     *)
(* taken it, with the node threads told to stop and none left to replace   *)
(* it; the shared reader connection has died, which nobody replaces        *)
(* (reader_thread_fetch_topology), before a topology has told the main     *)
(* thread to monitor the writer.                                           *)
JoinDeadlock == mpc = "join" /\ \E n \in Hosts : npc[n] = "writer"
Lost(h) == h # Null /\ ~Alive(h) /\ InPanicMode /\ ~NodesEmpty
HandOverLost == Lost(node_writer_hdbc)
ReaderLost ==
    /\ Lost(node_reader_hdbc) /\ npc[writer] = "off"
    /\ latest_topology = Null \/ writer \notin latest_topology.m
Stuck == JoinDeadlock \/ HandOverLost \/ ReaderLost

(* Panic mode ends: whatever the cache held, a failover, connections that  *)
(* fail or are lost, failed queries, and entries that expire do not keep   *)
(* the monitor from finding the writer again, unless one of the two        *)
(* connections is lost (the deadlock comes after panic mode).              *)
PanicEnds == InPanicMode ~> ~InPanicMode \/ HandOverLost \/ ReaderLost

(* A raised request_update_topology_ is satisfied by an update, unless the *)
(* monitor is destroyed or stuck.                                          *)
RequestSatisfied == request ~> ~request \/ ~is_running \/ Stuck

(* A topology that names the writer of the cluster, the new one after a    *)
(* failover, is published and stays published once faults and clients have *)
(* ceased, unless the monitor is stuck.                                    *)
WriterPublished == <>[]((cache # Null /\ cache.w = writer) \/ Stuck)

(* Joining the node threads with the mutexes held ends, but for the        *)
(* deadlock with one that waits for a mutex.                               *)
JoinEnds == mpc = "join" ~> mpc # "join" \/ JoinDeadlock


(* The ignore window is closed again once its end has passed, by a main    *)
(* thread that is not in the deadlock.                                     *)
IgnoreWindowCloses ==
    ignore_end = "behind" ~> ignore_end = "epoch" \/ JoinDeadlock

-----------------------------------------------------------------------------
(* What comments of the source say and the code does not do.  TLC refutes  *)
(* each of them: WriterConnHandled in a run of its own, the others with    *)
(* the configurations the README describes.                                *)

(* "There should be only at most 1 thread interacting with these" (of      *)
(* main_hdbc_, cluster_topology_monitor.h:122): the main thread never      *)
(* finds the connection gone that it has just opened.                      *)
MainConnNotTakenAway == mpc # "crashed"

(* "Writer connection already set / Disconnect this thread's connection"   *)
(* (cluster_topology_monitor.cc:512): a node thread that has detected the  *)
(* writer gets to hand over its connection or to disconnect it.            *)
WriterConnHandled == \A n \in Hosts : npc[n] = "writer" ~> npc[n] # "writer"

(* "Main monitor now tracks this connection" (.cc:517): a connection that  *)
(* was handed over is taken by the main thread, or discarded.              *)
HandedOverConnTracked == node_writer_hdbc # Null ~> node_writer_hdbc = Null

(* "Check if writer changed" (.cc:575): a reader thread marks the writer   *)
(* changed only on a writer other than the one it was started with.        *)
ChangeMeansOtherWriter ==
    [][\A n \in Hosts : ~writer_changed[n] /\ writer_changed'[n] =>
          known_writer[n] = Null \/ latest_topology'.w # known_writer[n]]_vars

(* "want to ignore new topology requests after failover" (.cc:286): until  *)
(* the end of the window a refresh is answered from the cache.             *)
WindowIgnoresRequests ==
    [][\A c \in Callers :
          cpc[c] = "idle" /\ cpc'[c] # "idle" /\ ckind'[c] # "conn"
             => ignore_end # "ahead" \/ cache = Null]_vars

(* "Main thread will clean up if this Node was used as a reader            *)
(* connection" (.cc:455): a destroyed monitor leaves no reader connection. *)
ReaderConnCleanedUp ==
    dpc = "members" /\ NodesEmpty => node_reader_hdbc = Null

(* "Notify node threads if they are stuck waiting" (.cc:55): when the      *)
(* mutexes and handles of the monitor are destroyed, no node thread runs.  *)
NodesNotifiedOfEnd == dpc = "members" => NodesJoinable
=============================================================================
