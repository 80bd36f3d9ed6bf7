--------------------------- MODULE FailoverService ---------------------------
(***************************************************************************)
(* The failover procedures of one FailoverService                          *)
(* (src/src/failover/failover_service.{h,cc}: FailoverConnection,          *)
(* Failover, failover_reader, failover_writer, connect_to_host,            *)
(* is_connected_to_reader), run by several client threads at once, each on *)
(* a connection handle of its own. The threads share curr_host_ and        *)
(* conn_info_ without a lock. The topology monitor is the environment that *)
(* refreshes and loses the cached topology, and may hang with hdbc_mutex_  *)
(* held (WriterConnHandled of ClusterTopologyMonitor). An action is one    *)
(* ODBC call with what follows it, or one access to shared state; the      *)
(* liveness and the role of a fresh connection are asked in one action, a  *)
(* loss in between being a failed role query.                              *)
(***************************************************************************)
EXTENDS Naturals

CONSTANTS
    Hosts,        \* instances of the cluster
    Threads,      \* client threads
    Configurations,  \* failover modes with reader selection strategies
    Null,         \* no host (an empty host name), no topology
    Free,         \* state of a handle that is not allocated
    Closed,       \* state of a handle without a connection
    Lost,         \* state of a connected handle whose server is gone
    FaultKinds,   \* what goes wrong, a subset of AllFaults
    MaxFaults     \* BOUND: number of faults of a behaviour

AllModes  == {"STRICT_WRITER", "STRICT_READER", "READER_OR_WRITER"}
AllStrategies == {"RANDOM", "ROUND_ROBIN", "HIGHEST_WEIGHT"}
AllFaults == {"failover", "drop", "connect", "query", "expire", "stale", "hang"}

(* A cached topology: the host marked writer, if any, and all hosts.       *)
Topologies == [w : Hosts \cup {Null}, m : (SUBSET Hosts) \ {{}}]

ASSUME FailoverAssumption ==
    /\ Configurations \subseteq AllModes \X AllStrategies
    /\ Null \notin Hosts /\ Null \notin Topologies
    /\ {Free, Closed, Lost} \cap Hosts = {}
    /\ Free # Closed /\ Free # Lost /\ Closed # Lost
    /\ FaultKinds \subseteq AllFaults
    /\ MaxFaults \in Nat

VARIABLES
    writer,       \* the host that is the writer now
    faults,       \* faults so far
    cache,        \* topology_map_[cluster_id_]
    hung,         \* the monitor joins its node threads for ever, with
                  \* hdbc_mutex_ held
    failover_mode,
    strategy,     \* the kind of host_selector_
    curr_host,
    conn_host,    \* conn_info_[SERVER_HOST_KEY]
    pc,           \* thread -> control point
    dbc,          \* thread -> Free, Closed, Lost or the host connected to
    late,         \* thread -> the failover timeout has passed
    host,         \* thread -> host, host_string: the host being tried
    original_writer, reader_candidates, remaining_readers,
    unweighted,   \* thread -> the candidates the topology gives no weight
    status        \* thread -> the FailoverStatus of its last failover

sharedVars == <<curr_host, conn_host>>
configVars == <<failover_mode, strategy>>
monitorVars == <<cache, hung>>
envVars    == <<writer, faults, monitorVars, configVars>>
copyVars   == <<original_writer, unweighted>>
listVars   == <<copyVars, reader_candidates, remaining_readers>>

vars == <<envVars, sharedVars, pc, dbc, late, host, listVars, status>>

Fault(k) == k \in FaultKinds /\ faults < MaxFaults /\ faults' = faults + 1

(* What the cluster reports of itself.                                     *)
Views == {[w |-> writer, m |-> Hosts]}

Init ==
    /\ writer \in Hosts /\ faults = 0
    /\ cache \in Views \cup {Null} /\ hung = FALSE
    /\ \E c \in Configurations : failover_mode = c[1] /\ strategy = c[2]
    /\ curr_host \in Hosts /\ conn_host = curr_host
    /\ pc = [t \in Threads |-> "idle"]
    /\ dbc = [t \in Threads |-> Free]
    /\ late = [t \in Threads |-> FALSE]
    /\ host = [t \in Threads |-> Null]
    /\ original_writer = [t \in Threads |-> Null]
    /\ unweighted = [t \in Threads |-> {}]
    /\ reader_candidates = [t \in Threads |-> {}]
    /\ remaining_readers = [t \in Threads |-> {}]
    /\ status = [t \in Threads |-> "none"]

Set(f, t, value) == [f EXCEPT ![t] = value]

Goto(t, next) == pc' = Set(pc, t, next)

(* is_connected_to_reader: false as well when the query fails.             *)
IsConnectedToReader(t, yes) ==
    \/ yes = (dbc[t] # writer) /\ UNCHANGED faults
    \/ ~yes /\ Fault("query")

(* The end of Failover with a connection.                                  *)
Succeed(t) ==
    /\ curr_host' = host[t]
    /\ status' = Set(status, t, "succeed")
    /\ Goto(t, "return")

(* The end of Failover without a connection; FailoverConnection cleans up. *)
Fail(t) == status' = Set(status, t, "failed") /\ Goto(t, "cleanup")

-----------------------------------------------------------------------------
(* FailoverConnection.                                                     *)

(* check_should_failover: only the SQL states of class 08 start one.       *)
StartsFailover(t, yes) ==
    IF yes THEN Goto(t, "refresh") /\ status' = Set(status, t, "none")
           ELSE Goto(t, "cleanup") /\ status' = Set(status, t, "skipped")

(* A client whose connection broke asks for a failover.                    *)
FailoverConnection(t) ==
    /\ pc[t] = "idle" /\ dbc[t] = Free
    /\ dbc' = Set(dbc, t, Closed)
    /\ \E yes \in BOOLEAN : StartsFailover(t, yes)
    /\ UNCHANGED <<envVars, sharedVars, late, host, listVars>>

(* Control is back in the caller; local variables are gone.                *)
BackToCaller(t) ==
    /\ Goto(t, "idle")
    /\ host' = Set(host, t, Null)
    /\ original_writer' = Set(original_writer, t, Null)
    /\ reader_candidates' = Set(reader_candidates, t, {})
    /\ remaining_readers' = Set(remaining_readers, t, {})
    /\ unweighted' = Set(unweighted, t, {})
    /\ late' = Set(late, t, FALSE)

(* The handle of an unsuccessful failover is disconnected and freed.       *)
Cleanup(t) ==
    /\ pc[t] = "cleanup"
    /\ dbc' = Set(dbc, t, Free)
    /\ BackToCaller(t)
    /\ UNCHANGED <<envVars, sharedVars, status>>

Return(t) ==
    /\ pc[t] = "return"
    /\ BackToCaller(t)
    /\ UNCHANGED <<envVars, sharedVars, dbc, status>>

(* The client has done with the connection it got.                         *)
ClientDisconnects(t) ==
    /\ pc[t] = "idle" /\ dbc[t] # Free
    /\ dbc' = Set(dbc, t, Free)
    /\ status' = Set(status, t, "none")
    /\ UNCHANGED <<envVars, sharedVars, pc, late, host, listVars>>

-----------------------------------------------------------------------------
(* connect_to_host, in two steps: conn_info_ is shared by all threads.     *)

SetServer(t) ==
    /\ pc[t] \in {"setReader", "setOriginal", "setWriter"}
    /\ conn_host' = host[t]
    /\ Goto(t, CASE pc[t] = "setReader"   -> "connectReader"
                 [] pc[t] = "setOriginal" -> "connectOriginal"
                 [] pc[t] = "setWriter"   -> "connectWriter")
    /\ UNCHANGED <<envVars, curr_host, dbc, late, host, listVars, status>>

(* SQLDriverConnect to the host conn_info_ names by now.  It fails for an  *)
(* empty host name and on a handle that is already connected.              *)
ConnStrConnect(t, connected) ==
    \/ /\ connected
       /\ dbc[t] = Closed /\ conn_host # Null
       /\ dbc' = Set(dbc, t, conn_host)
       /\ UNCHANGED faults
    \/ /\ ~connected
       /\ IF dbc[t] = Closed /\ conn_host # Null
          THEN Fault("connect")
          ELSE UNCHANGED faults
       /\ UNCHANGED dbc

-----------------------------------------------------------------------------
(* failover_reader.                                                        *)

(* The hosts of S to which a topology gives the weight zero: it is the     *)
(* rounded replica lag and load (QueryTopology).  The random selector does *)
(* not look at the weights.                                                *)
WithoutWeight(S) == IF strategy = "RANDOM" THEN {{}} ELSE SUBSET S

(* ForceRefresh without a timeout returns at once; the hosts of the cached *)
(* topology are split into the original writer and the reader candidates.  *)
ReaderRefresh(t) ==
    /\ pc[t] = "refresh" /\ failover_mode # "STRICT_WRITER"
    /\ IF cache = Null
       THEN Fail(t) /\ UNCHANGED listVars
       ELSE LET readers == cache.m \ {cache.w}
            IN /\ original_writer' = Set(original_writer, t, cache.w)
               /\ reader_candidates' = Set(reader_candidates, t, readers)
               /\ remaining_readers' = Set(remaining_readers, t, readers)
               /\ \E none \in WithoutWeight(readers) :
                     unweighted' = Set(unweighted, t, none)
               /\ Goto(t, "readers")
               /\ UNCHANGED status
    /\ UNCHANGED <<envVars, sharedVars, dbc, late, host>>

RandomHosts(S) == S

(* Of two weights, none and some, some is the highest.                     *)
HighestWeightHosts(S, none) == IF S \subseteq none THEN S ELSE S \ none

(* What host_selector_->GetHost may return of the hosts S.                 *)
ReaderHostSelector(S, none) ==
    IF strategy = "HIGHEST_WEIGHT" THEN HighestWeightHosts(S, none)
                                   ELSE RandomHosts(S)

(* The round robin selector throws for a weight string with the weight     *)
(* zero, at least when it sees it for the first time.                      *)
SelectorMayThrow(none) == strategy = "ROUND_ROBIN" /\ none # {}

SelectReader(t) ==
    /\ pc[t] = "readers" /\ ~late[t]
    /\ remaining_readers[t] # {}
    /\ \/ /\ \E h \in ReaderHostSelector(remaining_readers[t], unweighted[t]) :
                host' = Set(host, t, h)
          /\ Goto(t, "setReader")
          /\ UNCHANGED status
       \/ /\ SelectorMayThrow(unweighted[t])
          /\ Fail(t)
          /\ UNCHANGED host
    /\ UNCHANGED <<envVars, sharedVars, dbc, late, listVars>>

(* Mutant of Again: the readers are tried once only.                       *)
GiveUp(t) == Goto(t, "timedOut") /\ UNCHANGED remaining_readers

(* Mutant of Again: the clock is not looked at.                            *)
AgainForever(t) ==
    /\ remaining_readers' = Set(remaining_readers, t, reader_candidates[t])
    /\ Goto(t, "readers")

(* The test of the do loop, and remaining_readers for the next round.      *)
Again(t) ==
    IF late[t]
    THEN Goto(t, "timedOut") /\ UNCHANGED remaining_readers
    ELSE /\ remaining_readers' = Set(remaining_readers, t, reader_candidates[t])
         /\ Goto(t, "readers")

(* No reader is left, or no time: the original writer is next, or the test *)
(* of the do loop.                                                         *)
ReadersExhausted(t) ==
    /\ pc[t] = "readers"
    /\ \/ /\ late[t]
          /\ Again(t)
          /\ UNCHANGED host
       \/ /\ ~late[t] /\ remaining_readers[t] = {}
          /\ Goto(t, "setOriginal")
          /\ host' = Set(host, t, original_writer[t])
          /\ UNCHANGED remaining_readers
    /\ UNCHANGED <<envVars, sharedVars, dbc, late, copyVars,
                   reader_candidates, status>>

(* remove_candidate of the host tried from remaining_readers.              *)
DropRemaining(t) ==
    remaining_readers' = Set(remaining_readers, t, remaining_readers[t] \ {host[t]})

ConnectReader(t) ==
    /\ pc[t] = "connectReader"
    /\ \E connected \in BOOLEAN :
          /\ ConnStrConnect(t, connected)
          /\ IF connected
             THEN Goto(t, "checkReader") /\ UNCHANGED remaining_readers
             ELSE Goto(t, "readers") /\ DropRemaining(t)
    /\ UNCHANGED <<writer, monitorVars, configVars, sharedVars, late, host,
                   copyVars, reader_candidates, status>>

(* A reader candidate that turned out to be no reader is disconnected and  *)
(* never tried again.                                                      *)
RejectReader(t) ==
    /\ dbc' = Set(dbc, t, Closed)
    /\ DropRemaining(t)
    /\ reader_candidates' = Set(reader_candidates, t, reader_candidates[t] \ {host[t]})
    /\ Goto(t, "readers")
    /\ UNCHANGED <<curr_host, status>>

(* Mutant of Acceptable: the mode is not consulted.                        *)
AcceptableAnyway(is_reader) == TRUE

(* The role that a reader failover accepts.                                *)
Acceptable(is_reader) == is_reader \/ failover_mode # "STRICT_READER"

CheckReader(t) ==
    /\ pc[t] = "checkReader"
    /\ \/ /\ dbc[t] = Lost
          /\ RejectReader(t)
          /\ UNCHANGED faults
       \/ /\ dbc[t] # Lost
          /\ \E yes \in BOOLEAN :
                /\ IsConnectedToReader(t, yes)
                /\ IF Acceptable(yes)
                   THEN Succeed(t) /\ UNCHANGED <<dbc, listVars>>
                   ELSE RejectReader(t)
    /\ UNCHANGED <<writer, monitorVars, configVars, conn_host, late, host,
                   copyVars>>

ConnectOriginal(t) ==
    /\ pc[t] = "connectOriginal"
    /\ \E connected \in BOOLEAN :
          /\ ConnStrConnect(t, connected)
          /\ IF connected
             THEN Goto(t, "checkOriginal") /\ UNCHANGED remaining_readers
             ELSE Again(t)
    /\ UNCHANGED <<writer, monitorVars, configVars, sharedVars, late, host,
                   copyVars, reader_candidates, status>>

(* The original writer is accepted in its old role, or as a reader; when   *)
(* it is not, the handle stays connected.                                  *)
CheckOriginal(t) ==
    /\ pc[t] = "checkOriginal"
    /\ \/ /\ dbc[t] = Lost
          /\ dbc' = Set(dbc, t, Closed)
          /\ Again(t)
          /\ UNCHANGED <<faults, curr_host, status>>
       \/ /\ dbc[t] # Lost
          /\ \E yes \in BOOLEAN :
                /\ IsConnectedToReader(t, yes)
                /\ IF Acceptable(yes)
                   THEN Succeed(t) /\ UNCHANGED remaining_readers
                   ELSE Again(t) /\ UNCHANGED <<curr_host, status>>
          /\ UNCHANGED dbc
    /\ UNCHANGED <<writer, monitorVars, configVars, conn_host, late, host,
                   copyVars, reader_candidates>>

ReaderTimedOut(t) ==
    /\ pc[t] = "timedOut"
    /\ dbc' = Set(dbc, t, Closed)
    /\ Fail(t)
    /\ UNCHANGED <<envVars, sharedVars, late, host, listVars>>

-----------------------------------------------------------------------------
(* failover_writer.                                                        *)

WriterListed == IF cache = Null THEN FALSE ELSE cache.w # Null

(* ForceRefresh with the writer to be verified takes hdbc_mutex_, and is   *)
(* blocked for good if the monitor hangs with it.  It goes on if it has    *)
(* had the mutex before, or finds a topology and the end of the ignore     *)
(* window behind, which is why it is two steps.                            *)
ForceRefresh(t) ==
    /\ pc[t] = "refresh" /\ failover_mode = "STRICT_WRITER"
    /\ \/ (hung => cache # Null) /\ Goto(t, "await")
       \/ hung /\ Goto(t, "blocked")
    /\ UNCHANGED <<envVars, sharedVars, dbc, late, host, listVars, status>>

(* It has waited for an update, or for its timeout; then                   *)
(* host_selector_->GetHost takes the host marked writer from the cached    *)
(* topology, or throws: without such a host, or for the weight of any.     *)
SelectWriter(t) ==
    /\ pc[t] = "await"
    /\ \/ /\ \/ ~WriterListed
             \/ WriterListed /\ SelectorMayThrow(cache.m)
          /\ Fail(t)
          /\ UNCHANGED host
       \/ /\ WriterListed
          /\ host' = Set(host, t, cache.w)
          /\ Goto(t, "setWriter")
          /\ UNCHANGED status
    /\ UNCHANGED <<envVars, sharedVars, dbc, late, listVars>>

ConnectWriter(t) ==
    /\ pc[t] = "connectWriter"
    /\ \E connected \in BOOLEAN :
          /\ ConnStrConnect(t, connected)
          /\ IF connected THEN Goto(t, "checkWriter") /\ UNCHANGED status
                          ELSE Fail(t)
    /\ UNCHANGED <<writer, monitorVars, configVars, sharedVars, late, host, listVars>>

(* A connection is the writer's unless the query says otherwise.           *)
CheckWriter(t) ==
    /\ pc[t] = "checkWriter"
    /\ \/ /\ dbc[t] = Lost
          /\ dbc' = Set(dbc, t, Closed)
          /\ Fail(t)
          /\ UNCHANGED <<faults, curr_host>>
       \/ /\ dbc[t] # Lost
          /\ \E yes \in BOOLEAN :
                /\ IsConnectedToReader(t, yes)
                /\ IF yes THEN Fail(t) /\ UNCHANGED curr_host ELSE Succeed(t)
          /\ UNCHANGED dbc
    /\ UNCHANGED <<writer, monitorVars, configVars, conn_host, late, host, listVars>>

ThreadStep(t) ==
    \/ Cleanup(t) \/ Return(t) \/ SetServer(t)
    \/ ReaderRefresh(t) \/ SelectReader(t) \/ ReadersExhausted(t)
    \/ ConnectReader(t) \/ CheckReader(t)
    \/ ConnectOriginal(t) \/ CheckOriginal(t) \/ ReaderTimedOut(t)
    \/ ForceRefresh(t) \/ SelectWriter(t) \/ ConnectWriter(t) \/ CheckWriter(t)

-----------------------------------------------------------------------------
(* The environment.                                                        *)

(* The clock passes the end of the failover timeout.                       *)
TimePasses(t) ==
    /\ pc[t] \notin {"idle", "cleanup", "return"} /\ ~late[t]
    /\ failover_mode # "STRICT_WRITER"
    /\ late' = Set(late, t, TRUE)
    /\ UNCHANGED <<envVars, sharedVars, pc, dbc, host, listVars, status>>

(* The monitor publishes what the cluster reports ...                      *)
CachePublish ==
    /\ cache \notin Views
    /\ cache' \in Views
    /\ UNCHANGED <<writer, faults, hung, configVars, sharedVars, pc, dbc, late,
                   host, listVars, status>>

(* ... or an incomplete topology; the entry expires.                       *)
CacheFault ==
    /\ \/ Fault("expire") /\ cache # Null /\ cache' = Null
       \/ Fault("stale") /\ cache' \in {[w |-> Null, m |-> m] :
                                            m \in {{h} : h \in Hosts \ {writer}}}
    /\ UNCHANGED <<writer, hung, configVars, sharedVars, pc, dbc, late, host,
                   listVars, status>>

(* The monitor's main thread joins a node thread that waits for it.        *)
MonitorHangs ==
    /\ ~hung /\ Fault("hang")
    /\ hung' = TRUE
    /\ UNCHANGED <<writer, cache, configVars, sharedVars, pc, dbc, late, host,
                   listVars, status>>

Failover ==
    /\ Fault("failover")
    /\ \E h \in Hosts \ {writer} : writer' = h
    /\ UNCHANGED <<monitorVars, configVars, sharedVars, pc, dbc, late, host,
                   listVars, status>>

Drop(t) ==
    /\ dbc[t] \in Hosts
    /\ Fault("drop")
    /\ dbc' = Set(dbc, t, Lost)
    /\ UNCHANGED <<writer, monitorVars, configVars, sharedVars, pc, late, host,
                   listVars, status>>

Next ==
    \/ \E t \in Threads : \/ FailoverConnection(t) \/ ClientDisconnects(t)
                          \/ ThreadStep(t) \/ TimePasses(t) \/ Drop(t)
    \/ CachePublish \/ CacheFault \/ MonitorHangs \/ Failover

Spec == Init /\ [][Next]_vars

(* Calls into the ODBC driver return and the clock does not stop.          *)
Fairness == \A t \in Threads : WF_vars(ThreadStep(t)) /\ WF_vars(TimePasses(t))

FairSpec == Spec /\ Fairness

-----------------------------------------------------------------------------
(* Properties.                                                             *)

Control == {"idle", "refresh", "readers", "setReader", "connectReader",
            "checkReader", "setOriginal", "connectOriginal", "checkOriginal",
            "timedOut", "await", "blocked", "setWriter", "connectWriter",
            "checkWriter", "cleanup", "return"}

(* Every variable has its type.                                            *)
TypeOK ==
    /\ writer \in Hosts /\ faults \in 0..MaxFaults
    /\ cache \in Topologies \cup {Null} /\ hung \in BOOLEAN
    /\ failover_mode \in AllModes /\ strategy \in AllStrategies
    /\ curr_host \in Hosts \cup {Null} /\ conn_host \in Hosts \cup {Null}
    /\ pc \in [Threads -> Control]
    /\ dbc \in [Threads -> Hosts \cup {Free, Closed, Lost}]
    /\ late \in [Threads -> BOOLEAN]
    /\ host \in [Threads -> Hosts \cup {Null}]
    /\ original_writer \in [Threads -> Hosts \cup {Null}]
    /\ reader_candidates \in [Threads -> SUBSET Hosts]
    /\ remaining_readers \in [Threads -> SUBSET Hosts]
    /\ unweighted \in [Threads -> SUBSET Hosts]
    /\ status \in [Threads -> {"none", "skipped", "failed", "succeed"}]

(* A failover of thread t succeeds in this step.                           *)
Succeeds(t) == status[t] # "succeed" /\ status'[t] = "succeed"

(* A strict reader failover never hands out a connection to the writer,    *)
(* whatever the topology said, the role query did, or another thread wrote *)
(* into conn_info_ between the choice of the host and the connect.         *)
StrictReaderGetsReader ==
    [][\A t \in Threads : Succeeds(t) /\ failover_mode = "STRICT_READER"
          => dbc'[t] \in Hosts \ {writer}]_vars

(* ... and a writer failover hands out a connection to a reader only if    *)
(* the role query failed.                                                  *)
WriterFailoverAsksRole ==
    [][\A t \in Threads : Succeeds(t) /\ failover_mode = "STRICT_WRITER"
          => dbc'[t] = writer \/ faults' > faults]_vars

(* A handle is not connected a second time: every connect is made on a     *)
(* closed handle.  (In strict reader mode it is not so: see below.)        *)
ConnectsClosedHandle ==
    failover_mode # "STRICT_READER" =>
        \A t \in Threads :
            pc[t] \in {"connectReader", "connectOriginal", "connectWriter"}
                => dbc[t] = Closed

(* The candidates of a reader failover never include the original writer,  *)
(* and what remains of a round is among them, so that a host that is       *)
(* rejected for good does not come back in a later round.                  *)
RemainingAreCandidates ==
    \A t \in Threads :
        /\ remaining_readers[t] \subseteq reader_candidates[t]
        /\ pc[t] \in {"readers", "setReader", "connectReader", "checkReader"}
              => original_writer[t] \notin reader_candidates[t]

(* A reader failover that had a topology to work with does not give up     *)
(* before its timeout, unless it is configured for round robin and some    *)
(* candidate has no weight.                                                *)
GivesUpOnlyLate ==
    [][\A t \in Threads :
          status[t] # "failed" /\ status'[t] = "failed"
             /\ failover_mode # "STRICT_WRITER" /\ pc[t] # "refresh"
          => late[t] \/ SelectorMayThrow(unweighted[t])]_vars

(* A strict writer failover waits for the mutex of a monitor that hangs.   *)
Blocked(t) == pc[t] = "blocked" /\ hung /\ failover_mode = "STRICT_WRITER"

(* Every failover returns, also in strict reader mode on a handle that     *)
(* cannot be connected any more, and whatever the monitor does, but for a  *)
(* writer failover that asks a monitor that hangs already.                 *)
FailoverReturns ==
    \A t \in Threads : pc[t] # "idle" ~> pc[t] = "idle" \/ Blocked(t)

(* What happens until control is about to return to the client is hidden   *)
(* from it: its handle is local to FailoverConnection.                     *)
Returned(t) == pc[t] \in {"idle", "return"}

Asked == {t \in Threads : ~Returned(t)}
Connection == [t \in Threads |-> IF Returned(t) THEN dbc[t] ELSE Free]
Result == [t \in Threads |-> IF Returned(t) THEN status[t] ELSE "none"]

Promise == INSTANCE FailoverPromise
    WITH Clients <- Threads, Modes <- AllModes, NoConnection <- Free,
         mode <- failover_mode, trouble <- faults, asked <- Asked,
         connection <- Connection, result <- Result

(* Failovers that overwrite each other's host and lose connections on the  *)
(* way keep the promise of FailoverConnection, each of them: a connection  *)
(* in the right role, or none and nothing left over.                       *)
KeepsPromise == Promise!Spec

-----------------------------------------------------------------------------
(* What comments and tests say and the code does not do.  TLC refutes each *)
(* of them with the configuration the README describes.                    *)

(* "The original writer has been verified, so it is not valid when in      *)
(* STRICT_READER mode" (failover_service.cc:281): a writer that the        *)
(* failover has connected to and rejected is not tried again.              *)
VerifiedWriterNotRetried ==
    \A t \in Threads :
        failover_mode = "STRICT_READER" /\ pc[t] = "setOriginal"
            => dbc[t] # original_writer[t]

(* "The reader candidate is actually a writer ... We will remove it from   *)
(* the list of reader candidates" (.cc:266-267): what is removed is not a  *)
(* reader.                                                                 *)
RemovedCandidateIsWriter ==
    [][\A t \in Threads : pc[t] = "checkReader" =>
          reader_candidates[t] \ reader_candidates'[t] \subseteq {writer}]_vars

(* "EXPECT_EQ(failover_service->GetCurrentHost(), reader_host)"            *)
(* (test/unit_test/failover/failover_service_test.cc:184): after a         *)
(* failover the current host is the host of its connection.                *)
CurrentHostIsConnected ==
    [][\A t \in Threads : Succeeds(t) /\ dbc'[t] # Lost
          => curr_host' = dbc'[t]]_vars

(* "EXPECT_EQ(failover_service->GetCurrentHost(), writer_host)" (the same  *)
(* test, :263): after a strict writer failover the current host is the     *)
(* writer.                                                                 *)
CurrentHostIsWriter ==
    [][\A t \in Threads : Succeeds(t) /\ failover_mode = "STRICT_WRITER"
          => curr_host' = writer]_vars

(* "no hosts in topology" (.cc:241): a reader failover that cannot select  *)
(* a host had none to select from.                                         *)
NoHostsInTopology ==
    [][\A t \in Threads : SelectReader(t) /\ status'[t] = "failed"
          => remaining_readers[t] = {}]_vars
=============================================================================
