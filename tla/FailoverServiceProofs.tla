------------------------ MODULE FailoverServiceProofs ------------------------
(***************************************************************************)
(* Proofs about the failover procedures, for every set of hosts and client *)
(* threads, every failover mode, and any number of faults of every kind.   *)
(***************************************************************************)
EXTENDS FailoverService, TLAPS

InReaderFailover == {"readers", "setReader", "connectReader", "checkReader",
                     "setOriginal", "connectOriginal", "checkOriginal"}

InWriterFailover == {"await", "blocked", "setWriter", "connectWriter",
                     "checkWriter"}

BeforeConnect == {"refresh", "readers", "setReader", "connectReader",
                  "setOriginal", "connectOriginal", "await", "setWriter",
                  "connectWriter"}

(* Each procedure runs in its own modes; what was connected is connected   *)
(* or lost when it is checked; outside strict reader mode the handle is    *)
(* closed from a rejection to the next connect; the original writer is     *)
(* never among the candidates, in no round; the timeout ends a failover    *)
(* only when it has passed; what is cleaned up has not succeeded.          *)
ThreadInv(t) ==
    /\ pc[t] \in InWriterFailover => failover_mode = "STRICT_WRITER"
    /\ pc[t] \in InReaderFailover \cup {"timedOut"} => failover_mode # "STRICT_WRITER"
    /\ pc[t] \in {"checkReader", "checkOriginal", "checkWriter"}
          => dbc[t] \in Hosts \cup {Lost}
    /\ pc[t] \in BeforeConnect /\ failover_mode # "STRICT_READER" => dbc[t] = Closed
    /\ remaining_readers[t] \subseteq reader_candidates[t]
    /\ pc[t] \in InReaderFailover => original_writer[t] \notin reader_candidates[t]
    /\ pc[t] = "timedOut" => late[t]
    /\ pc[t] = "cleanup" => status[t] \in {"failed", "skipped"}

Inv == TypeOK /\ \A t \in Threads : ThreadInv(t)

USE FailoverAssumption DEF FailoverAssumption, envVars, monitorVars, configVars,
    sharedVars, copyVars, listVars

LEMMA InitInv == Init => Inv
<1> SUFFICES ASSUME Init PROVE Inv
  OBVIOUS
<1>1. cache \in Topologies \cup {Null}
  <2>1. writer \in Hosts /\ cache \in Views \cup {Null}
    BY DEF Init
  <2>2. [w |-> writer, m |-> Hosts] \in Topologies
    BY <2>1 DEF Topologies
  <2>3. QED
    BY <2>1, <2>2 DEF Views
<1>2. failover_mode \in AllModes /\ strategy \in AllStrategies
  <2>1. PICK c \in Configurations : failover_mode = c[1] /\ strategy = c[2]
    BY DEF Init
  <2>2. c \in AllModes \X AllStrategies
    BY <2>1
  <2>3. QED
    BY <2>1, <2>2
<1>3. TypeOK
  <2>1. hung \in BOOLEAN /\ late \in [Threads -> BOOLEAN]
    BY Zenon DEF Init
  <2>2. faults \in 0..MaxFaults
    BY DEF Init
  <2>3. /\ pc \in [Threads -> Control]
        /\ dbc \in [Threads -> Hosts \cup {Free, Closed, Lost}]
        /\ status \in [Threads -> {"none", "skipped", "failed", "succeed"}]
    BY DEF Init, Control
  <2>4. QED
    BY <1>1, <1>2, <2>1, <2>2, <2>3 DEF Init, TypeOK
<1>4. \A t \in Threads : ThreadInv(t)
  BY DEF Init, ThreadInv, InReaderFailover, InWriterFailover, BeforeConnect
<1>5. QED
  BY <1>3, <1>4 DEF Inv

LEMMA FailoverConnectionInv ==
    ASSUME Inv, NEW t \in Threads, FailoverConnection(t)
    PROVE  Inv'
BY DEF FailoverConnection, StartsFailover, Goto, Set, Inv, ThreadInv, TypeOK,
   Control, InReaderFailover, InWriterFailover, BeforeConnect

LEMMA CleanupInv ==
    ASSUME Inv, NEW t \in Threads, Cleanup(t)
    PROVE  Inv'
BY DEF Cleanup, BackToCaller, Goto, Set, Inv, ThreadInv, TypeOK, Control,
   InReaderFailover, InWriterFailover, BeforeConnect

LEMMA ReturnInv ==
    ASSUME Inv, NEW t \in Threads, Return(t)
    PROVE  Inv'
BY DEF Return, BackToCaller, Goto, Set, Inv, ThreadInv, TypeOK, Control,
   InReaderFailover, InWriterFailover, BeforeConnect

LEMMA ClientDisconnectsInv ==
    ASSUME Inv, NEW t \in Threads, ClientDisconnects(t)
    PROVE  Inv'
BY DEF ClientDisconnects, Set, Inv, ThreadInv, TypeOK, Control,
   InReaderFailover, InWriterFailover, BeforeConnect

LEMMA SetServerInv ==
    ASSUME Inv, NEW t \in Threads, SetServer(t)
    PROVE  Inv'
BY DEF SetServer, Goto, Set, Inv, ThreadInv, TypeOK, Control,
   InReaderFailover, InWriterFailover, BeforeConnect

LEMMA ReaderRefreshInv ==
    ASSUME Inv, NEW t \in Threads, ReaderRefresh(t)
    PROVE  Inv'
BY DEF ReaderRefresh, WithoutWeight, Fail, Goto, Set, Topologies, Inv,
   ThreadInv, TypeOK, Control, InReaderFailover, InWriterFailover,
   BeforeConnect

LEMMA SelectReaderInv ==
    ASSUME Inv, NEW t \in Threads, SelectReader(t)
    PROVE  Inv'
BY DEF SelectReader, Fail, Goto, Set, ReaderHostSelector, RandomHosts,
   HighestWeightHosts, Inv, ThreadInv, TypeOK, Control, InReaderFailover,
   InWriterFailover, BeforeConnect

LEMMA ReadersExhaustedInv ==
    ASSUME Inv, NEW t \in Threads, ReadersExhausted(t)
    PROVE  Inv'
BY DEF ReadersExhausted, Again, Goto, Set, Inv, ThreadInv, TypeOK, Control,
   InReaderFailover, InWriterFailover, BeforeConnect

LEMMA ConnectReaderInv ==
    ASSUME Inv, NEW t \in Threads, ConnectReader(t)
    PROVE  Inv'
BY DEF ConnectReader, ConnStrConnect, DropRemaining, Fault, Goto, Set, Inv,
   ThreadInv, TypeOK, Control, InReaderFailover, InWriterFailover,
   BeforeConnect

LEMMA CheckReaderInv ==
    ASSUME Inv, NEW t \in Threads, CheckReader(t)
    PROVE  Inv'
BY DEF CheckReader, IsConnectedToReader, Acceptable, Succeed, RejectReader,
   DropRemaining, Fault, Goto, Set, Inv, ThreadInv, TypeOK, Control,
   InReaderFailover, InWriterFailover, BeforeConnect

LEMMA ConnectOriginalInv ==
    ASSUME Inv, NEW t \in Threads, ConnectOriginal(t)
    PROVE  Inv'
BY DEF ConnectOriginal, ConnStrConnect, Again, Fault, Goto, Set, Inv,
   ThreadInv, TypeOK, Control, InReaderFailover, InWriterFailover,
   BeforeConnect

LEMMA CheckOriginalInv ==
    ASSUME Inv, NEW t \in Threads, CheckOriginal(t)
    PROVE  Inv'
BY DEF CheckOriginal, IsConnectedToReader, Acceptable, Succeed, Again, Fault,
   Goto, Set, Inv, ThreadInv, TypeOK, Control, InReaderFailover,
   InWriterFailover, BeforeConnect

LEMMA ReaderTimedOutInv ==
    ASSUME Inv, NEW t \in Threads, ReaderTimedOut(t)
    PROVE  Inv'
BY DEF ReaderTimedOut, Fail, Goto, Set, Inv, ThreadInv, TypeOK, Control,
   InReaderFailover, InWriterFailover, BeforeConnect

LEMMA ForceRefreshInv ==
    ASSUME Inv, NEW t \in Threads, ForceRefresh(t)
    PROVE  Inv'
BY DEF ForceRefresh, Goto, Set, Inv, ThreadInv, TypeOK, Control,
   InReaderFailover, InWriterFailover, BeforeConnect

LEMMA SelectWriterInv ==
    ASSUME Inv, NEW t \in Threads, SelectWriter(t)
    PROVE  Inv'
BY DEF SelectWriter, WriterListed, Fail, Goto, Set, Topologies, Inv,
   ThreadInv, TypeOK, Control, InReaderFailover, InWriterFailover,
   BeforeConnect

LEMMA ConnectWriterInv ==
    ASSUME Inv, NEW t \in Threads, ConnectWriter(t)
    PROVE  Inv'
BY DEF ConnectWriter, ConnStrConnect, Fail, Fault, Goto, Set, Inv, ThreadInv,
   TypeOK, Control, InReaderFailover, InWriterFailover, BeforeConnect

LEMMA CheckWriterInv ==
    ASSUME Inv, NEW t \in Threads, CheckWriter(t)
    PROVE  Inv'
BY DEF CheckWriter, IsConnectedToReader, Succeed, Fail, Fault, Goto, Set, Inv,
   ThreadInv, TypeOK, Control, InReaderFailover, InWriterFailover,
   BeforeConnect

LEMMA TimePassesInv ==
    ASSUME Inv, NEW t \in Threads, TimePasses(t)
    PROVE  Inv'
BY DEF TimePasses, Set, Inv, ThreadInv, TypeOK, Control, InReaderFailover,
   InWriterFailover, BeforeConnect

LEMMA DropInv ==
    ASSUME Inv, NEW t \in Threads, Drop(t)
    PROVE  Inv'
BY DEF Drop, Fault, Set, Inv, ThreadInv, TypeOK, Control, InReaderFailover,
   InWriterFailover, BeforeConnect

LEMMA CachePublishInv ==
    ASSUME Inv, CachePublish
    PROVE  Inv'
BY DEF CachePublish, Views, Topologies, Inv, ThreadInv, TypeOK

LEMMA CacheFaultInv ==
    ASSUME Inv, CacheFault
    PROVE  Inv'
<1>1. /\ UNCHANGED <<writer, hung, configVars, sharedVars, pc, dbc, late,
                      host, listVars, status>>
      /\ faults < MaxFaults /\ faults' = faults + 1
  BY DEF CacheFault, Fault
<1>2. cache' \in Topologies \cup {Null}
  <2>1. ASSUME NEW h \in Hosts
        PROVE  [w |-> Null, m |-> {h}] \in Topologies
    BY DEF Topologies
  <2>2. QED
    BY <2>1 DEF CacheFault
<1>3. faults' \in 0..MaxFaults
  BY <1>1 DEF Inv, TypeOK
<1>4. TypeOK'
  BY <1>1, <1>2, <1>3 DEF Inv, TypeOK
<1>5. \A t \in Threads : ThreadInv(t)'
  BY <1>1 DEF Inv, ThreadInv
<1>6. QED
  BY <1>4, <1>5 DEF Inv

LEMMA MonitorHangsInv ==
    ASSUME Inv, MonitorHangs
    PROVE  Inv'
BY DEF MonitorHangs, Fault, Inv, ThreadInv, TypeOK

LEMMA FailoverInv ==
    ASSUME Inv, Failover
    PROVE  Inv'
BY DEF Failover, Fault, Inv, ThreadInv, TypeOK

LEMMA StepInv == Inv /\ [Next]_vars => Inv'
<1> SUFFICES ASSUME Inv, [Next]_vars PROVE Inv'
  OBVIOUS
<1>1. ASSUME NEW t \in Threads,
             \/ FailoverConnection(t) \/ ClientDisconnects(t)
             \/ TimePasses(t) \/ Drop(t)
      PROVE  Inv'
  BY <1>1, FailoverConnectionInv, ClientDisconnectsInv, TimePassesInv, DropInv
<1>2. ASSUME NEW t \in Threads, ThreadStep(t)
      PROVE  Inv'
  BY <1>2, CleanupInv, ReturnInv, SetServerInv, ReaderRefreshInv,
     SelectReaderInv, ReadersExhaustedInv, ConnectReaderInv, CheckReaderInv,
     ConnectOriginalInv, CheckOriginalInv, ReaderTimedOutInv,
     ForceRefreshInv, SelectWriterInv, ConnectWriterInv, CheckWriterInv
     DEF ThreadStep
<1>3. ASSUME CachePublish \/ CacheFault \/ MonitorHangs \/ Failover
      PROVE  Inv'
  BY <1>3, CachePublishInv, CacheFaultInv, MonitorHangsInv, FailoverInv
<1>4. CASE UNCHANGED vars
  BY <1>4 DEF vars, Inv, ThreadInv, TypeOK
<1>5. QED
  BY <1>1, <1>2, <1>3, <1>4 DEF Next

THEOREM Invariant == Spec => []Inv
BY InitInv, StepInv, PTL DEF Spec

(* Type correctness, for every set of hosts and threads.                   *)
THEOREM TypeCorrect == Spec => []TypeOK
<1>1. Inv => TypeOK
  BY DEF Inv
<1>2. QED
  BY <1>1, Invariant, PTL

(* Outside strict reader mode no handle is connected twice: every path     *)
(* from a check back to a connect disconnects it.                          *)
THEOREM HandleIsClosed == Spec => []ConnectsClosedHandle
<1>1. Inv => ConnectsClosedHandle
  BY DEF Inv, ThreadInv, ConnectsClosedHandle, BeforeConnect
<1>2. QED
  BY <1>1, Invariant, PTL

(* The original writer is no reader candidate, and a host that was         *)
(* rejected for good does not come back.                                   *)
THEOREM CandidatesRemain == Spec => []RemainingAreCandidates
<1>1. Inv => RemainingAreCandidates
  BY DEF Inv, ThreadInv, RemainingAreCandidates, InReaderFailover
<1>2. QED
  BY <1>1, Invariant, PTL

-----------------------------------------------------------------------------
(* Which steps end a failover.                                             *)

LEMMA WhoSucceeds ==
    ASSUME Inv, [Next]_vars, NEW t \in Threads, Succeeds(t)
    PROVE  CheckReader(t) \/ CheckOriginal(t) \/ CheckWriter(t)
<1> USE DEF Set
<1>1. UNCHANGED status => FALSE
  BY DEF Succeeds
<1>2. ASSUME NEW u \in Threads, ThreadStep(u)
      PROVE  CheckReader(t) \/ CheckOriginal(t) \/ CheckWriter(t)
  <2>1. CASE CheckReader(u) \/ CheckOriginal(u) \/ CheckWriter(u)
    BY <2>1 DEF CheckReader, CheckOriginal, CheckWriter, RejectReader, Again,
       Succeed, Fail, Goto, Succeeds, Inv, TypeOK
  <2>2. CASE \/ ReaderRefresh(u) \/ SelectReader(u) \/ ReaderTimedOut(u)
             \/ SelectWriter(u) \/ ConnectWriter(u)
    BY <2>2 DEF ReaderRefresh, SelectReader, ReaderTimedOut, SelectWriter,
       ConnectWriter, Fail, Goto, Succeeds, Inv, TypeOK
  <2>3. CASE \/ Cleanup(u) \/ Return(u) \/ SetServer(u) \/ ForceRefresh(u)
             \/ ReadersExhausted(u) \/ ConnectReader(u) \/ ConnectOriginal(u)
    BY <2>3, <1>1 DEF Cleanup, Return, SetServer, ForceRefresh,
       ReadersExhausted, ConnectReader, ConnectOriginal
  <2>4. QED
    BY <1>2, <2>1, <2>2, <2>3 DEF ThreadStep
<1>3. ASSUME NEW u \in Threads, FailoverConnection(u) \/ ClientDisconnects(u)
      PROVE  FALSE
  BY <1>3 DEF FailoverConnection, StartsFailover, ClientDisconnects, Goto,
     Succeeds, Inv, TypeOK
<1>4. ASSUME NEW u \in Threads, TimePasses(u) \/ Drop(u)
      PROVE  FALSE
  BY <1>1, <1>4 DEF TimePasses, Drop
<1>5. CASE \/ CachePublish \/ CacheFault \/ MonitorHangs \/ Failover
           \/ UNCHANGED vars
  BY <1>1, <1>5 DEF CachePublish, CacheFault, MonitorHangs, Failover, vars
<1>6. QED
  BY <1>2, <1>3, <1>4, <1>5 DEF Next

LEMMA WhoFails ==
    ASSUME Inv, [Next]_vars, NEW t \in Threads,
           status[t] # "failed", status'[t] = "failed"
    PROVE  \/ ReaderRefresh(t) \/ SelectWriter(t) \/ ConnectWriter(t)
           \/ CheckWriter(t) \/ ReaderTimedOut(t)
           \/ SelectReader(t) /\ SelectorMayThrow(unweighted[t])
<1> DEFINE Ends == \/ ReaderRefresh(t) \/ SelectWriter(t) \/ ConnectWriter(t)
                   \/ CheckWriter(t) \/ ReaderTimedOut(t)
                   \/ SelectReader(t) /\ SelectorMayThrow(unweighted[t])
<1> USE DEF Set
<1>1. UNCHANGED status => FALSE
  OBVIOUS
<1>2. ASSUME NEW u \in Threads, ThreadStep(u)
      PROVE  Ends
  <2>1. CASE CheckReader(u) \/ CheckOriginal(u)
    BY <2>1 DEF CheckReader, CheckOriginal, RejectReader, Again, Succeed,
       Goto, Inv, TypeOK
  <2>2. CASE \/ ReaderRefresh(u) \/ SelectWriter(u) \/ ConnectWriter(u)
             \/ CheckWriter(u) \/ ReaderTimedOut(u)
    BY <2>2 DEF ReaderRefresh, SelectWriter, ConnectWriter, CheckWriter,
       ReaderTimedOut, Fail, Succeed, Goto, Inv, TypeOK
  <2>3. CASE SelectReader(u)
    BY <2>3 DEF SelectReader, Fail, Goto, Inv, TypeOK
  <2>4. CASE \/ Cleanup(u) \/ Return(u) \/ SetServer(u) \/ ForceRefresh(u)
             \/ ReadersExhausted(u) \/ ConnectReader(u) \/ ConnectOriginal(u)
    BY <2>4, <1>1 DEF Cleanup, Return, SetServer, ForceRefresh,
       ReadersExhausted, ConnectReader, ConnectOriginal
  <2>5. QED
    BY <1>2, <2>1, <2>2, <2>3, <2>4 DEF ThreadStep
<1>3. ASSUME NEW u \in Threads, FailoverConnection(u) \/ ClientDisconnects(u)
      PROVE  FALSE
  BY <1>3 DEF FailoverConnection, StartsFailover, ClientDisconnects, Goto,
     Inv, TypeOK
<1>4. ASSUME NEW u \in Threads, TimePasses(u) \/ Drop(u)
      PROVE  FALSE
  BY <1>1, <1>4 DEF TimePasses, Drop
<1>5. CASE \/ CachePublish \/ CacheFault \/ MonitorHangs \/ Failover
           \/ UNCHANGED vars
  BY <1>1, <1>5 DEF CachePublish, CacheFault, MonitorHangs, Failover, vars
<1>6. QED
  BY <1>2, <1>3, <1>4, <1>5 DEF Next

(* A strict reader failover never succeeds on the writer, though other     *)
(* threads overwrite the host it connects to.                              *)
THEOREM StrictReader == Spec => StrictReaderGetsReader
<1>1. ASSUME Inv, [Next]_vars, NEW t \in Threads, Succeeds(t),
             failover_mode = "STRICT_READER"
      PROVE  dbc'[t] \in Hosts \ {writer}
  <2>1. CASE CheckReader(t)
    BY <1>1, <2>1 DEF CheckReader, RejectReader, IsConnectedToReader,
       Acceptable, Succeeds, Inv, ThreadInv
  <2>2. CASE CheckOriginal(t)
    BY <1>1, <2>2 DEF CheckOriginal, IsConnectedToReader, Acceptable,
       Succeeds, Inv, ThreadInv
  <2>3. CASE CheckWriter(t)
    BY <1>1, <2>3 DEF CheckWriter, InWriterFailover, Inv, ThreadInv
  <2>4. QED
    BY <1>1, <2>1, <2>2, <2>3, WhoSucceeds
<1>2. Inv /\ [Next]_vars =>
         [\A t \in Threads : Succeeds(t) /\ failover_mode = "STRICT_READER"
             => dbc'[t] \in Hosts \ {writer}]_vars
  BY <1>1
<1>3. QED
  BY <1>2, Invariant, PTL DEF Spec, StrictReaderGetsReader

(* A strict writer failover succeeds on the writer, or after a role query  *)
(* that failed.                                                            *)
THEOREM WriterAsksRole == Spec => WriterFailoverAsksRole
<1>1. ASSUME Inv, [Next]_vars, NEW t \in Threads, Succeeds(t),
             failover_mode = "STRICT_WRITER"
      PROVE  dbc'[t] = writer \/ faults' > faults
  <2>1. CheckWriter(t)
    BY <1>1, WhoSucceeds DEF CheckReader, CheckOriginal, InReaderFailover,
       Inv, ThreadInv
  <2>2. QED
    BY <1>1, <2>1 DEF CheckWriter, IsConnectedToReader, Fail, Goto, Set,
       Fault, Succeeds, Inv, TypeOK
<1>2. Inv /\ [Next]_vars =>
         [\A t \in Threads : Succeeds(t) /\ failover_mode = "STRICT_WRITER"
             => dbc'[t] = writer \/ faults' > faults]_vars
  BY <1>1
<1>3. QED
  BY <1>2, Invariant, PTL DEF Spec, WriterFailoverAsksRole

(* A reader failover that had a topology gives up only after its timeout,  *)
(* unless the round robin selector may throw.                              *)
THEOREM GivesUpLate == Spec => GivesUpOnlyLate
<1>1. ASSUME Inv, [Next]_vars, NEW t \in Threads,
             status[t] # "failed", status'[t] = "failed",
             failover_mode # "STRICT_WRITER", pc[t] # "refresh"
      PROVE  late[t] \/ SelectorMayThrow(unweighted[t])
  <2>1. ReaderTimedOut(t) \/ SelectorMayThrow(unweighted[t])
    BY <1>1, WhoFails DEF ReaderRefresh, SelectWriter, ConnectWriter,
       CheckWriter, InWriterFailover, Inv, ThreadInv
  <2>2. QED
    BY <1>1, <2>1 DEF ReaderTimedOut, Inv, ThreadInv
<1>2. Inv /\ [Next]_vars =>
         [\A t \in Threads :
             status[t] # "failed" /\ status'[t] = "failed"
                /\ failover_mode # "STRICT_WRITER" /\ pc[t] # "refresh"
             => late[t] \/ SelectorMayThrow(unweighted[t])]_vars
  BY <1>1
<1>3. QED
  BY <1>2, Invariant, PTL DEF Spec, GivesUpOnlyLate

-----------------------------------------------------------------------------
(* Refinement.                                                             *)

promiseVars == <<failover_mode, writer, faults, Asked, Connection, Result>>

LEMMA InitRefines == Init => Promise!Init
BY DEF Init, Promise!Init, Asked, Connection, Result, Returned, AllModes

(* A thread t moves from one control point to another, and nothing else of *)
(* the others' changes.                                                    *)
Moves(t, next) ==
    /\ next \in Control /\ pc' = [pc EXCEPT ![t] = next]
    /\ \A u \in Threads \ {t} : dbc'[u] = dbc[u] /\ status'[u] = status[u]

(* What the client sees of a step: nothing while it waits, ...             *)
LEMMA HiddenStep ==
    ASSUME Inv, NEW t \in Threads, NEW next, Moves(t, next),
           ~Returned(t), next \notin {"idle", "return"}
    PROVE  UNCHANGED <<Asked, Connection, Result>>
BY DEF Moves, Asked, Connection, Result, Returned, Inv, TypeOK

(* ... the answer when it comes, ...                                       *)
LEMMA AnswerStep ==
    ASSUME Inv, NEW t \in Threads, NEW next, Moves(t, next),
           ~Returned(t), next \in {"idle", "return"}
    PROVE  /\ t \in Asked /\ Asked' = Asked \ {t}
           /\ Connection' = [Connection EXCEPT ![t] = dbc'[t]]
           /\ Connection[t] = Free
           /\ Result' = [Result EXCEPT ![t] = status'[t]]
BY DEF Moves, Asked, Connection, Result, Returned, Inv, TypeOK

LEMMA MovesRest ==
    ASSUME Inv, NEW t \in Threads, NEW next \in Control, Goto(t, next),
           \/ UNCHANGED dbc
           \/ \E d : dbc' = Set(dbc, t, d),
           \/ UNCHANGED status
           \/ \E s : status' = Set(status, t, s)
    PROVE  Moves(t, next)
BY DEF Moves, Goto, Set, Inv, TypeOK

(* Trouble, or a step the promise does not know of.                        *)
LEMMA TroubleOrStutter ==
    ASSUME Inv, UNCHANGED <<failover_mode, writer, Asked, Connection, Result>>,
           UNCHANGED faults \/ \E k : Fault(k)
    PROVE  [Promise!Next]_promiseVars
BY DEF Inv, TypeOK, Fault, Promise!Next, Promise!Trouble, promiseVars

LEMMA SuccessRefines ==
    ASSUME Inv, NEW t \in Threads, Succeed(t), UNCHANGED <<dbc, writer, configVars>>,
           ~Returned(t), dbc[t] \in Hosts,
           UNCHANGED faults \/ \E k : Fault(k),
           failover_mode = "STRICT_READER" => dbc[t] # writer,
           failover_mode = "STRICT_WRITER" => dbc[t] = writer \/ faults' > faults
    PROVE  Promise!Next
<1>1. Moves(t, "return")
  BY MovesRest DEF Succeed, Control
<1>2. /\ t \in Asked /\ Asked' = Asked \ {t}
      /\ Connection' = [Connection EXCEPT ![t] = dbc[t]]
      /\ Result' = [Result EXCEPT ![t] = status'[t]]
  BY <1>1, AnswerStep
<1>3. status'[t] = "succeed"
  BY DEF Succeed, Set, Inv, TypeOK
<1>4. faults' \in {faults, faults + 1}
  BY DEF Fault
<1>5. Promise!Established(t)
  BY <1>2, <1>3, <1>4 DEF Promise!Established, Promise!RightRole
<1>6. QED
  BY <1>5 DEF Promise!Next

(* The tests of a fresh connection: taken, it is the answer; else the      *)
(* failover goes on.                                                       *)
LEMMA CheckReaderRefines ==
    ASSUME Inv, NEW t \in Threads, CheckReader(t)
    PROVE  [Promise!Next]_promiseVars
<1>1. ~Returned(t) /\ dbc[t] \in Hosts \cup {Lost} /\ failover_mode # "STRICT_WRITER"
  BY DEF CheckReader, Returned, Inv, ThreadInv, InReaderFailover
<1>2. UNCHANGED faults \/ \E k : Fault(k)
  BY DEF CheckReader, IsConnectedToReader
<1>3. CASE RejectReader(t)
  <2>1. Moves(t, "readers")
    BY <1>3, MovesRest DEF RejectReader, Control
  <2>2. UNCHANGED <<Asked, Connection, Result>>
    BY <1>1, <2>1, HiddenStep
  <2>3. QED
    BY <1>2, <2>2, TroubleOrStutter DEF CheckReader
<1>4. CASE ~RejectReader(t)
  <2>1. PICK yes \in BOOLEAN : /\ dbc[t] # Lost /\ IsConnectedToReader(t, yes)
                               /\ Acceptable(yes) /\ Succeed(t)
                               /\ UNCHANGED dbc
    BY <1>4 DEF CheckReader
  <2>2. failover_mode = "STRICT_READER" => dbc[t] # writer
    BY <2>1 DEF Acceptable, IsConnectedToReader
  <2>3. QED
    BY <1>1, <1>2, <2>1, <2>2, SuccessRefines DEF CheckReader
<1>5. QED
  BY <1>3, <1>4

LEMMA CheckOriginalRefines ==
    ASSUME Inv, NEW t \in Threads, CheckOriginal(t)
    PROVE  [Promise!Next]_promiseVars
<1>1. ~Returned(t) /\ dbc[t] \in Hosts \cup {Lost} /\ failover_mode # "STRICT_WRITER"
  BY DEF CheckOriginal, Returned, Inv, ThreadInv, InReaderFailover
<1>2. UNCHANGED faults \/ \E k : Fault(k)
  BY DEF CheckOriginal, IsConnectedToReader
<1>3. CASE Again(t) /\ UNCHANGED status
  <2>1. PICK next \in {"timedOut", "readers"} : Moves(t, next)
    <3>1. PICK next \in {"timedOut", "readers"} : Goto(t, next)
      BY <1>3 DEF Again
    <3>2. Moves(t, next)
      BY <1>3, <3>1, MovesRest DEF CheckOriginal, Control
    <3>3. QED
      BY <3>2
  <2>2. UNCHANGED <<Asked, Connection, Result>>
    BY <1>1, <2>1, HiddenStep
  <2>3. QED
    BY <1>2, <2>2, TroubleOrStutter DEF CheckOriginal
<1>4. CASE ~(Again(t) /\ UNCHANGED status)
  <2>1. PICK yes \in BOOLEAN : /\ dbc[t] # Lost /\ IsConnectedToReader(t, yes)
                               /\ Acceptable(yes) /\ Succeed(t)
                               /\ UNCHANGED dbc
    BY <1>4 DEF CheckOriginal
  <2>2. failover_mode = "STRICT_READER" => dbc[t] # writer
    BY <2>1 DEF Acceptable, IsConnectedToReader
  <2>3. QED
    BY <1>1, <1>2, <2>1, <2>2, SuccessRefines DEF CheckOriginal
<1>5. QED
  BY <1>3, <1>4

LEMMA CheckWriterRefines ==
    ASSUME Inv, NEW t \in Threads, CheckWriter(t)
    PROVE  [Promise!Next]_promiseVars
<1>1. ~Returned(t) /\ dbc[t] \in Hosts \cup {Lost} /\ failover_mode = "STRICT_WRITER"
  BY DEF CheckWriter, Returned, Inv, ThreadInv, InWriterFailover
<1>2. UNCHANGED faults \/ \E k : Fault(k)
  BY DEF CheckWriter, IsConnectedToReader
<1>3. CASE Fail(t)
  <2>1. Moves(t, "cleanup")
    BY <1>3, MovesRest DEF CheckWriter, Fail, Control
  <2>2. UNCHANGED <<Asked, Connection, Result>>
    BY <1>1, <2>1, HiddenStep
  <2>3. QED
    BY <1>2, <2>2, TroubleOrStutter DEF CheckWriter
<1>4. CASE ~Fail(t)
  <2>1. /\ dbc[t] # Lost /\ IsConnectedToReader(t, FALSE)
        /\ Succeed(t) /\ UNCHANGED dbc
    BY <1>4 DEF CheckWriter
  <2>2. dbc[t] = writer \/ faults' > faults
    BY <2>1 DEF IsConnectedToReader, Fault, Inv, TypeOK
  <2>3. QED
    BY <1>1, <1>2, <2>1, <2>2, SuccessRefines DEF CheckWriter
<1>5. QED
  BY <1>3, <1>4

(* The steps on the way to a fresh connection, or to giving up.            *)
LEMMA SearchRefines ==
    ASSUME Inv, NEW t \in Threads,
           \/ SetServer(t) \/ ReaderRefresh(t) \/ SelectReader(t)
           \/ ReadersExhausted(t) \/ ConnectReader(t) \/ ConnectOriginal(t)
           \/ ReaderTimedOut(t) \/ ForceRefresh(t) \/ SelectWriter(t)
           \/ ConnectWriter(t)
    PROVE  [Promise!Next]_promiseVars
<1>1. ~Returned(t)
  BY DEF Returned, SetServer, ReaderRefresh, SelectReader, ReadersExhausted,
     ConnectReader, ConnectOriginal, ReaderTimedOut, ForceRefresh,
     SelectWriter, ConnectWriter
<1>2. PICK next \in Control \ {"idle", "return"} : Goto(t, next)
  <2>1. CASE SetServer(t)
    BY <2>1 DEF SetServer, Control
  <2>2. CASE \/ ReaderRefresh(t) \/ SelectReader(t) \/ ReaderTimedOut(t)
             \/ ForceRefresh(t) \/ SelectWriter(t) \/ ConnectWriter(t)
    BY <2>2 DEF ReaderRefresh, SelectReader, ReaderTimedOut, ForceRefresh,
       SelectWriter, ConnectWriter, Fail, Control
  <2>3. CASE ReadersExhausted(t) \/ ConnectReader(t) \/ ConnectOriginal(t)
    BY <2>3 DEF ReadersExhausted, ConnectReader, ConnectOriginal, Again,
       Control
  <2>4. QED
    BY <2>1, <2>2, <2>3
<1>3. /\ UNCHANGED dbc \/ \E d : dbc' = Set(dbc, t, d)
      /\ UNCHANGED status \/ \E s : status' = Set(status, t, s)
  BY DEF SetServer, ReaderRefresh, SelectReader, ReadersExhausted,
     ConnectReader, ConnectOriginal, ReaderTimedOut, ForceRefresh,
     SelectWriter, ConnectWriter, ConnStrConnect, Fail
<1>4. Moves(t, next)
  BY <1>2, <1>3, MovesRest
<1>5. UNCHANGED <<Asked, Connection, Result>>
  BY <1>1, <1>2, <1>4, HiddenStep
<1>6. /\ UNCHANGED <<failover_mode, writer>>
      /\ UNCHANGED faults \/ \E k : Fault(k)
  BY DEF SetServer, ReaderRefresh, SelectReader, ReadersExhausted,
     ConnectReader, ConnectOriginal, ReaderTimedOut, ForceRefresh,
     SelectWriter, ConnectWriter, ConnStrConnect
<1>7. QED
  BY <1>5, <1>6, TroubleOrStutter

(* The calls of the client and the returns to it.                          *)
LEMMA CallRefines ==
    ASSUME Inv, NEW t \in Threads,
           FailoverConnection(t) \/ Cleanup(t) \/ Return(t) \/ ClientDisconnects(t)
    PROVE  [Promise!Next]_promiseVars
<1>1. CASE FailoverConnection(t)
  <2>1. PICK next \in {"refresh", "cleanup"} : pc' = [pc EXCEPT ![t] = next]
    BY <1>1 DEF FailoverConnection, StartsFailover, Goto, Set
  <2>2. \A u \in Threads \ {t} : dbc'[u] = dbc[u] /\ status'[u] = status[u]
    BY <1>1 DEF FailoverConnection, StartsFailover, Set, Inv, TypeOK
  <2>3. pc[t] = "idle" /\ dbc[t] = Free
    BY <1>1 DEF FailoverConnection
  <2>4. t \notin Asked /\ Asked' = Asked \cup {t}
    BY <2>1, <2>3 DEF Asked, Returned, Inv, TypeOK
  <2>5. Connection[t] = Free /\ Connection' = Connection
    BY <2>1, <2>2, <2>3 DEF Connection, Returned, Inv, TypeOK
  <2>6. Result' = [Result EXCEPT ![t] = "none"]
    BY <2>1, <2>2 DEF Result, Returned, Inv, TypeOK
  <2>7. Promise!Ask(t)
    BY <1>1, <2>4, <2>5, <2>6 DEF FailoverConnection, Promise!Ask
  <2>8. QED
    BY <2>7 DEF Promise!Next
<1>2. CASE Cleanup(t)
  <2>1. Moves(t, "idle") /\ ~Returned(t)
    BY <1>2, MovesRest DEF Cleanup, BackToCaller, Control, Returned
  <2>2. dbc'[t] = Free /\ status'[t] \in {"failed", "skipped"}
    BY <1>2 DEF Cleanup, Set, Inv, ThreadInv, TypeOK
  <2>3. /\ t \in Asked /\ Asked' = Asked \ {t}
        /\ Connection' = [Connection EXCEPT ![t] = dbc'[t]]
        /\ Connection[t] = Free
        /\ Result' = [Result EXCEPT ![t] = status'[t]]
    BY <2>1, AnswerStep
  <2>4. Connection' = Connection
    BY <2>2, <2>3 DEF Connection
  <2>5. Promise!NotEstablished(t)
    BY <1>2, <2>2, <2>3, <2>4 DEF Cleanup, Promise!NotEstablished
  <2>6. QED
    BY <2>5 DEF Promise!Next
<1>3. CASE Return(t)
  <2>1. UNCHANGED <<Asked, Connection, Result>>
    BY <1>3 DEF Return, BackToCaller, Goto, Set, Asked, Connection, Result,
       Returned, Inv, TypeOK
  <2>2. QED
    BY <1>3, <2>1 DEF Return, promiseVars
<1>4. CASE ClientDisconnects(t)
  <2>1. /\ t \notin Asked /\ Connection[t] # Free /\ Asked' = Asked
        /\ Connection' = [Connection EXCEPT ![t] = Free]
        /\ Result' = [Result EXCEPT ![t] = "none"]
    BY <1>4 DEF ClientDisconnects, Set, Asked, Connection, Result, Returned,
       Inv, TypeOK
  <2>2. Promise!Disconnect(t)
    BY <1>4, <2>1 DEF ClientDisconnects, Promise!Disconnect
  <2>3. QED
    BY <2>2 DEF Promise!Next
<1>5. QED
  BY <1>1, <1>2, <1>3, <1>4

(* The environment's steps.                                                *)
LEMMA EnvironmentRefines ==
    ASSUME Inv,
           \/ CachePublish \/ CacheFault \/ MonitorHangs \/ Failover
           \/ \E t \in Threads : TimePasses(t) \/ Drop(t)
    PROVE  [Promise!Next]_promiseVars
<1>1. CASE \/ CachePublish \/ CacheFault \/ MonitorHangs
           \/ \E t \in Threads : TimePasses(t)
  <2>1. UNCHANGED <<Asked, Connection, Result>>
    BY <1>1 DEF CachePublish, CacheFault, MonitorHangs, TimePasses, Asked,
       Connection, Result, Returned
  <2>2. QED
    BY <1>1, <2>1, TroubleOrStutter
       DEF CachePublish, CacheFault, MonitorHangs, TimePasses
<1>2. CASE Failover
  <2>1. UNCHANGED <<Asked, Connection, Result>>
    BY <1>2 DEF Failover, Asked, Connection, Result, Returned
  <2>2. Promise!Trouble
    BY <1>2, <2>1 DEF Failover, Fault, Promise!Trouble
  <2>3. QED
    BY <2>2 DEF Promise!Next
<1>3. ASSUME NEW t \in Threads, Drop(t)
      PROVE  [Promise!Next]_promiseVars
  <2>1. CASE Returned(t)
    <3>1. /\ t \notin Asked /\ Connection[t] \in Hosts
          /\ Asked' = Asked /\ Result' = Result
          /\ Connection' = [Connection EXCEPT ![t] = Lost]
      BY <1>3, <2>1 DEF Drop, Set, Asked, Connection, Result, Returned, Inv,
         TypeOK
    <3>2. Promise!Drop(t)
      BY <1>3, <3>1 DEF Drop, Fault, Promise!Drop
    <3>3. QED
      BY <3>2 DEF Promise!Next
  <2>2. CASE ~Returned(t)
    <3>1. UNCHANGED <<Asked, Connection, Result>>
      BY <1>3, <2>2 DEF Drop, Set, Asked, Connection, Result, Returned, Inv,
         TypeOK
    <3>2. QED
      BY <1>3, <3>1, TroubleOrStutter DEF Drop
  <2>3. QED
    BY <2>1, <2>2
<1>4. QED
  BY <1>1, <1>2, <1>3

LEMMA StepRefines == Inv /\ [Next]_vars => [Promise!Next]_promiseVars
<1> SUFFICES ASSUME Inv, [Next]_vars PROVE [Promise!Next]_promiseVars
  OBVIOUS
<1>1. CASE UNCHANGED vars
  BY <1>1 DEF vars, promiseVars, Asked, Connection, Result, Returned
<1>2. CASE Next
  BY <1>2, CheckReaderRefines, CheckOriginalRefines, CheckWriterRefines,
     SearchRefines, CallRefines, EnvironmentRefines DEF Next, ThreadStep
<1>3. QED
  BY <1>1, <1>2

(* Failovers implement the promise of FailoverConnection, for every number *)
(* of clients that race, every mode, and faults of every kind: a           *)
(* connection in the right role, or none and nothing left over.            *)
THEOREM PromiseKept == Spec => KeepsPromise
<1>1. [Promise!Next]_promiseVars => [Promise!Next]_(Promise!vars)
  BY DEF promiseVars, Promise!vars
<1>2. QED
  BY <1>1, InitRefines, StepRefines, Invariant, PTL DEF Spec, KeepsPromise,
     Promise!Spec
=============================================================================
