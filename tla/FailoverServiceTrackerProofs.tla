-------------------- MODULE FailoverServiceTrackerProofs --------------------
(***************************************************************************)
(* Proofs about the reference counting of the failover service, for every  *)
(* finite set of client threads.                                           *)
(***************************************************************************)
EXTENDS FailoverServiceTracker, FiniteSetTheorems, TLAPS

Calling == {"put", "incr", "ending", "reset"}

(* However the clients call: failovers are counted exactly, references at  *)
(* most once for each holder.                                              *)
AnyInv ==
    /\ TypeOK
    /\ \A t \in Threads : pc[t] \in {"put", "incr"} => ~held[t]
    /\ FailoversCounted /\ NoSpareReference

(* Clients that call one at a time: a new service is made only while there *)
(* is none, so that no start is lost, and the service is ended only when   *)
(* nobody has started it.                                                  *)
SerialInv ==
    /\ \A t, u \in Threads : pc[t] \in Calling /\ pc[u] \in Calling => t = u
    /\ \A t \in Threads : pc[t] = "put" => service = "none"
    /\ \A t \in Threads : pc[t] = "ending" => Holders = {}
    /\ service = "none" => Holders = {} /\ \A t \in Threads : pc[t] # "incr"
    /\ reference_count = Cardinality(Holders)

(* ... and that do not start an ended service again: a reference is added  *)
(* to a service that lives.                                                *)
LiveInv ==
    /\ \A t \in Threads : pc[t] = "incr" => service = "live"
    /\ Holders # {} => service = "live"

(* ... or that fail over only what they hold: the reference that the       *)
(* failing client has itself keeps the service.                            *)
OwnInv ==
    \A t \in Threads :
        /\ pc[t] \in {"flag", "deref", "failing"} => held[t] /\ service = "live"
        /\ pc[t] # "crashed"

(* ... and both: the service does not outlive its last holder.             *)
EndInv == service = "live" => Holders # {} \/ Ending

(* What the clients do not allow themselves decides which layers hold.     *)
Inv ==
    /\ AnyInv
    /\ SerialCalls => SerialInv
    /\ SerialCalls /\ ~Restart => LiveInv
    /\ SerialCalls /\ ~AnyFailover => OwnInv
    /\ Disciplined => EndInv

-----------------------------------------------------------------------------
(* What a step does to the two sets that are counted.                      *)

LEMMA SubsetsFinite ==
    ASSUME NEW S \in SUBSET Threads
    PROVE  IsFiniteSet(S) /\ Cardinality(S) \in Nat
BY TrackerAssumption, FS_Subset, FS_CardinalityType DEF TrackerAssumption

LEMMA CountedSetsFinite ==
    /\ IsFiniteSet(Holders) /\ Cardinality(Holders) \in Nat
    /\ IsFiniteSet(InFailover) /\ Cardinality(InFailover) \in Nat
BY SubsetsFinite DEF Holders, InFailover

(* A start adds its thread to the holders, a stop takes it out, nothing    *)
(* else touches them.                                                      *)
LEMMA HoldersChange ==
    ASSUME AnyInv, NEW t \in Threads, ThreadStep(t)
    PROVE  IF PutIfAbsent(t) \/ Increment(t)
           THEN /\ t \notin Holders /\ Holders' = Holders \cup {t}
                /\ Cardinality(Holders') = Cardinality(Holders) + 1
           ELSE IF Decrement(t)
           THEN /\ t \in Holders /\ Holders' = Holders \ {t}
                /\ Cardinality(Holders) > 0
                /\ Cardinality(Holders') = Cardinality(Holders) - 1
           ELSE Holders' = Holders /\ UNCHANGED held
<1> USE CountedSetsFinite
<1>1. CASE PutIfAbsent(t) \/ Increment(t)
  <2>1. t \notin Holders /\ Holders' = Holders \cup {t}
    BY <1>1 DEF PutIfAbsent, Increment, Holders, AnyInv, TypeOK
  <2>2. QED
    BY <1>1, <2>1, FS_AddElement
<1>2. CASE Decrement(t)
  <2>1. t \in Holders /\ Holders' = Holders \ {t}
    BY <1>2 DEF Decrement, Holders, AnyInv, TypeOK
  <2>2. Cardinality(Holders) # 0
    BY <2>1, FS_EmptySet
  <2>3. Cardinality(Holders') = Cardinality(Holders) - 1
    BY <2>1, FS_RemoveElement
  <2>4. ~PutIfAbsent(t) /\ ~Increment(t)
    BY <1>2 DEF Decrement, PutIfAbsent, Increment
  <2>5. QED
    BY <1>2, <2>1, <2>2, <2>3, <2>4
<1>3. CASE ~(PutIfAbsent(t) \/ Increment(t) \/ Decrement(t))
  <2>1. UNCHANGED held
    BY <1>3 DEF ThreadStep, Start, CreateFails, ResetService, ResetDone,
       FailoverConnection, FlagFailover, EnterFailover, EndFailover
  <2>2. QED
    BY <1>3, <2>1 DEF Holders
<1>4. QED
  BY <1>1, <1>2, <1>3

(* FlagFailover adds its thread to those in a failover, EndFailover takes  *)
(* it out.                                                                 *)
LEMMA InFailoverChange ==
    ASSUME AnyInv, NEW t \in Threads, ThreadStep(t)
    PROVE  FailoversCounted'
<1> USE CountedSetsFinite
<1> AnyInv
  OBVIOUS
<1>1. CASE FlagFailover(t)
  <2>1. t \notin InFailover /\ InFailover' = InFailover \cup {t}
    BY <1>1 DEF FlagFailover, Goto, InFailover, AnyInv, TypeOK
  <2>2. Cardinality(InFailover') = Cardinality(InFailover) + 1
    BY <2>1, FS_AddElement
  <2>3. QED
    BY <1>1, <2>2 DEF FlagFailover, AnyInv, FailoversCounted
<1>2. CASE EndFailover(t)
  <2>1. t \in InFailover /\ InFailover' = InFailover \ {t}
    BY <1>2 DEF EndFailover, Goto, InFailover, AnyInv, TypeOK
  <2>2. Cardinality(InFailover') = Cardinality(InFailover) - 1
    BY <2>1, FS_RemoveElement
  <2>3. QED
    BY <1>2, <2>2 DEF EndFailover, AnyInv, FailoversCounted
<1>3. CASE ~(FlagFailover(t) \/ EndFailover(t))
  <2>1. UNCHANGED failover_inprogress
    BY <1>3 DEF ThreadStep, Start, PutIfAbsent, CreateFails, Increment,
       Decrement, ResetService, ResetDone, FailoverConnection, EnterFailover
  <2>2. InFailover' = InFailover
    BY <1>3 DEF ThreadStep, Start, PutIfAbsent, CreateFails, Increment,
       Decrement, ResetService, ResetDone, FailoverConnection, EnterFailover,
       Goto, InFailover, AnyInv, TypeOK
  <2>3. QED
    BY <2>1, <2>2 DEF AnyInv, FailoversCounted
<1>4. QED
  BY <1>1, <1>2, <1>3

-----------------------------------------------------------------------------
(* Any clients.                                                            *)

LEMMA InitInv == Init => Inv
<1> SUFFICES ASSUME Init PROVE Inv
  OBVIOUS
<1>1. Holders = {} /\ InFailover = {}
  BY DEF Init, Holders, InFailover
<1>2. Cardinality(Holders) = 0 /\ Cardinality(InFailover) = 0
  BY <1>1, FS_EmptySet
<1>3. QED
  BY <1>1, <1>2 DEF Init, Inv, AnyInv, SerialInv, LiveInv, OwnInv, EndInv,
     TypeOK, Control, Calling, FailoversCounted, NoSpareReference

LEMMA TypeStep ==
    ASSUME AnyInv, NEW t \in Threads, ThreadStep(t), UNCHANGED liberties
    PROVE  TypeOK'
<1> USE DEF Goto, Control, TypeOK
<1> TypeOK
  BY DEF AnyInv
<1>1. CASE Start(t) \/ CreateFails(t) \/ ResetService(t) \/ ResetDone(t)
  BY <1>1 DEF Start, CreateFails, ResetService, ResetDone
<1>2. CASE PutIfAbsent(t)
  BY <1>2 DEF PutIfAbsent
<1>3. CASE Increment(t)
  BY <1>3 DEF Increment
<1>4. CASE Decrement(t)
  <2>1. reference_count' \in Nat /\ UNCHANGED failover_inprogress
    BY <1>4 DEF Decrement
  <2>2. held' \in [Threads -> BOOLEAN]
    BY <1>4 DEF Decrement
  <2>3. service' \in {"live", "none", "gone"} /\ pc' \in [Threads -> Control]
    BY <1>4 DEF Decrement
  <2>4. QED
    BY <2>1, <2>2, <2>3
<1>5. CASE FailoverConnection(t) \/ FlagFailover(t) \/ EnterFailover(t)
  BY <1>5 DEF FailoverConnection, FlagFailover, EnterFailover
<1>6. CASE EndFailover(t)
  <2>1. t \in InFailover
    BY <1>6 DEF EndFailover, InFailover
  <2>2. failover_inprogress > 0
    BY <2>1, CountedSetsFinite, FS_EmptySet DEF AnyInv, FailoversCounted
  <2>3. QED
    BY <1>6, <2>2 DEF EndFailover
<1>7. QED
  BY <1>1, <1>2, <1>3, <1>4, <1>5, <1>6 DEF ThreadStep

(* The first reference is that of the thread that made the tracker; the    *)
(* others come and go with their holders.                                  *)
LEMMA ReferencesStep ==
    ASSUME AnyInv, NEW t \in Threads, ThreadStep(t)
    PROVE  NoSpareReference'
<1> USE CountedSetsFinite DEF AnyInv, TypeOK, NoSpareReference
<1>1. CASE PutIfAbsent(t) \/ Increment(t)
  <2>1. Cardinality(Holders') = Cardinality(Holders) + 1
    BY <1>1, HoldersChange
  <2>2. reference_count' \in {reference_count, reference_count + 1, 1}
    BY <1>1 DEF PutIfAbsent, Increment
  <2>3. QED
    BY <2>1, <2>2
<1>2. CASE Decrement(t)
  <2>1. ~PutIfAbsent(t) /\ ~Increment(t)
    BY <1>2 DEF Decrement, PutIfAbsent, Increment
  <2>2. /\ Cardinality(Holders) > 0
        /\ Cardinality(Holders') = Cardinality(Holders) - 1
    BY <1>2, <2>1, HoldersChange
  <2>3. QED
    BY <1>2, <2>2 DEF Decrement
<1>3. CASE ~(PutIfAbsent(t) \/ Increment(t) \/ Decrement(t))
  <2>1. UNCHANGED reference_count
    BY <1>3 DEF ThreadStep, Start, CreateFails, ResetService, ResetDone,
       FailoverConnection, FlagFailover, EnterFailover, EndFailover
  <2>2. Holders' = Holders
    BY <1>3, HoldersChange
  <2>3. QED
    BY <2>1, <2>2
<1>4. QED
  BY <1>1, <1>2, <1>3

LEMMA AnyStep ==
    ASSUME AnyInv, NEW t \in Threads, ThreadStep(t), UNCHANGED liberties
    PROVE  AnyInv'
<1>1. \A u \in Threads : pc'[u] \in {"put", "incr"} => ~held'[u]
  <2>1. CASE Start(t) \/ PutIfAbsent(t) \/ CreateFails(t) \/ Increment(t)
    BY <2>1 DEF Start, PutIfAbsent, CreateFails, Increment, Goto, AnyInv,
       TypeOK
  <2>2. CASE Decrement(t) \/ ResetService(t) \/ ResetDone(t)
    BY <2>2 DEF Decrement, ResetService, ResetDone, Goto, AnyInv, TypeOK
  <2>3. CASE FailoverConnection(t) \/ FlagFailover(t) \/ EnterFailover(t)
             \/ EndFailover(t)
    BY <2>3 DEF FailoverConnection, FlagFailover, EnterFailover, EndFailover,
       Goto, AnyInv, TypeOK
  <2>4. QED
    BY <2>1, <2>2, <2>3 DEF ThreadStep
<1>2. QED
  BY <1>1, TypeStep, InFailoverChange, ReferencesStep DEF AnyInv

-----------------------------------------------------------------------------
(* Clients with discipline.                                                *)

LEMMA SerialStep ==
    ASSUME SerialCalls, AnyInv, SerialInv, NEW t \in Threads, ThreadStep(t)
    PROVE  SerialInv'
<1> USE DEF AnyInv, SerialInv, TypeOK, Goto, Calling
<1>1. CASE PutIfAbsent(t)
  <2>1. /\ Holders' = Holders \cup {t}
        /\ Cardinality(Holders') = Cardinality(Holders) + 1
    BY <1>1, HoldersChange
  <2>2. service = "none" /\ service' = "live" /\ Holders = {}
    BY <1>1 DEF PutIfAbsent, Contains
  <2>3. reference_count' = Cardinality(Holders')
    BY <1>1, <2>1, <2>2, FS_EmptySet DEF PutIfAbsent, Contains
  <2>4. QED
    BY <1>1, <2>2, <2>3 DEF PutIfAbsent
<1>2. CASE Increment(t)
  <2>1. Cardinality(Holders') = Cardinality(Holders) + 1
    BY <1>2, HoldersChange
  <2>2. service # "none"
    BY <1>2 DEF Increment
  <2>3. QED
    BY <1>2, <2>1, <2>2 DEF Increment
<1>3. CASE Decrement(t)
  <2>1. ~PutIfAbsent(t) /\ ~Increment(t)
    BY <1>3 DEF Decrement, PutIfAbsent, Increment
  <2>2. /\ Holders' = Holders \ {t} /\ Cardinality(Holders) > 0
        /\ Cardinality(Holders') = Cardinality(Holders) - 1
    BY <1>3, <2>1, HoldersChange
  <2>3. reference_count' = Cardinality(Holders')
    BY <1>3, <2>2 DEF Decrement
  <2>4. \A u \in Threads : pc[u] \notin Calling
    BY <1>3 DEF Decrement, MayCall
  <2>5. /\ service' # "none"
        /\ \A u \in Threads : u # t => pc'[u] = pc[u]
        /\ pc'[t] \notin {"put", "incr"}
    BY <1>3 DEF Decrement, Contains
  <2>6. pc'[t] = "ending" => Holders' = {}
    <3>1. SUFFICES ASSUME pc'[t] = "ending" PROVE Holders' = {}
      OBVIOUS
    <3>2. reference_count - 1 = 0 /\ reference_count > 0
      BY <1>3, <3>1 DEF Decrement, IsUnused
    <3>3. Cardinality(Holders') = 0 /\ IsFiniteSet(Holders')
      BY <2>2, <3>2, CountedSetsFinite, FS_RemoveElement
    <3>4. QED
      BY <3>3, FS_EmptySet
  <2>7. QED
    BY <2>3, <2>4, <2>5, <2>6
<1>4. CASE Start(t)
  <2>1. \A u \in Threads : pc[u] \notin Calling
    BY <1>4 DEF Start, MayCall
  <2>2. Holders' = Holders
    BY <1>4 DEF Start, Holders
  <2>3. QED
    BY <1>4, <2>1, <2>2 DEF Start, Contains
<1>5. CASE CreateFails(t) \/ ResetDone(t) \/ FailoverConnection(t)
           \/ FlagFailover(t) \/ EnterFailover(t) \/ EndFailover(t)
  <2>1. Holders' = Holders /\ UNCHANGED <<service, reference_count>>
    BY <1>5 DEF CreateFails, ResetDone, FailoverConnection, FlagFailover,
       EnterFailover, EndFailover, Holders
  <2>2. \A u \in Threads : pc'[u] \in Calling => pc'[u] = pc[u]
    BY <1>5 DEF CreateFails, ResetDone, FailoverConnection, FlagFailover,
       EnterFailover, EndFailover
  <2>3. QED
    BY <2>1, <2>2
<1>6. CASE ResetService(t)
  <2>1. Holders' = Holders /\ UNCHANGED reference_count /\ service' = "gone"
    BY <1>6 DEF ResetService, Holders
  <2>2. QED
    BY <1>6, <2>1 DEF ResetService
<1>7. QED
  BY <1>1, <1>2, <1>3, <1>4, <1>5, <1>6 DEF ThreadStep

(* The service is ended only when nobody has started it, and nobody else   *)
(* is about to add a reference then.                                       *)
LEMMA LiveStep ==
    ASSUME SerialCalls, ~Restart, AnyInv, SerialInv, LiveInv,
           NEW t \in Threads, ThreadStep(t)
    PROVE  LiveInv'
<1> USE DEF AnyInv, LiveInv, TypeOK, Goto
<1>1. CASE ResetService(t)
  <2>1. Holders' = {}
    BY <1>1 DEF ResetService, SerialInv, Holders
  <2>2. \A u \in Threads : pc[u] # "incr"
    BY <1>1 DEF ResetService, SerialInv, Calling
  <2>3. QED
    BY <1>1, <2>1, <2>2 DEF ResetService
<1>2. CASE PutIfAbsent(t)
  BY <1>2 DEF PutIfAbsent, Contains, SerialInv
<1>3. CASE Increment(t)
  BY <1>3 DEF Increment
<1>4. CASE Start(t)
  BY <1>4 DEF Start, Contains, Holders
<1>5. CASE Decrement(t)
  BY <1>5 DEF Decrement, Holders
<1>6. CASE CreateFails(t) \/ ResetDone(t) \/ FailoverConnection(t)
           \/ FlagFailover(t) \/ EnterFailover(t) \/ EndFailover(t)
  BY <1>6 DEF CreateFails, ResetDone, FailoverConnection, FlagFailover,
     EnterFailover, EndFailover, Holders
<1>7. QED
  BY <1>1, <1>2, <1>3, <1>4, <1>5, <1>6 DEF ThreadStep

(* A thread in a failover holds the service, and so it is not ended.       *)
LEMMA OwnStep ==
    ASSUME SerialCalls, ~AnyFailover, AnyInv, SerialInv, OwnInv,
           NEW t \in Threads, ThreadStep(t)
    PROVE  OwnInv'
<1> USE DEF AnyInv, OwnInv, TypeOK, Goto
<1>1. CASE ResetService(t)
  <2>1. \A u \in Threads : ~held[u]
    BY <1>1 DEF ResetService, SerialInv, Holders
  <2>2. QED
    BY <1>1, <2>1 DEF ResetService
<1>2. CASE Decrement(t)
  BY <1>2 DEF Decrement
<1>3. CASE PutIfAbsent(t)
  BY <1>3 DEF PutIfAbsent
<1>4. CASE EnterFailover(t)
  BY <1>4 DEF EnterFailover
<1>5. CASE FailoverConnection(t)
  BY <1>5 DEF FailoverConnection, Contains
<1>6. CASE Start(t) \/ CreateFails(t) \/ Increment(t) \/ ResetDone(t)
           \/ FlagFailover(t) \/ EndFailover(t)
  BY <1>6 DEF Start, CreateFails, Increment, ResetDone, FlagFailover,
     EndFailover
<1>7. QED
  BY <1>1, <1>2, <1>3, <1>4, <1>5, <1>6 DEF ThreadStep

(* The last stop finds no failover, as those in one are holders, and ends  *)
(* the service.                                                            *)
LEMMA EndStep ==
    ASSUME Disciplined, AnyInv, SerialInv, OwnInv, EndInv,
           NEW t \in Threads, ThreadStep(t)
    PROVE  EndInv'
<1> USE DEF AnyInv, OwnInv, EndInv, Ending, TypeOK, Goto
<1>1. CASE Decrement(t)
  <2>1. ~PutIfAbsent(t) /\ ~Increment(t)
    BY <1>1 DEF Decrement, PutIfAbsent, Increment
  <2>2. /\ t \in Holders /\ Holders' = Holders \ {t}
        /\ Cardinality(Holders') = Cardinality(Holders) - 1
    BY <1>1, <2>1, HoldersChange
  <2>3. InFailover \subseteq Holders'
    BY <1>1, <2>2 DEF Decrement, InFailover, Holders
  <2>4. CASE Holders' = {}
    <3>1. failover_inprogress = 0
      BY <2>3, <2>4, FS_EmptySet DEF FailoversCounted
    <3>2. Cardinality(Holders') = 0
      BY <2>4, FS_EmptySet
    <3>3. reference_count - 1 = 0 /\ reference_count > 0
      BY <2>2, <3>2, CountedSetsFinite DEF SerialInv
    <3>4. pc'[t] = "ending"
      BY <1>1, <3>1, <3>3 DEF Decrement, IsUnused
    <3>5. QED
      BY <3>4
  <2>5. CASE Holders' # {}
    BY <2>5
  <2>6. QED
    BY <2>4, <2>5
<1>2. CASE PutIfAbsent(t) \/ Increment(t)
  <2>1. Holders' = Holders \cup {t}
    BY <1>2, HoldersChange
  <2>2. QED
    BY <2>1
<1>3. CASE ResetService(t)
  BY <1>3 DEF ResetService
<1>4. CASE Start(t) \/ CreateFails(t) \/ ResetDone(t) \/ FailoverConnection(t)
           \/ FlagFailover(t) \/ EnterFailover(t) \/ EndFailover(t)
  <2>1. UNCHANGED service /\ Holders' = Holders
    BY <1>4 DEF Start, CreateFails, ResetDone, FailoverConnection,
       FlagFailover, EnterFailover, EndFailover, Holders
  <2>2. Ending => Ending'
    BY <1>4 DEF Start, CreateFails, ResetDone, FailoverConnection,
       FlagFailover, EnterFailover, EndFailover
  <2>3. QED
    BY <2>1, <2>2
<1>5. QED
  BY <1>1, <1>2, <1>3, <1>4 DEF ThreadStep

(* A step that changes nothing keeps every part.                           *)
LEMMA Stutter ==
    ASSUME UNCHANGED vars
    PROVE  /\ AnyInv => AnyInv'
           /\ SerialInv => SerialInv'
           /\ LiveInv => LiveInv'
           /\ OwnInv => OwnInv'
           /\ EndInv => EndInv'
<1>1. Holders' = Holders /\ InFailover' = InFailover
  BY DEF vars, Holders, InFailover
<1>2. QED
  BY <1>1 DEF vars, AnyInv, SerialInv, LiveInv, OwnInv, EndInv, Ending,
     TypeOK, FailoversCounted, NoSpareReference

(* The discipline of the clients is for good.                              *)
LEMMA SameLiberties ==
    ASSUME [Next]_vars
    PROVE  /\ SerialCalls' <=> SerialCalls
           /\ Restart' <=> Restart
           /\ AnyFailover' <=> AnyFailover
           /\ Disciplined' <=> Disciplined
BY DEF Next, vars, SerialCalls, Restart, AnyFailover, Disciplined

LEMMA InvHolds == Spec => []Inv
<1>1. Init => Inv
  BY InitInv DEF Inv
<1>2. ASSUME Inv, NEW t \in Threads, ThreadStep(t), UNCHANGED liberties
      PROVE  /\ AnyInv'
             /\ SerialCalls => SerialInv'
             /\ SerialCalls /\ ~Restart => LiveInv'
             /\ SerialCalls /\ ~AnyFailover => OwnInv'
             /\ Disciplined => EndInv'
  BY <1>2, AnyStep, SerialStep, LiveStep, OwnStep, EndStep DEF Inv, Disciplined
<1>3. Inv /\ [Next]_vars => Inv'
  BY <1>2, SameLiberties, Stutter DEF Next, Inv
<1>4. QED
  BY <1>1, <1>3, PTL DEF Spec

-----------------------------------------------------------------------------
(* The theorems, for clients of any kind; each property says under which   *)
(* discipline it holds.                                                    *)

(* Whatever the clients do, in whatever order: the flag that protects      *)
(* failovers counts each of them until it has ended, and no reference      *)
(* lacks its holder.  If they call one at a time, no start lacks its       *)
(* reference, even if they revive a service or fail over one they do not   *)
(* hold.                                                                   *)
THEOREM CountsForAnyClients == Spec => [](TypeOK /\ CountsAreRight)
<1>1. Inv => TypeOK /\ CountsAreRight
  BY DEF Inv, AnyInv, SerialInv, CountsAreRight, EveryStartCounted
<1>2. QED
  BY <1>1, InvHolds, PTL

(* If they do not revive a service either, they have it as long as they    *)
(* hold it: whatever the number of clients, their starts, stops and        *)
(* failovers interleave safely.                                            *)
THEOREM HeldServiceStays == Spec => []HeldServiceLives
<1>1. Inv => HeldServiceLives
  BY DEF Inv, LiveInv, HeldServiceLives
<1>2. QED
  BY <1>1, InvHolds, PTL

(* Whoever stops or revives the service: for clients that call one at a    *)
(* time and fail over only what they have started, the unlocked accesses   *)
(* of FailoverConnection to tracker->service never meet a service that is  *)
(* gone, and no failover has it destroyed under it, although the flag may  *)
(* go up after a stop has tested it.                                       *)
THEOREM FailoverIsSafe == Spec => []FailoverOnLiveService
<1>1. Inv => FailoverOnLiveService
  BY DEF Inv, OwnInv, FailoverOnLiveService
<1>2. QED
  BY <1>1, InvHolds, PTL

(* ... and the last stop cleans the service up before it returns, if none  *)
(* is started again either.                                                *)
THEOREM UnusedServiceEnds ==
    Spec => [](Disciplined /\ Holders = {} /\ ~Ending => service # "live")
<1>1. Inv => (Disciplined /\ Holders = {} /\ ~Ending => service # "live")
  BY DEF Inv, EndInv
<1>2. QED
  BY <1>1, InvHolds, PTL

-----------------------------------------------------------------------------
(* Refinement.                                                             *)

(* The two variables of the abstract service.                              *)
AbstractUsers == IF Disciplined THEN Holders ELSE {}
AbstractRunning == Disciplined /\ service = "live" /\ ~Ending

LEMMA InitRefines == Init => Abstract!Init
BY DEF Init, Abstract!Init, Holders

(* A disciplined start acquires, a disciplined stop releases when it       *)
(* decides, nothing else is to be seen.                                    *)
LEMMA StepRefines ==
    ASSUME Disciplined, Inv, Inv', Disciplined', NEW t \in Threads,
           ThreadStep(t)
    PROVE  Abstract!Next \/ UNCHANGED <<AbstractUsers, AbstractRunning>>
<1> USE DEF AnyInv, SerialInv, LiveInv, EndInv, TypeOK, AbstractUsers,
        AbstractRunning, Goto
<1> /\ AnyInv /\ SerialInv /\ LiveInv /\ OwnInv /\ EndInv
    /\ AnyInv' /\ SerialInv' /\ LiveInv' /\ OwnInv' /\ EndInv'
  BY DEF Inv, Disciplined
<1> DEFINE alive == service = "live" /\ ~Ending
<1>1. alive <=> Holders # {}
  BY DEF Ending
<1>2. alive' <=> Holders' # {}
  BY DEF Ending
<1>3. CASE PutIfAbsent(t) \/ Increment(t)
  <2>1. t \notin Holders /\ Holders' = Holders \cup {t}
    BY <1>3 DEF PutIfAbsent, Increment, Holders
  <2>2. QED
    BY <1>2, <2>1 DEF Abstract!Next, Abstract!Acquire
<1>4. CASE Decrement(t)
  <2>1. t \in Holders /\ Holders' = Holders \ {t}
    BY <1>4 DEF Decrement, Holders
  <2>2. QED
    BY <1>1, <1>2, <2>1 DEF Abstract!Next, Abstract!Release
<1>5. CASE ~(PutIfAbsent(t) \/ Increment(t) \/ Decrement(t))
  <2>1. Holders' = Holders
    BY <1>5, HoldersChange
  <2>2. QED
    BY <1>1, <1>2, <2>1
<1>6. QED
  BY <1>3, <1>4, <1>5 DEF ThreadStep

(* Under the discipline the tracker implements the reference counted       *)
(* service that its documentation describes, for every set of clients.     *)
THEOREM TrackerRefines == Spec => IsRefCounted
<1> DEFINE users == IF Disciplined THEN Holders ELSE {}
           running == Disciplined /\ service = "live" /\ ~Ending
<1>1. ASSUME Inv, Inv', [Next]_vars
      PROVE  Abstract!Next \/ UNCHANGED <<users, running>>
  <2>1. CASE ~Disciplined \/ UNCHANGED vars
    BY <1>1, <2>1, SameLiberties DEF vars, Holders, Ending
  <2>2. CASE Disciplined /\ Next
    BY <1>1, <2>2, SameLiberties, StepRefines
       DEF Next, AbstractUsers, AbstractRunning
  <2>3. QED
    BY <1>1, <2>1, <2>2
<1>2. Inv /\ Inv' /\ [Next]_vars => [Abstract!Next]_<<users, running>>
  BY <1>1
<1>3. QED
  BY <1>2, InvHolds, InitRefines, PTL DEF Spec, IsRefCounted, Abstract!Spec
=============================================================================
