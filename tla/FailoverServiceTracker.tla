----------------------- MODULE FailoverServiceTracker -----------------------
(***************************************************************************)
(* The reference counted failover service of one cluster id                *)
(* (src/src/failover/failover_service.{h,cc}: FailoverServiceTracker,      *)
(* FailoverServiceTrackerHandler, StartFailoverService,                    *)
(* StopFailoverService and FailoverConnection), called by several threads. *)
(* The entries of the map are independent, and an entry is never removed;  *)
(* the tracker found by one lookup is the one found by the next, so that   *)
(* two lookups in a row are one step.                                      *)
(***************************************************************************)
EXTENDS Naturals, FiniteSets

CONSTANTS
    Threads,   \* client threads, one connection each
    Liberties  \* values of liberties to consider

ASSUME TrackerAssumption ==
    /\ IsFiniteSet(Threads)
    /\ Liberties \subseteq SUBSET {"overlap", "restart", "borrow"}

VARIABLES
    liberties,            \* what the clients allow themselves, for good
    service,              \* "none": no tracker in the map; else the member
                          \* service of the tracker: "live" or "gone" (null)
    reference_count,
    failover_inprogress,
    pc,                   \* thread -> control point
    held                  \* thread -> has started the service, not stopped it

vars == <<liberties, service, reference_count, failover_inprogress, pc, held>>

(* The clients make their Start and Stop calls one at a time; they start a *)
(* service again that has ended; one fails over a service that it has not  *)
(* started.                                                                *)
SerialCalls == "overlap" \notin liberties
Restart == "restart" \in liberties
AnyFailover == "borrow" \in liberties

Init ==
    /\ liberties \in Liberties
    /\ service = "none"
    /\ reference_count = 0 /\ failover_inprogress = 0
    /\ pc = [t \in Threads |-> "idle"]
    /\ held = [t \in Threads |-> FALSE]

(* map_mutex is held from one step to the next only by the thread that     *)
(* ends the service inside Decrement.                                      *)
MapMutexFree == \A t \in Threads : pc[t] \notin {"ending", "reset"}

(* FailoverServiceTrackerHandler::Contains.                                *)
Contains == service # "none"

Goto(t, next) == pc' = [pc EXCEPT ![t] = next]

(* SerialCalls: no other thread is inside StartFailoverService or          *)
(* StopFailoverService.                                                    *)
MayCall ==
    SerialCalls =>
        \A t \in Threads : pc[t] \notin {"put", "incr", "ending", "reset"}

-----------------------------------------------------------------------------
(* StartFailoverService.                                                   *)

(* Contains decides between a new service and another reference.           *)
Start(t) ==
    /\ pc[t] = "idle" /\ ~held[t]
    /\ MapMutexFree /\ MayCall
    /\ Restart \/ service # "gone"
    /\ Goto(t, IF Contains THEN "incr" ELSE "put")
    /\ UNCHANGED <<service, reference_count, failover_inprogress, held>>

(* PutIfAbsent of a tracker with a new service and one reference: if       *)
(* another thread was faster the new tracker is destroyed, and the caller  *)
(* is told that the service has started all the same.                      *)
PutIfAbsent(t) ==
    /\ pc[t] = "put" /\ MapMutexFree
    /\ IF Contains
       THEN UNCHANGED <<service, reference_count>>
       ELSE service' = "live" /\ reference_count' = 1
    /\ held' = [held EXCEPT ![t] = TRUE]
    /\ Goto(t, "idle")
    /\ UNCHANGED failover_inprogress

(* Mutant of CreateFails: the tracker is in the map before its service is  *)
(* made.                                                                   *)
CreateFailsAfterPut(t) ==
    /\ pc[t] = "put"
    /\ IF Contains
       THEN UNCHANGED <<service, reference_count>>
       ELSE service' = "gone" /\ reference_count' = 1
    /\ Goto(t, "idle")
    /\ UNCHANGED <<failover_inprogress, held>>

(* The constructor of the service or of its monitor throws.                *)
CreateFails(t) ==
    /\ pc[t] = "put"
    /\ Goto(t, "idle")
    /\ UNCHANGED <<service, reference_count, failover_inprogress, held>>

Increment(t) ==
    /\ pc[t] = "incr" /\ MapMutexFree
    /\ reference_count' = reference_count + 1
    /\ held' = [held EXCEPT ![t] = TRUE]
    /\ Goto(t, "idle")
    /\ UNCHANGED <<service, failover_inprogress>>

-----------------------------------------------------------------------------
(* StopFailoverService.                                                    *)

(* Mutants of IsUnused: the service ends one reference too early; it never *)
(* ends.                                                                   *)
IsUnusedAtOne(count) == count <= 1 /\ failover_inprogress = 0
NeverUnused(count) == FALSE

(* The test of Decrement after it took one reference off.                  *)
IsUnused(count) == count = 0 /\ failover_inprogress = 0

(* Decrement takes a reference off and tests whether that was the last and *)
(* no failover is in progress ...                                          *)
Decrement(t) ==
    /\ pc[t] = "idle" /\ held[t] /\ Contains
    /\ MapMutexFree /\ MayCall
    /\ held' = [held EXCEPT ![t] = FALSE]
    /\ reference_count' = IF reference_count > 0 THEN reference_count - 1 ELSE 0
    /\ IF reference_count > 0 /\ IsUnused(reference_count - 1)
       THEN Goto(t, "ending")
       ELSE UNCHANGED pc
    /\ UNCHANGED <<service, failover_inprogress>>

(* ... and then resets the service, with map_mutex held, which a failover  *)
(* that has looked the tracker up does not need any more.  The pointer is  *)
(* null at once; the destructor then joins the monitor's threads.          *)
ResetService(t) ==
    /\ pc[t] = "ending"
    /\ service' = "gone"
    /\ Goto(t, "reset")
    /\ UNCHANGED <<reference_count, failover_inprogress, held>>

ResetDone(t) ==
    /\ pc[t] = "reset"
    /\ Goto(t, "idle")
    /\ UNCHANGED <<service, reference_count, failover_inprogress, held>>

-----------------------------------------------------------------------------
(* FailoverConnection.                                                     *)

(* Contains, Get and the test for an active service.  That test and those  *)
(* of the next steps take no mutex: others start and stop in between.      *)
FailoverConnection(t) ==
    /\ pc[t] = "idle" /\ (held[t] \/ AnyFailover)
    /\ MapMutexFree
    /\ Contains /\ service # "gone"
    /\ Goto(t, "flag")
    /\ UNCHANGED <<service, reference_count, failover_inprogress, held>>

FlagFailover(t) ==
    /\ pc[t] = "flag"
    /\ failover_inprogress' = failover_inprogress + 1
    /\ Goto(t, "deref")
    /\ UNCHANGED <<service, reference_count, held>>

(* tracker->service->Failover: a null service ends the process.            *)
EnterFailover(t) ==
    /\ pc[t] = "deref"
    /\ Goto(t, IF service = "live" THEN "failing" ELSE "crashed")
    /\ UNCHANGED <<service, reference_count, failover_inprogress, held>>

EndFailover(t) ==
    /\ pc[t] = "failing"
    /\ failover_inprogress' = failover_inprogress - 1
    /\ Goto(t, "idle")
    /\ UNCHANGED <<service, reference_count, held>>

-----------------------------------------------------------------------------
ThreadStep(t) ==
    \/ Start(t) \/ PutIfAbsent(t) \/ CreateFails(t) \/ Increment(t)
    \/ Decrement(t) \/ ResetService(t) \/ ResetDone(t)
    \/ FailoverConnection(t) \/ FlagFailover(t) \/ EnterFailover(t)
    \/ EndFailover(t)

Next == UNCHANGED liberties /\ \E t \in Threads : ThreadStep(t)

Spec == Init /\ [][Next]_vars

-----------------------------------------------------------------------------
Control == {"idle", "put", "incr", "ending", "reset", "flag", "deref",
            "failing", "crashed"}

(* Every variable has its type.                                            *)
TypeOK ==
    /\ liberties \in Liberties
    /\ service \in {"none", "live", "gone"}
    /\ reference_count \in Nat /\ failover_inprogress \in Nat
    /\ pc \in [Threads -> Control]
    /\ held \in [Threads -> BOOLEAN]

Holders == {t \in Threads : held[t]}
InFailover == {t \in Threads : pc[t] \in {"deref", "failing", "crashed"}}

(* However the clients call, failover_inprogress counts the threads        *)
(* between the flag and the end of Failover, none forgotten or counted     *)
(* twice ...                                                               *)
FailoversCounted == failover_inprogress = Cardinality(InFailover)

(* ... and there is never a reference without a client that started the    *)
(* service, which would keep it after they all stopped.                    *)
NoSpareReference == reference_count <= Cardinality(Holders)

(* Clients that call one at a time, whatever else they do: every start has *)
(* its reference.  ("Check again to see if the other thread has set        *)
(* service tracker for cluster id", failover_service.cc:474, is meant to   *)
(* give this to clients that overlap; TLC refutes it for them.)            *)
EveryStartCounted ==
    SerialCalls /\ (\A t \in Threads : pc[t] = "idle")
        => reference_count = Cardinality(Holders)

(* The two counts that decide in Decrement about the end of the service    *)
(* are right, whatever order the critical sections and the unlocked        *)
(* accesses of the clients come in and whichever starts fail.              *)
CountsAreRight == FailoversCounted /\ NoSpareReference /\ EveryStartCounted

(* Clients that call one at a time, and do not start an ended service      *)
(* again: the service is there for everybody who has started it.           *)
HeldServiceLives ==
    SerialCalls /\ ~Restart => (Holders # {} => service = "live")

(* A failover holds neither map_mutex nor a reference of its own, and may  *)
(* raise its flag after a stop has tested it (failover_service.cc:66) and  *)
(* before it resets the service (:68).  Clients that call one at a time    *)
(* and fail over only what they have started keep the service all the same *)
(* from the look-up to the end of the failover, whoever else stops then.   *)
FailoverOnLiveService ==
    SerialCalls /\ ~AnyFailover =>
        \A t \in Threads : /\ pc[t] \in {"flag", "deref", "failing"}
                               => service = "live"
                          /\ pc[t] # "crashed"

(* Clients that in addition do not start an ended service again see a      *)
(* reference counted service, which is there as long as somebody has       *)
(* started it, and ends when nobody needs it: "If the reference count      *)
(* drops below 0 and is not currently undergoing failover, the service     *)
(* will be cleaned up" (failover_service.h:111).  It is given up when      *)
(* Decrement has decided so.                                               *)
Disciplined == SerialCalls /\ ~Restart /\ ~AnyFailover

Ending == \E t \in Threads : pc[t] = "ending"

Abstract == INSTANCE RefCountedService
    WITH Users <- Threads,
         users <- IF Disciplined THEN Holders ELSE {},
         running <- Disciplined /\ service = "live" /\ ~Ending

IsRefCounted == Abstract!Spec

-----------------------------------------------------------------------------
(* Comments and docs that the code does not keep.  TLC refutes each of     *)
(* them: the first in a run of its own, the others with the configurations *)
(* the README describes.                                                   *)

(* "@return true if a service is either incremented or started"            *)
(* (failover_service.h:105): a client that started the service last has a  *)
(* service when it is alone.                                               *)
StartedServiceIsUsable ==
    (\A t \in Threads : pc[t] = "idle") => (Holders # {} => service = "live")

(* "Set flag to ensure tracker is not cleaned up during failover           *)
(* disconnection" (failover_service.cc:508).  The flag does not do it: a   *)
(* failover of a client without a reference may enter the service, and     *)
(* have it destroyed under it, between the test and the reset.             *)
NotCleanedUpDuringFailover ==
    \A t \in Threads : pc[t] = "failing" => service = "live"
=============================================================================
