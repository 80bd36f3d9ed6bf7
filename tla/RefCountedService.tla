-------------------------- MODULE RefCountedService --------------------------
(***************************************************************************)
(* What StartFailoverService and StopFailoverService promise about the     *)
(* service of one cluster (src/src/failover/failover_service.h:98-116),    *)
(* and GetLimitlessInstance and StopLimitlessMonitorService about theirs:  *)
(* it is there as long as somebody has started and not stopped it.         *)
(***************************************************************************)
CONSTANT Users
VARIABLES users,   \* those who have started the service and not stopped it
          running  \* whether the service is there

Init == users = {} /\ running = FALSE

Acquire(u) ==
    /\ u \notin users
    /\ users' = users \cup {u}
    /\ running' = TRUE

Release(u) ==
    /\ u \in users
    /\ users' = users \ {u}
    /\ running' = (running /\ users' # {})

Next == \E u \in Users : Acquire(u) \/ Release(u)

Spec == Init /\ [][Next]_<<users, running>>
=============================================================================
