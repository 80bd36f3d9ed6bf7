------------------------- MODULE AuthenticatedClients -------------------------
(***************************************************************************)
(* Threads of a driver that log, with or without output, while they ask    *)
(* for tokens and credentials (the order of calls is that of the examples  *)
(* in src/docs/authentication).                                            *)
(***************************************************************************)
EXTENDS Authentication, Logger

ASSUME ClientsAssumption == LogUsers = Threads

clientVars == <<allVars, logVars>>

ClientInit == AuthInit /\ LoggerInit

(* A thread logs from before its first call to after its last.             *)
Connect(t)    == at[t] = "idle" /\ Start(t) /\ UNCHANGED allVars
Disconnect(t) == Forget(t) /\ End(t)

CallAuth(t) == wants[t] # "none" /\ Call(t) /\ UNCHANGED logVars
StepAuth(t) == Step(t) /\ UNCHANGED logVars
Time        == Tick /\ UNCHANGED logVars

ClientNext ==
    Time \/ \E t \in Threads : Connect(t) \/ Disconnect(t) \/ CallAuth(t) \/ StepAuth(t)

(* Servers answer, or the requests time out.                               *)
ClientSpec ==
    /\ ClientInit /\ [][ClientNext]_clientVars
    /\ \A t \in Threads : WF_clientVars(StepAuth(t))

=============================================================================
