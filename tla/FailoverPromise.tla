--------------------------- MODULE FailoverPromise ---------------------------
(***************************************************************************)
(* What FailoverConnection promises its callers                            *)
(* (src/src/failover/failover_service.h:118-128): "a FailoverResult object *)
(* indicating whether the connection has been established, and if so the   *)
(* new connection", in the role the failover mode asks for.  How many      *)
(* hosts are tried, and what other callers do meanwhile, does not show.    *)
(***************************************************************************)
EXTENDS Naturals

CONSTANTS
    Hosts, Clients, Modes,
    NoConnection,  \* a client without a connection
    Lost           \* a connection whose server is gone

VARIABLES
    mode,         \* the failover mode of the service
    writer,       \* the host that is the writer now
    trouble,      \* how often something has gone wrong
    asked,        \* the clients that wait for an answer
    connection,   \* client -> NoConnection, Lost or the host connected to
    result        \* client -> the status of its last answer

vars == <<mode, writer, trouble, asked, connection, result>>

Init ==
    /\ mode \in Modes /\ writer \in Hosts /\ trouble = 0
    /\ asked = {}
    /\ connection = [c \in Clients |-> NoConnection]
    /\ result = [c \in Clients |-> "none"]

Ask(c) ==
    /\ c \notin asked /\ connection[c] = NoConnection
    /\ asked' = asked \cup {c}
    /\ result' = [result EXCEPT ![c] = "none"]
    /\ UNCHANGED <<mode, writer, trouble, connection>>

(* A strict reader failover takes only what is known to be a reader; a     *)
(* strict writer failover takes what is not known to be one, so that only  *)
(* there trouble may give the client the other role.                       *)
RightRole(h) ==
    /\ mode = "STRICT_READER" => h # writer
    /\ mode = "STRICT_WRITER" => h = writer \/ trouble' > trouble

Established(c) ==
    /\ c \in asked /\ asked' = asked \ {c}
    /\ trouble' \in {trouble, trouble + 1}
    /\ \E h \in Hosts : /\ RightRole(h)
                        /\ connection' = [connection EXCEPT ![c] = h]
    /\ result' = [result EXCEPT ![c] = "succeed"]
    /\ UNCHANGED <<mode, writer>>

(* ... and without a connection there is nothing to clean up.              *)
NotEstablished(c) ==
    /\ c \in asked /\ asked' = asked \ {c}
    /\ \E status \in {"failed", "skipped"} :
          result' = [result EXCEPT ![c] = status]
    /\ UNCHANGED <<mode, writer, trouble, connection>>

Disconnect(c) ==
    /\ c \notin asked /\ connection[c] # NoConnection
    /\ connection' = [connection EXCEPT ![c] = NoConnection]
    /\ result' = [result EXCEPT ![c] = "none"]
    /\ UNCHANGED <<mode, writer, trouble, asked>>

Drop(c) ==
    /\ c \notin asked /\ connection[c] \in Hosts
    /\ connection' = [connection EXCEPT ![c] = Lost]
    /\ trouble' = trouble + 1
    /\ UNCHANGED <<mode, writer, asked, result>>

(* Another instance becomes the writer, or something else goes wrong.      *)
Trouble ==
    /\ trouble' = trouble + 1
    /\ writer' \in Hosts
    /\ UNCHANGED <<mode, asked, connection, result>>

Next ==
    \/ \E c \in Clients : \/ Ask(c) \/ Established(c) \/ NotEstablished(c)
                          \/ Disconnect(c) \/ Drop(c)
    \/ Trouble

Spec == Init /\ [][Next]_vars
=============================================================================
