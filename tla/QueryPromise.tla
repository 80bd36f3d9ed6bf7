----------------------------- MODULE QueryPromise -----------------------------
(***************************************************************************)
(* What the query helpers promise their callers: a call is answered at     *)
(* once, with what the server has to say, or with less of it when the      *)
(* driver has reported an error.                                           *)
(***************************************************************************)
EXTENDS Naturals, Sequences

CONSTANTS
    Calls,          \* the calls there are
    ListCalls,      \* those answered with a list
    ServerAnswers   \* call -> the sequences of ids a server can answer with

VARIABLES call, server, answer, asked, failed

vars == <<call, server, answer, asked, failed>>

Init ==
    /\ call \in Calls /\ server \in ServerAnswers[call]
    /\ answer = <<>> /\ asked = FALSE /\ failed = FALSE

Ask ==
    /\ ~asked /\ asked' = TRUE
    /\ call' \in Calls /\ server' \in ServerAnswers[call']
    /\ answer' = <<>> /\ failed' = FALSE

(* A list may be cut short by an error; anything else is there or not.     *)
Reply ==
    /\ asked /\ asked' = FALSE
    /\ failed' \in BOOLEAN
    /\ \/ answer' = server
       \/ failed' /\ answer' = <<>>
       \/ failed' /\ call \in ListCalls
          /\ answer' \in {SubSeq(server, 1, n) : n \in 1..Len(server)}
    /\ UNCHANGED <<call, server>>

Next == Ask \/ Reply

Spec == Init /\ [][Next]_vars
===============================================================================
