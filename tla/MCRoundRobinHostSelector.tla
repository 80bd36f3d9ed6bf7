----------------------- MODULE MCRoundRobinHostSelector -----------------------
(* Small instances of RoundRobinHostSelector for TLC.                      *)
EXTENDS RoundRobinHostSelector

CONSTANT none

(* Two clusters, one of two hosts, in which either may be down.            *)
TwoClusters == {{1, 2}, {3}}
ThreeKeys   == {1, 2, 3}
FourIds     == 1..4

(* Weights for all hosts of a cluster; for one host, with a second pair    *)
(* that is invalid; an empty string; a default; an invalid default.        *)
Props(default, host) == [default |-> default, host |-> host]
Weights(w1, w2) == Props(none, SetRoundRobinWeight({1, 2}, <<w1, w2>>))
SomeProperties ==
    {Weights(1, 3), Weights(1, 1), Weights(2, 0), Props(2, <<>>), Props(0, none)}

Call(S, props) == [sel |-> S, props |-> props]
SomeCalls ==
    {Call({1, 2}, props) : props \in SomeProperties}
      \cup {Call(S, Weights(1, 3)) : S \in {{1}, {2}}}
      \cup {Call({3}, Props(none, none))}
=============================================================================
