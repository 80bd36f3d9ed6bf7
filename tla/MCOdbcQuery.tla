------------------------------ MODULE MCOdbcQuery ------------------------------
(* Small instances of OdbcQuery for TLC.                                   *)
EXTENDS OdbcQuery

Row(i, l, n) == [id |-> i, lag |-> l, num |-> n]

(* A server that lists one instance twice is not considered: ids differ.   *)
ManyRows == {Row(i, l, n) : i \in {"a", "b", "c"}, l \in {0, 20},
                            n \in {0, 4, 97, 130, Null}}

UpToThree ==
    {<<>>} \cup {<<r>> : r \in {q \in ManyRows : q.id = "a"}}
    \cup {<<r, q>> : r \in {p \in ManyRows : p.id = "a" /\ p.lag = 0},
                     q \in {p \in ManyRows : p.id = "b" /\ p.lag = 20}}
    \cup {<<Row("a", 0, 4), Row("b", 20, Null), r>> :
                     r \in {p \in ManyRows : p.id = "c"}}
================================================================================
