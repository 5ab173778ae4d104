------------------------------ MODULE MCTableMaps ------------------------------
(* TableMaps with two nodes: n1 has the source tables, n2 is the target. *)
EXTENDS TableMaps, TLC

CONSTANTS n1, n2, m1, m2, r1, r2

TwoNodes == {n1, n2}
TwoMaps == {m1, m2}
FirstNode == [m \in Maps |-> n1]
SecondNode == [m \in Maps |-> n2]
TwoRequests == {r1, r2}

Symmetry == Permutations(Requests) \cup Permutations(Maps)
===============================================================================
