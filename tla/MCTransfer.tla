------------------------------ MODULE MCTransfer ------------------------------
(* Transfer with small constants. *)
EXTENDS Transfer

CONSTANTS t1, t2, k1, g1, g2

OneTable == {t1}
TwoTables == {t1, t2}
OneKey == {k1}
OneMap == {g1}
TwoMaps == {g1, g2}
BothFromOne == [g \in Maps |-> t1]
OneEach == [g \in Maps |-> IF g = g1 THEN t1 ELSE t2]
===============================================================================
