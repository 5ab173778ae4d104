---------------------------- MODULE MCTxlogCapture ----------------------------
(* TxlogCapture with small constants; the sessions are interchangeable. *)
EXTENDS TxlogCapture, TLC

CONSTANTS t1, t2, k1, s1, s2

TwoTables == {t1, t2}
OneKey == {k1}
SecondVersion == {[row |-> <<t1, k1>>, txn |-> 2]}
TopBit == [t \in Tables |-> IF t = t1 THEN 0 ELSE 30]
WideBit == [t \in Tables |-> IF t = t1 THEN 0 ELSE 31]
OneSession == {s1}
TwoSessions == {s1, s2}

Symmetry == Permutations(Sessions)
===============================================================================
