---------------------------- MODULE MCDeleteCapture ---------------------------
(* DeleteCapture with small constants: the rows of t1 have number keys, of which
   k2 has a fraction and reads k1 without it; of the string keys of t2, k2 has an
   apostrophe. *)
EXTENDS DeleteCapture

CONSTANTS t1, t2, k1, k2, s1

TwoTables == {t1, t2}
TwoKeys == {k1, k2}
OneSession == {s1}

Apostrophe == {<<t2, k2>>}
WithoutFraction == [r \in Rows |-> IF r = <<t1, k2>> THEN <<t1, k1>> ELSE r]

\* The thread reads nothing that failing statements or coalesce_log change.
Quiet == failed = {} /\ cursor = {}

\* bound: rows a transaction touches
OneRow == \A s \in Sessions : Cardinality(session[s].puts \cup session[s].dels) <= 1
===============================================================================
