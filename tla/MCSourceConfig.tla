---------------------------- MODULE MCSourceConfig ----------------------------
(* SourceConfig with small constants. *)
EXTENDS SourceConfig

CONSTANTS t1, t2, t3, p1

NoTables == {}
OneTable == {t1}
ThreeTables == {t1, t2, t3}
LastTable == {t3}
OneInstaller == {p1}
===============================================================================
