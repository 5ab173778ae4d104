------------------------------- MODULE SourceDB -------------------------------
(***************************************************************************)
(* The source Oracle schema after AddSource has instrumented it: the user   *)
(* tables, the transactions of the applications, the two triggers osync     *)
(* creates on every table, the package sync_core, the change log sy$txlog   *)
(* and the delete logs sy$de<table>.                                        *)
(*                                                                          *)
(* A row is a pair <<table, key>>.  Its contents are abstracted to the      *)
(* value of the column TXN that the before-insert-or-update trigger stamps  *)
(* on it: two versions of a row differ exactly when they were written by    *)
(* different transactions.  0 stands for a row that does not exist.         *)
(***************************************************************************)
EXTENDS Naturals, FiniteSets

CONSTANTS
  Tables,    \* the user tables registered in sy$sources, one mask bit each
  Keys,      \* the primary key values of the rows
  Sessions,  \* the database sessions of the applications
  MaxTxn,    \* bound: values the sequence sy$scn_seq hands out
  MaxScn     \* bound: committed transactions

ASSUME SourceAssumption ==
  /\ MaxTxn \in Nat
  /\ MaxScn \in Nat

Rows == Tables \X Keys
TableOf(r) == r[1]

\* The scn of a change-log row that coalesce_log has not stamped yet
\* (9999999999999999999999999999 in the package): above every real scn.
Infinity == MaxScn + 1

VARIABLES
  rows,     \* committed version of every row, 0 when the row is absent
  session,  \* the open transaction and the package state of every session
  txlog,    \* committed sy$txlog, by txn
  delog,    \* rows of sy$de<table> with ISSYN = 0, by the key they name
  seq,      \* last value of sy$scn_seq
  scn,      \* system change number of the last commit
  cursor,   \* rows the running coalesce_log has locked, {} when it is idle
  failed    \* history: transactions in which a statement failed

sourceVars == <<rows, session, txlog, delog, seq, scn, cursor, failed>>

-----------------------------------------------------------------------------
(***************************************************************************)
(* txn and mask are the package variables currentTxn and currentMask; txn   *)
(* is 0 until getTxn has run in the transaction (lastTxID differs from the  *)
(* local transaction id).  logged is the mask of the transaction's own row  *)
(* in sy$txlog, {} when there is none.  puts and dels are the rows the      *)
(* transaction has written and the rows its delete trigger has logged.      *)
(***************************************************************************)
SessionState == [txn: 0..MaxTxn, mask: SUBSET Tables, logged: SUBSET Tables,
                 puts: SUBSET Rows, dels: SUBSET Rows]

NoTransaction == [txn |-> 0, mask |-> {}, logged |-> {}, puts |-> {}, dels |-> {}]

\* mask = {} when the transaction has no row in the change log.
LogRow == [mask: SUBSET Tables, scn: 0..Infinity, oraRowscn: 0..MaxScn]
NoLogRow == [mask |-> {}, scn |-> 0, oraRowscn |-> 0]

SourceTypeOK ==
  /\ rows \in [Rows -> 0..MaxTxn]
  /\ session \in [Sessions -> SessionState]
  /\ txlog \in [1..MaxTxn -> LogRow]
  /\ delog \subseteq Rows
  /\ seq \in 0..MaxTxn
  /\ scn \in 0..MaxScn
  /\ cursor \subseteq 1..MaxTxn
  /\ failed \subseteq 1..MaxTxn

SourceInit ==
  /\ rows = [r \in Rows |-> 0]
  /\ session = [s \in Sessions |-> NoTransaction]
  /\ txlog = [x \in 1..MaxTxn |-> NoLogRow]
  /\ delog = {}
  /\ seq = 0
  /\ scn = 0
  /\ cursor = {}
  /\ failed = {}

-----------------------------------------------------------------------------
\* Variant: the row keeps the mask of the first table.
GetTxnFirstMask(q, t) ==
  IF q.txn = 0
  THEN [q EXCEPT !.txn = seq + 1, !.mask = {t}, !.logged = {t}]
  ELSE q

(***************************************************************************)
(* sync_core.getTxn(source, operation), called by the trigger on table t.   *)
(* The three branches: the first call of a transaction takes a number and   *)
(* logs it; a call that no longer finds the transaction's log row inserts   *)
(* it again with the mask as it stands; any other call adds the bit of the  *)
(* table to the mask and to the row.                                        *)
(***************************************************************************)
GetTxn(q, t) ==
  IF q.txn = 0
  THEN [q EXCEPT !.txn = seq + 1, !.mask = {t}, !.logged = {t}]
  ELSE IF q.logged = {}
  THEN [q EXCEPT !.logged = q.mask]
  ELSE [q EXCEPT !.mask = q.mask \cup {t}, !.logged = q.mask \cup {t}]

\* The statement takes a number from the sequence.
TakesNumber(q) == q.txn = 0

NumberLeft(q) == TakesNumber(q) => seq < MaxTxn

NextSeq(q) == IF TakesNumber(q) THEN seq + 1 ELSE seq

\* Row r as the statements of session s see it.
Visible(s, r) ==
  \/ r \in session[s].puts
  \/ r \notin session[s].dels /\ rows[r] # 0

\* Another transaction holds the lock on row r.
Locked(s, r) ==
  \E o \in Sessions \ {s} : r \in session[o].puts \cup session[o].dels

-----------------------------------------------------------------------------
\* INSERT or UPDATE of row r: the trigger stamps the row with getTxn.
Put(s, r) ==
  LET q == session[s] IN
  /\ ~Locked(s, r)
  /\ NumberLeft(q)
  /\ seq' = NextSeq(q)
  /\ session' = [session EXCEPT ![s] =
                   [GetTxn(q, TableOf(r)) EXCEPT !.puts = q.puts \cup {r}]]
  /\ UNCHANGED <<rows, txlog, delog, scn, cursor, failed>>

\* An INSERT or UPDATE on table t that fails after its trigger has run: the
\* statement's work, the change of sy$txlog included, is undone; the package
\* variables and the number taken are not.
PutFails(s, t) ==
  LET q == session[s] IN
  /\ NumberLeft(q)
  /\ seq' = NextSeq(q)
  /\ session' = [session EXCEPT ![s] = [GetTxn(q, t) EXCEPT !.logged = q.logged]]
  /\ failed' = failed \cup {GetTxn(q, t).txn}
  /\ UNCHANGED <<rows, txlog, delog, scn, cursor>>

DeleteLogged(q, r) == [q EXCEPT !.puts = q.puts \ {r}, !.dels = q.dels \cup {r}]

\* DELETE of row r: the delete trigger logs its key with ISSYN = 0.
Delete(s, r) ==
  LET q == session[s] IN
  /\ ~Locked(s, r)
  /\ Visible(s, r)
  /\ session' = [session EXCEPT ![s] = DeleteLogged(q, r)]
  /\ UNCHANGED <<rows, txlog, delog, seq, scn, cursor, failed>>

NewLogRow(mask) == [mask |-> mask, scn |-> Infinity, oraRowscn |-> scn + 1]

\* COMMIT: row versions, the change-log row (whose ORA_ROWSCN is the commit's
\* scn, the table being created with ROWDEPENDENCIES) and the delete-log rows
\* become visible together.
Commit(s) ==
  LET q == session[s] IN
  /\ q # NoTransaction
  /\ scn < MaxScn
  /\ scn' = scn + 1
  /\ rows' = [r \in Rows |-> IF r \in q.puts THEN q.txn
                             ELSE IF r \in q.dels THEN 0 ELSE rows[r]]
  /\ txlog' = IF q.logged = {} THEN txlog
              ELSE [txlog EXCEPT ![q.txn] = NewLogRow(q.logged)]
  /\ delog' = delog \cup q.dels
  /\ session' = [session EXCEPT ![s] = NoTransaction]
  /\ UNCHANGED <<seq, cursor, failed>>

Rollback(s) ==
  /\ session[s] # NoTransaction
  /\ session' = [session EXCEPT ![s] = NoTransaction]
  /\ UNCHANGED <<rows, txlog, delog, seq, scn, cursor, failed>>

-----------------------------------------------------------------------------
Unstamped == {x \in DOMAIN txlog : txlog[x].scn = Infinity}

\* Variant: a job that comes to some of the rows.
CoalesceOpenSome ==
  /\ cursor = {}
  /\ \E c \in SUBSET Unstamped : c # {} /\ cursor' = c
  /\ UNCHANGED <<rows, session, txlog, delog, seq, scn, failed>>

\* The job J_COALESCE_LOG opens its cursor: the committed rows without an scn,
\* as of this moment.
CoalesceOpen ==
  /\ cursor = {}
  /\ Unstamped # {}
  /\ cursor' = Unstamped
  /\ UNCHANGED <<rows, session, txlog, delog, seq, scn, failed>>

\* ... and commits: every row of the cursor gets its ORA_ROWSCN as scn.
CoalesceCommit ==
  /\ cursor # {}
  /\ txlog' = [x \in DOMAIN txlog |->
                 IF x \in cursor THEN [txlog[x] EXCEPT !.scn = txlog[x].oraRowscn]
                 ELSE txlog[x]]
  /\ cursor' = {}
  /\ UNCHANGED <<rows, session, delog, seq, scn, failed>>

SourceNext ==
  \/ \E s \in Sessions : \/ \E r \in Rows : Put(s, r) \/ Delete(s, r)
                         \/ \E t \in Tables : PutFails(s, t)
                         \/ Commit(s)
                         \/ Rollback(s)
  \/ CoalesceOpen
  \/ CoalesceCommit

SourceSpec == SourceInit /\ [][SourceNext]_sourceVars

-----------------------------------------------------------------------------
\* A committed row version is announced under its table: the change-log row of
\* the transaction that wrote it has the table's mask bit, unless one of the
\* transaction's statements failed after its trigger had run (getTxn then finds
\* its package variables out of step with sy$txlog).
RowsAreLogged ==
  \A r \in Rows : rows[r] \notin failed \cup {0} => TableOf(r) \in txlog[rows[r]].mask

(***************************************************************************)
(* The inductive invariant of the source schema.                           *)
(***************************************************************************)
Logged(x) == txlog[x].mask # {}

\* An open transaction that has called getTxn has a number sy$txlog does not
\* know yet; a row it has written has put it into the log; the mask there is the
\* package's mask, and complete, unless one of its statements has failed.
SessionOK(q) ==
  /\ q.txn = 0 => q.puts = {} /\ q.mask = {} /\ q.logged = {}
  /\ q.txn # 0 => q.txn <= seq /\ q.mask # {} /\ ~Logged(q.txn)
  /\ q.puts # {} => q.logged # {}
  /\ q.txn \notin failed => /\ q.logged = q.mask
                            /\ \A r \in q.puts : TableOf(r) \in q.mask

\* No two open transactions have the same number.
NumbersDiffer ==
  \A s, o \in Sessions :
    session[s].txn = session[o].txn /\ session[s].txn # 0 => s = o

SessionsOK == NumbersDiffer /\ \A s \in Sessions : SessionOK(session[s])

\* A number that has not been drawn is unused; a committed log row carries a
\* commit's scn, its own or not yet; every row version belongs to a log row.
LogOK ==
  /\ \A x \in DOMAIN txlog :
       /\ Logged(x) => /\ x <= seq
                       /\ txlog[x].oraRowscn \in 1..scn
                       /\ txlog[x].scn \in {Infinity, txlog[x].oraRowscn}
       /\ ~Logged(x) => txlog[x] = NoLogRow
  /\ \A x \in failed : x <= seq
  /\ \A r \in Rows : rows[r] # 0 => Logged(rows[r])

Stamped(x) == Logged(x) /\ txlog[x].scn < Infinity
CommittedBefore(x, y) == txlog[x].oraRowscn < txlog[y].oraRowscn

\* coalesce_log stamps in commit order: what is stamped committed before what
\* is not, and the rows under the cursor before the other unstamped ones.
CoalesceOrder ==
  /\ cursor \subseteq Unstamped
  /\ \A x \in DOMAIN txlog, y \in Unstamped : Stamped(x) => CommittedBefore(x, y)
  /\ \A x \in cursor, y \in Unstamped \ cursor : CommittedBefore(x, y)

SourceInv == SourceTypeOK /\ SessionsOK /\ LogOK /\ CoalesceOrder /\ RowsAreLogged
===============================================================================
