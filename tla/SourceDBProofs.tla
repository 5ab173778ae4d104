---------------------------- MODULE SourceDBProofs ----------------------------
(***************************************************************************)
(* SourceInv is an invariant of SourceSpec, for every set of tables, keys   *)
(* and sessions and all bounds.  The lemmas about the actions are used      *)
(* again for the monitor thread that runs beside the database.              *)
(***************************************************************************)
EXTENDS SourceDB, TLAPS

\* What getTxn makes of a session's state: it keeps the rows, gives the
\* transaction a number and a log row, and if the log row and the package
\* variable had the same mask they still do, with the table's bit added.
LEMMA GetTxnEffect ==
  ASSUME NEW q \in SessionState, NEW t \in Tables,
         seq \in 0..MaxTxn, NumberLeft(q),
         q.txn = 0 => q.mask = {} /\ q.logged = {} /\ q.puts = {},
         q.txn # 0 => q.mask # {}
  PROVE  /\ GetTxn(q, t) \in SessionState
         /\ GetTxn(q, t).puts = q.puts /\ GetTxn(q, t).dels = q.dels
         /\ GetTxn(q, t).txn = IF q.txn = 0 THEN seq + 1 ELSE q.txn
         /\ GetTxn(q, t).mask # {} /\ GetTxn(q, t).logged # {}
         /\ q.logged = q.mask =>
              /\ GetTxn(q, t).logged = GetTxn(q, t).mask
              /\ GetTxn(q, t).mask = q.mask \cup {t}
<1>1. CASE q.txn = 0
  <2>1. GetTxn(q, t) = [txn |-> seq + 1, mask |-> {t}, logged |-> {t},
                        puts |-> q.puts, dels |-> q.dels]
    BY <1>1 DEF GetTxn, SessionState
  <2>2. seq + 1 \in 0..MaxTxn
    BY <1>1, SourceAssumption DEF NumberLeft, TakesNumber
  <2>. QED BY <1>1, <2>1, <2>2 DEF SessionState
<1>2. CASE q.txn # 0 /\ q.logged = {}
  <2>1. GetTxn(q, t) = [txn |-> q.txn, mask |-> q.mask, logged |-> q.mask,
                        puts |-> q.puts, dels |-> q.dels]
    BY <1>2 DEF GetTxn, SessionState
  <2>. QED BY <1>2, <2>1 DEF SessionState
<1>3. CASE q.txn # 0 /\ q.logged # {}
  <2>1. GetTxn(q, t) = [txn |-> q.txn, mask |-> q.mask \cup {t},
                        logged |-> q.mask \cup {t},
                        puts |-> q.puts, dels |-> q.dels]
    BY <1>3 DEF GetTxn, SessionState
  <2>. QED BY <1>3, <2>1 DEF SessionState
<1>. QED BY <1>1, <1>2, <1>3

LEMMA SourceInit_Inv == SourceInit => SourceInv
<1>. SUFFICES ASSUME SourceInit PROVE SourceInv
  OBVIOUS
<1>. USE SourceAssumption DEF SourceInit
<1>1. SourceTypeOK
  BY DEF SourceTypeOK, SessionState, NoTransaction, LogRow, NoLogRow, Infinity
<1>2. SessionsOK
  BY DEF SessionsOK, SessionOK, NumbersDiffer, NoTransaction
<1>3. LogOK
  BY DEF LogOK, Logged, NoLogRow
<1>4. CoalesceOrder
  BY DEF CoalesceOrder, Unstamped, NoLogRow, Infinity
<1>5. RowsAreLogged
  BY DEF RowsAreLogged
<1>. QED BY <1>1, <1>2, <1>3, <1>4, <1>5 DEF SourceInv

\* A step that changes the state of one session, seq and failed only, to a
\* state q that is itself well-formed, preserves the invariant.
LEMMA SessionStep ==
  ASSUME SourceInv, NEW s \in Sessions, NEW q \in SessionState,
         session' = [session EXCEPT ![s] = q],
         seq' \in seq..MaxTxn,
         failed' \subseteq 1..MaxTxn, failed \subseteq failed',
         \A x \in failed' : x <= seq',
         UNCHANGED <<rows, txlog, delog, scn, cursor>>,
         q.txn = session[s].txn \/ q.txn = 0 \/ q.txn > seq,
         SessionOK(q)'
  PROVE  SourceInv'
<1>. USE SourceAssumption
<1>1. SourceTypeOK /\ SessionsOK /\ LogOK /\ CoalesceOrder /\ RowsAreLogged
  BY DEF SourceInv
<1>2. SourceTypeOK'
  BY <1>1 DEF SourceTypeOK
<1>3. session' \in [Sessions -> SessionState] /\ session \in [Sessions -> SessionState]
  BY <1>1, <1>2 DEF SourceTypeOK
<1>4. SessionsOK'
  <2>1. \A o \in Sessions : SessionOK(session[o])
    BY <1>1 DEF SessionsOK
  <2>2. \A o \in Sessions : SessionOK(session[o])'
    <3>. SUFFICES ASSUME NEW o \in Sessions PROVE SessionOK(session[o])'
      OBVIOUS
    <3>1. CASE o = s
      BY <1>3, <3>1
    <3>2. CASE o # s
      <4>1. session'[o] = session[o]
        BY <1>3, <3>2
      <4>2. SessionOK(session[o])
        BY <2>1
      <4>3. session[o].txn <= seq => session[o].txn <= seq'
        BY <1>1, <1>3 DEF SourceTypeOK, SessionState
      <4>. QED BY <4>1, <4>2, <4>3 DEF SessionOK, Logged, TableOf
    <3>. QED BY <3>1, <3>2
  <2>3. NumbersDiffer'
    <3>. SUFFICES ASSUME NEW u \in Sessions, NEW o \in Sessions, u # o,
                         session'[u].txn = session'[o].txn, session'[u].txn # 0
                  PROVE  FALSE
      BY DEF NumbersDiffer
    <3>1. session[u].txn <= seq /\ session[o].txn <= seq
      BY <1>1, <1>3, <2>1 DEF SessionOK, SourceTypeOK, SessionState
    <3>2. CASE u # s /\ o # s
      BY <1>1, <1>3, <3>2 DEF SessionsOK, NumbersDiffer
    <3>3. CASE u = s
      BY <1>1, <1>3, <3>1, <3>3 DEF SessionsOK, NumbersDiffer, SourceTypeOK, SessionState
    <3>4. CASE o = s
      BY <1>1, <1>3, <3>1, <3>4 DEF SessionsOK, NumbersDiffer, SourceTypeOK, SessionState
    <3>. QED BY <3>2, <3>3, <3>4
  <2>. QED BY <2>2, <2>3 DEF SessionsOK
<1>5. LogOK'
  BY <1>1 DEF LogOK, Logged, SourceTypeOK
<1>6. CoalesceOrder'
  BY <1>1 DEF CoalesceOrder, Unstamped, Stamped, Logged, CommittedBefore
<1>7. RowsAreLogged'
  BY <1>1 DEF RowsAreLogged, TableOf
<1>. QED BY <1>2, <1>4, <1>5, <1>6, <1>7 DEF SourceInv

LEMMA PutsReplaced ==
  ASSUME NEW g \in SessionState, NEW P \in SUBSET Rows
  PROVE  \E n \in SessionState :
           /\ n = [g EXCEPT !.puts = P]
           /\ n.txn = g.txn /\ n.mask = g.mask /\ n.logged = g.logged
           /\ n.puts = P
<1>1. [g EXCEPT !.puts = P] \in SessionState
  BY DEF SessionState
<1>2. /\ [g EXCEPT !.puts = P].txn = g.txn
      /\ [g EXCEPT !.puts = P].mask = g.mask
      /\ [g EXCEPT !.puts = P].logged = g.logged
      /\ [g EXCEPT !.puts = P].puts = P
  BY DEF SessionState
<1>. QED BY <1>1, <1>2

LEMMA PutStep == ASSUME SourceInv, NEW s \in Sessions, NEW r \in Rows, Put(s, r)
                 PROVE  SourceInv'
<1>. USE SourceAssumption
<1>. DEFINE q == session[s]
            g == GetTxn(q, TableOf(r))
<1>1. SourceTypeOK /\ SessionOK(q) /\ q \in SessionState
  BY DEF SourceInv, SessionsOK, SourceTypeOK
<1>2. /\ g \in SessionState
      /\ g.txn = IF q.txn = 0 THEN seq + 1 ELSE q.txn
      /\ g.mask # {} /\ g.logged # {}
      /\ q.logged = q.mask => g.logged = g.mask /\ g.mask = q.mask \cup {TableOf(r)}
  <2>1. TableOf(r) \in Tables
    BY DEF Rows, TableOf
  <2>. QED BY <1>1, <2>1, GetTxnEffect DEF SourceTypeOK, SessionOK, Put
<1>3. PICK n \in SessionState :
        /\ n = [g EXCEPT !.puts = q.puts \cup {r}]
        /\ n.txn = g.txn /\ n.mask = g.mask /\ n.logged = g.logged
        /\ n.puts = q.puts \cup {r}
  <2>1. q.puts \cup {r} \in SUBSET Rows
    BY <1>1 DEF SessionState
  <2>. QED BY <1>2, <2>1, PutsReplaced
<1>4. /\ seq' \in seq..MaxTxn
      /\ q.txn = 0 => seq' = seq + 1 /\ seq' <= MaxTxn
      /\ q.txn # 0 => seq' = seq
  BY <1>1 DEF Put, NextSeq, TakesNumber, NumberLeft, SourceTypeOK
<1>5. /\ n.txn <= seq' /\ n.txn # 0
      /\ ~Logged(n.txn)
  BY <1>1, <1>2, <1>3, <1>4 DEF SessionOK, SourceInv, LogOK, SourceTypeOK, SessionState
<1>6. n.txn \notin failed => n.logged = n.mask /\ \A p \in n.puts : TableOf(p) \in n.mask
  BY <1>1, <1>2, <1>3, <1>4, <1>5 DEF SessionOK, SourceInv, LogOK, SourceTypeOK, SessionState
<1>7. failed' = failed /\ UNCHANGED txlog
  BY DEF Put
<1>8. SessionOK(n)'
  <2>1. n.txn # 0 /\ n.mask # {} /\ n.logged # {}
    BY <1>2, <1>3, <1>5
  <2>2. n.txn \notin failed' => n.logged = n.mask /\ \A p \in n.puts : TableOf(p)' \in n.mask
    BY <1>6, <1>7 DEF TableOf
  <2>3. ~(Logged(n.txn)')
    BY <1>5, <1>7 DEF Logged
  <2>. QED BY <1>5, <2>1, <2>2, <2>3 DEF SessionOK
<1>9. n.txn = q.txn \/ n.txn = 0 \/ n.txn > seq
  BY <1>1, <1>2, <1>3 DEF SourceTypeOK
<1>10. \A x \in failed' : x <= seq'
  BY <1>1, <1>4, <1>7 DEF SourceInv, LogOK, SourceTypeOK
<1>11. /\ session' = [session EXCEPT ![s] = n]
       /\ UNCHANGED <<rows, txlog, delog, scn, cursor>>
       /\ failed' \subseteq 1..MaxTxn /\ failed \subseteq failed'
  BY <1>1, <1>3, <1>7 DEF Put, SourceTypeOK
<1>. QED BY <1>3, <1>4, <1>8, <1>9, <1>10, <1>11, SessionStep

LEMMA LoggedReplaced ==
  ASSUME NEW g \in SessionState, NEW L \in SUBSET Tables
  PROVE  \E n \in SessionState :
           /\ n = [g EXCEPT !.logged = L]
           /\ n.txn = g.txn /\ n.mask = g.mask /\ n.logged = L
           /\ n.puts = g.puts
<1>1. [g EXCEPT !.logged = L] \in SessionState
  BY DEF SessionState
<1>2. /\ [g EXCEPT !.logged = L].txn = g.txn
      /\ [g EXCEPT !.logged = L].mask = g.mask
      /\ [g EXCEPT !.logged = L].logged = L
      /\ [g EXCEPT !.logged = L].puts = g.puts
  BY DEF SessionState
<1>. QED BY <1>1, <1>2

LEMMA PutFailsStep == ASSUME SourceInv, NEW s \in Sessions, NEW t \in Tables, PutFails(s, t)
                      PROVE  SourceInv'
<1>. USE SourceAssumption
<1>. DEFINE q == session[s]
            g == GetTxn(q, t)
<1>1. SourceTypeOK /\ SessionOK(q) /\ q \in SessionState
  BY DEF SourceInv, SessionsOK, SourceTypeOK
<1>2. /\ g \in SessionState
      /\ g.txn = IF q.txn = 0 THEN seq + 1 ELSE q.txn
      /\ g.mask # {} /\ g.puts = q.puts
  BY <1>1, GetTxnEffect DEF SourceTypeOK, SessionOK, PutFails
<1>3. PICK n \in SessionState :
        /\ n = [g EXCEPT !.logged = q.logged]
        /\ n.txn = g.txn /\ n.mask = g.mask /\ n.logged = q.logged
        /\ n.puts = g.puts
  <2>1. q.logged \in SUBSET Tables
    BY <1>1 DEF SessionState
  <2>. QED BY <1>2, <2>1, LoggedReplaced
<1>4. /\ seq' \in seq..MaxTxn
      /\ q.txn = 0 => seq' = seq + 1 /\ seq' <= MaxTxn
      /\ q.txn # 0 => seq' = seq
  BY <1>1 DEF PutFails, NextSeq, TakesNumber, NumberLeft, SourceTypeOK
<1>5. /\ n.txn <= seq' /\ n.txn # 0
      /\ ~Logged(n.txn)
      /\ n.puts # {} => n.logged # {}
  BY <1>1, <1>2, <1>3, <1>4 DEF SessionOK, SourceInv, LogOK, SourceTypeOK, SessionState
<1>6. failed' = failed \cup {n.txn} /\ UNCHANGED txlog
  BY <1>3 DEF PutFails
<1>7. SessionOK(n)'
  <2>1. ~(Logged(n.txn)')
    BY <1>5, <1>6 DEF Logged
  <2>. QED BY <1>2, <1>3, <1>5, <1>6, <2>1 DEF SessionOK
<1>8. n.txn = q.txn \/ n.txn = 0 \/ n.txn > seq
  BY <1>1, <1>2, <1>3 DEF SourceTypeOK
<1>9. /\ \A x \in failed' : x <= seq'
      /\ failed' \subseteq 1..MaxTxn /\ failed \subseteq failed'
  <2>1. \A x \in failed : x <= seq
    BY DEF SourceInv, LogOK
  <2>2. \A x \in failed : x <= seq'
    BY <1>1, <1>4, <2>1 DEF SourceTypeOK
  <2>3. n.txn \in 1..MaxTxn
    BY <1>4, <1>5 DEF SessionState
  <2>. QED BY <1>1, <1>5, <1>6, <2>2, <2>3 DEF SourceTypeOK
<1>10. /\ session' = [session EXCEPT ![s] = n]
       /\ UNCHANGED <<rows, txlog, delog, scn, cursor>>
  BY <1>3 DEF PutFails
<1>. QED BY <1>3, <1>4, <1>7, <1>8, <1>9, <1>10, SessionStep

LEMMA DeleteLoggedEffect ==
  ASSUME NEW q \in SessionState, NEW r \in Rows
  PROVE  /\ DeleteLogged(q, r) \in SessionState
         /\ DeleteLogged(q, r).txn = q.txn /\ DeleteLogged(q, r).mask = q.mask
         /\ DeleteLogged(q, r).logged = q.logged
         /\ DeleteLogged(q, r).puts = q.puts \ {r}
  BY DEF DeleteLogged, SessionState

LEMMA DeleteStep == ASSUME SourceInv, NEW s \in Sessions, NEW r \in Rows, Delete(s, r)
                    PROVE  SourceInv'
<1>. USE SourceAssumption
<1>0. PICK q \in SessionState : q = session[s]
  BY DEF SourceInv, SourceTypeOK
<1>1. SourceTypeOK /\ SessionOK(q)
  BY <1>0 DEF SourceInv, SessionsOK, SourceTypeOK
<1>2. PICK n \in SessionState :
        /\ n = DeleteLogged(q, r)
        /\ n.txn = q.txn /\ n.mask = q.mask /\ n.logged = q.logged
        /\ n.puts = q.puts \ {r}
  BY DeleteLoggedEffect
<1>3. /\ UNCHANGED <<rows, txlog, delog, seq, scn, cursor, failed>>
      /\ session' = [session EXCEPT ![s] = n]
  BY <1>0, <1>2 DEF Delete
<1>4. SessionOK(n)
  BY <1>1, <1>2 DEF SessionOK
<1>5. SessionOK(n)'
  BY <1>3, <1>4 DEF SessionOK, Logged, TableOf
<1>6. seq' \in seq..MaxTxn /\ failed' \subseteq 1..MaxTxn /\ \A x \in failed' : x <= seq'
  BY <1>1, <1>3 DEF SourceInv, LogOK, SourceTypeOK
<1>. QED BY <1>0, <1>2, <1>3, <1>5, <1>6, SessionStep

LEMMA RollbackStep == ASSUME SourceInv, NEW s \in Sessions, Rollback(s)
                      PROVE  SourceInv'
<1>. USE SourceAssumption
<1>1. SourceTypeOK
  BY DEF SourceInv
<1>2. PICK n \in SessionState : n = NoTransaction
  <2>1. NoTransaction \in SessionState
    BY DEF NoTransaction, SessionState
  <2>. QED BY <2>1
<1>3. /\ UNCHANGED <<rows, txlog, delog, seq, scn, cursor, failed>>
      /\ session' = [session EXCEPT ![s] = n]
  BY <1>2 DEF Rollback
<1>4. SessionOK(n)' /\ n.txn = 0
  BY <1>2 DEF SessionOK, NoTransaction
<1>5. seq' \in seq..MaxTxn /\ failed' \subseteq 1..MaxTxn /\ \A x \in failed' : x <= seq'
  BY <1>1, <1>3 DEF SourceInv, LogOK, SourceTypeOK
<1>. QED BY <1>3, <1>4, <1>5, SessionStep

LEMMA CommitStep == ASSUME SourceInv, NEW s \in Sessions, Commit(s)
                    PROVE  SourceInv'
<1>. USE SourceAssumption
<1>0. PICK q \in SessionState : q = session[s]
  BY DEF SourceInv, SourceTypeOK
<1>1. /\ SourceTypeOK /\ LogOK /\ CoalesceOrder /\ RowsAreLogged /\ NumbersDiffer
      /\ SessionOK(q) /\ \A o \in Sessions : SessionOK(session[o])
  BY <1>0 DEF SourceInv, SessionsOK
<1>2. /\ scn' = scn + 1 /\ scn' <= MaxScn /\ scn \in Nat
      /\ rows' = [r \in Rows |-> IF r \in q.puts THEN q.txn
                                 ELSE IF r \in q.dels THEN 0 ELSE rows[r]]
      /\ txlog' = IF q.logged = {} THEN txlog
                  ELSE [txlog EXCEPT ![q.txn] = NewLogRow(q.logged)]
      /\ delog' = delog \cup q.dels
      /\ session' = [session EXCEPT ![s] = NoTransaction]
      /\ UNCHANGED <<seq, cursor, failed>>
  BY <1>0, <1>1 DEF Commit, SourceTypeOK
<1>3. /\ NewLogRow(q.logged) \in LogRow
      /\ NewLogRow(q.logged).mask = q.logged
      /\ NewLogRow(q.logged).scn = Infinity
      /\ NewLogRow(q.logged).oraRowscn = scn + 1
  BY <1>2 DEF NewLogRow, LogRow, SessionState, Infinity
<1>. DEFINE X == 1..MaxTxn
\* What the step does to the log, by transaction.
<1>4. /\ txlog \in [X -> LogRow] /\ txlog' \in [X -> LogRow]
      /\ DOMAIN txlog = X /\ DOMAIN txlog' = X
      /\ q.logged # {} => q.txn \in X /\ ~Logged(q.txn) /\ q.txn \notin Unstamped
                          /\ txlog'[q.txn] = NewLogRow(q.logged)
      /\ \A y \in X : q.logged = {} \/ y # q.txn => txlog'[y] = txlog[y]
  <2>1. q.logged # {} => q.txn \in X /\ ~Logged(q.txn)
    BY <1>1 DEF SessionOK, SessionState
  <2>2. \A y \in X : ~Logged(y) => y \notin Unstamped
    BY <1>1 DEF LogOK, Unstamped, NoLogRow, Infinity
  <2>3. txlog \in [X -> LogRow]
    BY <1>1 DEF SourceTypeOK
  <2>. QED BY <1>2, <1>3, <2>1, <2>2, <2>3
<1>5. \A y \in X : /\ Logged(y)' <=> Logged(y) \/ (q.logged # {} /\ y = q.txn)
                   /\ Logged(y) => txlog'[y] = txlog[y]
  BY <1>3, <1>4 DEF Logged
<1>6. SourceTypeOK'
  <2>1. NoTransaction \in SessionState
    BY DEF NoTransaction, SessionState
  <2>2. rows' \in [Rows -> 0..MaxTxn]
    BY <1>1, <1>2 DEF SourceTypeOK, SessionState
  <2>3. delog' \subseteq Rows
    BY <1>1, <1>2 DEF SourceTypeOK, SessionState
  <2>. QED BY <1>1, <1>2, <1>4, <2>1, <2>2, <2>3 DEF SourceTypeOK
<1>7. SessionsOK'
  <2>1. session \in [Sessions -> SessionState]
    BY <1>1 DEF SourceTypeOK
  <2>2. SessionOK(session[s])'
    BY <1>2, <2>1 DEF SessionOK, NoTransaction
  <2>3. ASSUME NEW o \in Sessions, o # s
        PROVE  SessionOK(session[o])'
    <3>1. session'[o] = session[o] /\ SessionOK(session[o])
      BY <1>1, <1>2, <2>1, <2>3
    <3>2. session[o].txn # 0 => session[o].txn # q.txn
      BY <1>0, <1>1, <2>3 DEF NumbersDiffer
    <3>3. session[o].txn # 0 => session[o].txn \in X /\ ~Logged(session[o].txn)
      BY <2>1, <3>1 DEF SessionOK, SessionState
    <3>4. session[o].txn # 0 => ~(Logged(session[o].txn)')
      BY <1>5, <3>2, <3>3, <3>1 DEF Logged
    <3>. QED BY <1>2, <3>1, <3>4 DEF SessionOK, TableOf
  <2>4. NumbersDiffer'
    <3>1. \A o \in Sessions \ {s} : session'[o] = session[o]
      BY <1>2, <2>1
    <3>2. session'[s].txn = 0
      BY <1>2, <2>1 DEF NoTransaction
    <3>. QED BY <1>1, <3>1, <3>2 DEF NumbersDiffer
  <2>. QED BY <2>2, <2>3, <2>4 DEF SessionsOK
<1>8. LogOK'
  <2>1. ASSUME NEW x \in X
        PROVE  /\ Logged(x)' => /\ x <= seq' /\ txlog'[x].oraRowscn \in 1..scn'
                                /\ txlog'[x].scn \in {Infinity, txlog'[x].oraRowscn}
               /\ ~(Logged(x)') => txlog'[x] = NoLogRow
    <3>1. CASE q.logged # {} /\ x = q.txn
      BY <1>1, <1>2, <1>3, <1>4, <3>1 DEF SessionOK, Logged
    <3>2. CASE q.logged = {} \/ x # q.txn
      BY <1>1, <1>2, <1>4, <1>5, <3>2 DEF LogOK, SourceTypeOK
    <3>. QED BY <3>1, <3>2
  <2>2. (\A r \in Rows : rows[r] # 0 => Logged(rows[r]))'
    <3>. SUFFICES ASSUME NEW r \in Rows, rows'[r] # 0 PROVE Logged(rows[r])'
      BY DEF Logged
    <3>1. CASE r \in q.puts
      BY <1>1, <1>2, <1>3, <1>4, <3>1 DEF SessionOK, Logged
    <3>2. CASE r \notin q.puts
      <4>1. rows'[r] = rows[r] /\ rows[r] \in X /\ Logged(rows[r])
        BY <1>1, <1>2, <3>2 DEF LogOK, SourceTypeOK
      <4>. QED BY <1>5, <4>1 DEF Logged
    <3>. QED BY <3>1, <3>2
  <2>3. \A x \in failed' : x <= seq'
    BY <1>1, <1>2 DEF LogOK
  <2>. QED BY <1>4, <2>1, <2>2, <2>3 DEF LogOK, Infinity
<1>9. CoalesceOrder'
  <2>1. \A y \in X : y \in Unstamped' <=> y \in Unstamped \/ (q.logged # {} /\ y = q.txn)
    BY <1>3, <1>4 DEF Unstamped
  <2>2. Unstamped' \subseteq X /\ Unstamped \subseteq X
    BY <1>4 DEF Unstamped
  <2>3. \A x \in X : Stamped(x)' => Stamped(x) /\ txlog'[x] = txlog[x]
    BY <1>3, <1>4 DEF Stamped, Logged, Infinity
  <2>4. \A x \in X : Logged(x) => txlog'[x] = txlog[x] /\ txlog[x].oraRowscn < scn + 1
    BY <1>1, <1>2, <1>4, <1>5 DEF LogOK
  <2>5. \A x \in Unstamped : Logged(x)
    BY <1>1, <1>4 DEF LogOK, Unstamped, NoLogRow, Infinity
  <2>6. \A x \in X, y \in Unstamped' : Stamped(x)' => CommittedBefore(x, y)'
    BY <1>1, <1>2, <1>3, <1>4, <2>1, <2>2, <2>3, <2>4, <2>5
       DEF CoalesceOrder, CommittedBefore, Stamped
  <2>7. \A x \in cursor', y \in Unstamped' \ cursor' : CommittedBefore(x, y)'
    BY <1>1, <1>2, <1>3, <1>4, <2>1, <2>2, <2>4, <2>5 DEF CoalesceOrder, CommittedBefore
  <2>8. cursor' \subseteq Unstamped'
    BY <1>1, <1>2, <2>1, <2>2 DEF CoalesceOrder
  <2>. QED BY <1>4, <2>6, <2>7, <2>8 DEF CoalesceOrder
<1>10. RowsAreLogged'
  <2>. SUFFICES ASSUME NEW r \in Rows, rows'[r] \notin failed' \cup {0}
                PROVE  TableOf(r) \in txlog'[rows'[r]].mask
    BY DEF RowsAreLogged, TableOf
  <2>1. CASE r \in q.puts
    BY <1>1, <1>2, <1>3, <1>4, <2>1 DEF SessionOK
  <2>2. CASE r \notin q.puts
    <3>1. rows'[r] = rows[r] /\ rows[r] \in X /\ Logged(rows[r])
      BY <1>1, <1>2, <2>2 DEF LogOK, SourceTypeOK
    <3>2. TableOf(r) \in txlog[rows[r]].mask
      BY <1>1, <1>2, <3>1 DEF RowsAreLogged
    <3>. QED BY <1>5, <3>1, <3>2
  <2>. QED BY <2>1, <2>2
<1>. QED BY <1>6, <1>7, <1>8, <1>9, <1>10 DEF SourceInv

LEMMA CoalesceOpenStep == ASSUME SourceInv, CoalesceOpen PROVE SourceInv'
<1>1. SourceTypeOK'
  BY DEF SourceInv, SourceTypeOK, CoalesceOpen, Unstamped
<1>2. SessionsOK'
  BY DEF SourceInv, CoalesceOpen, SessionsOK, NumbersDiffer, SessionOK, Logged, TableOf
<1>3. LogOK'
  BY DEF SourceInv, CoalesceOpen, LogOK, Logged
<1>4. CoalesceOrder'
  BY DEF SourceInv, CoalesceOpen, CoalesceOrder, Unstamped, Stamped, Logged, CommittedBefore
<1>5. RowsAreLogged'
  BY DEF SourceInv, CoalesceOpen, RowsAreLogged, TableOf
<1>. QED BY <1>1, <1>2, <1>3, <1>4, <1>5 DEF SourceInv

LEMMA CoalesceCommitStep == ASSUME SourceInv, CoalesceCommit PROVE SourceInv'
<1>. USE SourceAssumption
<1>. DEFINE X == 1..MaxTxn
<1>1. /\ SourceTypeOK /\ LogOK /\ CoalesceOrder /\ RowsAreLogged /\ SessionsOK
      /\ txlog \in [X -> LogRow] /\ DOMAIN txlog = X
  BY DEF SourceInv, SourceTypeOK
<1>2. /\ cursor' = {}
      /\ UNCHANGED <<rows, session, delog, seq, scn, failed>>
  BY DEF CoalesceCommit
\* What the step does to the log, by transaction.
<1>3. /\ txlog' \in [X -> LogRow]
      /\ \A x \in X : /\ txlog'[x].mask = txlog[x].mask
                      /\ txlog'[x].oraRowscn = txlog[x].oraRowscn
                      /\ txlog'[x].scn = IF x \in cursor THEN txlog[x].oraRowscn ELSE txlog[x].scn
                      /\ x \notin cursor => txlog'[x] = txlog[x]
  <2>. SUFFICES ASSUME NEW x \in X
                PROVE  /\ txlog'[x] \in LogRow
                       /\ txlog'[x].mask = txlog[x].mask
                       /\ txlog'[x].oraRowscn = txlog[x].oraRowscn
                       /\ txlog'[x].scn = IF x \in cursor THEN txlog[x].oraRowscn
                                          ELSE txlog[x].scn
                       /\ x \notin cursor => txlog'[x] = txlog[x]
    <3>1. txlog' = [x \in X |-> txlog'[x]]
      BY <1>1 DEF CoalesceCommit
    <3>. QED BY <3>1
  <2>1. PICK l \in LogRow : l = txlog[x]
    BY <1>1
  <2>2. CASE x \in cursor
    <3>1. txlog'[x] = [l EXCEPT !.scn = l.oraRowscn]
      BY <1>1, <2>1, <2>2 DEF CoalesceCommit
    <3>2. l.oraRowscn \in 0..Infinity
      BY DEF LogRow, Infinity
    <3>3. /\ [l EXCEPT !.scn = l.oraRowscn] \in LogRow
          /\ [l EXCEPT !.scn = l.oraRowscn].mask = l.mask
          /\ [l EXCEPT !.scn = l.oraRowscn].oraRowscn = l.oraRowscn
          /\ [l EXCEPT !.scn = l.oraRowscn].scn = l.oraRowscn
      BY <3>2 DEF LogRow
    <3>. QED BY <2>1, <2>2, <3>1, <3>3
  <2>3. CASE x \notin cursor
    BY <1>1, <2>3 DEF CoalesceCommit
  <2>. QED BY <2>2, <2>3
<1>4. DOMAIN txlog' = X
  BY <1>3
<1>5. \A x \in X : Logged(x)' <=> Logged(x)
  BY <1>3 DEF Logged
<1>6. \A x \in Unstamped : Logged(x) /\ txlog[x].oraRowscn \in 1..scn
  BY <1>1 DEF LogOK, Unstamped, NoLogRow, Infinity
<1>7. Unstamped' = Unstamped \ cursor
  <2>1. \A x \in cursor : x \in X /\ txlog'[x].scn \in 1..scn /\ scn < Infinity
    BY <1>1, <1>3, <1>6 DEF CoalesceOrder, SourceTypeOK, Infinity
  <2>2. \A x \in cursor : txlog'[x].scn # Infinity
    BY <1>1, <2>1 DEF SourceTypeOK, Infinity
  <2>3. \A x \in X : x \notin cursor => txlog'[x].scn = txlog[x].scn
    BY <1>3
  <2>. QED BY <1>1, <1>4, <2>1, <2>2, <2>3 DEF Unstamped
<1>8. SourceTypeOK'
  BY <1>1, <1>2, <1>3 DEF SourceTypeOK
<1>9. SessionsOK'
  <2>1. \A s \in Sessions : session[s].txn # 0 => session[s].txn \in X
    BY <1>1 DEF SourceTypeOK, SessionState
  <2>. QED BY <1>1, <1>2, <1>5, <2>1 DEF SessionsOK, SessionOK, NumbersDiffer, TableOf
<1>10. LogOK'
  <2>1. \A x \in cursor : Logged(x) /\ txlog[x].oraRowscn \in 1..scn
    BY <1>1, <1>6 DEF CoalesceOrder
  <2>2. ASSUME NEW x \in X
        PROVE  /\ Logged(x)' => /\ x <= seq' /\ txlog'[x].oraRowscn \in 1..scn'
                                /\ txlog'[x].scn \in {Infinity, txlog'[x].oraRowscn}
               /\ ~(Logged(x)') => txlog'[x] = NoLogRow
    BY <1>1, <1>2, <1>3, <1>5, <2>1 DEF LogOK
  <2>3. (\A r \in Rows : rows[r] # 0 => Logged(rows[r]))'
    <3>1. \A r \in Rows : rows[r] # 0 => rows[r] \in X /\ Logged(rows[r])
      BY <1>1 DEF LogOK, SourceTypeOK
    <3>. QED BY <1>2, <1>5, <3>1
  <2>4. \A x \in failed' : x <= seq'
    BY <1>1, <1>2 DEF LogOK
  <2>. QED BY <1>4, <2>2, <2>3, <2>4 DEF LogOK, Infinity
<1>11. CoalesceOrder'
  <2>1. \A x \in X, y \in Unstamped' : Stamped(x)' => CommittedBefore(x, y)'
    <3>. SUFFICES ASSUME NEW x \in X, NEW y \in Unstamped', Stamped(x)'
                  PROVE  CommittedBefore(x, y)'
      OBVIOUS
    <3>1. y \in Unstamped /\ y \notin cursor /\ y \in X
      BY <1>1, <1>7 DEF Unstamped
    <3>2. x \in cursor \/ Stamped(x)
      BY <1>3, <1>5 DEF Stamped
    <3>3. CommittedBefore(x, y)
      BY <1>1, <3>1, <3>2 DEF CoalesceOrder
    <3>. QED BY <1>3, <3>1, <3>3 DEF CommittedBefore
  <2>. QED BY <1>2, <1>4, <2>1 DEF CoalesceOrder
<1>12. RowsAreLogged'
  <2>1. \A r \in Rows : rows[r] # 0 => rows[r] \in X
    BY <1>1 DEF SourceTypeOK
  <2>. QED BY <1>1, <1>2, <1>3, <2>1 DEF RowsAreLogged, TableOf
<1>. QED BY <1>8, <1>9, <1>10, <1>11, <1>12 DEF SourceInv

LEMMA SourceNext_Inv == SourceInv /\ [SourceNext]_sourceVars => SourceInv'
<1>. SUFFICES ASSUME SourceInv, [SourceNext]_sourceVars PROVE SourceInv'
  OBVIOUS
<1>1. ASSUME NEW s \in Sessions, NEW r \in Rows, Put(s, r) PROVE SourceInv'
  BY <1>1, PutStep
<1>2. ASSUME NEW s \in Sessions, NEW r \in Rows, Delete(s, r) PROVE SourceInv'
  BY <1>2, DeleteStep
<1>3. ASSUME NEW s \in Sessions, NEW t \in Tables, PutFails(s, t) PROVE SourceInv'
  BY <1>3, PutFailsStep
<1>4. ASSUME NEW s \in Sessions, Commit(s) PROVE SourceInv'
  BY <1>4, CommitStep
<1>5. ASSUME NEW s \in Sessions, Rollback(s) PROVE SourceInv'
  BY <1>5, RollbackStep
<1>6. CASE CoalesceOpen
  BY <1>6, CoalesceOpenStep
<1>7. CASE CoalesceCommit
  BY <1>7, CoalesceCommitStep
<1>8. CASE UNCHANGED sourceVars
  BY <1>8 DEF SourceInv, sourceVars, SourceTypeOK, SessionsOK, SessionOK, NumbersDiffer,
     LogOK, CoalesceOrder, Unstamped, Stamped, CommittedBefore, RowsAreLogged, Logged, TableOf
<1>. QED BY <1>1, <1>2, <1>3, <1>4, <1>5, <1>6, <1>7, <1>8 DEF SourceNext

\* In every reachable state of the source schema the inductive invariant holds;
\* in particular sync_core's coalesce_log stamps the transactions in the order
\* of their commits, however its two steps interleave with the sessions.
THEOREM SourceCorrect == SourceSpec => []SourceInv
<1>. QED BY SourceInit_Inv, SourceNext_Inv, PTL DEF SourceSpec

\* The trigger protocol of getTxn announces every committed row version under
\* its own table, except in transactions with a failed statement.
THEOREM RowsAreAlwaysLogged == SourceSpec => []RowsAreLogged
<1>1. SourceInv => RowsAreLogged
  BY DEF SourceInv
<1>. QED BY <1>1, SourceCorrect, PTL
===============================================================================
