-------------------------- MODULE TxlogCaptureProofs --------------------------
(***************************************************************************)
(* IInv is an invariant of the monitor thread running beside the source     *)
(* database; the safety properties of TxlogCapture follow from it.  The     *)
(* thread implements VersionFeed, and every version feed keeps its order.   *)
(***************************************************************************)
EXTENDS TxlogCapture, SourceDBProofs

\* The numbers of sy$scn_seq.
X == 1..MaxTxn

\* What a step of the database may do to what the thread reads: a log row keeps
\* its mask and ORA_ROWSCN, only rows under coalesce_log's cursor are stamped, a
\* new log row or row version is younger than everything committed before.
LEMMA SourceStepEffect ==
  ASSUME SourceInv, SourceNext
  PROVE  /\ \A x \in X : Logged(x) => /\ Logged(x)'
                                      /\ txlog'[x].mask = txlog[x].mask
                                      /\ txlog'[x].oraRowscn = txlog[x].oraRowscn
         /\ \A x \in X : Stamped(x) => Stamped(x)' /\ txlog'[x].scn = txlog[x].scn
         /\ \A x \in X : Stamped(x)' => \/ Stamped(x)
                                        \/ x \in cursor /\ txlog'[x].scn = txlog[x].oraRowscn
         /\ \A y \in Unstamped' : y \in Unstamped \/ txlog'[y].oraRowscn = scn + 1
         /\ scn' \in {scn, scn + 1}
         /\ \A r \in Rows : \/ rows'[r] = rows[r]
                            \/ rows'[r] = 0
                            \/ txlog'[rows'[r]].oraRowscn = scn + 1
<1>. USE SourceAssumption
<1>. DEFINE Effect ==
         /\ \A x \in X : Logged(x) => /\ Logged(x)'
                                      /\ txlog'[x].mask = txlog[x].mask
                                      /\ txlog'[x].oraRowscn = txlog[x].oraRowscn
         /\ \A x \in X : Stamped(x) => Stamped(x)' /\ txlog'[x].scn = txlog[x].scn
         /\ \A x \in X : Stamped(x)' => \/ Stamped(x)
                                        \/ x \in cursor /\ txlog'[x].scn = txlog[x].oraRowscn
         /\ \A y \in Unstamped' : y \in Unstamped \/ txlog'[y].oraRowscn = scn + 1
         /\ scn' \in {scn, scn + 1}
         /\ \A r \in Rows : \/ rows'[r] = rows[r]
                            \/ rows'[r] = 0
                            \/ txlog'[rows'[r]].oraRowscn = scn + 1
<1>1. /\ txlog \in [X -> LogRow] /\ DOMAIN txlog = X
      /\ rows \in [Rows -> 0..MaxTxn] /\ session \in [Sessions -> SessionState]
      /\ scn \in Nat
  BY DEF SourceInv, SourceTypeOK, X
<1>2. ASSUME UNCHANGED <<rows, txlog, scn>> PROVE Effect
  BY <1>2 DEF Logged, Stamped, Unstamped
<1>3. ASSUME NEW s \in Sessions, Commit(s) PROVE Effect
  <2>1. PICK q \in SessionState : q = session[s]
    BY <1>1
  <2>2. SessionOK(q) /\ LogOK
    BY <2>1 DEF SourceInv, SessionsOK
  <2>3. /\ scn' = scn + 1
        /\ rows' = [r \in Rows |-> IF r \in q.puts THEN q.txn
                                   ELSE IF r \in q.dels THEN 0 ELSE rows[r]]
        /\ txlog' = IF q.logged = {} THEN txlog
                    ELSE [txlog EXCEPT ![q.txn] = NewLogRow(q.logged)]
    BY <1>3, <2>1 DEF Commit
  <2>4. /\ q.logged # {} => q.txn \in X /\ ~Logged(q.txn)
        /\ NewLogRow(q.logged).scn = Infinity
        /\ NewLogRow(q.logged).oraRowscn = scn + 1
        /\ NewLogRow(q.logged).mask = q.logged
    BY <2>2 DEF SessionOK, SessionState, NewLogRow, X
  <2>5. /\ \A y \in X : q.logged = {} \/ y # q.txn => txlog'[y] = txlog[y]
        /\ q.logged # {} => txlog'[q.txn] = NewLogRow(q.logged)
        /\ DOMAIN txlog' = X
    BY <1>1, <2>3, <2>4
  <2>6. \A x \in X : Logged(x) => txlog'[x] = txlog[x]
    BY <2>4, <2>5
  <2>7. \A x \in X : Stamped(x)' => Stamped(x)
    BY <1>1, <2>4, <2>5 DEF Stamped, Logged, Infinity
  <2>8. \A y \in Unstamped' : y \in Unstamped \/ txlog'[y].oraRowscn = scn + 1
    BY <1>1, <2>4, <2>5 DEF Unstamped
  <2>9. \A r \in Rows : \/ rows'[r] = rows[r]
                        \/ rows'[r] = 0
                        \/ txlog'[rows'[r]].oraRowscn = scn + 1
    BY <2>2, <2>3, <2>4, <2>5 DEF SessionOK
  <2>10. \A x \in X : Logged(x) => Logged(x)'
    BY <2>6 DEF Logged
  <2>11. \A x \in X : Stamped(x) => Stamped(x)' /\ txlog'[x].scn = txlog[x].scn
    BY <2>6 DEF Stamped, Logged
  <2>. QED BY <2>3, <2>6, <2>7, <2>8, <2>9, <2>10, <2>11
<1>4. ASSUME CoalesceCommit PROVE Effect
  <2>1. /\ DOMAIN txlog' = X
        /\ \A x \in X : /\ txlog'[x].mask = txlog[x].mask
                        /\ txlog'[x].oraRowscn = txlog[x].oraRowscn
                        /\ x \in cursor => txlog'[x].scn = txlog[x].oraRowscn
                        /\ x \notin cursor => txlog'[x].scn = txlog[x].scn
    <3>. SUFFICES ASSUME NEW x \in X
                  PROVE  /\ txlog'[x].mask = txlog[x].mask
                         /\ txlog'[x].oraRowscn = txlog[x].oraRowscn
                         /\ x \in cursor => txlog'[x].scn = txlog[x].oraRowscn
                         /\ x \notin cursor => txlog'[x].scn = txlog[x].scn
      BY <1>1, <1>4 DEF CoalesceCommit
    <3>1. PICK l \in LogRow : l = txlog[x]
      BY <1>1
    <3>2. txlog'[x] = IF x \in cursor THEN [l EXCEPT !.scn = l.oraRowscn] ELSE l
      BY <1>1, <1>4, <3>1 DEF CoalesceCommit
    <3>. QED BY <3>1, <3>2 DEF LogRow
  <2>2. UNCHANGED <<rows, scn>>
    BY <1>4 DEF CoalesceCommit
  <2>3. \A x \in X : Stamped(x) => x \notin cursor
    BY <1>1 DEF SourceInv, CoalesceOrder, Stamped, Unstamped, Infinity
  <2>4. \A x \in X : Logged(x) <=> Logged(x)'
    BY <2>1 DEF Logged
  <2>5. \A x \in X : Stamped(x) => Stamped(x)' /\ txlog'[x].scn = txlog[x].scn
    BY <2>1, <2>3, <2>4 DEF Stamped, Infinity
  <2>6. \A x \in X : Stamped(x)' => \/ Stamped(x)
                                    \/ x \in cursor /\ txlog'[x].scn = txlog[x].oraRowscn
    BY <2>1, <2>4 DEF Stamped, Infinity
  <2>7. \A y \in Unstamped' : y \in Unstamped \/ y \in cursor
    BY <1>1, <2>1 DEF Unstamped, Infinity
  <2>8. cursor \subseteq Unstamped
    BY DEF SourceInv, CoalesceOrder
  <2>. QED BY <2>1, <2>2, <2>4, <2>5, <2>6, <2>7, <2>8
<1>5. CASE UNCHANGED <<rows, txlog, scn>>
  BY <1>2, <1>5
<1>6. Effect
  BY <1>2, <1>3, <1>4 DEF SourceNext, Put, PutFails, Delete, Rollback, CoalesceOpen
<1>. QED BY <1>6

-----------------------------------------------------------------------------
\* What IInv says of the change log, by transaction.
LEMMA LogFacts ==
  ASSUME SourceInv
  PROVE  /\ txlog \in [X -> LogRow] /\ DOMAIN txlog = X /\ scn \in 0..MaxScn
         /\ rows \in [Rows -> 0..MaxTxn]
         /\ \A x \in X : Logged(x) => txlog[x].oraRowscn \in 1..scn
         /\ \A x \in X : Stamped(x) => txlog[x].scn = txlog[x].oraRowscn
         /\ \A y \in Unstamped : y \in X /\ Logged(y) /\ ~Stamped(y)
         /\ \A x \in X, y \in Unstamped : Stamped(x) => CommittedBefore(x, y)
         /\ \A r \in Rows : rows[r] # 0 => rows[r] \in X /\ Logged(rows[r])
<1>. USE SourceAssumption
<1>1. SourceTypeOK /\ LogOK /\ CoalesceOrder
  BY DEF SourceInv
<1>2. txlog \in [X -> LogRow] /\ DOMAIN txlog = X /\ scn \in 0..MaxScn
      /\ rows \in [Rows -> 0..MaxTxn]
  BY <1>1 DEF SourceTypeOK, X
<1>3. \A x \in X : Logged(x) => txlog[x].oraRowscn \in 1..scn
  BY <1>1, <1>2 DEF LogOK
<1>4. \A x \in X : Stamped(x) => txlog[x].scn = txlog[x].oraRowscn
  BY <1>1, <1>2 DEF LogOK, Stamped, Infinity
<1>5. \A y \in Unstamped : y \in X /\ Logged(y) /\ ~Stamped(y)
  BY <1>1, <1>2 DEF LogOK, Unstamped, Stamped, NoLogRow, Infinity
<1>6. \A r \in Rows : rows[r] # 0 => rows[r] \in X /\ Logged(rows[r])
  BY <1>1, <1>2 DEF LogOK, X
<1>. QED BY <1>1, <1>2, <1>3, <1>4, <1>5, <1>6 DEF CoalesceOrder

\* A readable transaction is a stamped one with a mask that names one table.
LEMMA ReadableIs ==
  \A x : Readable(x) <=> Valid(txlog[x].mask) /\ txlog[x].scn < Infinity
  BY DEF Readable, Stamped, Logged, Valid

\* The invariant of the thread's list and the database: stamping a transaction
\* late does not bring it below fromScn, or below a member of the list.
LEMMA SourceStepList ==
  ASSUME IInv, SourceNext, UNCHANGED captureVars
  PROVE  ListOK' /\ NothingSkipped'
<1>. USE SourceAssumption
<1>1. SourceInv /\ CaptureTypeOK /\ ListOK /\ NothingSkipped /\ SourceInv'
  BY SourceNext_Inv DEF IInv
<1>2. UNCHANGED <<fromScn, txlogs, seen>>
  BY DEF captureVars, threadVars
<1>3. /\ txlogs \subseteq X /\ fromScn \in 0..MaxScn
      /\ DOMAIN txlog = X /\ DOMAIN txlog' = X
  BY <1>1, LogFacts DEF CaptureTypeOK, X, SourceInv, SourceTypeOK
<1>4. \A x \in X : Readable(x) => Readable(x)' /\ txlog'[x].scn = txlog[x].scn
  BY <1>1, SourceStepEffect DEF Readable, Valid, Stamped
<1>5. \A z \in X : Readable(z)' => \/ Readable(z) /\ txlog'[z].scn = txlog[z].scn
                                   \/ z \in cursor /\ txlog'[z].scn = txlog[z].oraRowscn
  BY <1>1, SourceStepEffect DEF Readable, Valid, Stamped
<1>6. \A z \in cursor : z \in Unstamped
  BY <1>1 DEF SourceInv, CoalesceOrder
<1>7. ASSUME NEW y \in Unstamped' PROVE fromScn' < txlog'[y].oraRowscn
  <2>1. CASE y \in Unstamped
    <3>1. fromScn < txlog[y].oraRowscn /\ y \in X /\ Logged(y)
      BY <1>1, <2>1, LogFacts DEF ListOK
    <3>. QED BY <1>1, <1>2, <3>1, SourceStepEffect
  <2>2. CASE y \notin Unstamped
    <3>1. txlog'[y].oraRowscn = scn + 1
      BY <1>1, <1>7, <2>2, SourceStepEffect
    <3>. QED BY <1>1, <1>2, <1>3, <3>1, LogFacts DEF ListOK
  <2>. QED BY <2>1, <2>2
<1>8. ASSUME NEW x \in txlogs
      PROVE  /\ Readable(x)'
             /\ \A z \in X : Readable(z)' /\ txlog'[z].scn <= txlog'[x].scn
                                => z \in seen \cup txlogs
  <2>1. x \in X /\ Readable(x) /\ Stamped(x)
    BY <1>1, <1>3 DEF ListOK, Readable
  <2>. SUFFICES ASSUME NEW z \in X, Readable(z)', txlog'[z].scn <= txlog'[x].scn
                PROVE  z \in seen \cup txlogs
    BY <1>4, <2>1
  <2>2. txlog'[x].scn = txlog[x].scn /\ txlog[x].scn = txlog[x].oraRowscn
    BY <1>1, <1>4, <2>1, LogFacts
  <2>3. CASE Readable(z) /\ txlog'[z].scn = txlog[z].scn
    BY <1>1, <1>3, <2>2, <2>3 DEF ListOK
  <2>4. CASE z \in cursor /\ txlog'[z].scn = txlog[z].oraRowscn
    <3>1. txlog[x].oraRowscn < txlog[z].oraRowscn
      BY <1>1, <1>6, <2>1, <2>4, LogFacts DEF CommittedBefore
    <3>2. txlog[x].oraRowscn \in Nat /\ txlog[z].oraRowscn \in Nat
      BY <1>1, <2>1, LogFacts DEF LogRow
    <3>. QED BY <2>2, <2>4, <3>1, <3>2
  <2>. QED BY <1>5, <2>3, <2>4
<1>9. ASSUME NEW z \in X, Readable(z)', txlog'[z].scn <= fromScn
      PROVE  z \in seen \cup txlogs
  <2>1. CASE Readable(z) /\ txlog'[z].scn = txlog[z].scn
    BY <1>1, <1>3, <1>9, <2>1, ReadableIs DEF NothingSkipped
  <2>2. CASE z \in cursor /\ txlog'[z].scn = txlog[z].oraRowscn
    <3>1. fromScn < txlog[z].oraRowscn /\ txlog[z].oraRowscn \in Nat
      BY <1>1, <1>6, <2>2, LogFacts DEF ListOK, LogRow
    <3>. QED BY <1>3, <1>9, <2>2, <3>1
  <2>. QED BY <1>5, <1>9, <2>1, <2>2
<1>10. fromScn' <= scn'
  BY <1>1, <1>2, <1>3, SourceStepEffect, LogFacts DEF ListOK
<1>11. ListOK'
  BY <1>2, <1>3, <1>7, <1>8, <1>10 DEF ListOK
<1>12. NothingSkipped'
  <2>1. \A z \in X : Valid(txlog'[z].mask) /\ txlog'[z].scn < Infinity => Readable(z)'
    BY DEF Readable, Stamped, Logged, Valid, Infinity
  <2>. QED BY <1>2, <1>3, <1>9, <2>1 DEF NothingSkipped, Valid, Infinity
<1>. QED BY <1>11, <1>12

\* The invariant of the messages and the database: a new committed version of a
\* row is younger than everything offered or selected of it.
LEMMA SourceStepOffers ==
  ASSUME IInv, SourceNext, UNCHANGED captureVars
  PROVE  OffersOK'
<1>. USE SourceAssumption
<1>1. SourceInv /\ OffersOK /\ UNCHANGED <<datas, lastOffered>>
  BY DEF IInv, captureVars, threadVars
<1>2. /\ \A r \in Rows : lastOffered[r] \in 0..MaxTxn
      /\ \A c \in datas : c.txn \in X /\ c.row \in Rows
  BY DEF IInv, CaptureTypeOK, Change, X
<1>3. \A x \in X : Logged(x) => Logged(x)' /\ txlog'[x].oraRowscn = txlog[x].oraRowscn
                                /\ txlog[x].oraRowscn \in 1..scn
  BY <1>1, SourceStepEffect, LogFacts
<1>4. ASSUME NEW x \in X, Logged(x), NEW r \in Rows, rows'[r] # 0,
             rows[r] # 0 => NotAfter(x, rows[r])
      PROVE  NotAfter(x, rows[r])'
  <2>1. CASE rows'[r] = rows[r]
    BY <1>1, <1>3, <1>4, <2>1, LogFacts DEF NotAfter
  <2>2. CASE txlog'[rows'[r]].oraRowscn = scn + 1
    BY <1>1, <1>3, <1>4, <2>2, LogFacts DEF NotAfter
  <2>. QED BY <1>1, <1>4, <2>1, <2>2, SourceStepEffect
<1>5. ASSUME NEW r \in Rows, lastOffered[r] # 0
      PROVE  /\ Logged(lastOffered[r])'
             /\ rows'[r] # 0 => NotAfter(lastOffered[r], rows[r])'
  <2>1. lastOffered[r] \in X /\ Logged(lastOffered[r])
    BY <1>1, <1>2, <1>5 DEF OffersOK, X
  <2>2. rows[r] # 0 => NotAfter(lastOffered[r], rows[r])
    BY <1>1, <1>5 DEF OffersOK
  <2>. QED BY <1>1, <1>3, <1>4, <2>1, <2>2 DEF Logged, NotAfter
<1>6. ASSUME NEW c \in datas
      PROVE  /\ Logged(c.txn)'
             /\ rows'[c.row] # 0 => NotAfter(c.txn, rows[c.row])'
             /\ lastOffered[c.row] # 0 => NotAfter(lastOffered[c.row], c.txn)'
             /\ \A d \in datas : d.txn = c.txn
  <2>1. /\ c.txn \in X /\ c.row \in Rows /\ Logged(c.txn)
        /\ rows[c.row] # 0 => NotAfter(c.txn, rows[c.row])
        /\ lastOffered[c.row] # 0 => NotAfter(lastOffered[c.row], c.txn)
        /\ \A d \in datas : d.txn = c.txn
    BY <1>1, <1>2 DEF OffersOK
  <2>2. lastOffered[c.row] # 0 => lastOffered[c.row] \in X /\ Logged(lastOffered[c.row])
    BY <1>1, <1>2, <2>1 DEF OffersOK, X
  <2>. QED BY <1>1, <1>3, <1>4, <2>1, <2>2 DEF Logged, NotAfter
<1>. QED BY <1>1, <1>5, <1>6 DEF OffersOK, NotAfter, Logged

-----------------------------------------------------------------------------
\* Taking up a member of the list keeps fromScn below the unstamped
\* transactions and skips none.
LEMMA TakeUpList ==
  ASSUME IInv, NEW x \in txlogs, TakeUp(x), UNCHANGED sourceVars
  PROVE  ListOK' /\ NothingSkipped' /\ fromScn' \in 0..MaxScn
<1>. USE SourceAssumption
<1>1. SourceInv /\ ListOK /\ NothingSkipped /\ txlogs \subseteq X /\ fromScn \in 0..MaxScn
  BY DEF IInv, CaptureTypeOK, X
<1>2. UNCHANGED <<txlog, scn>> /\ seen' \cup txlogs' = seen \cup txlogs
      /\ txlogs' \subseteq txlogs
  BY DEF TakeUp, sourceVars
<1>3. x \in X /\ Readable(x) /\ txlog[x].scn = txlog[x].oraRowscn
      /\ txlog[x].oraRowscn \in 1..scn
  BY <1>1, LogFacts DEF ListOK, Readable, Stamped
<1>4. fromScn' \in {fromScn, txlog[x].scn} /\ fromScn' <= scn
  BY <1>1, <1>3 DEF TakeUp, HigherScn, ListOK
<1>5. \A y \in Unstamped : fromScn' < txlog[y].oraRowscn
  BY <1>1, <1>3, <1>4, LogFacts DEF ListOK, CommittedBefore, Readable
<1>6. ASSUME NEW z \in X, Readable(z), txlog[z].scn <= fromScn'
      PROVE  z \in seen \cup txlogs
  BY <1>1, <1>4, <1>6, LogFacts, ReadableIs DEF ListOK, NothingSkipped
<1>7. ListOK'
  BY <1>1, <1>2, <1>4, <1>5 DEF ListOK, Readable, Stamped, Logged, Valid, Unstamped
<1>8. NothingSkipped'
  <2>1. DOMAIN txlog' = X
    BY <1>1, <1>2, LogFacts
  <2>. QED BY <1>2, <1>6, <2>1, ReadableIs DEF NothingSkipped, Valid, Infinity
<1>9. fromScn' \in 0..MaxScn
  BY <1>1, <1>3, <1>4, LogFacts
<1>. QED BY <1>7, <1>8, <1>9

LEMMA MonitorStep == ASSUME IInv, Monitor PROVE IInv'
<1>. USE SourceAssumption, CaptureAssumption
<1>1. /\ SourceInv /\ CaptureTypeOK /\ ListOK /\ NothingSkipped /\ OffersOK
      /\ DOMAIN txlog = X
      /\ UNCHANGED <<sourceVars, thread, monitored, fromScn, datas, queue, fails, seen, missed,
                     lastOffered>>
      /\ txlogs = {} /\ txlogs' = Above(fromScn)
  BY LogFacts DEF IInv, Monitor
<1>2. SourceInv' /\ OffersOK' /\ CaptureTypeOK'
  <2>1. SourceInv'
    BY <1>1, SourceNext_Inv
  <2>2. OffersOK'
    BY <1>1 DEF OffersOK, NotAfter, Logged, sourceVars
  <2>3. CaptureTypeOK'
    BY <1>1 DEF CaptureTypeOK, Above, X
  <2>. QED BY <2>1, <2>2, <2>3
<1>3. ListOK'
  <2>1. \A x \in txlogs' : x \in X /\ Readable(x) /\ txlog[x].scn > fromScn
    BY <1>1, ReadableIs DEF Above
  <2>2. ASSUME NEW z \in X, Readable(z)
        PROVE  z \in seen \cup txlogs'
    <3>1. txlog[z].scn \in Nat /\ fromScn \in Nat
      BY <1>1, LogFacts DEF CaptureTypeOK, LogRow, Infinity
    <3>2. CASE txlog[z].scn <= fromScn
      BY <1>1, <2>2, <3>2, ReadableIs DEF NothingSkipped
    <3>3. CASE txlog[z].scn > fromScn
      BY <1>1, <2>2, <3>3, ReadableIs DEF Above
    <3>. QED BY <3>1, <3>2, <3>3
  <2>. QED BY <1>1, <2>1, <2>2
           DEF ListOK, Readable, Stamped, Logged, Valid, Unstamped, sourceVars
<1>4. NothingSkipped'
  BY <1>1 DEF NothingSkipped, Valid, sourceVars, Infinity
<1>. QED BY <1>2, <1>3, <1>4 DEF IInv

LEMMA SelectStep == ASSUME IInv, NEW x \in txlogs, Select(x) PROVE IInv'
<1>. USE SourceAssumption, CaptureAssumption
<1>1. /\ SourceInv /\ CaptureTypeOK /\ OffersOK /\ DOMAIN txlog = X
      /\ TakeUp(x) /\ datas = {}
      /\ UNCHANGED <<sourceVars, thread, monitored, queue, fails, lastOffered>>
      /\ datas' \in {RowsOf(x), {}}
      /\ missed' \in {missed, missed \cup {x}}
  BY LogFacts DEF IInv, Select, TakeUp
<1>2. SourceInv' /\ ListOK' /\ NothingSkipped' /\ fromScn' \in 0..MaxScn
  BY <1>1, SourceNext_Inv, TakeUpList
<1>3. CaptureTypeOK'
  BY <1>1, <1>2 DEF CaptureTypeOK, TakeUp, RowsOf
<1>4. OffersOK'
  <2>1. x \in X /\ Logged(x)
    BY <1>1 DEF IInv, CaptureTypeOK, ListOK, Readable, Stamped, X
  <2>2. \A c \in datas' : c.txn = x /\ c.row \in Rows /\ rows[c.row] = x
    BY <1>1 DEF RowsOf, Change
  <2>3. \A c \in datas' : /\ NotAfter(c.txn, rows[c.row])
                          /\ lastOffered[c.row] # 0 => NotAfter(lastOffered[c.row], c.txn)
    BY <1>1, <2>1, <2>2, LogFacts DEF OffersOK, NotAfter, X
  <2>. QED BY <1>1, <2>1, <2>2, <2>3 DEF OffersOK, NotAfter, Logged, sourceVars
<1>. QED BY <1>2, <1>3, <1>4 DEF IInv

\* Nothing is read: the query fails, or ends the thread.
LEMMA SelectFailsStep ==
  ASSUME IInv, NEW x \in txlogs, SelectFails(x) \/ SelectEnds(x)
  PROVE  IInv'
<1>. USE SourceAssumption, CaptureAssumption
<1>1. /\ SourceInv /\ CaptureTypeOK /\ OffersOK /\ TakeUp(x)
      /\ UNCHANGED <<sourceVars, monitored, datas, queue, lastOffered>>
      /\ thread' \in {thread, "ended"}
      /\ fails' = fails \/ (fails < MaxFails /\ fails' = fails + 1)
      /\ missed' = missed \cup {x}
  BY DEF IInv, SelectFails, SelectEnds
<1>2. SourceInv' /\ ListOK' /\ NothingSkipped' /\ fromScn' \in 0..MaxScn
  BY <1>1, SourceNext_Inv, TakeUpList
<1>3. CaptureTypeOK'
  BY <1>1, <1>2 DEF CaptureTypeOK, TakeUp
<1>4. OffersOK'
  BY <1>1 DEF OffersOK, NotAfter, Logged, sourceVars
<1>. QED BY <1>2, <1>3, <1>4 DEF IInv

LEMMA OfferStep == ASSUME IInv, NEW c \in datas, Offer(c) PROVE IInv'
<1>. USE SourceAssumption, CaptureAssumption
<1>1. /\ SourceInv /\ CaptureTypeOK /\ ListOK /\ NothingSkipped /\ OffersOK
      /\ UNCHANGED <<sourceVars, thread, monitored, fromScn, txlogs, fails, seen, missed>>
      /\ datas' = datas \ {c} /\ queue' = Append(queue, c)
      /\ lastOffered' = [lastOffered EXCEPT ![c.row] = c.txn]
  BY DEF IInv, Offer
<1>2. c \in Change /\ c.row \in Rows /\ c.txn \in X
  BY <1>1 DEF CaptureTypeOK, Change, X
<1>3. CaptureTypeOK'
  <2>1. queue' \in Seq(Change)
    BY <1>1, <1>2 DEF CaptureTypeOK
  <2>2. lastOffered' \in [Rows -> 0..MaxTxn]
    BY <1>1, <1>2 DEF CaptureTypeOK, X
  <2>. QED BY <1>1, <2>1, <2>2 DEF CaptureTypeOK
<1>4. SourceInv' /\ ListOK' /\ NothingSkipped'
  BY <1>1, SourceNext_Inv
     DEF ListOK, Readable, Stamped, Logged, Valid, Unstamped, NothingSkipped, sourceVars
<1>5. \A r \in Rows : lastOffered'[r] = IF r = c.row THEN c.txn ELSE lastOffered[r]
  BY <1>1, <1>2 DEF CaptureTypeOK
<1>6. OffersOK'
  <2>1. ASSUME NEW r \in Rows, lastOffered'[r] # 0
        PROVE  /\ Logged(lastOffered'[r])
               /\ rows[r] # 0 => NotAfter(lastOffered'[r], rows[r])
    BY <1>1, <1>2, <1>5, <2>1 DEF OffersOK
  <2>2. ASSUME NEW d \in datas'
        PROVE  /\ Logged(d.txn)
               /\ rows[d.row] # 0 => NotAfter(d.txn, rows[d.row])
               /\ lastOffered'[d.row] # 0 => NotAfter(lastOffered'[d.row], d.txn)
               /\ \A e \in datas' : e.txn = d.txn
    <3>1. d \in datas /\ d.row \in Rows /\ d.txn = c.txn /\ d.txn \in X
      BY <1>1, <1>2, <2>2 DEF OffersOK, CaptureTypeOK, Change
    <3>2. NotAfter(c.txn, c.txn)
      BY <1>1, <1>2, LogFacts DEF NotAfter, LogRow
    <3>3. lastOffered'[d.row] # 0 => NotAfter(lastOffered'[d.row], d.txn)
      BY <1>1, <1>5, <3>1, <3>2 DEF OffersOK
    <3>. QED BY <1>1, <3>1, <3>3 DEF OffersOK
  <2>. QED BY <1>1, <2>1, <2>2 DEF OffersOK, NotAfter, Logged, sourceVars
<1>. QED BY <1>3, <1>4, <1>6 DEF IInv

\* The steps that leave the list, or all of the thread, alone.
LEMMA QueueStep ==
  ASSUME IInv,
         \/ NewThread \/ LoseConnection \/ MonitorHangs \/ Poll \/ UNCHANGED vars
         \/ \E t \in Tables : AddMonitorTable(t)
  PROVE  IInv'
<1>. USE SourceAssumption, CaptureAssumption
<1>1. /\ SourceInv /\ CaptureTypeOK /\ ListOK /\ NothingSkipped /\ OffersOK
      /\ UNCHANGED <<sourceVars, threadVars, lastOffered>>
      /\ thread' \in {thread, "running", "deaf", "ended"}
      /\ fails' = fails \/ (fails < MaxFails /\ fails' = fails + 1)
      /\ monitored' \subseteq Tables
      /\ queue' = queue \/ (queue # <<>> /\ queue' = Tail(queue))
  BY DEF IInv, NewThread, LoseConnection, MonitorHangs, AddMonitorTable, Poll, vars,
         captureVars, CaptureTypeOK
<1>2. CaptureTypeOK'
  <2>1. queue' \in Seq(Change)
    BY <1>1 DEF CaptureTypeOK
  <2>2. fails' \in 0..MaxFails
    BY <1>1 DEF CaptureTypeOK
  <2>3. thread' \in {"none", "running", "deaf", "ended"}
    BY <1>1 DEF CaptureTypeOK
  <2>. QED BY <1>1, <2>1, <2>2, <2>3 DEF CaptureTypeOK, threadVars
<1>3. SourceInv' /\ ListOK' /\ NothingSkipped' /\ OffersOK'
  BY <1>1, SourceNext_Inv
     DEF ListOK, Readable, Stamped, Logged, Valid, Unstamped, NothingSkipped, OffersOK,
         NotAfter, sourceVars, threadVars
<1>. QED BY <1>2, <1>3 DEF IInv

LEMMA RestartStep == ASSUME IInv, Restart PROVE IInv'
<1>. USE SourceAssumption, CaptureAssumption
<1>1. /\ SourceInv /\ CaptureTypeOK /\ OffersOK
      /\ UNCHANGED <<sourceVars, lastOffered>>
      /\ fromScn' = 0 /\ txlogs' = {} /\ datas' = {} /\ queue' = <<>>
      /\ thread' = "none" /\ monitored' = {} /\ seen' = {} /\ missed' = {}
      /\ fails < MaxFails /\ fails' = fails + 1
  BY DEF IInv, Restart
<1>2. CaptureTypeOK'
  BY <1>1 DEF CaptureTypeOK
<1>3. OffersOK'
  BY <1>1 DEF OffersOK, NotAfter, Logged, sourceVars
<1>4. \A x \in X : Readable(x) => txlog[x].scn \in 1..scn
  BY <1>1, LogFacts DEF Readable, Stamped
<1>5. ListOK'
  BY <1>1, LogFacts DEF ListOK, Unstamped, sourceVars
<1>6. NothingSkipped'
  BY <1>1, <1>4, LogFacts, ReadableIs DEF NothingSkipped, Valid, sourceVars, Infinity
<1>. QED BY <1>1, <1>2, <1>3, <1>5, <1>6, SourceNext_Inv DEF IInv

-----------------------------------------------------------------------------
LEMMA Init_IInv == Init => IInv
<1>. SUFFICES ASSUME Init PROVE IInv
  OBVIOUS
<1>. USE SourceAssumption, CaptureAssumption
<1>1. SourceInv
  BY SourceInit_Inv DEF Init
<1>2. CaptureTypeOK
  BY DEF Init, CaptureInit, CaptureTypeOK
<1>3. ListOK
  BY <1>1, LogFacts DEF Init, CaptureInit, ListOK
<1>4. NothingSkipped
  BY DEF Init, CaptureInit, SourceInit, NothingSkipped, Valid, NoLogRow
<1>5. OffersOK
  BY DEF Init, CaptureInit, OffersOK
<1>. QED BY <1>1, <1>2, <1>3, <1>4, <1>5 DEF IInv

LEMMA SourceStep == ASSUME IInv, SourceNext, UNCHANGED captureVars PROVE IInv'
<1>1. CaptureTypeOK'
  BY DEF IInv, CaptureTypeOK, captureVars, threadVars
<1>2. SourceInv'
  BY SourceNext_Inv DEF IInv
<1>. QED BY <1>1, <1>2, SourceStepList, SourceStepOffers DEF IInv

LEMMA Next_IInv == IInv /\ [Next]_vars => IInv'
<1>. SUFFICES ASSUME IInv, [Next]_vars PROVE IInv'
  OBVIOUS
<1>1. CASE SourceNext /\ UNCHANGED captureVars
  BY <1>1, SourceStep
<1>2. CASE Thread
  <2>1. CASE Monitor
    BY <2>1, MonitorStep
  <2>2. ASSUME NEW x \in txlogs, Select(x) PROVE IInv'
    BY <2>2, SelectStep
  <2>3. ASSUME NEW x \in txlogs, SelectFails(x) \/ SelectEnds(x) PROVE IInv'
    BY <2>3, SelectFailsStep
  <2>4. ASSUME NEW c \in datas, Offer(c) PROVE IInv'
    BY <2>4, OfferStep
  <2>5. CASE MonitorHangs
    BY <2>5, QueueStep
  <2>. QED BY <1>2, <2>1, <2>2, <2>3, <2>4, <2>5 DEF Thread
<1>3. CASE \E t \in Tables : AddMonitorTable(t)
  BY <1>3, QueueStep
<1>4. CASE Restart
  BY <1>4, RestartStep
<1>5. CASE Poll
  BY <1>5, QueueStep
<1>6. CASE UNCHANGED vars
  BY <1>6, QueueStep
<1>7. CASE NewThread \/ LoseConnection
  BY <1>7, QueueStep
<1>. QED BY <1>1, <1>2, <1>3, <1>4, <1>5, <1>6, <1>7 DEF Next

\* The inductive invariant holds in every reachable state of the monitor thread
\* beside the source database.
THEOREM CaptureCorrect == Spec => []IInv
<1>. QED BY Init_IInv, Next_IInv, PTL DEF Spec

\* Every variable of the monitor thread and of the source database keeps its type.
THEOREM TypeCorrect == Spec => []TypeOK
<1>1. IInv => TypeOK
  BY DEF IInv, SourceInv, TypeOK
<1>. QED BY <1>1, CaptureCorrect, PTL

\* MonitorTxlog's filter on fromScn skips no transaction, in whatever order
\* transactions are stamped, listed and taken up.
THEOREM NoTransactionIsSkipped == Spec => []NothingSkipped
<1>1. IInv => NothingSkipped
  BY DEF IInv
<1>. QED BY <1>1, CaptureCorrect, PTL

LEMMA StepOfferOrder ==
  ASSUME IInv, [Next]_vars, NEW r \in Rows, lastOffered[r] # 0
  PROVE  NotAfter(lastOffered[r], lastOffered'[r])
<1>. USE SourceAssumption, CaptureAssumption
<1>1. /\ SourceInv /\ OffersOK /\ lastOffered \in [Rows -> 0..MaxTxn]
      /\ lastOffered[r] \in X /\ Logged(lastOffered[r])
  BY DEF IInv, OffersOK, CaptureTypeOK, X
<1>2. CASE lastOffered'[r] = lastOffered[r]
  BY <1>1, <1>2, LogFacts DEF NotAfter
<1>3. ASSUME NEW c \in datas, Offer(c)
      PROVE  NotAfter(lastOffered[r], lastOffered'[r])
  <2>1. CASE r = c.row
    BY <1>1, <1>3, <2>1 DEF OffersOK, Offer
  <2>2. CASE r # c.row
    BY <1>1, <1>2, <1>3, <2>2 DEF Offer
  <2>. QED BY <2>1, <2>2
<1>. QED BY <1>2, <1>3 DEF Next, NewThread, LoseConnection, Thread, Monitor, MonitorHangs,
       Select, SelectFails, SelectEnds, TakeUp, AddMonitorTable, Restart, Poll, vars,
       captureVars, threadVars

\* The messages of a row enter the queue in commit order.
THEOREM OffersInOrder == Spec => OfferOrder
<1>1. IInv /\ [Next]_vars =>
        [\A r \in Rows :
           lastOffered[r] # 0 =>
             txlog[lastOffered[r]].oraRowscn <= txlog[lastOffered'[r]].oraRowscn]_vars
  BY StepOfferOrder DEF NotAfter
<1>. QED BY <1>1, CaptureCorrect, PTL DEF Spec, OfferOrder

-----------------------------------------------------------------------------
(***************************************************************************)
(* The refinement.                                                          *)
(***************************************************************************)
\* The messages on the queue stand for transactions that are in the change log,
\* whose scn no step changes.
QueueLogged == \A i \in DOMAIN queue : queue[i].txn \in X /\ Logged(queue[i].txn)

LEMMA QueueLoggedStep ==
  ASSUME IInv, QueueLogged, [Next]_vars
  PROVE  QueueLogged'
<1>1. /\ SourceInv /\ queue \in Seq(Change)
      /\ \A c \in datas : c.txn \in X /\ Logged(c.txn)
  BY DEF IInv, CaptureTypeOK, OffersOK, Change, X
<1>2. CASE SourceNext /\ UNCHANGED captureVars
  BY <1>1, <1>2, SourceStepEffect DEF QueueLogged, captureVars
<1>3. CASE UNCHANGED txlog
  <2>1. ASSUME NEW c \in datas, queue' = Append(queue, c) PROVE QueueLogged'
    <3>1. c \in Change
      BY <2>1 DEF IInv, CaptureTypeOK
    <3>2. \A i \in DOMAIN queue' : (i \in DOMAIN queue /\ queue'[i] = queue[i]) \/ queue'[i] = c
      BY <1>1, <2>1, <3>1
    <3>. QED BY <1>1, <1>3, <3>2 DEF QueueLogged, Logged
  <2>2. ASSUME queue # <<>>, queue' = Tail(queue) PROVE QueueLogged'
    <3>1. \A i \in DOMAIN queue' : i + 1 \in DOMAIN queue /\ queue'[i] = queue[i + 1]
      BY <1>1, <2>2
    <3>. QED BY <1>3, <3>1 DEF QueueLogged, Logged
  <2>3. ASSUME queue' \in {queue, <<>>} PROVE QueueLogged'
    BY <1>3, <2>3 DEF QueueLogged, Logged
  <2>. QED BY <1>2, <2>1, <2>2, <2>3 DEF Next, NewThread, LoseConnection, Thread, Monitor,
         MonitorHangs, Select, SelectFails, SelectEnds, TakeUp, Offer, AddMonitorTable, Restart,
         Poll, vars, captureVars, threadVars
<1>4. [Next]_vars => UNCHANGED txlog \/ (SourceNext /\ UNCHANGED captureVars)
  BY DEF Next, NewThread, LoseConnection, Thread, Monitor, MonitorHangs, Select, SelectFails,
         SelectEnds, TakeUp, Offer, AddMonitorTable, Restart, Poll, vars, sourceVars
<1>. QED BY <1>2, <1>3, <1>4

LEMMA QueueAlwaysLogged == Spec => []QueueLogged
<1>1. Init => QueueLogged
  BY DEF Init, CaptureInit, QueueLogged
<1>. QED BY <1>1, CaptureCorrect, QueueLoggedStep, PTL DEF Spec

\* The version of row r in the feed.
Current(r) == IF rows[r] = 0 THEN 0 ELSE VersionOf(rows[r])

\* What the feed sees of a commit that writes puts and deletes dels.
CommitOf(puts, dels) ==
  /\ scn' \in {scn, scn + 1}
  /\ puts # {} => scn' = scn + 1
  /\ \A r \in Rows :
       (IF rows'[r] = 0 THEN 0 ELSE txlog'[rows'[r]].oraRowscn)
         = IF r \in puts THEN scn + 1 ELSE IF r \in dels THEN 0 ELSE Current(r)

\* A step of the database is a commit of some rows, or of none.
LEMMA SourceStepCommits ==
  ASSUME SourceInv, SourceNext
  PROVE  \E puts, dels \in SUBSET Rows : CommitOf(puts, dels)
<1>. USE SourceAssumption
<1>1. /\ \A x \in X : Logged(x) => txlog'[x].oraRowscn = txlog[x].oraRowscn
      /\ \A r \in Rows : rows[r] # 0 => rows[r] \in X /\ Logged(rows[r])
      /\ scn' \in {scn, scn + 1}
  BY SourceStepEffect, LogFacts
<1>2. CASE UNCHANGED <<rows, scn>>
  <2>1. \A r \in Rows : (IF rows'[r] = 0 THEN 0 ELSE txlog'[rows'[r]].oraRowscn) = Current(r)
    BY <1>1, <1>2 DEF Current, VersionOf
  <2>2. CommitOf({}, {})
    BY <1>1, <2>1 DEF CommitOf
  <2>. QED BY <2>2
<1>3. ASSUME NEW s \in Sessions, Commit(s)
      PROVE  \E puts, dels \in SUBSET Rows : CommitOf(puts, dels)
  <2>1. session \in [Sessions -> SessionState] /\ rows \in [Rows -> 0..MaxTxn]
        /\ DOMAIN txlog = X /\ txlog \in [X -> LogRow] /\ scn \in Nat
    BY DEF SourceInv, SourceTypeOK, X
  <2>2. PICK q \in SessionState : q = session[s]
    BY <2>1
  <2>3. q.puts \in SUBSET Rows /\ q.dels \in SUBSET Rows /\ q.txn \in 0..MaxTxn
    BY DEF SessionState
  <2>4. /\ scn' = scn + 1
        /\ rows' = [r \in Rows |-> IF r \in q.puts THEN q.txn
                                   ELSE IF r \in q.dels THEN 0 ELSE rows[r]]
        /\ txlog' = IF q.logged = {} THEN txlog
                    ELSE [txlog EXCEPT ![q.txn] = NewLogRow(q.logged)]
    BY <1>3, <2>2 DEF Commit
  <2>5. SessionOK(q)
    BY <2>2 DEF SourceInv, SessionsOK
  <2>6. ASSUME NEW r \in q.puts
        PROVE  rows'[r] # 0 /\ txlog'[rows'[r]].oraRowscn = scn + 1
    <3>1. q.txn \in X /\ q.logged # {} /\ rows'[r] = q.txn
      BY <2>3, <2>4, <2>5, <2>6 DEF SessionOK, X
    <3>2. NewLogRow(q.logged).oraRowscn = scn + 1
      BY DEF NewLogRow
    <3>. QED BY <2>1, <2>4, <3>1, <3>2 DEF X
  <2>7. ASSUME NEW r \in Rows, r \notin q.puts
        PROVE  (IF rows'[r] = 0 THEN 0 ELSE txlog'[rows'[r]].oraRowscn)
                 = IF r \in q.dels THEN 0 ELSE Current(r)
    BY <1>1, <2>4, <2>7 DEF Current, VersionOf
  <2>8. CommitOf(q.puts, q.dels)
    BY <2>3, <2>4, <2>6, <2>7 DEF CommitOf
  <2>. QED BY <2>3, <2>8
<1>4. UNCHANGED <<rows, scn>> \/ \E s \in Sessions : Commit(s)
  BY DEF SourceNext, Put, PutFails, Delete, Rollback, CoalesceOpen, CoalesceCommit
<1>. QED BY <1>2, <1>3, <1>4

\* The instance's steps, written with the state of the thread.
LEMMA FeedInit == Init => Feed!Init
<1>. SUFFICES ASSUME Init PROVE Feed!Init
  OBVIOUS
<1>. USE DEF Init, SourceInit, CaptureInit
<1>1. scn = 0
  OBVIOUS
<1>2. [r \in Rows |-> IF rows[r] = 0 THEN 0 ELSE VersionOf(rows[r])] = [r \in Rows |-> 0]
  OBVIOUS
<1>3. {MessageOf(c) : c \in datas} = {}
  OBVIOUS
<1>4. [i \in DOMAIN queue |-> MessageOf(queue[i])] = <<>>
  OBVIOUS
<1>. QED BY <1>1, <1>2, <1>3, <1>4 DEF Feed!Init

LEMMA FeedSourceStep ==
  ASSUME IInv, QueueLogged, SourceNext, UNCHANGED captureVars
  PROVE  Feed!Next
<1>1. /\ SourceInv /\ UNCHANGED <<datas, queue>>
      /\ \A c \in datas : c.txn \in X /\ Logged(c.txn)
  BY DEF IInv, CaptureTypeOK, OffersOK, Change, X, captureVars, threadVars
<1>2. \A x \in X : Logged(x) => txlog'[x].oraRowscn = txlog[x].oraRowscn
  BY <1>1, SourceStepEffect
<1>3. PICK puts \in SUBSET Rows, dels \in SUBSET Rows : CommitOf(puts, dels)
  BY <1>1, SourceStepCommits
<1>4. {MessageOf(c) : c \in datas}' = {MessageOf(c) : c \in datas}
  BY <1>1, <1>2 DEF MessageOf, VersionOf
<1>5. [i \in DOMAIN queue |-> MessageOf(queue[i])]' = [i \in DOMAIN queue |-> MessageOf(queue[i])]
  BY <1>1, <1>2 DEF MessageOf, VersionOf, QueueLogged
<1>6. [r \in Rows |-> IF rows[r] = 0 THEN 0 ELSE VersionOf(rows[r])]'
        = [r \in Rows |-> IF r \in puts THEN scn + 1 ELSE IF r \in dels THEN 0
             ELSE [q \in Rows |-> IF rows[q] = 0 THEN 0 ELSE VersionOf(rows[q])][r]]
  BY <1>3 DEF CommitOf, VersionOf, Current
<1>7. Feed!Commit(puts, dels)
  BY <1>3, <1>4, <1>5, <1>6 DEF Feed!Commit, CommitOf
<1>. QED BY <1>7 DEF Feed!Next

\* The feed's queue, as a sequence of its messages.
FedQueue(q) == [i \in DOMAIN q |-> MessageOf(q[i])]

LEMMA FedQueueFacts ==
  ASSUME queue \in Seq(Change), txlog \in [X -> LogRow]
  PROVE  /\ FedQueue(queue) \in Seq([row: Rows, version: Nat])
         /\ \A c \in Change :
              FedQueue(Append(queue, c)) = Append(FedQueue(queue), MessageOf(c))
         /\ queue # <<>> => /\ FedQueue(queue) # <<>>
                           /\ FedQueue(Tail(queue)) = Tail(FedQueue(queue))
<1>. USE SourceAssumption DEF FedQueue
<1>. DEFINE M == [row: Rows, version: Nat]
<1>1. \A c \in Change : MessageOf(c) \in M
  BY DEF Change, MessageOf, VersionOf, LogRow, X
<1>2. FedQueue(queue) \in Seq(M) /\ Len(FedQueue(queue)) = Len(queue)
  <2>1. DOMAIN queue = 1..Len(queue) /\ Len(queue) \in Nat
    OBVIOUS
  <2>2. \A i \in 1..Len(queue) : queue[i] \in Change
    OBVIOUS
  <2>3. FedQueue(queue) \in [1..Len(queue) -> M]
    BY <1>1, <2>1, <2>2
  <2>. QED BY <2>1, <2>3
<1>3. ASSUME NEW c \in Change
      PROVE  FedQueue(Append(queue, c)) = Append(FedQueue(queue), MessageOf(c))
  <2>1. /\ DOMAIN FedQueue(Append(queue, c)) = 1..(Len(queue) + 1)
        /\ DOMAIN Append(FedQueue(queue), MessageOf(c)) = 1..(Len(queue) + 1)
    BY <1>1, <1>2
  <2>2. \A i \in 1..(Len(queue) + 1) :
          FedQueue(Append(queue, c))[i] = Append(FedQueue(queue), MessageOf(c))[i]
    BY <1>1, <1>2
  <2>3. FedQueue(Append(queue, c)) \in Seq(M) /\ Append(FedQueue(queue), MessageOf(c)) \in Seq(M)
    BY <1>1, <1>2
  <2>. QED BY <2>1, <2>2, <2>3
<1>4. ASSUME queue # <<>>
      PROVE  FedQueue(queue) # <<>> /\ FedQueue(Tail(queue)) = Tail(FedQueue(queue))
  BY <1>1, <1>2, <1>4
<1>. QED BY <1>2, <1>3, <1>4

\* The steps of the thread and of the sender.
LEMMA FeedThreadStep ==
  ASSUME IInv, ~(SourceNext /\ UNCHANGED captureVars), [Next]_vars
  PROVE  [Feed!Next]_(Feed!vars)
<1>. USE SourceAssumption
<1>. DEFINE Rs == [r \in Rows |-> IF rows[r] = 0 THEN 0 ELSE VersionOf(rows[r])]
            Held == {MessageOf(c) : c \in datas}
            Fed == [i \in DOMAIN queue |-> MessageOf(queue[i])]
<1>1. /\ SourceInv /\ OffersOK /\ datas \subseteq Change /\ queue \in Seq(Change)
      /\ txlog \in [X -> LogRow]
      /\ \A x \in X : Logged(x) => txlog[x].oraRowscn \in 1..scn
      /\ txlogs \subseteq X /\ \A x \in txlogs : Logged(x)
  BY LogFacts DEF IInv, CaptureTypeOK, ListOK, Readable, Stamped, X
<1>2. UNCHANGED <<rows, txlog, scn>>
  BY DEF Next, NewThread, LoseConnection, Thread, Monitor, MonitorHangs, Select, SelectFails,
         SelectEnds, TakeUp, Offer, AddMonitorTable, Restart, Poll, vars, sourceVars
<1>3. UNCHANGED <<scn, Rs>>
  BY <1>2 DEF VersionOf
<1>4. ASSUME UNCHANGED <<datas, queue>> PROVE UNCHANGED Feed!vars
  BY <1>2, <1>3, <1>4 DEF Feed!vars, MessageOf, VersionOf
<1>5. ASSUME NEW x \in txlogs, Select(x) PROVE [Feed!Next]_(Feed!vars)
  <2>1. datas = {} /\ UNCHANGED queue /\ datas' \in {datas, RowsOf(x)}
    BY <1>5 DEF Select, TakeUp
  <2>. DEFINE some == {r \in Rows : TableOf(r) = MaskName(x) /\ rows[r] = x}
  <2>2. CASE datas' = RowsOf(x) /\ some # {}
    <3>1. x \in X /\ x # 0 /\ VersionOf(x) # 0
      BY <1>1 DEF VersionOf, X
    <3>2. Held' = {[row |-> r, version |-> VersionOf(x)] : r \in some}
      <4>1. RowsOf(x) = {[row |-> r, txn |-> x] : r \in some}
        BY <3>1 DEF RowsOf, Change, X
      <4>2. Held' = {MessageOf(c) : c \in datas'}
          BY <1>2 DEF MessageOf, VersionOf
      <4>3. \A r \in some : MessageOf([row |-> r, txn |-> x]) = [row |-> r, version |-> VersionOf(x)]
        BY DEF MessageOf
      <4>. HIDE DEF some
      <4>4. datas' = {[row |-> r, txn |-> x] : r \in some}
        BY <2>2, <4>1
      <4>5. \A r \in some : [row |-> r, version |-> VersionOf(x)] \in Held'
        BY <4>2, <4>3, <4>4
      <4>6. ASSUME NEW m \in Held'
            PROVE  \E r \in some : m = [row |-> r, version |-> VersionOf(x)]
        <5>1. PICK c \in datas' : m = MessageOf(c)
          BY <4>2, <4>6
        <5>2. PICK r \in some : c = [row |-> r, txn |-> x]
          BY <4>4
        <5>. QED BY <4>3, <5>1, <5>2
      <4>. HIDE DEF Held
      <4>. QED BY <4>5, <4>6
    <3>3. Held = {}
      BY <2>1
    <3>4. \A r \in some : Rs[r] = VersionOf(x)
      BY <3>1
    <3>5. PICK r \in some : TRUE
      BY <2>2
    <3>6. UNCHANGED Fed
      BY <1>2, <2>1 DEF MessageOf, VersionOf
    <3>7. Feed!Read(Rs[r], some)
      BY <1>3, <3>1, <3>2, <3>3, <3>4, <3>6 DEF Feed!Read
    <3>. QED BY <3>7 DEF Feed!Next
  <2>3. CASE some = {} \/ datas' = datas
    <3>1. datas' = {}
      BY <2>1, <2>3 DEF RowsOf, Change
    <3>. QED BY <1>4, <2>1, <3>1
  <2>. QED BY <2>1, <2>2, <2>3
<1>6. ASSUME NEW c \in datas, Offer(c) PROVE Feed!Next
  <2>1. datas' = datas \ {c} /\ queue' = Append(queue, c) /\ c \in Change
    BY <1>1, <1>6 DEF Offer
  <2>2. \A d \in datas : MessageOf(d) = MessageOf(c) => d = c
    BY <1>1, <2>1 DEF OffersOK, MessageOf, Change
  <2>3. Held' = Held \ {MessageOf(c)}
    BY <1>2, <2>1, <2>2 DEF MessageOf, VersionOf
  <2>4. Fed' = FedQueue(Append(queue, c))
    BY <1>2, <2>1 DEF MessageOf, VersionOf, FedQueue
  <2>5. Fed' = Append(Fed, MessageOf(c))
    BY <1>1, <2>1, <2>4, FedQueueFacts DEF FedQueue
  <2>6. Feed!Offer(MessageOf(c)) /\ MessageOf(c) \in Held
    BY <1>3, <2>3, <2>5 DEF Feed!Offer
  <2>. QED BY <2>6 DEF Feed!Next
<1>7. ASSUME Poll PROVE Feed!Next
  <2>1. queue # <<>> /\ queue' = Tail(queue) /\ UNCHANGED datas
    BY <1>7 DEF Poll, threadVars
  <2>2. Fed' = FedQueue(Tail(queue))
    BY <1>2, <2>1 DEF MessageOf, VersionOf, FedQueue
  <2>3. Fed # <<>> /\ Fed' = Tail(Fed)
    BY <1>1, <2>1, <2>2, FedQueueFacts DEF FedQueue
  <2>4. UNCHANGED Held
    BY <1>2, <2>1 DEF MessageOf, VersionOf
  <2>5. Feed!Deliver
    BY <1>3, <2>3, <2>4 DEF Feed!Deliver
  <2>. QED BY <2>5 DEF Feed!Next
<1>8. ASSUME Restart PROVE Feed!Next
  <2>1. datas' = {} /\ queue' = <<>>
    BY <1>8 DEF Restart
  <2>2. Held' = {} /\ Fed' = <<>>
    BY <2>1
  <2>3. Feed!Restart
    BY <1>3, <2>2 DEF Feed!Restart
  <2>. QED BY <2>3 DEF Feed!Next
<1>9. \/ UNCHANGED <<datas, queue>>
      \/ \E x \in txlogs : Select(x)
      \/ \E c \in datas : Offer(c)
      \/ Poll \/ Restart
  BY DEF Next, NewThread, LoseConnection, Thread, Monitor, MonitorHangs, SelectFails, SelectEnds,
         AddMonitorTable, vars, captureVars, threadVars
<1>. QED BY <1>4, <1>5, <1>6, <1>7, <1>8, <1>9

\* The capture thread beside the source schema implements the version feed: every
\* step of it is a step of the feed or leaves the feed as it is.
THEOREM CaptureImplementsFeed == Spec => ImplementsFeed
<1>1. IInv /\ QueueLogged /\ [Next]_vars => [Feed!Next]_(Feed!vars)
  BY FeedSourceStep, FeedThreadStep
<1>. QED BY <1>1, FeedInit, CaptureCorrect, QueueAlwaysLogged, PTL DEF Spec, ImplementsFeed, Feed!Spec

-----------------------------------------------------------------------------
(***************************************************************************)
(* A version feed keeps the versions of every row in order, whatever it is  *)
(* a feed of: of rows R, with clock c, current versions cur, messages held  *)
(* h and queue q.                                                           *)
(***************************************************************************)
FeedMessage(R) == [row: R, version: Nat \ {0}]

Ordered(cur, h, q) ==
  /\ \A i, j \in DOMAIN q : i <= j /\ q[i].row = q[j].row => q[i].version <= q[j].version
  /\ \A i \in DOMAIN q, m \in h : q[i].row = m.row => q[i].version <= m.version
  /\ \A m \in h : cur[m.row] # 0 => m.version <= cur[m.row]
  /\ \A i \in DOMAIN q : cur[q[i].row] # 0 => q[i].version <= cur[q[i].row]

\* The types of the feed, a clock that is nowhere behind, and messages of one commit.
FeedInv(R, c, cur, h, q) ==
  /\ c \in Nat /\ cur \in [R -> 0..c]
  /\ h \subseteq FeedMessage(R) /\ q \in Seq(FeedMessage(R))
  /\ Ordered(cur, h, q)
  /\ \A m, n \in h : m.version = n.version
  /\ \A m \in h : m.version <= c
  /\ \A i \in DOMAIN q : q[i].version <= c

LEMMA FeedMessages ==
  ASSUME NEW R, NEW c, NEW cur, NEW h, NEW q, FeedInv(R, c, cur, h, q)
  PROVE  /\ \A m \in h : m.row \in R /\ m.version \in Nat
         /\ \A i \in DOMAIN q : q[i].row \in R /\ q[i].version \in Nat
<1>1. \A m \in FeedMessage(R) : m.row \in R /\ m.version \in Nat
  BY DEF FeedMessage
<1>2. h \subseteq FeedMessage(R) /\ \A i \in DOMAIN q : q[i] \in FeedMessage(R)
  BY DEF FeedInv
<1>. QED BY <1>1, <1>2

LEMMA FeedStarts ==
  ASSUME NEW R
  PROVE  FeedInv(R, 0, [r \in R |-> 0], {}, <<>>)
BY DEF FeedInv, Ordered

LEMMA FeedCommits ==
  ASSUME NEW R, NEW c, NEW cur, NEW h, NEW q, FeedInv(R, c, cur, h, q),
         NEW puts \in SUBSET R, NEW dels \in SUBSET R,
         NEW c1 \in {c, c + 1}, puts # {} => c1 = c + 1,
         NEW cur1, cur1 = [r \in R |-> IF r \in puts THEN c + 1
                                       ELSE IF r \in dels THEN 0 ELSE cur[r]]
  PROVE  FeedInv(R, c1, cur1, h, q)
<1>1. c \in Nat /\ cur \in [R -> 0..c] /\ c1 \in Nat /\ c <= c1
  BY DEF FeedInv
<1>2. \A r \in R : cur1[r] \in 0..c1 /\ cur1[r] \in {0, cur[r], c + 1}
  BY <1>1
<1>3. cur1 \in [R -> 0..c1]
  BY <1>2
<1>4. ASSUME NEW r \in R, NEW n \in Nat, n <= c, cur[r] # 0 => n <= cur[r]
      PROVE  n <= c1 /\ (cur1[r] # 0 => n <= cur1[r])
  <2>1. c1 = c \/ c1 = c + 1
    OBVIOUS
  <2>2. cur1[r] = 0 \/ cur1[r] = cur[r] \/ cur1[r] = c + 1
    BY <1>2
  <2>3. c \in Nat /\ cur[r] \in 0..c
    BY <1>1
  <2>. QED BY <1>4, <2>1, <2>2, <2>3
<1>5. \A m \in h : /\ m.row \in R /\ m.version \in Nat /\ m.version <= c
                   /\ cur[m.row] # 0 => m.version <= cur[m.row]
  <2>1. \A m \in h : m.row \in R /\ m.version \in Nat
    BY FeedMessages
  <2>. QED BY <2>1 DEF FeedInv, Ordered
<1>6. \A i \in DOMAIN q : /\ q[i].row \in R /\ q[i].version \in Nat /\ q[i].version <= c
                          /\ cur[q[i].row] # 0 => q[i].version <= cur[q[i].row]
  <2>1. \A i \in DOMAIN q : q[i].row \in R /\ q[i].version \in Nat
    BY FeedMessages
  <2>. QED BY <2>1 DEF FeedInv, Ordered
<1>7. \A m \in h : m.version <= c1 /\ (cur1[m.row] # 0 => m.version <= cur1[m.row])
  BY <1>4, <1>5
<1>8. \A i \in DOMAIN q :
        q[i].version <= c1 /\ (cur1[q[i].row] # 0 => q[i].version <= cur1[q[i].row])
  BY <1>4, <1>6
<1>9. /\ h \subseteq FeedMessage(R) /\ q \in Seq(FeedMessage(R))
      /\ \A m, n \in h : m.version = n.version
      /\ \A i, j \in DOMAIN q :
           i <= j /\ q[i].row = q[j].row => q[i].version <= q[j].version
      /\ \A i \in DOMAIN q, m \in h : q[i].row = m.row => q[i].version <= m.version
  BY DEF FeedInv, Ordered
<1>10. Ordered(cur1, h, q)
  BY <1>7, <1>8, <1>9 DEF Ordered
<1>. QED BY <1>1, <1>3, <1>7, <1>8, <1>9, <1>10 DEF FeedInv

LEMMA FeedReads ==
  ASSUME NEW R, NEW c, NEW cur, NEW h, NEW q, FeedInv(R, c, cur, h, q),
         NEW v, v # 0, NEW some \in SUBSET R, some # {}, \A r \in some : cur[r] = v,
         NEW h1, h1 = {[row |-> r, version |-> v] : r \in some}
  PROVE  FeedInv(R, c, cur, h1, q)
<1>1. c \in Nat /\ cur \in [R -> 0..c]
  BY DEF FeedInv
<1>2. v \in Nat \ {0} /\ v <= c
  BY <1>1
<1>3. \A m \in h1 : /\ m \in FeedMessage(R) /\ m.version = v
                    /\ m.row \in some /\ cur[m.row] = v
  BY <1>2 DEF FeedMessage
<1>4. \A i \in DOMAIN q, m \in h1 : q[i].row = m.row => q[i].version <= m.version
  BY <1>2, <1>3 DEF FeedInv, Ordered
<1>5. Ordered(cur, h1, q)
  BY <1>2, <1>3, <1>4 DEF FeedInv, Ordered
<1>. QED BY <1>2, <1>3, <1>5 DEF FeedInv

LEMMA FeedOffers ==
  ASSUME NEW R, NEW c, NEW cur, NEW h, NEW q, FeedInv(R, c, cur, h, q), NEW m \in h,
         NEW h1, h1 = h \ {m}, NEW q1, q1 = Append(q, m)
  PROVE  FeedInv(R, c, cur, h1, q1)
<1>1. /\ q \in Seq(FeedMessage(R)) /\ h \subseteq FeedMessage(R)
      /\ m \in FeedMessage(R) /\ m.version \in Nat /\ m.version <= c
  BY FeedMessages DEF FeedInv
<1>2. /\ DOMAIN q1 = 1..(Len(q) + 1) /\ DOMAIN q = 1..Len(q) /\ Len(q) \in Nat
      /\ \A i \in DOMAIN q : q1[i] = q[i]
      /\ q1[Len(q) + 1] = m
      /\ q1 \in Seq(FeedMessage(R))
  BY <1>1
<1>3. \A i \in DOMAIN q1 : i \in DOMAIN q \/ (i = Len(q) + 1 /\ q1[i] = m)
  BY <1>2
<1>4. ASSUME NEW i \in DOMAIN q1, NEW j \in DOMAIN q1, i <= j, q1[i].row = q1[j].row
      PROVE  q1[i].version <= q1[j].version
  <2>1. CASE j \in DOMAIN q
    BY <1>2, <1>3, <1>4, <2>1 DEF FeedInv, Ordered
  <2>2. CASE j \notin DOMAIN q
    BY <1>1, <1>2, <1>3, <1>4, <2>2 DEF FeedInv, Ordered
  <2>. QED BY <2>1, <2>2
<1>5. ASSUME NEW i \in DOMAIN q1, NEW n \in h1, q1[i].row = n.row
      PROVE  q1[i].version <= n.version
  <2>1. CASE i \in DOMAIN q
    BY <1>2, <1>5, <2>1 DEF FeedInv, Ordered
  <2>2. CASE q1[i] = m
    <3>1. n.version = m.version
      BY DEF FeedInv
    <3>. QED BY <1>1, <2>2, <3>1
  <2>. QED BY <1>3, <2>1, <2>2
<1>6. \A i \in DOMAIN q1 : /\ q1[i].version <= c
                           /\ cur[q1[i].row] # 0 => q1[i].version <= cur[q1[i].row]
  BY <1>1, <1>2, <1>3 DEF FeedInv, Ordered
<1>7. Ordered(cur, h1, q1)
  BY <1>4, <1>5, <1>6 DEF FeedInv, Ordered
<1>. QED BY <1>2, <1>6, <1>7 DEF FeedInv

LEMMA FeedDelivers ==
  ASSUME NEW R, NEW c, NEW cur, NEW h, NEW q, FeedInv(R, c, cur, h, q), q # <<>>,
         NEW q1, q1 = Tail(q)
  PROVE  FeedInv(R, c, cur, h, q1)
<1>1. q \in Seq(FeedMessage(R)) /\ q1 \in Seq(FeedMessage(R))
  BY DEF FeedInv
<1>2. \A i \in DOMAIN q1 : i \in Nat /\ i + 1 \in DOMAIN q /\ q1[i] = q[i + 1]
  BY <1>1
<1>3. \A i, j \in DOMAIN q1 : i <= j /\ q1[i].row = q1[j].row => q1[i].version <= q1[j].version
  BY <1>2 DEF FeedInv, Ordered
<1>4. \A i \in DOMAIN q1 : /\ q1[i].version <= c
                           /\ \A m \in h : q1[i].row = m.row => q1[i].version <= m.version
                           /\ cur[q1[i].row] # 0 => q1[i].version <= cur[q1[i].row]
  BY <1>2 DEF FeedInv, Ordered
<1>. QED BY <1>1, <1>3, <1>4 DEF FeedInv, Ordered

LEMMA FeedRestarts ==
  ASSUME NEW R, NEW c, NEW cur, NEW h, NEW q, FeedInv(R, c, cur, h, q)
  PROVE  FeedInv(R, c, cur, {}, <<>>)
BY DEF FeedInv, Ordered

CONSTANT FeedRows
VARIABLES clock, current, held, feedQueue

AnyFeed == INSTANCE VersionFeed WITH Rows <- FeedRows, queue <- feedQueue

LEMMA AnyFeedNext ==
  ASSUME FeedInv(FeedRows, clock, current, held, feedQueue), [AnyFeed!Next]_(AnyFeed!vars)
  PROVE  FeedInv(FeedRows, clock', current', held', feedQueue')
<1>1. ASSUME NEW puts \in SUBSET FeedRows, NEW dels \in SUBSET FeedRows,
             AnyFeed!Commit(puts, dels)
      PROVE  FeedInv(FeedRows, clock', current', held', feedQueue')
  BY <1>1, FeedCommits DEF AnyFeed!Commit
<1>2. ASSUME NEW some \in SUBSET FeedRows, NEW r \in some, AnyFeed!Read(current[r], some)
      PROVE  FeedInv(FeedRows, clock', current', held', feedQueue')
  BY <1>2, FeedReads DEF AnyFeed!Read
<1>3. ASSUME NEW m \in held, AnyFeed!Offer(m)
      PROVE  FeedInv(FeedRows, clock', current', held', feedQueue')
  BY <1>3, FeedOffers DEF AnyFeed!Offer
<1>4. CASE AnyFeed!Deliver
  BY <1>4, FeedDelivers DEF AnyFeed!Deliver
<1>5. CASE AnyFeed!Restart
  BY <1>5, FeedRestarts DEF AnyFeed!Restart
<1>6. CASE UNCHANGED AnyFeed!vars
  BY <1>6 DEF AnyFeed!vars
<1>. QED BY <1>1, <1>2, <1>3, <1>4, <1>5, <1>6 DEF AnyFeed!Next

\* In a version feed the versions of a row are queued in commit order and the
\* row itself is never older than a version that was read of it.
THEOREM FeedKeepsOrder == AnyFeed!Spec => []AnyFeed!InOrder
<1>. DEFINE Inv == FeedInv(FeedRows, clock, current, held, feedQueue)
<1>1. AnyFeed!Init => Inv
  BY FeedStarts DEF AnyFeed!Init
<1>2. Inv /\ [AnyFeed!Next]_(AnyFeed!vars) => Inv'
  BY AnyFeedNext
<1>3. Inv => AnyFeed!InOrder
  BY DEF FeedInv, Ordered, AnyFeed!InOrder
<1>. HIDE DEF Inv
<1>. QED BY <1>1, <1>2, <1>3, PTL DEF AnyFeed!Spec

-----------------------------------------------------------------------------
(***************************************************************************)
(* The feed that the capture thread is.                                     *)
(***************************************************************************)
FedRows == [r \in Rows |-> IF rows[r] = 0 THEN 0 ELSE VersionOf(rows[r])]
FedHeld == {MessageOf(c) : c \in datas}

CaptureFeeds == FeedInv(Rows, scn, FedRows, FedHeld, FedQueue(queue))

LEMMA CaptureFeedNext ==
  ASSUME CaptureFeeds, [Feed!Next]_(Feed!vars)
  PROVE  CaptureFeeds'
<1>0. PICK c, c1, cur, cur1, h, h1, q, q1 :
        /\ c = scn /\ cur = FedRows /\ h = FedHeld /\ q = FedQueue(queue)
        /\ c1 = scn' /\ cur1 = FedRows' /\ h1 = FedHeld' /\ q1 = FedQueue(queue)'
  OBVIOUS
<1>1. FeedInv(Rows, c, cur, h, q)
  BY <1>0 DEF CaptureFeeds
<1>2. SUFFICES FeedInv(Rows, c1, cur1, h1, q1)
  BY <1>0 DEF CaptureFeeds
<1>3. ASSUME NEW puts \in SUBSET Rows, NEW dels \in SUBSET Rows, Feed!Commit(puts, dels)
      PROVE  FeedInv(Rows, c1, cur1, h1, q1)
  <2>1. /\ c1 \in {c, c + 1} /\ (puts # {} => c1 = c + 1)
        /\ cur1 = [r \in Rows |-> IF r \in puts THEN c + 1 ELSE IF r \in dels THEN 0 ELSE cur[r]]
        /\ h1 = h /\ q1 = q
    BY <1>0, <1>3 DEF Feed!Commit, FedRows, FedHeld, FedQueue
  <2>. QED BY <1>1, <2>1, FeedCommits
<1>4. ASSUME NEW some \in SUBSET Rows, NEW r \in some, Feed!Read(FedRows[r], some)
      PROVE  FeedInv(Rows, c1, cur1, h1, q1)
  <2>1. /\ cur[r] # 0 /\ \A s \in some : cur[s] = cur[r]
        /\ h1 = {[row |-> s, version |-> cur[r]] : s \in some}
        /\ c1 = c /\ cur1 = cur /\ q1 = q
    BY <1>0, <1>4 DEF Feed!Read, FedRows, FedHeld, FedQueue
  <2>. QED BY <1>1, <2>1, FeedReads
<1>5. ASSUME NEW m \in FedHeld, Feed!Offer(m)
      PROVE  FeedInv(Rows, c1, cur1, h1, q1)
  <2>1. m \in h /\ h1 = h \ {m} /\ q1 = Append(q, m) /\ c1 = c /\ cur1 = cur
    BY <1>0, <1>5 DEF Feed!Offer, FedRows, FedHeld, FedQueue
  <2>. QED BY <1>1, <2>1, FeedOffers
<1>6. CASE Feed!Deliver
  <2>1. q # <<>> /\ q1 = Tail(q) /\ c1 = c /\ cur1 = cur /\ h1 = h
    BY <1>0, <1>6 DEF Feed!Deliver, FedRows, FedHeld, FedQueue
  <2>. QED BY <1>1, <2>1, FeedDelivers
<1>7. CASE Feed!Restart
  <2>1. h1 = {} /\ q1 = <<>> /\ c1 = c /\ cur1 = cur
    BY <1>0, <1>7 DEF Feed!Restart, FedRows, FedHeld, FedQueue
  <2>. QED BY <1>1, <2>1, FeedRestarts
<1>8. CASE UNCHANGED Feed!vars
  <2>1. h1 = h /\ q1 = q /\ c1 = c /\ cur1 = cur
    BY <1>0, <1>8 DEF Feed!vars, FedRows, FedHeld, FedQueue
  <2>. QED BY <1>1, <2>1
<1>. QED BY <1>3, <1>4, <1>5, <1>6, <1>7, <1>8 DEF Feed!Next, FedRows, FedHeld

\* What the capture thread has queued, what it holds and what the source has of a row are
\* in commit order: neither the order of the list nor a stamp that comes late lets an old
\* version of a row follow a newer one to the sender.
THEOREM QueueKeepsOrder == Spec => []Feed!InOrder
<1>1. Init => CaptureFeeds
  <2>1. SUFFICES ASSUME Init, Feed!Init PROVE CaptureFeeds
    BY FeedInit
  <2>2. scn = 0 /\ FedRows = [r \in Rows |-> 0] /\ FedHeld = {} /\ FedQueue(queue) = <<>>
    BY <2>1 DEF Feed!Init, FedRows, FedHeld, FedQueue
  <2>. QED BY <2>2, FeedStarts DEF CaptureFeeds
<1>2. IInv /\ QueueLogged /\ [Next]_vars => [Feed!Next]_(Feed!vars)
  BY FeedSourceStep, FeedThreadStep
<1>3. CaptureFeeds /\ [Feed!Next]_(Feed!vars) => CaptureFeeds'
  BY CaptureFeedNext
<1>4. CaptureFeeds => Feed!InOrder
  BY DEF CaptureFeeds, FeedInv, Ordered, Feed!InOrder, FedRows, FedHeld, FedQueue
<1>. QED BY <1>1, <1>2, <1>3, <1>4, CaptureCorrect, QueueAlwaysLogged, PTL DEF Spec
===============================================================================
