-------------------------- MODULE DeleteCaptureProofs -------------------------
(***************************************************************************)
(* The delete thread beside the source database: type correctness, no       *)
(* forgotten delete, and which of the queued messages are named right.      *)
(***************************************************************************)
EXTENDS DeleteCapture, SourceDBProofs

\* The thread has one row in hand at most.
OneHeld == \A r, o \in held : r = o

DInv ==
  SourceInv /\ DeleteTypeOK /\ OneHeld /\ NoDeleteForgotten /\ LastIsNamed /\ UsesOK

LEMMA Init_DInv == Init => DInv
<1>. SUFFICES ASSUME Init PROVE DInv
  OBVIOUS
<1>. USE DeleteAssumption
<1>1. SourceInv
  BY SourceInit_Inv DEF Init
<1>2. DeleteTypeOK
  BY SourceAssumption DEF Init, DeleteTypeOK
<1>3. OneHeld /\ NoDeleteForgotten /\ LastIsNamed
  BY DEF Init, OneHeld, NoDeleteForgotten, LastIsNamed
<1>4. UsesOK
  BY DEF Init, SourceInit, UsesOK
<1>. QED BY <1>1, <1>2, <1>3, <1>4 DEF DInv

\* No step of the database marks or removes a delete-log row; a row it adds is one
\* it deletes, and it deletes rows by a commit only.
LEMMA DelogGrows ==
  ASSUME SourceTypeOK, SourceNext
  PROVE  /\ delog \subseteq delog' /\ delog' = delog \cup JustDeleted
         /\ JustDeleted \subseteq Rows
         /\ (scn' = scn /\ JustDeleted = {}) \/ scn' = scn + 1
<1>1. CASE scn' = scn /\ delog' = delog
  BY <1>1 DEF JustDeleted
<1>2. ASSUME NEW s \in Sessions, Commit(s) PROVE scn' = scn + 1 /\ delog' = delog \cup JustDeleted
                                               /\ JustDeleted \subseteq Rows
  <2>1. /\ session[s] # NoTransaction /\ scn' = scn + 1 /\ scn \in Nat
        /\ delog' = delog \cup session[s].dels
        /\ session' = [session EXCEPT ![s] = NoTransaction]
        /\ session \in [Sessions -> SessionState]
    BY <1>2, SourceAssumption DEF Commit, SourceTypeOK
  <2>2. {o \in Sessions : session'[o] # session[o]} = {s}
    BY <2>1
  <2>3. JustDeleted = session[s].dels
    BY <2>1, <2>2 DEF JustDeleted
  <2>. QED BY <2>1, <2>3 DEF SessionState
<1>. QED
  BY <1>1, <1>2 DEF SourceNext, Put, PutFails, Delete, Rollback, CoalesceOpen, CoalesceCommit

\* A step that leaves the database alone, or marks log rows only.
LEMMA MarkingStep ==
  ASSUME SourceInv, UNCHANGED <<rows, session, txlog, seq, scn, cursor, failed>>,
         delog' \subseteq Rows
  PROVE  SourceInv'
  BY DEF SourceInv, SourceTypeOK, SessionsOK, SessionOK, NumbersDiffer, LogOK, CoalesceOrder,
     Unstamped, Stamped, CommittedBefore, RowsAreLogged, Logged, TableOf

LEMMA SourceStep_DInv == ASSUME DInv, SourceStep PROVE DInv'
<1>. USE SourceAssumption
<1>1. /\ SourceInv /\ SourceTypeOK /\ DeleteTypeOK /\ SourceNext
      /\ UNCHANGED <<deThread, deMonitored, toScan, held, sharedTable, deletes, deleteFails,
                     lost>>
      /\ owed' = owed \cup JustDeleted
      /\ unused' = [r \in Rows |-> IF r \in JustDeleted THEN unused[r] + 1 ELSE unused[r]]
  BY DEF DInv, SourceStep, SourceInv
<1>2. /\ delog \subseteq delog' /\ delog' = delog \cup JustDeleted /\ JustDeleted \subseteq Rows
      /\ (scn' = scn /\ JustDeleted = {}) \/ scn' = scn + 1
  BY <1>1, DelogGrows
<1>3. SourceInv'
  BY <1>1, SourceNext_Inv
<1>4. scn \in Nat /\ scn' \in 0..MaxScn /\ unused \in [Rows -> 0..MaxScn]
  BY <1>1, <1>3 DEF SourceInv, SourceTypeOK, DeleteTypeOK
<1>5. UsesOK'
  <2>. SUFFICES ASSUME NEW r \in Rows PROVE
         (/\ unused[r] <= scn
          /\ \/ Doubled(r)
             \/ /\ r \in delog \cup held => unused[r] >= 1
                /\ r \in delog \cap held => unused[r] >= 2)'
    BY DEF UsesOK
  <2>1. unused[r] \in Nat /\ unused[r] <= scn
        /\ \/ Doubled(r)
           \/ /\ r \in delog \cup held => unused[r] >= 1
              /\ r \in delog \cap held => unused[r] >= 2
    BY <1>4 DEF DInv, UsesOK
  <2>2. unused'[r] = IF r \in JustDeleted THEN unused[r] + 1 ELSE unused[r]
    BY <1>1
  <2>3. unused'[r] <= scn'
    BY <2>1, <2>2, <1>2, <1>4
  <2>4. Doubled(r) => Doubled(r)'
    BY <1>2 DEF Doubled
  <2>. QED BY <2>1, <2>2, <2>3, <2>4, <1>1, <1>2
<1>6. unused' \in [Rows -> 0..MaxScn]
  <2>. SUFFICES ASSUME NEW r \in Rows PROVE unused'[r] \in 0..MaxScn
    BY <1>1
  <2>1. unused'[r] <= scn'
    BY <1>5 DEF UsesOK
  <2>. QED BY <1>1, <1>4, <2>1
<1>7. DeleteTypeOK'
  BY <1>1, <1>2, <1>6 DEF DeleteTypeOK
<1>8. OneHeld' /\ LastIsNamed'
  BY <1>1 DEF DInv, OneHeld, LastIsNamed, TableOf
<1>9. NoDeleteForgotten'
  BY <1>1, <1>2 DEF DInv, NoDeleteForgotten
<1>. QED BY <1>3, <1>5, <1>7, <1>8, <1>9 DEF DInv

LEMMA GetInfo_DInv == ASSUME DInv, NEW r \in delog, GetInfo(r) PROVE DInv'
<1>. DEFINE n == Named[r]
<1>1. /\ SourceInv /\ DeleteTypeOK /\ delog \subseteq Rows /\ r \in Rows
      /\ UNCHANGED <<rows, session, txlog, seq, scn, cursor, failed, deThread, deMonitored,
                     deletes, deleteFails, owed, unused, lost>>
      /\ delog' = delog \ {n} /\ held = {} /\ held' = {n}
      /\ sharedTable' = TableOf(r) /\ toScan' = toScan \ {TableOf(r)}
      /\ TableOf(r) \in toScan
  BY DEF DInv, GetInfo, Mark, NameFor, Scanned, SourceInv, SourceTypeOK, history
<1>2. n \in Rows /\ TableOf(n) = TableOf(r) /\ Named[n] = n
  BY <1>1, DeleteAssumption
<1>3. SourceInv'
  BY <1>1, MarkingStep
<1>4. DeleteTypeOK'
  BY <1>1, <1>2 DEF DeleteTypeOK
<1>5. OneHeld' /\ LastIsNamed'
  BY <1>1, <1>2 DEF OneHeld, LastIsNamed, TableOf
<1>6. NoDeleteForgotten'
  BY <1>1 DEF DInv, NoDeleteForgotten
<1>7. UsesOK'
  <2>. SUFFICES ASSUME NEW o \in Rows PROVE
         (/\ unused[o] <= scn
          /\ \/ Doubled(o)
             \/ /\ o \in delog \cup held => unused[o] >= 1
                /\ o \in delog \cap held => unused[o] >= 2)'
    BY DEF UsesOK
  <2>1. unused[o] <= scn
        /\ \/ Doubled(o)
           \/ /\ o \in delog \cup held => unused[o] >= 1
              /\ o \in delog \cap held => unused[o] >= 2
    BY DEF DInv, UsesOK
  <2>2. Doubled(o) => Doubled(o)'
    BY <1>1, <1>2 DEF Doubled
  <2>3. o = n => o \in delog \/ Doubled(o)'
    BY <1>1, <1>2 DEF Doubled
  <2>. QED BY <2>1, <2>2, <2>3, <1>1
<1>. QED BY <1>3, <1>4, <1>5, <1>6, <1>7 DEF DInv

LEMMA OfferDelete_DInv == ASSUME DInv, NEW r \in held, OfferDelete(r) PROVE DInv'
<1>. USE SourceAssumption
<1>1. /\ SourceInv /\ DeleteTypeOK /\ OneHeld /\ held' = {}
      /\ UNCHANGED <<sourceVars, deThread, deMonitored, toScan, sharedTable, deleteFails, lost>>
      /\ deletes' = Append(deletes, r)
      /\ owed' = IF r \in delog THEN owed ELSE owed \ {r}
      /\ unused' = [unused EXCEPT ![r] = IF unused[r] = 0 THEN 0 ELSE unused[r] - 1]
      /\ sharedTable = TableOf(r) /\ r \in Rows /\ deletes \in Seq(Rows)
      /\ unused \in [Rows -> 0..MaxScn]
  BY DEF DInv, OfferDelete, LastIsNamed, DeleteTypeOK
<1>2. SourceInv'
  BY <1>1, SourceNext_Inv
<1>3. deletes' \in Seq(Rows) /\ deletes'[Len(deletes')] = r
  BY <1>1
<1>4. unused' \in [Rows -> 0..MaxScn]
  BY <1>1
<1>5. DeleteTypeOK'
  BY <1>1, <1>3, <1>4 DEF DeleteTypeOK
<1>6. OneHeld' /\ LastIsNamed'
  BY <1>1, <1>3 DEF OneHeld, LastIsNamed, TableOf
<1>7. NoDeleteForgotten'
  BY <1>1 DEF DInv, OneHeld, NoDeleteForgotten, sourceVars
<1>8. UsesOK'
  <2>. SUFFICES ASSUME NEW o \in Rows PROVE
         (/\ unused[o] <= scn
          /\ \/ Doubled(o)
             \/ /\ o \in delog \cup held => unused[o] >= 1
                /\ o \in delog \cap held => unused[o] >= 2)'
    BY DEF UsesOK
  <2>1. unused[o] <= scn /\ scn \in Nat /\ unused[o] \in Nat
        /\ \/ Doubled(o)
           \/ /\ o \in delog \cup held => unused[o] >= 1
              /\ o \in delog \cap held => unused[o] >= 2
    BY <1>1 DEF DInv, UsesOK, SourceInv, SourceTypeOK
  <2>2. Doubled(o) => Doubled(o)'
    BY <1>1 DEF Doubled, sourceVars
  <2>3. UNCHANGED <<scn, delog>>
    BY <1>1 DEF sourceVars
  <2>4. CASE o = r
    <3>1. unused'[o] = IF unused[o] = 0 THEN 0 ELSE unused[o] - 1
      BY <1>1, <2>4
    <3>. QED BY <3>1, <2>1, <2>2, <2>3, <2>4, <1>1
  <2>5. CASE o # r
    <3>1. unused'[o] = unused[o]
      BY <1>1, <2>5
    <3>. QED BY <3>1, <2>1, <2>2, <2>3, <1>1
  <2>. QED BY <2>4, <2>5
<1>. QED BY <1>2, <1>5, <1>6, <1>7, <1>8 DEF DInv

\* Steps that move no row out of the log or into the thread's hand.
LEMMA UsesKept ==
  ASSUME UsesOK, UNCHANGED <<delog, scn, unused>>, held' \subseteq held
  PROVE  UsesOK'
  BY DEF UsesOK, Doubled

\* The connection is lost, perhaps with the row whose update was being executed.
LEMMA LoseConnection_DInv == ASSUME DInv, LoseConnection PROVE DInv'
<1>. USE DeleteAssumption
<1>1. /\ SourceInv /\ DeleteTypeOK /\ deleteFails < MaxDeleteFails
      /\ deleteFails' = deleteFails + 1 /\ deThread' = "deaf"
      /\ UNCHANGED <<rows, session, txlog, seq, scn, cursor, failed, deMonitored, toScan, held,
                     sharedTable, deletes, owed, unused>>
      /\ delog \subseteq Rows
  BY DEF DInv, LoseConnection, SourceInv, SourceTypeOK
<1>2. \/ UNCHANGED <<delog, lost>>
      \/ \E r \in delog : /\ held = {}
                           /\ delog' = delog \ {Named[r]} /\ lost' = lost \cup {Named[r]}
  BY DEF LoseConnection, Mark
<1>3. SourceInv'
  BY <1>1, <1>2, MarkingStep
<1>4. DeleteTypeOK'
  <2>1. lost' \subseteq Rows
    BY <1>1, <1>2 DEF DeleteTypeOK
  <2>. QED BY <1>1, <2>1 DEF DeleteTypeOK
<1>5. OneHeld' /\ LastIsNamed'
  BY <1>1 DEF DInv, OneHeld, LastIsNamed, TableOf
<1>6. NoDeleteForgotten'
  BY <1>1, <1>2 DEF DInv, NoDeleteForgotten
<1>7. UsesOK'
  <2>1. CASE delog' = delog
    BY <1>1, <2>1, UsesKept DEF DInv
  <2>2. ASSUME NEW r \in delog, held = {}, delog' = delog \ {Named[r]} PROVE UsesOK'
    <3>1. \A o \in Rows : Doubled(o) => Doubled(o)' \/ o \notin delog' \cup held
      BY <1>1, <2>2 DEF Doubled
    <3>. QED BY <1>1, <2>2, <3>1 DEF DInv, UsesOK
  <2>. QED BY <1>2, <2>1, <2>2
<1>. QED BY <1>3, <1>4, <1>5, <1>6, <1>7 DEF DInv

\* The thread is made, a pass begins, a table is skipped or added.
LEMMA Pass_DInv ==
  ASSUME DInv,
         \/ NewThread \/ StartPass
         \/ \E t \in toScan : ScanEmpty(t) \/ ScanFails(t) \/ ScanStops(t)
         \/ \E t \in Tables : AddDeleteTable(t)
         \/ UNCHANGED vars
  PROVE  DInv'
<1>. USE DeleteAssumption
<1>1. /\ SourceInv /\ DeleteTypeOK /\ toScan' \subseteq Tables /\ deMonitored' \subseteq Tables
      /\ \/ deleteFails' = deleteFails
         \/ deleteFails < MaxDeleteFails /\ deleteFails' = deleteFails + 1
      /\ deThread' \in {deThread, "running", "ended"}
      /\ UNCHANGED <<sourceVars, held, sharedTable, deletes, owed, unused, lost>>
  BY DEF DInv, DeleteTypeOK, NewThread, StartPass, ScanEmpty, ScanFails, ScanStops, Scanned,
     AddDeleteTable, vars, deleteVars, history
<1>2. SourceInv'
  BY <1>1, SourceNext_Inv
<1>3. DeleteTypeOK'
  BY <1>1 DEF DeleteTypeOK
<1>4. OneHeld' /\ LastIsNamed' /\ NoDeleteForgotten'
  BY <1>1 DEF DInv, OneHeld, LastIsNamed, NoDeleteForgotten, TableOf, sourceVars
<1>5. UsesOK'
  BY <1>1, UsesKept DEF DInv, sourceVars
<1>. QED BY <1>2, <1>3, <1>4, <1>5 DEF DInv

LEMMA Poll_DInv == ASSUME DInv, Poll PROVE DInv'
<1>1. /\ SourceInv /\ DeleteTypeOK /\ deletes # <<>> /\ deletes' = Tail(deletes)
      /\ UNCHANGED <<sourceVars, deThread, deMonitored, toScan, held, sharedTable, deleteFails,
                     owed, unused, lost>>
      /\ deletes \in Seq(Rows)
  BY DEF DInv, Poll, DeleteTypeOK, history
<1>2. SourceInv'
  BY <1>1, SourceNext_Inv
<1>3. DeleteTypeOK'
  BY <1>1 DEF DeleteTypeOK
<1>4. deletes' # <<>> => deletes'[Len(deletes')] = deletes[Len(deletes)]
  BY <1>1
<1>5. OneHeld' /\ LastIsNamed' /\ NoDeleteForgotten'
  BY <1>1, <1>4 DEF DInv, OneHeld, LastIsNamed, NoDeleteForgotten, TableOf, sourceVars
<1>6. UsesOK'
  BY <1>1, UsesKept DEF DInv, sourceVars
<1>. QED BY <1>2, <1>3, <1>5, <1>6 DEF DInv

LEMMA Restart_DInv == ASSUME DInv, Restart PROVE DInv'
<1>. USE DeleteAssumption
<1>1. /\ SourceInv /\ DeleteTypeOK /\ UNCHANGED <<sourceVars, owed, unused>>
      /\ deleteFails < MaxDeleteFails /\ deleteFails' = deleteFails + 1
      /\ deThread' = "none" /\ deMonitored' = {} /\ toScan' = {} /\ held' = {}
      /\ sharedTable' = All
      /\ deletes' = <<>> /\ lost' = lost \cup held
  BY DEF DInv, Restart
<1>2. SourceInv'
  BY <1>1, SourceNext_Inv
<1>3. DeleteTypeOK'
  BY <1>1 DEF DeleteTypeOK
<1>4. OneHeld' /\ LastIsNamed' /\ NoDeleteForgotten'
  BY <1>1 DEF DInv, OneHeld, LastIsNamed, NoDeleteForgotten, sourceVars
<1>5. UsesOK'
  BY <1>1, UsesKept DEF DInv, sourceVars
<1>. QED BY <1>2, <1>3, <1>4, <1>5 DEF DInv

LEMMA Next_DInv == DInv /\ [Next]_vars => DInv'
<1>. SUFFICES ASSUME DInv, [Next]_vars PROVE DInv'
  OBVIOUS
<1>1. CASE SourceStep
  BY <1>1, SourceStep_DInv
<1>2. ASSUME NEW r \in delog, GetInfo(r) PROVE DInv'
  BY <1>2, GetInfo_DInv
<1>3. ASSUME NEW r \in held, OfferDelete(r) PROVE DInv'
  BY <1>3, OfferDelete_DInv
<1>4. CASE Poll
  BY <1>4, Poll_DInv
<1>5. CASE Restart
  BY <1>5, Restart_DInv
<1>. QED BY <1>1, <1>2, <1>3, <1>4, <1>5, LoseConnection_DInv, Pass_DInv DEF Next, DeleteThread

\* The inductive invariant holds in every reachable state of the delete thread
\* beside the source database.
THEOREM DeletesCorrect == Spec => []DInv
<1>. QED BY Init_DInv, Next_DInv, PTL DEF Spec

\* Every variable of the delete thread and of the source database keeps its type.
THEOREM DeleteTypes == Spec => []TypeOK
<1>1. DInv => TypeOK
  BY DEF DInv, SourceInv, TypeOK
<1>. QED BY <1>1, DeletesCorrect, PTL

\* A committed deletion without a message is in its log table or in the thread's
\* hands, unless a restart hit the thread between the mark and the queue.
THEOREM NoDeleteIsForgotten == Spec => []NoDeleteForgotten
<1>1. DInv => NoDeleteForgotten
  BY DEF DInv
<1>. QED BY <1>1, DeletesCorrect, PTL

\* Each message pays for a deletion of its own, unless its row is read for another
\* whose key the thread cuts.
THEOREM NoDeleteIsMessagedTwice == Spec => []MessagedOnce
<1>1. DInv => MessagedOnce
  BY DEF DInv, DeleteTypeOK, UsesOK, MessagedOnce
<1>. QED BY <1>1, DeletesCorrect, PTL

\* The shared table name is right for the row in hand and for the last message.
THEOREM LastMessageIsNamed == Spec => []LastIsNamed
<1>1. DInv => LastIsNamed
  BY DEF DInv
<1>. QED BY <1>1, DeletesCorrect, PTL
===============================================================================
