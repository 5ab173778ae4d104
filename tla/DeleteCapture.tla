---------------------------- MODULE DeleteCapture -----------------------------
(***************************************************************************)
(* MonitorDeleteThread: the thread that turns the delete logs sy$de<table>  *)
(* of one source schema into messages for the sender.  For each of its      *)
(* tables in turn it selects the rows with ISSYN = 0, marks one of them     *)
(* (the update is committed at once, and closes the result set it runs in,  *)
(* so that a scan yields one row at most) and then puts its message on the  *)
(* queue.  Every message refers to the same SourceInfo object, whose table  *)
(* name the thread sets again for each row it marks.                        *)
(*                                                                          *)
(* The update is put together from the values read: a string key with an    *)
(* apostrophe makes it malformed, and a number is read with getLong, which  *)
(* cuts its fraction, so that the update and the message name another row.  *)
(*                                                                          *)
(* The thread is made once, with one connection and one statement.  When it *)
(* lacks either, it ends after a line on the console; when it loses the     *)
(* connection every later query throws, and it goes on asking.  Nobody is   *)
(* told, and nothing replaces the thread before the process ends.           *)
(***************************************************************************)
EXTENDS SourceDB, Sequences

CONSTANTS
  All,            \* the table name of the SourceInfo before the first delete
  Unmarkable,     \* rows whose key, put into the update, makes it malformed
  Named,          \* the row whose key the update and the message of a row name
  MaxDeletes,     \* bound: delete messages on the (really unbounded) queue
  MaxDeleteFails  \* bound: SQL failures of the thread, connections lost, and restarts

ASSUME DeleteAssumption ==
  /\ All \notin Tables
  /\ Unmarkable \subseteq Rows
  /\ Named \in [Rows -> Rows]
  /\ \A r \in Rows : TableOf(Named[r]) = TableOf(r) /\ Named[Named[r]] = Named[r]
  /\ MaxDeletes \in Nat
  /\ MaxDeleteFails \in Nat

VARIABLES
  deThread,      \* "none" yet, "running", "deaf" without its connection, or "ended" for good
  deMonitored,   \* tables of the thread's MonitorTableManager
  toScan,        \* tables this pass over them has not come to yet
  held,          \* the row marked and not yet on the queue, if any
  sharedTable,   \* table name of the SourceInfo all messages refer to
  deletes,       \* delete messages on the queue, as the rows they stand for
  deleteFails    \* failures so far

\* History of the thread, read by the properties only.
VARIABLES
  owed,          \* rows whose last committed deletion has not got a message yet
  unused,        \* of every row the deletions committed for which none was queued
  lost           \* rows a restart or a lost connection caught between the mark and the queue

history == <<owed, unused, lost>>
deleteVars == <<deThread, deMonitored, toScan, held, sharedTable, deletes, deleteFails,
                owed, unused, lost>>
vars == <<sourceVars, deleteVars>>

DeleteTypeOK ==
  /\ deThread \in {"none", "running", "deaf", "ended"}
  /\ deMonitored \subseteq Tables
  /\ toScan \subseteq Tables
  /\ held \subseteq Rows
  /\ sharedTable \in Tables \cup {All}
  /\ deletes \in Seq(Rows)
  /\ deleteFails \in 0..MaxDeleteFails
  /\ owed \subseteq Rows
  /\ unused \in [Rows -> 0..MaxScn]
  /\ lost \subseteq Rows

\* Every variable keeps its type.
TypeOK == SourceTypeOK /\ DeleteTypeOK

Init ==
  /\ SourceInit
  /\ deThread = "none"
  /\ deMonitored = {}
  /\ toScan = {}
  /\ held = {}
  /\ sharedTable = All
  /\ deletes = <<>>
  /\ deleteFails = 0
  /\ owed = {}
  /\ unused = [r \in Rows |-> 0]
  /\ lost = {}

-----------------------------------------------------------------------------
\* The rows whose deletion the step, if it is a commit, logs.
JustDeleted ==
  IF scn' = scn THEN {}
  ELSE UNION {session[s].dels : s \in {o \in Sessions : session'[o] # session[o]}}

\* A step of the database; the commit of a delete makes its message due.
SourceStep ==
  /\ SourceNext
  /\ owed' = owed \cup JustDeleted
  /\ unused' = [r \in Rows |-> IF r \in JustDeleted THEN unused[r] + 1 ELSE unused[r]]
  /\ UNCHANGED <<deThread, deMonitored, toScan, held, sharedTable, deletes, deleteFails, lost>>

\* addNewMonitorSource makes the thread.  Without a connection or a statement run comes
\* to its end at once, and the request that made the thread goes on.
NewThread ==
  /\ deThread = "none"
  /\ \/ deThread' = "running" /\ UNCHANGED deleteFails
     \/ /\ deleteFails < MaxDeleteFails
        /\ deleteFails' = deleteFails + 1
        /\ deThread' = "ended"
  /\ UNCHANGED <<sourceVars, deMonitored, toScan, held, sharedTable, deletes, history>>

\* The for loop starts again, over the tables the manager has now.
StartPass ==
  /\ deThread \in {"running", "deaf"}
  /\ toScan = {}
  /\ held = {}
  /\ deMonitored # {}
  /\ toScan' = deMonitored
  /\ UNCHANGED <<sourceVars, deThread, deMonitored, held, sharedTable, deletes, deleteFails,
                 history>>

Scanned(t) ==
  /\ deThread \in {"running", "deaf"}
  /\ held = {}
  /\ t \in toScan
  /\ toScan' = toScan \ {t}

\* Variant: the table is left although it has rows to send.
ScanSkips(t) ==
  /\ Scanned(t)
  /\ UNCHANGED <<sourceVars, deThread, deMonitored, held, sharedTable, deletes, deleteFails,
                 history>>

ScanEmpty(t) ==
  /\ Scanned(t)
  /\ deThread = "running"
  /\ \A r \in delog : TableOf(r) # t
  /\ UNCHANGED <<sourceVars, deThread, deMonitored, held, sharedTable, deletes, deleteFails,
                 history>>

\* The select or the update throws, for once or because the connection is gone: the
\* loop goes on with the next table.
ScanFails(t) ==
  /\ Scanned(t)
  /\ \/ deThread = "deaf" /\ UNCHANGED deleteFails
     \/ deleteFails < MaxDeleteFails /\ deleteFails' = deleteFails + 1
  /\ UNCHANGED <<sourceVars, deThread, deMonitored, held, sharedTable, deletes, history>>

\* A row is read whose update cannot be executed: the loop goes on likewise, and
\* meets the row again in its next pass.
ScanStops(t) ==
  /\ Scanned(t)
  /\ deThread = "running"
  /\ \E r \in delog \cap Unmarkable : TableOf(r) = t
  /\ UNCHANGED <<sourceVars, deThread, deMonitored, held, sharedTable, deletes, deleteFails,
                 history>>

\* Variant: the update is forgotten.
MarkNone(r) == UNCHANGED delog

\* update sy$de<table> set ISSYN=1 where <key of r> and ISSYN=0: every unmarked
\* log row of the key that the statement names.
Mark(r) == delog' = delog \ {Named[r]}

\* Variant: the name is set once.
NameOnce(r) == IF sharedTable = All THEN TableOf(r) ELSE sharedTable

\* sourceInfo.setTableName: the name of the delete log without its prefix.
NameFor(r) == TableOf(r)

\* getInfo for a row of the result set, which has no ORDER BY.
GetInfo(r) ==
  /\ Scanned(TableOf(r))
  /\ deThread = "running"
  /\ r \in delog \ Unmarkable
  /\ Mark(r)
  /\ held' = {Named[r]}
  /\ sharedTable' = NameFor(r)
  /\ UNCHANGED <<rows, session, txlog, seq, scn, cursor, failed, deThread, deMonitored,
                 deletes, deleteFails, history>>

\* The connection of the thread breaks, perhaps between an update and its answer: the
\* row is marked then, and getInfo throws.
LoseConnection ==
  /\ deThread = "running"
  /\ deleteFails < MaxDeleteFails
  /\ deleteFails' = deleteFails + 1
  /\ deThread' = "deaf"
  /\ \/ UNCHANGED <<delog, lost>>
     \/ \E r \in delog \ Unmarkable :
          /\ held = {} /\ TableOf(r) \in toScan
          /\ Mark(r)
          /\ lost' = lost \cup {Named[r]}
  /\ UNCHANGED <<rows, session, txlog, seq, scn, cursor, failed, deMonitored, toScan, held,
                 sharedTable, deletes, owed, unused>>

\* Variant: the queue is bounded, and the result of offer is still not looked at.
OfferDeleteBounded(r) ==
  /\ r \in held
  /\ held' = {}
  /\ IF Len(deletes) < 1
     THEN /\ deletes' = Append(deletes, r)
          /\ owed' = IF r \in delog THEN owed ELSE owed \ {r}
     ELSE UNCHANGED <<deletes, owed>>
  /\ UNCHANGED unused
  /\ UNCHANGED <<sourceVars, deThread, deMonitored, toScan, sharedTable, deleteFails, lost>>

\* queue.offer; a deletion committed since the mark still has its own log row.
OfferDelete(r) ==
  /\ r \in held
  /\ Len(deletes) < MaxDeletes
  /\ held' = {}
  /\ deletes' = Append(deletes, r)
  /\ owed' = IF r \in delog THEN owed ELSE owed \ {r}
  /\ unused' = [unused EXCEPT ![r] = IF @ = 0 THEN 0 ELSE @ - 1]
  /\ UNCHANGED <<sourceVars, deThread, deMonitored, toScan, sharedTable, deleteFails, lost>>

AddDeleteTable(t) ==
  /\ deThread # "none"
  /\ t \notin deMonitored
  /\ deMonitored' = deMonitored \cup {t}
  /\ UNCHANGED <<sourceVars, deThread, toScan, held, sharedTable, deletes, deleteFails, history>>

\* The process stops and starts again; what it held in memory is gone.
Restart ==
  /\ deleteFails < MaxDeleteFails
  /\ deleteFails' = deleteFails + 1
  /\ deThread' = "none"
  /\ deMonitored' = {}
  /\ toScan' = {}
  /\ held' = {}
  /\ sharedTable' = All
  /\ deletes' = <<>>
  /\ lost' = lost \cup held
  /\ UNCHANGED <<sourceVars, owed, unused>>

\* The sender takes the oldest message.
Poll ==
  /\ deletes # <<>>
  /\ deletes' = Tail(deletes)
  /\ UNCHANGED <<sourceVars, deThread, deMonitored, toScan, held, sharedTable, deleteFails,
                 history>>

DeleteThread ==
  \/ StartPass
  \/ \E t \in toScan : ScanEmpty(t) \/ ScanFails(t) \/ ScanStops(t)
  \/ \E r \in delog : GetInfo(r)
  \/ \E r \in held : OfferDelete(r)

Next ==
  \/ SourceStep
  \/ NewThread
  \/ LoseConnection
  \/ DeleteThread
  \/ \E t \in Tables : AddDeleteTable(t)
  \/ Restart
  \/ Poll

Spec == Init /\ [][Next]_vars

\* The loop of the thread, once it is reached, and that of the sender run for ever.
\* Nothing is assumed of the connection and of those who make the thread and add tables.
FairSpec == Spec /\ WF_vars(DeleteThread) /\ WF_vars(Poll)

-----------------------------------------------------------------------------
\* No deletion falls between the log and the queue: while a committed deletion
\* has no message its log row is unmarked or the thread has it in hand, unless
\* the process stopped or the connection broke just there.
NoDeleteForgotten == owed \subseteq delog \cup held \cup lost

\* The name the sender reads from a delete message is that of the row the thread
\* marked last: of the messages before the last one it may be wrong.
LastIsNamed ==
  /\ \A r \in held : sharedTable = TableOf(r)
  /\ held = {} /\ deletes # <<>> => sharedTable = TableOf(deletes[Len(deletes)])

\* A key is read whose fraction the thread cuts off, and which reads r then.
Doubled(r) == \E q \in delog : q # r /\ Named[q] = r

\* A deletion is messaged once: the thread takes a row in hand only for a deletion
\* no message has been queued for, over failures, restarts and deletions of the
\* same key in between; the rows it takes for others with a fraction excepted.
MessagedOnce == \A r \in held : unused[r] > 0 \/ Doubled(r)

\* The inductive form: a deletion unused for the log row, and one for the row in hand.
UsesOK ==
  \A r \in Rows :
    /\ unused[r] <= scn
    /\ \/ Doubled(r)
       \/ /\ r \in delog \cup held => unused[r] >= 1
          /\ r \in delog \cap held => unused[r] >= 2

\* The table's log holds a row the thread cannot mark, and may come to first in
\* every pass.
Blocked(t) == \E r \in delog : TableOf(r) = t /\ (r \in Unmarkable \/ Named[r] # r)

\* A committed deletion of a table the thread has gets its message, over failures of
\* SQL and restarts, as long as the thread has neither ended nor lost its connection;
\* unless a restart or the loss comes between the mark and the queue, the table is not
\* added again, or its log is blocked.
EventuallyMessaged ==
  \A r \in Rows :
    r \in owed /\ TableOf(r) \in deMonitored /\ deThread = "running" ~>
      \/ r \notin owed \/ r \in lost
      \/ deThread # "running"
      \/ TableOf(r) \notin deMonitored \/ Blocked(TableOf(r))
===============================================================================
