----------------------------- MODULE TxlogCapture -----------------------------
(***************************************************************************)
(* MonitorInsertAndUpdateThread, with MonitorTxlog and SelectData: the      *)
(* thread that turns the change log of one source schema into messages for  *)
(* the sender.  One turn of its loop reads the change-log rows above        *)
(* fromScn into a list (Monitor); for each of them it advances fromScn,     *)
(* selects the rows that still carry the transaction's number (Select) and  *)
(* puts one message per row on the queue (Offer).  Everything the thread    *)
(* holds is in memory and starts again from nothing with the process.       *)
(*                                                                          *)
(* The thread is made once, with one connection.  When the connection is    *)
(* lost, every later query of the thread throws; a row with a null date     *)
(* ends the thread by an exception nothing catches.  Masks are read as Java *)
(* integers, which have 31 bits for them: one that does not fit makes every *)
(* reading of the log throw, and the search for the bit of one that has the *)
(* highest of the 31 beside others does not end.  In all these cases the    *)
(* MonitorThreadManager still has the thread, and nothing replaces it       *)
(* before the process ends.                                                 *)
(***************************************************************************)
EXTENDS SourceDB, Sequences

CONSTANTS
  Bit,       \* the number each source has in sy$sources
  Undated,   \* versions of rows in which a date column is null
  MaxQueue,  \* bound: messages on the (really unbounded) queue
  MaxFails   \* bound: queries that fail, connections lost, and restarts

\* The version of a row that a transaction has written.
Change == [row: Rows, txn: 1..MaxTxn]

ASSUME CaptureAssumption ==
  /\ Bit \in [Tables -> Nat]
  /\ Undated \subseteq Change
  /\ MaxQueue \in Nat
  /\ MaxFails \in Nat

VARIABLES
  thread,      \* "none" yet, "running", "deaf" without its connection, or "ended" for good
  monitored,   \* tables of the thread's MonitorTableManager
  fromScn,     \* highest scn the thread has taken up since it started
  txlogs,      \* transactions of the list it is working through
  datas,       \* messages selected and not yet on the queue
  queue,       \* the queue shared with the delete monitor and the sender
  fails        \* failures so far

\* History of the thread, read by the properties only.
VARIABLES
  seen,        \* transactions taken up since the last restart
  missed,      \* those of them whose rows were not read
  lastOffered  \* version of every row last put on the queue, 0 for none

threadVars == <<fromScn, txlogs, datas, seen, missed>>
captureVars == <<thread, monitored, threadVars, queue, fails, lastOffered>>
vars == <<sourceVars, captureVars>>

CaptureTypeOK ==
  /\ thread \in {"none", "running", "deaf", "ended"}
  /\ monitored \subseteq Tables
  /\ fromScn \in 0..MaxScn
  /\ txlogs \subseteq 1..MaxTxn
  /\ datas \subseteq Change
  /\ queue \in Seq(Change)
  /\ fails \in 0..MaxFails
  /\ seen \subseteq 1..MaxTxn
  /\ missed \subseteq 1..MaxTxn
  /\ lastOffered \in [Rows -> 0..MaxTxn]

\* Every variable keeps its type.
TypeOK == SourceTypeOK /\ CaptureTypeOK

CaptureInit ==
  /\ thread = "none"
  /\ monitored = {}
  /\ fromScn = 0
  /\ txlogs = {}
  /\ datas = {}
  /\ queue = <<>>
  /\ fails = 0
  /\ seen = {}
  /\ missed = {}
  /\ lastOffered = [r \in Rows |-> 0]

Init == SourceInit /\ CaptureInit

-----------------------------------------------------------------------------
\* A mask MonitorTxlog can name: a power of two, the bit of a single source.
Valid(mask) == \E t \in Tables : mask = {t}

\* MaskName of transaction x: the source whose bit the mask is.
MaskName(x) == CHOOSE t \in Tables : txlog[x].mask = {t}

\* Variants: without the upper bound; off by one.
AboveUnbounded(s) == {x \in DOMAIN txlog : txlog[x].scn > s /\ Valid(txlog[x].mask)}
AboveNext(s) == {x \in DOMAIN txlog : /\ txlog[x].scn > s + 1
                                      /\ txlog[x].scn < Infinity
                                      /\ Valid(txlog[x].mask)}

\* select * from sy$txlog where scn > fromScn and scn < infinity, without the
\* rows whose mask names no single source.
Above(s) == {x \in DOMAIN txlog : /\ txlog[x].scn > s
                                  /\ txlog[x].scn < Infinity
                                  /\ Valid(txlog[x].mask)}

\* Variant: without "where txn =".
RowsOfTable(x) == {c \in Change : /\ c.txn = x
                                 /\ TableOf(c.row) = MaskName(x)
                                 /\ rows[c.row] # 0}

\* The rows of a transaction's table that carry its number now.
RowsOf(x) == {c \in Change : /\ c.txn = x
                             /\ TableOf(c.row) = MaskName(x)
                             /\ rows[c.row] = x}

HigherScn(x) == IF fromScn < txlog[x].scn THEN txlog[x].scn ELSE fromScn

\* addNewMonitorSource makes the thread.  Without a connection the constructor throws,
\* and there is none; without a statement, which only MonitorTxlog catches, the thread
\* ends in its first turn.
NewThread ==
  /\ thread = "none"
  /\ \/ thread' = "running" /\ UNCHANGED fails
     \/ /\ fails < MaxFails
        /\ fails' = fails + 1
        /\ thread' = "ended"
  /\ UNCHANGED <<sourceVars, monitored, threadVars, queue, lastOffered>>

\* The connection of the thread breaks; there is no other.
LoseConnection ==
  /\ thread = "running"
  /\ fails < MaxFails
  /\ fails' = fails + 1
  /\ thread' = "deaf"
  /\ UNCHANGED <<sourceVars, monitored, threadVars, queue, lastOffered>>

Read(s) == {x \in DOMAIN txlog : txlog[x].scn > s /\ txlog[x].scn < Infinity}

\* getInt throws: the mask is 2^31 or more.
TooWide(x) == \E t \in txlog[x].mask : Bit[t] >= 31

\* The power of two that the mask is compared with goes from 2^30 over -2^31 to 0.
Endless(x) == ~TooWide(x) /\ ~Valid(txlog[x].mask) /\ \E t \in txlog[x].mask : Bit[t] = 30

\* MonitorTxlog.monitor; on an exception the list is empty, and the thread tries again.
Monitor ==
  /\ thread = "running"
  /\ txlogs = {}
  /\ datas = {}
  /\ \A x \in Read(fromScn) : ~TooWide(x) /\ ~Endless(x)
  /\ Above(fromScn) # {}
  /\ txlogs' = Above(fromScn)
  /\ UNCHANGED <<sourceVars, thread, monitored, fromScn, datas, queue, fails, seen, missed,
                 lastOffered>>

MonitorHangs ==
  /\ thread = "running"
  /\ txlogs = {}
  /\ datas = {}
  /\ \E x \in Read(fromScn) : Endless(x)
  /\ thread' = "ended"
  /\ UNCHANGED <<sourceVars, monitored, threadVars, queue, fails, lastOffered>>

\* Variant: while messages of the transaction before are still in datas.
TakeUpEarly(x) ==
  /\ thread \in {"running", "deaf"}
  /\ x \in txlogs
  /\ txlogs' = txlogs \ {x}
  /\ fromScn' = HigherScn(x)
  /\ seen' = seen \cup {x}

\* The query has no ORDER BY: any transaction of the list may be the next.
TakeUp(x) ==
  /\ thread \in {"running", "deaf"}
  /\ datas = {}
  /\ x \in txlogs
  /\ txlogs' = txlogs \ {x}
  /\ fromScn' = HigherScn(x)
  /\ seen' = seen \cup {x}

\* A row of the transaction has a null date, which SelectData formats.
SelectThrows(x) == RowsOf(x) \cap Undated # {}

\* For a table the manager has not got nothing is asked.
Select(x) ==
  /\ TakeUp(x)
  /\ IF MaskName(x) \in monitored
     THEN /\ thread = "running" /\ ~SelectThrows(x)
          /\ datas' = RowsOf(x)
          /\ UNCHANGED missed
     ELSE missed' = missed \cup {x} /\ UNCHANGED datas
  /\ UNCHANGED <<sourceVars, thread, monitored, queue, fails, lastOffered>>

\* The query throws, for once or because the connection is gone: the list of
\* messages stays empty, fromScn has moved on.
SelectFails(x) ==
  /\ TakeUp(x)
  /\ MaskName(x) \in monitored
  /\ \/ thread = "deaf" /\ UNCHANGED fails
     \/ fails < MaxFails /\ fails' = fails + 1
  /\ missed' = missed \cup {x}
  /\ UNCHANGED <<sourceVars, thread, monitored, datas, queue, lastOffered>>

\* The NullPointerException of a null date ends the thread.
SelectEnds(x) ==
  /\ TakeUp(x)
  /\ MaskName(x) \in monitored
  /\ thread = "running" /\ SelectThrows(x)
  /\ thread' = "ended"
  /\ missed' = missed \cup {x}
  /\ UNCHANGED <<sourceVars, monitored, datas, queue, fails, lastOffered>>

Offer(c) ==
  /\ c \in datas
  /\ Len(queue) < MaxQueue
  /\ datas' = datas \ {c}
  /\ queue' = Append(queue, c)
  /\ lastOffered' = [lastOffered EXCEPT ![c.row] = c.txn]
  /\ UNCHANGED <<sourceVars, thread, monitored, fromScn, txlogs, fails, seen, missed>>

\* A table is added to the thread's MonitorTableManager.
AddMonitorTable(t) ==
  /\ thread # "none"
  /\ t \notin monitored
  /\ monitored' = monitored \cup {t}
  /\ UNCHANGED <<sourceVars, thread, threadVars, queue, fails, lastOffered>>

\* The process stops and starts again: queue and thread will be new, and the tables
\* are added again one by one while the new thread is already running.
Restart ==
  /\ fails < MaxFails
  /\ fails' = fails + 1
  /\ thread' = "none"
  /\ monitored' = {}
  /\ fromScn' = 0
  /\ txlogs' = {}
  /\ datas' = {}
  /\ queue' = <<>>
  /\ seen' = {}
  /\ missed' = {}
  /\ UNCHANGED <<sourceVars, lastOffered>>

\* The sender takes the oldest message.
Poll ==
  /\ queue # <<>>
  /\ queue' = Tail(queue)
  /\ UNCHANGED <<sourceVars, thread, monitored, threadVars, fails, lastOffered>>

Thread ==
  \/ Monitor
  \/ MonitorHangs
  \/ \E x \in txlogs : Select(x) \/ SelectFails(x) \/ SelectEnds(x)
  \/ \E c \in datas : Offer(c)

Next ==
  \/ SourceNext /\ UNCHANGED captureVars
  \/ NewThread
  \/ LoseConnection
  \/ Thread
  \/ \E t \in Tables : AddMonitorTable(t)
  \/ Restart
  \/ Poll

Spec == Init /\ [][Next]_vars

\* The loop of the thread, until it ends, and that of the sender run for ever, the
\* coalesce job every two seconds.  Nothing is assumed of queries, of the connection and
\* of those who make the thread and add tables.
FairSpec ==
  /\ Spec
  /\ WF_vars(CoalesceOpen /\ UNCHANGED captureVars)
  /\ WF_vars(CoalesceCommit /\ UNCHANGED captureVars)
  /\ WF_vars(Thread)
  /\ WF_vars(Poll)

-----------------------------------------------------------------------------
\* The thread skips no transaction: although fromScn jumps over the scns of its
\* unordered list, and although coalesce_log stamps transactions long after they
\* committed, a stamped transaction at or below fromScn has been taken up or is
\* in the list.
NothingSkipped ==
  \A x \in DOMAIN txlog :
    /\ Valid(txlog[x].mask)
    /\ txlog[x].scn < Infinity
    /\ txlog[x].scn <= fromScn
    => x \in seen \cup txlogs

\* A row's messages enter the queue in the order of the commits they stand for,
\* over restarts too: the thread never puts an older version of a row behind a
\* newer one, in spite of the missing ORDER BY.
OfferOrder ==
  [][\A r \in Rows :
       lastOffered[r] # 0 =>
         txlog[lastOffered[r]].oraRowscn <= txlog[lastOffered'[r]].oraRowscn]_vars

\* What MonitorTxlog reports of version x of row r: nothing, when the mask has
\* the bits of two sources or of the wrong one.
Announced(r, x) == txlog[x].mask = {TableOf(r)}

\* Every announced version of a row is put on the queue, as long as the thread has
\* neither ended nor lost its connection and can read the masks of the log, unless a
\* later transaction replaces the version or its rows were not read, because the table
\* was not monitored yet or the query failed.
EventuallyOffered ==
  \A r \in Rows, x \in 1..MaxTxn :
    rows[r] = x /\ Announced(r, x) /\ thread = "running" ~>
      \/ lastOffered[r] = x \/ rows[r] # x \/ x \in missed
      \/ thread # "running"
      \/ \E y \in Read(fromScn) : TooWide(y)

-----------------------------------------------------------------------------
\* Whatever a row's transaction was numbered, its version is the commit's scn.
VersionOf(x) == txlog[x].oraRowscn
MessageOf(c) == [row |-> c.row, version |-> VersionOf(c.txn)]

Feed == INSTANCE VersionFeed WITH
  clock <- scn,
  current <- [r \in Rows |-> IF rows[r] = 0 THEN 0 ELSE VersionOf(rows[r])],
  held <- {MessageOf(c) : c \in datas},
  queue <- [i \in DOMAIN queue |-> MessageOf(queue[i])]

\* The capture thread with the source schema below it is a version feed: it reads
\* rows of one commit that are current when it reads them, and neither the late
\* stamps nor the unordered list show in the messages.
ImplementsFeed == Feed!Spec

-----------------------------------------------------------------------------
(***************************************************************************)
(* The inductive invariant.                                                *)
(***************************************************************************)
Readable(x) == Stamped(x) /\ Valid(txlog[x].mask)

\* fromScn has not reached an unstamped transaction, and the list is complete
\* below each of its members.
ListOK ==
  /\ fromScn <= scn
  /\ \A y \in Unstamped : fromScn < txlog[y].oraRowscn
  /\ \A x \in txlogs :
       /\ Readable(x)
       /\ \A z \in DOMAIN txlog :
            Readable(z) /\ txlog[z].scn <= txlog[x].scn => z \in seen \cup txlogs

NotAfter(x, y) == txlog[x].oraRowscn <= txlog[y].oraRowscn

\* What was offered last of a row, what is selected of it and its committed
\* version follow each other in commit order; the messages in datas come from
\* one transaction.
OffersOK ==
  /\ \A r \in Rows :
       lastOffered[r] # 0 =>
         /\ Logged(lastOffered[r])
         /\ rows[r] # 0 => NotAfter(lastOffered[r], rows[r])
  /\ \A c \in datas :
       /\ Logged(c.txn)
       /\ rows[c.row] # 0 => NotAfter(c.txn, rows[c.row])
       /\ lastOffered[c.row] # 0 => NotAfter(lastOffered[c.row], c.txn)
       /\ \A d \in datas : d.txn = c.txn

IInv == SourceInv /\ CaptureTypeOK /\ ListOK /\ NothingSkipped /\ OffersOK
===============================================================================
