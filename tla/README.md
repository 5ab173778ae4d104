# Verification of osync

osync copies the contents of Oracle tables from one database into others while applications keep
writing to the source. This directory holds TLA+ models of its core, the TLC runs that check them
on small instances, and theorems that TLAPS proves for every instance.

`J` below stands for `src/jtang-osync/src/com/jtang`. The repository has no documentation of its
own: comments in the code (mostly Chinese) and the status values listed there are the only
statements of intent, besides the code itself.

## 1. The system

A node is one JVM (`J/common/program/start/StartRun.java`). It listens on port 8880 for messages of
other nodes and on port 8889 for HTTP commands, and runs the threads below. Every node has all
parts; which of them work depends on the table maps it knows.

```
 application --DML--> Oracle (source)                               Oracle (target)
                      triggers, sync_core                                ^
                      sy$txlog   sy$de<table>                            | OperateDB
                         |            |                                  |
     MonitorInsertAndUpdate   MonitorDelete                        SynServerHandler
             Thread              Thread                              ^          |
                 \              /                                    | TCP      | reply
                  v            v                                     |          v
               ConcurrentLinkedQueue --> SynClient --ChannelManager--+    SynClientHandler
                                            |                                   |
                                            +----> MySQL: record, mapJson <-----+
```

### 1.1 Components

1. **Change log of the source schema** (`J/monitor/config/base/ProcConfig`, `TriggerConfig`,
   `DeTxlogTableAndTrg`, `TableConfig`). *State*: the column `txn` of every row, `sy$txlog`
   (txn, scn, mask), `sy$de<table>` (key, issyn), the sequence `sy$scn_seq`, the package variables
   of each session. *Operations*: `getTxn`, called by a trigger on each insert or update; the
   delete trigger; the job `coalesce_log`, which replaces the scn "infinity" of committed log rows
   by their ORA_ROWSCN every two seconds. *Hard*: package state is not transactional, sessions
   interleave, stamping is late. *Correct when* every committed row version can be found from the
   log, and stamps appear in commit order.
2. **Insert and update monitor** (`J/monitor/insertAndupdate`). *State*: `fromScn`, in memory; the
   tables it monitors. *Operations*: read the log above `fromScn`, select the rows by txn, queue a
   message for each. *Hard*: `fromScn` is raised before the select and survives its failure; the
   list is unordered; a restart begins at 0; tables are added while the thread runs; the thread has one
   connection for its life, and data can end it. *Correct when*
   no stamped transaction is skipped and the messages of a row come in commit order.
3. **Delete monitor** (`J/monitor/delete`). *State*: marks in the delete logs, one shared
   `SourceInfo`. *Operations*: select, mark, queue. *Hard*: the mark is committed before the message
   is queued; the table name of queued messages changes; a thread without its connection ends, or goes
   on, without a word. *Correct when* each committed deletion gets
   a message that names its table.
4. **Sender** (`J/syn/netty/SynClient`), 5. **connections** (`ChannelManager`, `ClientManager`).
   *State*: the queue, the message in hand with its record id, one channel per node. *Operations*:
   per started map of the message's table: find node and channel, add a record, write. *Hard*: every
   failure drops the message silently; a single thread sends everything, and an exception ends it;
   old and new connections are served side by side. *Correct when* targets converge, and failures
   are visible.
6. **Server** (`SynServerHandler`, `ConPool`; `J/syn/comm/OperateDB`, `GenerateSQL`;
   `J/common/table/DataTranslator`). *State*: the connection pool of each channel; the target
   tables. *Operations*: apply a message to each map, reply: translate its columns, make a where
   clause of its key and update, insert or delete. *Hard*: one of several maps fails; failed
   connections are pooled; an exception closes the channel; nulls, numbers, dates and key columns
   each have cases of their own. *Correct when* a target row shows the columns of its source row, and
   a message concerns no other row.
7. **Replies and records** (`SynClientHandler`, `J/common/record/RecordDaoImpl`). *State*: the table
   `record` in MySQL. *Correct when* a record with status 1 stands for a message that was applied.
8. **Table maps** (`J/common/table/TableMapManager`, `J/common/record/MapJsonDaoImpl`,
   `J/common/netty/service/TableMapService`). *State*: the maps of a node in memory and in MySQL,
   their status. *Operations*: add at the source, add at the destination, start, stop, load.
   *Hard*: two nodes and two stores change one after the other; HTTP threads run concurrently.
9. **Tenants** (`J/common/tenant/TenantManager`, `TenantDaoImpl`): credentials by database.
10. **Installation of the source schema** (`AddSource` and the `*Config` classes). *State*: tables,
    triggers, sequence, package, job and `sy$sources` in the user's schema. *Operations*: one
    sequence of DDL statements, each committed by itself. *Hard*: it may stop anywhere and is run
    again by the next start or the next map; two HTTP threads may run it at once.
11. **Monitor management** (`J/monitor/manager`): one `MonitorThread` per tenant, created on demand
    by HTTP threads, the command thread and the start of the process.
12. **LogMiner variant** (`J/logmnr`): reads redo logs instead of triggers.
13. **HTTP server and the console's server** (`HttpSnoopServerHandler`, `J/console/TanentBean`): turn
    requests of the pages into calls of 8 and 9 on the nodes. No state of their own.
14. **Console pages** (`src/jtang-osync/WebContent/*.jsp` and their scripts in `js/`: `deploy.js`,
    `deploy_logmnr.js`, `jiankong.js`, `tuopu.js`, `rizhi.js`, `yinqing.js`, `wangluo.js`). *State*: what is
    visible, the form, the columns read for it, a button for each map, the chosen day, chart numbers
    and canvases. *Operations*: clicks, and a callback for each call of `TanentBean`. *Hard*: answers
    come late and out of order, while the form, the mode or the page is another; one click has two
    handlers; a Date is set in three steps. *Correct when* what is shown belongs to what was asked,
    and what is sent belongs together.

### 1.2 Interactions

Applications and monitors share the source database; monitors and sender share the queue; sender and
reply handler share the MySQL table `record`; HTTP threads, sender and server share the
`TableMapManager`, `ClientManager` and `TenantManager`; nodes exchange messages and replies over
TCP, and configuration over HTTP. The pages call `TanentBean` through DWR and learn of the nodes only
by its answers.

## 2. Modules

| module | models | state |
|---|---|---|
| `SourceDB` | component 1 | committed rows, open transactions with package state, `sy$txlog`, delete logs, sequence, scn, cursor of `coalesce_log` |
| `TxlogCapture` (extends `SourceDB`) | component 2 over 1 | monitored tables, `fromScn`, list, selected messages, queue |
| `DeleteCapture` (extends `SourceDB`) | component 3 over 1 | tables, pass, row in hand, shared name, queue |
| `Transfer` | components 4, 5, 6, 7 between two nodes | message in hand, records, connections, jobs and pools of the server, targets |
| `RowSync` | the column values of components 2, 3 and 6 | rows of one source table, queue, rows of one target table, whether the monitor lives |
| `SourceConfig` | component 10 | what exists in the schema, `sy$sources`, progress of each installer |
| `TableMaps` | components 8, 9, 11, the configuration side of 5, the start of a node, and `addBothTableMap` of 13 | per node: maps, tenants, clients, threads, monitored tables; the MySQL tables `mapJson` and `tenant`; progress of each request |
| `VersionFeed` | abstract: what a sender may expect of the rows of a source | time of the last commit, commit of each row, messages in memory, queue |
| `DeployPage` | component 14, `deploy.jsp` and `logmnr.jsp`, with the answers of 13 | view, form, columns, buttons, calls without answer, status of the maps |
| `ChartPage` | component 14, `jiankong.jsp` | map, mode and day chosen, chart numbers, canvases, queries without answer |
| `Console` (extends both) | component 14, the window with its menu; `tuopu.jsp` and the pages without calls | open page, cells |
| `MC...` | | small constants for TLC |
| `...Proofs` | | theorems and proofs |

**SourceDB.** A row is a pair of table and key, its contents the number of the transaction that
wrote it (what the column `txn` holds). `Put` is a statement with its trigger, `GetTxn` the three
branches of the function, on the package variables of the session and its own uncommitted row of
`sy$txlog` (`logged`). `PutFails` is a statement undone after its trigger ran: Oracle takes back
its change of the log row, and the package variables keep theirs. `Commit` makes rows, log row and
delete-log rows visible at once and gives the log row its ORA_ROWSCN. `coalesce_log` is two steps,
the opening of its cursor and its commit, with commits of applications in between. Masks are sets of
tables instead of sums of powers of two. The variable `failed` is history.

**TxlogCapture.** `Monitor` is the query of `MonitorTxlog`; `Select` and `SelectFails` are one turn
of the loop over its result, in any order, because the query has none; `Offer` puts one message on
the queue. `Restart` ends the process; `NewThread` makes the thread of the next one, and
`AddMonitorTable` adds the tables after that, one by one. `seen`, `missed` and `lastOffered` are history.

What happens to the thread itself is its variable `thread`. It opens one connection in its constructor
(`MonitorInsertAndUpdateThread.java:40`) and no other: `LoseConnection` makes it "deaf", and from then on
every query of its list fails (`SelectFails`) and `Monitor` never succeeds again, while the
`MonitorThreadManager` still has the thread. It is "ended" when it was made without a statement
(`MonitorTxlog.java:24-30`), by the exception of a null date that is formatted (`SelectEnds`,
`SelectData.java:64`), and, in effect, by the loop that looks for the bit of a mask with bit 30 beside
others (`MonitorHangs`, `Endless`): the power of two goes on to -2^31 and to 0 and stays there. A
mask of 2^31 or more cannot be read by `getInt` (`TooWide`): every reading of the log that meets it
throws. `Bit` gives the sources their numbers, `Undated` names the row versions with a null date.

**DeleteCapture.** `GetInfo` selects one row with ISSYN = 0, marks it and sets the shared name;
`OfferDelete` queues it. That a pass takes one row per table at most is what the code does: the
update is executed on the statement whose result set is open, which closes it, and the next
`rs.next()` throws into the handler that goes on with the next table. The update is text: a string
key with an apostrophe makes it malformed (`Unmarkable`), the pass over that table ends there
(`ScanStops`) and does so at every later pass, so the rows behind it wait for ever; `EventuallyMessaged`
excepts these and no others. A number is read with `getLong`: a row whose key has a fraction is marked
and messaged under another key (`Named`). Other key types do not occur: `DeTxlogTableAndTrg.java:40-53`
creates the log with columns NUMBER and VARCHAR2 only. `owed`, `unused` and `lost` are history.

`deThread` is the thread's own fate. `NewThread` is its constructor with the beginning of `run`: a refused
connection is kept as null, `run` returns (`MonitorDeleteThread.java:82-85`) or, without a statement, never
enters its loop (86-94), and who made the thread learns of neither. `LoseConnection` breaks the
connection it has, for good and perhaps between an update and its answer: the row is marked then and
its message is never made, which `lost` remembers. A "deaf" thread goes on through its tables, and each
scan fails.

**VersionFeed.** A commit has a time, a row the time of the commit that wrote it; a reader takes rows
of one commit that are current at that moment, holds their messages, and queues them one by one,
while later commits may overtake it; a restart loses what is in memory. `InOrder` is its promise: the
versions of a row are in commit order from the head of the queue to its end, to what is held, to the row.
`TxlogCapture` implements it by the mapping `Feed`: the clock is `scn`, a row's commit the scn of the
transaction in its column `txn`, and the held messages are `datas`. `getTxn`, the log, the masks,
`coalesce_log` and the query for `fromScn` all map to stutters, which is the point: the order of the
queue survives that stamps come late and that the list has none. `Transfer` has a feed of
its own for the sender, in the same terms: version numbers for times, `selected` for what is held.

**Transfer.** The monitors appear as what the two modules above establish of them: versions of a row
in order, each selected while it is the committed one, deletes by another thread. `Poll`, `Connect`,
`Build`, `Write`, `Withhold`, `AddThrows` and `SenderDies` are the steps of `sendMessage`. `Build`
calls `RecordDaoImpl.add`, which inserts a record and reads it again over another connection: either may
fail, so there may be a record whose id nobody has (`Orphan`) while the message keeps the id of the map
before; where MySQL refuses a statement, the null closed in the `finally` block ends the sender
(`AddThrows`), and in the handler of replies it closes the channel (`ReplyThrows`). A statement at the target
may fail before or after it has taken effect (`ApplyThrows`), and its connection may be dead from then
on. Between `Build`, which
makes the text with the table name of that moment, and `Write`, which selects the row by the name of
its own moment, the delete monitor may change the shared name. A connection is "half" after the
server has closed it and until the client knows. `harm` is history: which of five causes of
divergence have happened. For each of the five TLC finds, with `Converged` weakened to the four
others, a run that diverges: the exceptions are necessary, not a convenience.

**RowSync.** A row is a function from columns to values, a table map a record of columns, types,
keys, `valiFields` and `fieldsMap`. `Selected` and `Deleted` are what the two monitors put into a
message, `TransData` applies the rules of the translation field by field, `KeyString`,
`InsertColumns`, `InsertValues` and `Assignments` are the parts of the statements of `GenerateSQL`
as functions from columns to values, and `MessageReceived` executes them. Numbers are counted in
halves, so that `getLong` has a fraction to cut; the text of a value is the value, except that a null
and the word that reads "null" are passed over alike. The order and the loss of messages are left to
`Transfer`: here a message is queued with its write and none is lost. `marred` and `unheard` are
history: the keys whose target row may differ, put in when one of the causes named at `InStep`
occurs and taken out when a later message leaves the row as it is at the source. With any one cause
left out TLC finds `InStep` violated. Dates are part of no promise, because none ever arrives: the
translation looks them up in the map it is filling (`DataTranslator.java:100`).

**SourceConfig.** An installer is a thread in `addNewSource`; its `stage` is the statement it comes
to, because every DDL statement commits by itself. `ReadObjects` and `IsInit` are the queries of
`isInit`, `Drop` and `Create` the statements of the `*Config` classes in their order, `Fail` an
exception or the end of the process before any of them, forced (`Refused`) or not. `cut` remembers
the stages at which a call has failed: a property that names a stage with `cut` says that a failure
there is not made good by the next call, and one at any other stage is. `overlap` remembers that two
calls have been under way at once. With any of these exceptions dropped TLC finds a violation.
`SourceDB` takes the installation for complete; `ApplicationsWork` says when that is so.

**TableMaps.** A request walks through the stages of `addSourceTableMap` at the source's node, its
reply through `AskTarget`, and then through those of `addDestinationTableMap`. Each look-up and the
act that follows are two steps (`GetThread`, `NewThread`, `CheckThread`, `StartThread`;
`IsExistMap`, `AddMap`; `IsExistTanent`, `AddTanent`). A command is the same monitor request taken
by `MonitorCommandThread`. `Crash`, `LoadTenants` and `LoadMaps` are the end and the start of a
process; mode "half" is a node whose constructor of `StartRun` was left by an exception after some
monitor threads had been started. A `MonitorThread` opens two connections: without the first, request
or start fail (`NewThread`, `LoadMapsFrom`), without the second, that of the delete monitor, both go on as if
nothing had happened, and the thread is in `deaf`; `LoseConnection` puts a thread there that has
lost one of its two later. A handler that ends with an exception sends nothing (`HandlerThrows`), which the
console takes for a garbled answer at the source and for success at the target: so it is where MySQL
refuses a statement to `AddTanent` or `AddMap`, before or after the row is there (`AddTanentThrows`,
`AddMapThrows`). A map that is left out at a start may have had its table installed or its thread
started all the same (`put` and `run` in `LoadMapsFrom`). `raced`, `lost`, `unanswered` and `skipped` are history: what the
exceptions of the properties refer to, each of them again necessary.

**DeployPage.** `calls` are the calls without answer in the order they were asked; a call is served
(`ServeMap`, `ServeList`, `ServeForm`) and then, at any later time, comes to its callback
(`ShowList`, `ShowStartStop`, `ShowColumns`, `ShowAlert`), before or after others. `NextStep` is both
handlers of the button. The buttons of all rows have the same two names, so a callback changes those
of the first row, and the server takes the first map with the id: `causes` remembers when that, an
answer out of order or lost, or somebody else has made a button wrong, and `misfit` when the columns
may be of another form. `wanted`, `answered`, `misfit` and `causes` are history; a form is a model
value, and the columns are named by the form they were read for.

**ChartPage.** Numbers are named by the query they answer. `SetDay` is the three setters of a
JavaScript Date with its carry into the next month. `Drawn` is a canvas whose panel is hidden: it has
no width, and nothing is seen. `ShowInit` and `InitFails` are the callback of `initJianKong`, which
draws the line chart only. **Console.** `Open` leaves a page with its callbacks; what a page has
asked of the server before may still happen there (`Elsewhere`).

How the modules fit together: `TableMaps` and `SourceConfig` establish what the others start from
(installed schema, monitored tables, started maps), `SourceDB` with `TxlogCapture` and
`DeleteCapture` produce the queue that `Transfer` consumes, and `RowSync` opens the messages that
`Transfer` treats as versions. The two capture modules extend `SourceDB`; `VersionFeed` is the border
between `TxlogCapture` and `Transfer`: the former is proved to implement it. The other borders
(deletions of a row beside its versions, the installed schema, started maps) are assumptions stated
in the modules' headers. `Console` sees of all
this the status of the maps and the answers.

## 3. Runs

| run | checks | result |
|---|---|---|
| `txlog_capture` | `TypeOK`, `RowsAreLogged`, `NothingSkipped`, `OfferOrder`, `ImplementsFeed` | pass, 2.4 million states |
| `txlog_capture_live` | `EventuallyOffered` | pass, 0.8 million states |
| `delete_capture` | `LastIsNamed`, `NoDeleteForgotten`, `MessagedOnce`, `EventuallyMessaged` | pass, 0.4 million states |
| `transfer` | `TypeOK`, `Converged`, `RecordsAreTrue`, `NoStepBack` | pass, 3.6 million states |
| `transfer_names` | `Converged` and `EventuallyReturned` with two tables | pass, 1.5 million states |
| `transfer_reply` | `ReplyTellsSuccess` | violated (finding 1) |
| `row_sync` | `TypeOK`, `InStep`, `OneRowPerKey`, `ListsCorrespond` | pass, 0.2 million states |
| `source_config` | `TypeOK`, `InitIsEnough`, `ApplicationsWork`, `RegisteredIsLogged`, `RegisteredIsMonitored`, `BitsDiffer`, `RegistrationsKept` | pass, 0.7 million states |
| `source_config_deletes` | `DeletesAreMonitored` | violated (finding 2) |
| `table_maps` | `TypeOK`, `StartedIsServed`, `WatchedAtSource`, `NothingForgotten`, `TrueMeansBoth`, `PasswordsAreRight`, `MapsDistinct`, `WatchedOnce` | pass, 1.2 million states |
| `table_maps_start` | `StartStarts` | violated (finding 3) |
| `console` | `ColumnsFit`, `ButtonsTell`, `DayIsPicked`, `ChartsAreOfLast`, `VisibleIsCurrent` | pass, 0.8 million states |

Each property of a passing run has a mutant in `PROJECT.json`: one definition of the model changed
the way a bug would change the code, with which TLC finds the property violated. The types of
`DeleteCapture` and `Console` and `LabelsFit` are in no run; they are proved.

## 4. Findings

1. *A reply that tells success.* `SynServerHandler` overwrites `resFlag` with the status of each map
   and keeps it when a later map throws, so a reply can say "inserted" for a message that failed for
   one of its targets (`transfer_reply`).
2. *Deletions that are never logged.* `AddSource` creates the delete log and its trigger in two
   statements, and takes the log for both the next time (`source_config_deletes`).
3. *The button of another map.* `getMapJsonById` cannot return a row (`mapJsons==null&&...`), so
   every new map keeps the id 0 and the web page starts and stops the first of them
   (`table_maps_start`).

The exceptions in the passing properties are no less interesting: `harm` in `Converged`, `marred`
and `unheard` in `RowSync`, `cut` and `overlap` in `SourceConfig`, `raced`, `deaf`, `skipped` and
`unanswered` in `TableMaps`, the threads that are not "running" in both capture modules, `TooWide` and
`missed` in `TxlogCapture`, `Blocked` in `DeleteCapture`, `lost` there and in `Transfer`, `causes`, `misfit` and `overtaken` in the console's modules each stand for a
behaviour of the code in which the plain property fails. Nor is `DTanent` of `TableMaps` a slip of
the model: the console sends the source's tenant as `dTanent` (`TanentBean.java:299`), so a new map
names its own source database as its target.

## 5. Bounds

Every bound is a constant of its module, stated in its header and used in guards only.

* *Source.* Two tables, two sessions and two transactions let a transaction of one session commit,
  be stamped and read while the other is open, and let one follow another in a session with old
  package variables; `MaxScn` 2 or 3 gives each commit an scn of its own. The theorems of section 7
  do not depend on these bounds. A queue of two messages makes the monitor wait, which the unbounded
  queue of the code does not; two are enough for a pair out of order, and the theorems hold for any
  length. One failure of the thread's, a connection lost among them, and one table whose bit is 30, so that
  a transaction of both tables has a mask the thread hangs on. The live run has two tables, one session,
  two transactions, a queue of one and a failure anywhere; the second table's bit is 31, so that its masks
  are no Java ints, and the second transaction leaves the first table's row without a date.
* *Deletes.* Two tables for the shared name, two rows in each, of which one has a fraction and one an
  apostrophe in its key; two transactions with inserts, so that a key is deleted, inserted and deleted
  again; two messages on the queue. `MaxScn` is 4, a commit for each change of a row that is put and
  deleted twice. Two failures, so that a restart can follow the end of a thread or the loss of its
  connection. Two constraints keep applications from what the thread does not read: statements that
  fail, `coalesce_log` (`Quiet`) and transactions of several rows (`OneRow`). They hold back steps of
  applications only, which have no fairness, so they hide no way for the thread to be stuck.
* *Transfer.* One row, two versions and one deletion suffice for every pair of messages whose order
  matters (older and newer version, version and delete); two targets for a message that fails for
  one of them; two connections for an old one beside a new one; one failure, which each of the
  causes in `harm` needs alone. Misnamed deletes need a second table: `transfer_names`, where one
  connection is enough; liveness after a second one is therefore not checked.
* *SourceConfig.* Three tables, one of them keyless: bits differ in value and the third table meets
  two registered ones. Two failures: one that leaves something behind and one in the call that
  should repair it. One installer at a time: two at once give three million states with a single
  table, and the property that holds for them, `RegisteredIsLogged`, is proved for any number.
* *RowSync.* Three writes: one that fills the target, one whose message mars it, one that heals it
  or hits another row. Four table maps: a column without a rule; a number outside the key; a date
  whose name another column takes in the target; a key of two columns. Values: 1, 2 and 3, of which
  3 is beyond an int, 1.5, null; a word, the word "null", one with an apostrophe.
* *Console.* Three maps, of which the last two share an id: a row whose button is the one that
  changes, one whose is not, and one that is not even the map meant. Two forms and two calls without
  answer, for answers in either order; two maps and two queries likewise. It is January 31, and the
  ends of a short and of a long February can be picked. Seven nodes, one more than there are cells.
  `Focus` ends a behaviour whose buttons are already wrong for a known reason, and leaves the maps'
  status alone on pages and steps that do not show it. The theorems need none of this.
* *TableMaps.* Two nodes, two maps, two requests, one failure and one end of a process; a race
  takes two requests. Which map a request is about, and whether it is a command, is left to the
  initial state, so one run has two requests for one map, for two maps, and requests beside commands.

Symmetry is declared only in runs of invariants and of action properties (`OfferOrder`, and
`ImplementsFeed`, a step-by-step refinement), over
tables, keys, sessions, maps or requests that no definition tells apart; no liveness run uses it.
`CHECK_DEADLOCK FALSE` stands where the bounds let the work end: every message sent, every request
answered. `SourceConfig` has no such end and is checked for deadlock.

## 6. Fairness

* The monitors, the sender and the command thread are `while(true)` loops
  (`MonitorInsertAndUpdateThread.run`, `MonitorDeleteThread.run`, `SynClient.monitorMessage`): weak
  fairness of the disjunction of their steps, not of each step. It asks nothing of a thread that has
  ended, whose steps are disabled, nor of the connections, nor of those who would make a thread or add
  a table again.
* `coalesce_log` is a database job with the repeat interval of two seconds
  (`ProcConfig.java:128-147`): weak fairness of its two steps.
* Netty's worker threads serve a connection with pending data: weak fairness per connection.
* Failures have no fairness; their number is bounded, so "fails finitely often" is what the liveness
  properties assume. A connection that is lost is lost for good, one failure or many: the code never opens
  another. Hence `EventuallyOffered` and `EventuallyMessaged` promise something only while the thread is
  running, and a message that was due when it stopped is not promised: nothing in the process notices,
  and only its restart makes a new thread. `EventuallyReturned` excepts the records whose id is in no
  message, or whose message or reply was withheld or lost.
* `EventuallyReturned` is `[]<>`: again and again there is a moment at which every record is
  answered or its loss known; a single `<>` would be satisfied by a state before the first message.
* Applications have no fairness: transactions may stay open for ever.
* The pages have neither fairness nor liveness properties: a user clicks or does not, and a call to a
  node that is down may stay without answer.

## 7. Proofs

All theorems hold for any sets of tables, keys, sessions, installers, forms, maps and days and any
bounds. Their only assumptions are those
named in the modules (`SourceAssumption` and its like: bounds are naturals, the model values differ).

* **`SourceInv`** is the inductive invariant of the source schema, a conjunction of
  `SourceTypeOK`, `SessionsOK` (what the package variables of a session and its open transaction
  have to do with each other), `LogOK` (log rows by number, one per number, none for numbers not
  taken), `CoalesceOrder` (the cursor of `coalesce_log` covers whatever is committed and not
  stamped below its scn, so stamps appear in commit order) and `RowsAreLogged`. `RowsAreLogged`
  alone is not inductive: that a committed version is announced rests on what was known of its
  session while the transaction was open.
* Each action has an effect lemma or a step of the preservation proof; `Put` with the branches of
  `GetTxn` is the longest.
* **`TxlogCaptureProofs`** adds `ListOK` and `OffersOK` and concludes `TypeCorrect`,
  `NoTransactionIsSkipped` and `OffersInOrder`.
* **`CaptureImplementsFeed`** (in `TxlogCaptureProofs`): every step of the capture is a step of the
  feed or a stutter. `IInv` supplies that the changes in `datas` belong to one stamped transaction, and
  an invariant of the queue that its messages do.
* **`FeedKeepsOrder`** and **`QueueKeepsOrder`** (there too): a version feed keeps the versions of a row
  in order (`InOrder`), and so does the queue of the capture thread (`Feed!InOrder`). The invariant
  `FeedInv` adds to the order the types, that no version is ahead of the clock, and that what is held is
  of one commit. It and its lemmas, one per action of the feed, are about any rows, clock, messages and
  queue (parameters, not variables), so that both theorems use them: the first for `AnyFeed`, an instance
  over variables of its own, the second for what the capture's mapping makes of its state, with the step
  simulation of `CaptureImplementsFeed` in between. That two temporal theorems do not compose by
  substitution in this prover is why the second is not simply a consequence of the first.
* **`DeleteCaptureProofs`** concludes `DeleteTypes`, `NoDeleteIsForgotten`, `NoDeleteIsMessagedTwice` and
  `LastMessageIsNamed`, for any set of keys that cannot be marked or name another row, with connections
  missing or lost at any moment.
* **`SourceConfigProofs`** proves `ConfigInv` and concludes `ConfigTypes` and
  `RegisteredTablesAreLogged`, with any number of installers at once and failures anywhere. It adds
  to the types that the bits in use have a highest (else `FreeBit`, a choice, need not be a number)
  and, per installer, that the stages after a delete log or a trigger was seen or made imply that it
  exists: no other installer takes it away, since dropping is confined to the objects of the
  initial block. Its second invariant, `SerialInv`, is about calls that do not overlap, for which
  `InitIsAlwaysEnough`, `ApplicationsAlwaysWork`, `RegisteredIsAlwaysMonitored`, `BitsAlwaysDiffer` and
  `RegistrationsAlwaysKept` are concluded, with any tables and any number of failures. None of these
  properties is inductive. What carries them is the order of the statements: `Init` makes the view
  last and drops it never, so without the view there are no settings and no registrations
  (`InitOK`), with it everything `Init` makes is there, and only then a call goes on to the package
  (`PackageOK`) and the triggers (`TriggersOK`); per stage, `BlockOK`, `FoundOK`, `InitStage` and
  `TableStage` say what is done and what is still to come. As one call is under way at most
  (`Alone`), each step is proved from the view of its installer (`SerialAt`).
* **`ConsoleProofs`** proves all properties of `Console`, for any number of maps, calls and queries and
  any ids and days. `DeployInv` adds to `ColumnsFit` that the last call for columns still without
  answer is the one wanted, and to `ButtonsTell` that while an answered call on a map is outstanding it
  alone decides the first row; `ChartInv` adds that every numbered state of a canvas came from the
  data of its chart. `PickedDay` is the lemma about the three setters.

* **`TransferProofs`** proves all properties of `Transfer` but the liveness one, for any tables, keys,
  maps, connections and failures. `RecInv` follows a record id through connection, job and reply: what
  carries the id has the kind (delete or not) of the record's message, and a status that counts comes
  from a map that was applied. `ChainInv` says that the versions of a row are in order all the way
  down, from the monitor through queue, hand, connection and job to the table; its lower half
  (`DownInv`) needs that no two connections are busy, which is what the cause `"crossed"` is about.
  `Converged` holds in every state where something is on its way, so it is proved from `HarmlessInv`:
  while no harm has been done, the last message of a row that a map is still to come to (`Coming`)
  tells the row's committed version, or its absence. When a new version overtakes a selected one, or
  a delete its put, `ChainInv` and `NewestInv` decide which of them is the last.

* **`TableMapsProofs`** proves all properties of `TableMaps`, for any number of nodes, maps, requests,
  ends of processes and failures. `IInv` has one part about nodes (`NodesOK`) and one about each
  request (`RequestOK`): what it has found out by the time it is at its stage, and what of that still
  holds although others, a crash or a start may have gone between look-up and act. `AddsNew`,
  `StartsFirst` and `ThreadFits` say it of maps and threads, and `raced` is where they fail;
  `MadeReady` of what serves the map that is about to be added; `Got` of what both nodes have got;
  `TenantMet` that the target's node meets a tenant that is recorded, which is why its own, wrong one
  is never the first. Of nodes, `KeptOK` (what a node has is what it has had, and is recorded) carries
  `NothingForgotten` over a crash and a start, and `ServedOK` says `StartedIsServed` of started and
  stopped maps alike, because a map may be started at any time. A started thread
  of the tenant in `deaf` is an exception there for all its maps, whichever request made it. `LoadedFacts` is the lemma about a
  start's list: every recorded map, none twice. Its existence rests on `Enumeration`: a finite set
  of numbers has an increasing enumeration. A step of a request leaves the others' parts alone
  (`Grows`, `StillOK`), a step of a process those of requests elsewhere (`OnlyAt`, `Elsewhere`).
  The proof showed `StartedIsServed` to be false of a map whose source and target are one node, if
  MySQL loses it between the two halves of a request: the target's half adds and starts it again,
  with no monitor. The property now excepts that; TLC had not met it because every map of the run
  has two nodes.

* **`RowSyncProofs`** proves all properties of `RowSync`, for any table maps whose key columns are
  mapped, any values and any number of writes. `TransDataFacts` says what the translation returns: a
  value of the right kind in each column, none in a column without a rule, and in the column of a
  carried field what the message has in that field. It follows the map under construction field by
  field, by induction on a set of numbers (`SetInduction`), as the list of fields has any length.
  `MessageFits` concludes that a message, whatever else happens to its values, arrives with its own
  key. `KeysStay` and `NewRowKey` say that an update leaves the key columns of the rows it takes alone
  and that an insert makes a row under a key only with a whole where clause; hence `OneRowPerKey`,
  with refused and distorted messages anywhere before. `OthersStay` bounds what a statement with an
  incomplete where clause reaches: the keys of `Hit` and no others. `InStep` alone says nothing of a
  key with messages in the queue; `QueueTells` does: unless the monitor has died, the last message
  that concerns a key is a put of the row the source has, or the source has none. So when that
  message is applied, and is faithful, the target shows the source's row (`FaithfulShows`), and a mark
  of an earlier message is gone.

The invariants were checked by TLC as invariants of the same instances before they were proved.

Only model-checked: the liveness properties (fairness and ENABLED are out of reach of the prover).
Every safety property, action property and refinement that a passing run checks is proved.
No module uses RECURSIVE.

## 8. Not modelled

* *Columns elsewhere than in `RowSync`*: the other models identify a row's contents with its version;
  `Transfer` treats failures of the server as possible, not as certain for the tables where `RowSync`
  shows them to be. `RowSync` itself leaves out maps that do not map every key column (every message
  then takes in other rows, or none), and keys with apostrophes or fractions, whose deletions
  `DeleteCapture` follows.
* *LogMiner variant*: its thread is never created.
* *HTTP routing, data dictionary queries*: no state of their own.
* *`offer/`*: a separate set of static pages; nothing of it is called from the rest.
* *Third-party scripts* (jQuery, Bootstrap, Chart.js with its documentation and samples, jsDatePick,
  tms, arbor, Flat UI, holder, prettify, excanvas, allmobilize): about 24,000 of the 25,600 lines of
  JavaScript of the repository. The scripts of the project's own pages are modelled; the program itself
  is the Java of `J`. What the pages use of the libraries (a Date, a canvas, a callback) is modelled
  by that use.
* *Memory model*: `Vector` and `ConcurrentLinkedQueue` are atomic per call; plain fields
  (`MonitorTableManager.size`, `SourceInfo.tableName`) are read and written as if volatile.
* *A failing statement of the start's own load* (`MapJsonDaoImpl`, `TenantDaoImpl`): its exception
  leaves `StartRun`, which is the end of a process that is loading (`Crash`).
* *Two monitors of one source*, which `WatchedAtSource` shows to arise after a start: `DeleteCapture`
  has one.

## 9. Plan

What would add most next:

1. Two delete monitors on one log, as after the start of a second node (`WatchedAtSource`).
2. An abstract feed of deletions beside `VersionFeed`, which `DeleteCapture` implements, and both
   together as the source of `Transfer` and its refinement.
3. Start and stop of maps within `Transfer`, with the messages dropped in between.
