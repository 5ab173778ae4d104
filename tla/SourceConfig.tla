----------------------------- MODULE SourceConfig -----------------------------
(***************************************************************************)
(* Installation of osync in a source schema: AddSource.addNewSource and the *)
(* classes it calls.  An installer is a thread that runs addNewSource for   *)
(* one table: an HTTP worker of a node, or the start of a node, which runs  *)
(* it for every table map it knows.  Nothing keeps two installers apart.    *)
(* Every DDL statement commits by itself, so each is a step, and an         *)
(* exception or the end of the process may come before any of them; what    *)
(* has been done then stays, and the next call finds it.                    *)
(***************************************************************************)
EXTENDS Naturals, Sequences, SequencesExt, FiniteSetsExt

CONSTANTS
  Tables,      \* the application's tables in the schema
  Keyless,     \* those without a primary key
  Unloggable,  \* those whose key has neither a number nor a varchar2 column
  Installers,  \* threads that may run addNewSource
  MaxFails     \* bound: exceptions and crashes that nothing in the schema forces

ASSUME ConfigAssumption ==
  /\ Keyless \subseteq Tables
  /\ Unloggable \subseteq Tables
  /\ MaxFails \in Nat

VARIABLES
  objects,    \* shared objects in the schema: sequences, tables, packages, jobs
  settings,   \* number of rows of sync_core_settings
  sources,    \* rows of sy$sources, as inserted
  column,     \* what the column TXN of a table is
  deTable,    \* tables t for which sy$de<t> exists
  deTrigger,  \* tables t with the trigger <t>_DETRG
  trigger,    \* tables t with the trigger <t>_TRG
  installer,  \* progress of every installer
  fails,      \* failures so far, against MaxFails
  cut,        \* history: stages an installer has failed at or before
  overlap     \* history: two installers have been under way at once

shared == <<objects, settings, sources>>
perTable == <<column, deTable, deTrigger, trigger>>
vars == <<shared, perTable, installer, fails, cut, overlap>>

-----------------------------------------------------------------------------
(***************************************************************************)
(* The statements of the classes that create several objects, in order.     *)
(* The primary key and the index of sy$txlog go with that table.            *)
(***************************************************************************)
TxlogParts == {"SY$TXLOG_PK", "SY$TXLOG_I1"}

Creates ==
  [sequences |-> <<"VERCONTROL_SEQ", "SY$SCN_SEQ">>,
   tables    |-> <<"PATCH_VERCONTROL", "SY$SOURCES", "SY$TXLOG", "SYNC_CORE_SETTINGS",
                   "SY$TXLOG_PK", "SY$TXLOG_I1">>,
   view      |-> <<"DB_MODE">>,
   package   |-> <<"COMPILE_ALLOBJECTS", "SYNC_CORE", "SYNC_CORE BODY">>,
   jobs      |-> <<"P_COALESCE_LOG", "J_COALESCE_LOG", "J_CALL_SIGNAL">>,
   alert     |-> <<"SYNC_ALERT", "SYNC_ALERT BODY">>]

Blocks == DOMAIN Creates
After ==
  [sequences |-> "tables", tables |-> "view", view |-> "settings",
   package |-> "jobs", jobs |-> "column", alert |-> "trigger"]

Objects == UNION {Range(Creates[b]) : b \in Blocks}

\* create or replace
Replaced == UNION {Range(Creates[b]) : b \in {"view", "package", "alert"}}

\* What a block drops first, of what its query finds.
Dropped(b) == IF b \in {"sequences", "tables", "jobs"}
              THEN objects \cap (Range(Creates[b]) \ TxlogParts)
              ELSE {}

\* The objects isInit looks for.
InitObjects == Range(Creates.sequences) \cup (Range(Creates.tables) \ TxlogParts)
                 \cup Range(Creates.view)

Stages == Blocks \cup {"idle", "readSequences", "readTables", "readViews", "hasAdd",
  "settings", "setting", "isFirst", "column", "addTxn", "dropTxn", "addColumn",
  "isExistDeTable", "deTable", "deTrigger", "trigger", "readSources", "register"}

Installer == [stage: Stages, table: Tables, found: SUBSET Objects,
              drop: SUBSET Objects, make: Seq(Objects), bit: Nat]

TypeOK ==
  /\ objects \subseteq Objects
  /\ settings \in Nat
  /\ sources \in Seq([name: Tables, bit: Nat])
  /\ column \in [Tables -> {"none", "other", "number"}]
  /\ deTable \subseteq Tables
  /\ deTrigger \subseteq Tables
  /\ trigger \subseteq Tables
  /\ installer \in [Installers -> Installer]
  /\ fails \in 0..MaxFails
  /\ cut \subseteq Stages
  /\ overlap \in BOOLEAN

Rows == Range(sources)
Names == {r.name : r \in Rows}
Bits == {r.bit : r \in Rows}

At(p, stage) == installer[p].stage = stage

Go(p, stage) == installer' = [installer EXCEPT ![p].stage = stage]

\* addNewSource has returned.
Idle(p) ==
  installer' = [installer EXCEPT ![p].stage = "idle", ![p].found = {}, ![p].drop = {},
                                 ![p].make = <<>>, ![p].bit = 0]

\* The block's query has been read: what it will drop and create is settled.
Enter(p, b) ==
  installer' = [installer EXCEPT ![p].stage = b, ![p].drop = Dropped(b),
                                 ![p].make = Creates[b], ![p].found = {}]

NextStage(p, stage) == IF stage \in Blocks THEN Enter(p, stage) ELSE Go(p, stage)

\* A history variable never undoes what it recorded.
History == UNCHANGED <<fails, cut, overlap>>

-----------------------------------------------------------------------------
\* addNewSource is called for a table of the schema; for a name that is no
\* table isExistSource ends the call and nothing changes.
Start(p, t) ==
  /\ At(p, "idle")
  /\ installer' = [installer EXCEPT ![p].stage = "readSequences", ![p].table = t]
  /\ overlap' = (overlap \/ \E q \in Installers \ {p} : ~At(q, "idle"))
  /\ UNCHANGED <<shared, perTable, fails, cut>>

\* isInit: three queries, one after the other.
ReadObjects(p) ==
  /\ \E s \in {"readSequences", "readTables"} : At(p, s)
  /\ LET kind == IF At(p, "readSequences") THEN "sequences" ELSE "tables"
     IN installer' = [installer EXCEPT
          ![p].stage = IF kind = "sequences" THEN "readTables" ELSE "readViews",
          ![p].found = @ \cup (objects \cap Range(Creates[kind]))]
  /\ UNCHANGED <<shared, perTable>> /\ History

\* Variant: isInit looks for fewer objects, the last ones Init creates left out.
IsInitFewer(p) ==
  /\ At(p, "readViews")
  /\ IF InitObjects \ {"SYNC_CORE_SETTINGS", "DB_MODE"} \subseteq installer[p].found
     THEN installer' = [installer EXCEPT ![p].stage = "hasAdd", ![p].found = {}]
     ELSE Enter(p, "sequences")
  /\ UNCHANGED <<shared, perTable>> /\ History

\* Variant: isInit also looks for the body of the package, which Init does not create.
IsInitMore(p) ==
  /\ At(p, "readViews")
  /\ IF InitObjects \cup {"SYNC_CORE BODY"} \subseteq installer[p].found \cup objects
     THEN installer' = [installer EXCEPT ![p].stage = "hasAdd", ![p].found = {}]
     ELSE Enter(p, "sequences")
  /\ UNCHANGED <<shared, perTable>> /\ History

\* The third query, and what addNewSource does with the result: any object
\* missing starts Init, which begins with the sequences.
IsInit(p) ==
  /\ At(p, "readViews")
  /\ IF InitObjects \subseteq installer[p].found \cup (objects \cap Range(Creates.view))
     THEN installer' = [installer EXCEPT ![p].stage = "hasAdd", ![p].found = {}]
     ELSE Enter(p, "sequences")
  /\ UNCHANGED <<shared, perTable>> /\ History

\* A registered table is left as it is.
HasAdd(p) ==
  /\ At(p, "hasAdd") /\ "SY$SOURCES" \in objects
  /\ IF installer[p].table \in Names THEN Idle(p) ELSE Go(p, "isFirst")
  /\ UNCHANGED <<shared, perTable>> /\ History

\* One drop statement.  A table takes its rows with it.
Drop(p) ==
  /\ \E o \in installer[p].drop \cap objects :
       /\ installer' = [installer EXCEPT ![p].drop = @ \ {o}]
       /\ objects' = objects \ (IF o = "SY$TXLOG" THEN {o} \cup TxlogParts ELSE {o})
       /\ sources' = IF o = "SY$SOURCES" THEN <<>> ELSE sources
       /\ settings' = IF o = "SYNC_CORE_SETTINGS" THEN 0 ELSE settings
  /\ UNCHANGED perTable /\ History

Creatable(o) ==
  /\ o \notin objects \/ o \in Replaced
  /\ o \in TxlogParts => "SY$TXLOG" \in objects

\* One create statement, in the order of the class.
Create(p) ==
  /\ installer[p].drop = {} /\ installer[p].make # <<>>
  /\ Creatable(Head(installer[p].make))
  /\ objects' = objects \cup {Head(installer[p].make)}
  /\ installer' = [installer EXCEPT ![p].make = Tail(@)]
  /\ UNCHANGED <<settings, sources, perTable>> /\ History

\* The statements of the block are done.
LeaveBlock(p) ==
  /\ installer[p].stage \in Blocks
  /\ installer[p].drop = {} /\ installer[p].make = <<>>
  /\ NextStage(p, After[installer[p].stage])
  /\ UNCHANGED <<shared, perTable>> /\ History

\* SettingConfig.set: the row is inserted only into an empty table.
ReadSettings(p) ==
  /\ At(p, "settings") /\ "SYNC_CORE_SETTINGS" \in objects
  /\ Go(p, IF settings > 0 THEN "isFirst" ELSE "setting")
  /\ UNCHANGED <<shared, perTable>> /\ History

InsertSetting(p) ==
  /\ At(p, "setting") /\ "SYNC_CORE_SETTINGS" \in objects
  /\ settings' = settings + 1
  /\ Go(p, "isFirst")
  /\ UNCHANGED <<objects, sources, perTable>> /\ History

\* isFirst: the package is created unless some source text is named sync_core.
IsFirst(p) ==
  /\ At(p, "isFirst")
  /\ NextStage(p, IF {"SYNC_CORE", "SYNC_CORE BODY"} \cap objects = {}
                  THEN "package" ELSE "column")
  /\ UNCHANGED <<shared, perTable>> /\ History

\* isExistTXN, read twice: to decide whether addTxn is called, and to tell
\* it whether a column of another type is in the way.
IsExistTXN(p) ==
  /\ At(p, "column")
  /\ Go(p, IF column[installer[p].table] = "number" THEN "isExistDeTable" ELSE "addTxn")
  /\ UNCHANGED <<shared, perTable>> /\ History

\* Variant: the column of another type is left where it is.
AddTxnKeeping(p) ==
  /\ At(p, "addTxn")
  /\ Go(p, IF column[installer[p].table] = "other" THEN "isExistDeTable" ELSE "addColumn")
  /\ UNCHANGED <<shared, perTable>> /\ History

AddTxn(p) ==
  /\ At(p, "addTxn")
  /\ Go(p, IF column[installer[p].table] = "other" THEN "dropTxn" ELSE "addColumn")
  /\ UNCHANGED <<shared, perTable>> /\ History

DropTxn(p) ==
  /\ At(p, "dropTxn") /\ column[installer[p].table] # "none"
  /\ column' = [column EXCEPT ![installer[p].table] = "none"]
  /\ Go(p, "addColumn")
  /\ UNCHANGED <<shared, deTable, deTrigger, trigger>> /\ History

AddColumn(p) ==
  /\ At(p, "addColumn") /\ column[installer[p].table] = "none"
  /\ column' = [column EXCEPT ![installer[p].table] = "number"]
  /\ Go(p, "isExistDeTable")
  /\ UNCHANGED <<shared, deTable, deTrigger, trigger>> /\ History

\* Variant: a table that has its delete log already counts as instrumented.
IsExistDeTableAll(p) ==
  /\ At(p, "isExistDeTable")
  /\ Go(p, IF installer[p].table \in deTable THEN "readSources" ELSE "deTable")
  /\ UNCHANGED <<shared, perTable>> /\ History

\* A table that has its delete log already gets neither log nor trigger.
IsExistDeTable(p) ==
  /\ At(p, "isExistDeTable")
  /\ NextStage(p, IF installer[p].table \in deTable THEN "alert" ELSE "deTable")
  /\ UNCHANGED <<shared, perTable>> /\ History

\* Variant: createDeTrigger is not called after the creation of the log.
CreateDeTableOnly(p) ==
  LET t == installer[p].table
  IN /\ At(p, "deTable") /\ t \notin Keyless \cup Unloggable
     /\ deTable' = deTable \cup {t}
     /\ Enter(p, "alert")
     /\ UNCHANGED <<shared, column, deTrigger, trigger>> /\ History

\* createDeTable; without a key the call ends with false.
CreateDeTable(p) ==
  LET t == installer[p].table
  IN /\ At(p, "deTable")
     /\ \/ /\ t \in deTable \/ t \notin Keyless \cup Unloggable
           /\ deTable' = deTable \cup {t}
           /\ Go(p, "deTrigger")
        \/ /\ t \in Keyless \ deTable
           /\ Idle(p)
           /\ UNCHANGED deTable
     /\ UNCHANGED <<shared, column, deTrigger, trigger>> /\ History

CreateDeTrigger(p) ==
  /\ At(p, "deTrigger")
  /\ deTrigger' = deTrigger \cup {installer[p].table}
  /\ Enter(p, "alert")
  /\ UNCHANGED <<shared, column, deTable, trigger>> /\ History

\* TriggerConfig.createTrigger.
CreateTrigger(p) ==
  /\ At(p, "trigger")
  /\ trigger' = trigger \cup {installer[p].table}
  /\ Go(p, "readSources")
  /\ UNCHANGED <<shared, column, deTable, deTrigger>> /\ History

\* Variants: the highest bit itself, and a count that begins below zero.
HighestBit == IF Rows = {} THEN 0 ELSE Max(Bits)
FreeBitFromBelow == IF Rows = {} THEN 0 - 1 ELSE Max(Bits) + 1

\* The bit above every bit in use.
FreeBit == IF Rows = {} THEN 0 ELSE Max(Bits) + 1

\* InsertSource.insert: the query, then the insert unless the table was found.
ReadSources(p) ==
  /\ At(p, "readSources") /\ "SY$SOURCES" \in objects
  /\ IF installer[p].table \in Names
     THEN Idle(p)
     ELSE installer' = [installer EXCEPT ![p].stage = "register", ![p].bit = FreeBit]
  /\ UNCHANGED <<shared, perTable>> /\ History

Register(p) ==
  /\ At(p, "register") /\ "SY$SOURCES" \in objects
  /\ sources' = Append(sources, [name |-> installer[p].table, bit |-> installer[p].bit])
  /\ Idle(p)
  /\ UNCHANGED <<objects, settings, perTable>> /\ History

-----------------------------------------------------------------------------
\* The statement the installer is at is refused by the schema as it stands.
Refused(p) ==
  LET q == installer[p]
  IN \/ ~(q.drop \subseteq objects)
     \/ q.drop = {} /\ q.make # <<>> /\ ~Creatable(Head(q.make))
     \/ q.stage \in {"settings", "setting"} /\ "SYNC_CORE_SETTINGS" \notin objects
     \/ q.stage \in {"hasAdd", "readSources", "register"} /\ "SY$SOURCES" \notin objects
     \/ q.stage = "dropTxn" /\ column[q.table] = "none"
     \/ q.stage = "addColumn" /\ column[q.table] # "none"
     \/ q.stage = "deTable" /\ q.table \in Unloggable \ (Keyless \cup deTable)

\* The stage of the next statement of installer p.
Coming(p) == LET q == installer[p]
             IN IF q.stage \in Blocks /\ q.drop = {} /\ q.make = <<>>
                THEN After[q.stage] ELSE q.stage

\* An SQLException, or the end of the process.
Fail(p) ==
  /\ ~At(p, "idle")
  /\ \/ Refused(p) /\ UNCHANGED fails
     \/ fails < MaxFails /\ fails' = fails + 1
  /\ cut' = cut \cup {Coming(p)}
  /\ Idle(p)
  /\ UNCHANGED <<shared, perTable, overlap>>

Init ==
  /\ objects = {} /\ settings = 0 /\ sources = <<>>
  /\ column \in [Tables -> {"none", "other", "number"}]
  /\ deTable = {} /\ deTrigger = {} /\ trigger = {}
  /\ installer \in [Installers -> {[stage |-> "idle", table |-> t, found |-> {}, drop |-> {},
                                    make |-> <<>>, bit |-> 0] : t \in Tables}]
  /\ fails = 0 /\ cut = {} /\ overlap = FALSE

Step(p) ==
  \/ ReadObjects(p) \/ IsInit(p) \/ HasAdd(p)
  \/ Drop(p) \/ Create(p) \/ LeaveBlock(p)
  \/ ReadSettings(p) \/ InsertSetting(p) \/ IsFirst(p)
  \/ IsExistTXN(p) \/ AddTxn(p) \/ DropTxn(p) \/ AddColumn(p)
  \/ IsExistDeTable(p) \/ CreateDeTable(p) \/ CreateDeTrigger(p)
  \/ CreateTrigger(p) \/ ReadSources(p) \/ Register(p)

Next == \E p \in Installers :
  \/ \E t \in Tables : Start(p, t)
  \/ Step(p)
  \/ Fail(p)

Spec == Init /\ [][Next]_vars

-----------------------------------------------------------------------------
(***************************************************************************)
(* What a call leaves behind, as long as calls have not overlapped.  The    *)
(* stages named with cut are those where a failure is not made good by the  *)
(* next call; a failure at any other stage is.                              *)
(***************************************************************************)
PastInit == {"isFirst", "package", "jobs", "column", "addTxn", "dropTxn", "addColumn",
             "isExistDeTable", "deTable", "deTrigger", "alert", "trigger",
             "readSources", "register"}

\* A call that goes on after isInit and Init finds every shared object there, the key
\* and the index of sy$txlog included, and one row of settings.  isInit does not look
\* for the last three; that they are there rests on the order in which Init creates
\* things.  Only the row can be missing, after a failure between the view and it.
InitIsEnough ==
  ~overlap => \A p \in Installers : installer[p].stage \in PastInit =>
    /\ InitObjects \cup TxlogParts \subseteq objects
    /\ settings = 1 \/ cut \cap {"settings", "setting"} # {}

\* What the trigger of table t needs for a statement of an application to succeed:
\* getTxn selects one bit of sy$sources and one row of sync_core_settings into a
\* variable each, takes a number and inserts into the log.
StatementsWork(t) ==
  /\ {"SYNC_CORE", "SYNC_CORE BODY", "SY$SCN_SEQ", "SY$TXLOG"} \subseteq objects
  /\ settings = 1
  /\ column[t] = "number"
  /\ Cardinality({i \in DOMAIN sources : sources[i].name = t}) = 1

\* Installing osync does not make the application's statements fail: a table has the
\* trigger only when everything the trigger calls is there, except between
\* createTrigger and InsertSource, and after a failure at one of the stages named.
ApplicationsWork ==
  ~overlap /\ cut \cap {"settings", "setting", "package", "readSources", "register"} = {} =>
    \A t \in trigger :
      \/ StatementsWork(t)
      \/ \E p \in Installers : installer[p].table = t
                                 /\ installer[p].stage \in {"readSources", "register"}

\* A registered table has its delete log and its trigger, whatever else has run.
RegisteredIsLogged == Names \subseteq deTable \cap trigger

\* The deletions of a registered table are logged and the job that stamps the change
\* log exists, unless a call failed between the log and its trigger or in createProc.
RegisteredIsMonitored ==
  ~overlap =>
    /\ Names \subseteq deTrigger \/ "deTrigger" \in cut
    /\ Names # {} => "J_COALESCE_LOG" \in objects \/ cut \cap {"package", "jobs"} # {}

\* Every registered table has a bit of the mask to itself, and one row.
BitsDiffer ==
  ~overlap => \A i, j \in DOMAIN sources : i # j =>
    sources[i].bit # sources[j].bit /\ sources[i].name # sources[j].name

\* No step of a call undoes the registration of a table: Init, which drops sy$sources,
\* does not run once a table is registered.
RegistrationsKept == [][~overlap' => Names \subseteq Names']_vars

\* The comment in addNewSource (AddSource.java:64, "add the monitoring of deletions"):
\* a table it has registered has its delete trigger.
DeletesAreMonitored == ~overlap => Names \subseteq deTrigger
===============================================================================
