-------------------------- MODULE SourceConfigProofs --------------------------
(***************************************************************************)
(* Installation of the source schema.  First what holds however many        *)
(* installers run at once and wherever they fail: types, and that a         *)
(* registered table has its delete log and its trigger.  Then what holds as *)
(* long as calls do not overlap: what each stage of a call stands for, and  *)
(* from it what an installation promises.                                   *)
(***************************************************************************)
EXTENDS SourceConfig, FiniteSetTheorems, TLAPS

\* The bits in use have a maximum; that they are finitely many is not needed.
HighestExists == Bits = {} \/ \E b \in Bits : \A c \in Bits : b >= c

\* At these stages an installer has seen or made the delete log of its table ...
LoggedStages == {"deTrigger", "alert", "trigger", "readSources", "register"}

\* ... and at these its trigger.
TriggerStages == {"readSources", "register"}

StageLogged(p) ==
  /\ installer[p].stage \in LoggedStages => installer[p].table \in deTable
  /\ installer[p].stage \in TriggerStages => installer[p].table \in trigger

ConfigInv ==
  /\ TypeOK
  /\ HighestExists
  /\ \A p \in Installers : StageLogged(p)
  /\ RegisteredIsLogged

LEMMA Init_ConfigInv == Init => ConfigInv
<1>. SUFFICES ASSUME Init PROVE ConfigInv
  OBVIOUS
<1>1. Rows = {} /\ Names = {} /\ Bits = {}
  BY DEF Init, Rows, Range, Names, Bits
<1>2. TypeOK
  <2>1. installer \in [Installers -> Installer]
    <3>1. "idle" \in Stages /\ <<>> \in Seq(Objects)
      BY DEF Stages
    <3>2. \A t \in Tables : [stage |-> "idle", table |-> t, found |-> {}, drop |-> {},
                             make |-> <<>>, bit |-> 0] \in Installer
      BY <3>1 DEF Installer
    <3>. QED BY <3>2 DEF Init
  <2>2. <<>> \in Seq([name: Tables, bit: Nat])
    OBVIOUS
  <2>3. sources \in Seq([name: Tables, bit: Nat]) /\ fails \in 0..MaxFails
    BY <2>2, ConfigAssumption DEF Init
  <2>. QED BY <2>1, <2>3 DEF Init, TypeOK
<1>3. \A p \in Installers : StageLogged(p)
  BY DEF Init, StageLogged, LoggedStages, TriggerStages
<1>. QED BY <1>1, <1>2, <1>3 DEF ConfigInv, HighestExists, RegisteredIsLogged

-----------------------------------------------------------------------------
\* Sequences of the lengths that occur in Creates.
LEMMA Sequence1 ==
  ASSUME NEW S, NEW a, Range(<<a>>) \subseteq S
  PROVE  <<a>> \in Seq(S)
<1>1. {a} \subseteq S
  BY DEF Range
<1>. QED BY <1>1

LEMMA Sequence2 ==
  ASSUME NEW S, NEW a, NEW b, Range(<<a, b>>) \subseteq S
  PROVE  <<a, b>> \in Seq(S)
<1>1. {a, b} \subseteq S
  BY DEF Range
<1>. QED BY <1>1

LEMMA Sequence3 ==
  ASSUME NEW S, NEW a, NEW b, NEW c, Range(<<a, b, c>>) \subseteq S
  PROVE  <<a, b, c>> \in Seq(S)
<1>1. {a, b, c} \subseteq S
  BY DEF Range
<1>. QED BY <1>1

LEMMA Sequence6 ==
  ASSUME NEW S, NEW a, NEW b, NEW c, NEW d, NEW e, NEW f, Range(<<a, b, c, d, e, f>>) \subseteq S
  PROVE  <<a, b, c, d, e, f>> \in Seq(S)
<1>1. {a, b, c, d, e, f} \subseteq S
  BY DEF Range
<1>. QED BY <1>1

\* What a block of statements creates and drops.
LEMMA BlockTypes ==
  ASSUME NEW b \in Blocks
  PROVE  b \in Stages /\ Creates[b] \in Seq(Objects) /\ Dropped(b) \subseteq Objects
<1>1. b \in {"sequences", "tables", "view", "package", "jobs", "alert"}
  BY DEF Blocks, Creates
<1>2. Range(Creates[b]) \subseteq Objects
  BY DEF Objects
<1>3. Creates[b] \in Seq(Objects)
  <2>1. CASE b = "sequences"
    BY <1>2, <2>1, Sequence2 DEF Creates
  <2>2. CASE b = "tables"
    BY <1>2, <2>2, Sequence6 DEF Creates
  <2>3. CASE b = "view"
    BY <1>2, <2>3, Sequence1 DEF Creates
  <2>4. CASE b = "package"
    BY <1>2, <2>4, Sequence3 DEF Creates
  <2>5. CASE b = "jobs"
    BY <1>2, <2>5, Sequence3 DEF Creates
  <2>6. CASE b = "alert"
    BY <1>2, <2>6, Sequence2 DEF Creates
  <2>. QED BY <1>1, <2>1, <2>2, <2>3, <2>4, <2>5, <2>6
<1>. QED BY <1>2, <1>3 DEF Stages, Dropped

\* An installer has moved and the others have not.
Moves(p) ==
  /\ installer' \in [Installers -> Installer]
  /\ \A q \in Installers \ {p} : installer'[q] = installer[q]

MovesTo(p, s) ==
  /\ Moves(p)
  /\ installer'[p].stage = s
  /\ installer'[p].table = installer[p].table

LEMMA RecordMoves ==
  ASSUME TypeOK, NEW p \in Installers, NEW rec \in Installer,
         installer' = [installer EXCEPT ![p] = rec]
  PROVE  Moves(p) /\ installer'[p] = rec
  BY DEF TypeOK, Moves

LEMMA GoMoves ==
  ASSUME TypeOK, NEW p \in Installers, NEW s \in Stages, Go(p, s)
  PROVE  MovesTo(p, s)
  BY DEF TypeOK, Go, MovesTo, Moves, Installer

LEMMA IdleMoves ==
  ASSUME TypeOK, NEW p \in Installers, Idle(p)
  PROVE  MovesTo(p, "idle")
<1>. DEFINE rec == [installer[p] EXCEPT !.stage = "idle", !.found = {}, !.drop = {},
                                        !.make = <<>>, !.bit = 0]
<1>1. installer \in [Installers -> Installer] /\ installer[p] \in Installer
  BY DEF TypeOK
<1>2. "idle" \in Stages /\ <<>> \in Seq(Objects)
  BY DEF Stages
<1>3. rec \in Installer /\ rec.stage = "idle" /\ rec.table = installer[p].table
  BY <1>1, <1>2 DEF Installer
<1>4. installer' = [installer EXCEPT ![p] = rec]
  BY <1>1 DEF Idle, Installer
<1>. QED BY <1>3, <1>4, RecordMoves DEF MovesTo

LEMMA EnterMoves ==
  ASSUME TypeOK, NEW p \in Installers, NEW b \in Blocks, Enter(p, b)
  PROVE  MovesTo(p, b)
<1>. DEFINE rec == [installer[p] EXCEPT !.stage = b, !.drop = Dropped(b),
                                        !.make = Creates[b], !.found = {}]
<1>1. installer \in [Installers -> Installer] /\ installer[p] \in Installer
  BY DEF TypeOK
<1>2. rec \in Installer /\ rec.stage = b /\ rec.table = installer[p].table
  BY <1>1, BlockTypes DEF Installer
<1>3. installer' = [installer EXCEPT ![p] = rec]
  BY <1>1 DEF Enter, Installer
<1>. QED BY <1>2, <1>3, RecordMoves DEF MovesTo

LEMMA NextStageMoves ==
  ASSUME TypeOK, NEW p \in Installers, NEW s \in Stages, NextStage(p, s)
  PROVE  MovesTo(p, s)
  BY GoMoves, EnterMoves DEF NextStage

-----------------------------------------------------------------------------
\* What is left to show of a step: types, that log and trigger only appear, and what
\* the stage that the installer has come to stands for.
LEMMA MoveKeeps ==
  ASSUME ConfigInv, NEW p \in Installers, Moves(p),
         objects' \subseteq Objects, settings' \in Nat, sources' = sources,
         column' \in [Tables -> {"none", "other", "number"}],
         deTable' \subseteq Tables, deTrigger' \subseteq Tables, trigger' \subseteq Tables,
         fails' \in 0..MaxFails, cut' \subseteq Stages, overlap' \in BOOLEAN,
         deTable \subseteq deTable', trigger \subseteq trigger',
         installer'[p].stage \in LoggedStages => installer'[p].table \in deTable',
         installer'[p].stage \in TriggerStages => installer'[p].table \in trigger'
  PROVE  ConfigInv'
<1>1. TypeOK'
  BY DEF ConfigInv, TypeOK, Moves
<1>2. HighestExists' /\ RegisteredIsLogged'
  BY DEF ConfigInv, HighestExists, RegisteredIsLogged, Names, Bits, Rows
<1>3. ASSUME NEW q \in Installers PROVE StageLogged(q)'
  BY DEF ConfigInv, StageLogged, Moves
<1>. QED BY <1>1, <1>2, <1>3 DEF ConfigInv

\* A step that touches nothing but the installer.
LEMMA QuietMove ==
  ASSUME ConfigInv, NEW p \in Installers, Moves(p), UNCHANGED <<shared, perTable>>, History,
         installer'[p].stage \in LoggedStages => installer'[p].table \in deTable,
         installer'[p].stage \in TriggerStages => installer'[p].table \in trigger
  PROVE  ConfigInv'
<1>1. TypeOK
  BY DEF ConfigInv
<1>. QED BY <1>1, MoveKeeps DEF TypeOK, shared, perTable, History

LEMMA QuietMoveTo ==
  ASSUME ConfigInv, NEW p \in Installers, NEW s \in Stages \ LoggedStages, MovesTo(p, s),
         UNCHANGED <<shared, perTable>>, History
  PROVE  ConfigInv'
  BY QuietMove DEF MovesTo, LoggedStages, TriggerStages

-----------------------------------------------------------------------------
LEMMA Start_Inv ==
  ASSUME ConfigInv, NEW p \in Installers, NEW t \in Tables, Start(p, t)
  PROVE  ConfigInv'
<1>1. TypeOK
  BY DEF ConfigInv
<1>2. Moves(p) /\ installer'[p].stage = "readSequences"
  <2>. DEFINE rec == [installer[p] EXCEPT !.stage = "readSequences", !.table = t]
  <2>1. installer \in [Installers -> Installer] /\ installer[p] \in Installer
    BY <1>1 DEF TypeOK
  <2>2. rec \in Installer /\ rec.stage = "readSequences"
    BY <2>1 DEF Installer, Stages
  <2>3. installer' = [installer EXCEPT ![p] = rec]
    BY <2>1 DEF Start, Installer
  <2>. QED BY <1>1, <2>2, <2>3, RecordMoves
<1>3. overlap' \in BOOLEAN
  BY <1>1 DEF Start, TypeOK
<1>. QED BY <1>1, <1>2, <1>3, MoveKeeps
         DEF Start, TypeOK, shared, perTable, LoggedStages, TriggerStages

LEMMA ReadObjects_Inv ==
  ASSUME ConfigInv, NEW p \in Installers, ReadObjects(p) PROVE ConfigInv'
<1>1. TypeOK
  BY DEF ConfigInv
<1>2. PICK s \in {"readTables", "readViews"}, list \in {Creates["sequences"], Creates["tables"]} :
        installer' = [installer EXCEPT ![p].stage = s,
                                       ![p].found = @ \cup (objects \cap Range(list))]
  BY DEF ReadObjects
<1>. DEFINE found == installer[p].found \cup (objects \cap Range(list))
            rec == [installer[p] EXCEPT !.stage = s, !.found = found]
<1>3. /\ objects \subseteq Objects
      /\ installer \in [Installers -> Installer] /\ installer[p] \in Installer
  BY <1>1 DEF TypeOK
<1>4. rec \in Installer /\ rec.stage = s
  BY <1>3 DEF Installer, Stages
<1>5. installer' = [installer EXCEPT ![p] = rec]
  BY <1>2, <1>3 DEF Installer
<1>6. Moves(p) /\ installer'[p].stage \in {"readTables", "readViews"}
  BY <1>1, <1>4, <1>5, RecordMoves
<1>. QED BY <1>6, QuietMove DEF ReadObjects, LoggedStages, TriggerStages

LEMMA IsInit_Inv ==
  ASSUME ConfigInv, NEW p \in Installers, IsInit(p) PROVE ConfigInv'
<1>1. TypeOK
  BY DEF ConfigInv
<1>2. MovesTo(p, "hasAdd") \/ MovesTo(p, "sequences")
  <2>1. CASE installer' = [installer EXCEPT ![p].stage = "hasAdd", ![p].found = {}]
    BY <1>1, <2>1 DEF MovesTo, Moves, TypeOK, Installer, Stages
  <2>2. CASE Enter(p, "sequences")
    BY <1>1, <2>2, EnterMoves DEF Blocks, Creates
  <2>. QED BY <2>1, <2>2 DEF IsInit
<1>. QED BY <1>2, QuietMoveTo DEF IsInit, Stages, LoggedStages, Blocks, Creates

LEMMA Drop_Inv ==
  ASSUME ConfigInv, NEW p \in Installers, Drop(p) PROVE ConfigInv'
<1>1. TypeOK
  BY DEF ConfigInv
<1>2. /\ Moves(p) /\ installer'[p].stage = installer[p].stage
      /\ installer'[p].table = installer[p].table
  <2>1. PICK o : installer' = [installer EXCEPT ![p].drop = @ \ {o}]
    BY DEF Drop
  <2>. QED BY <1>1, <2>1 DEF Moves, TypeOK, Installer
<1>3. /\ objects' \subseteq Objects /\ settings' \in Nat /\ sources' \in {sources, <<>>}
      /\ UNCHANGED perTable /\ History
  BY <1>1 DEF Drop, TypeOK
<1>4. TypeOK'
  <2>1. <<>> \in Seq([name: Tables, bit: Nat])
    OBVIOUS
  <2>2. sources' \in Seq([name: Tables, bit: Nat])
    BY <1>1, <1>3, <2>1 DEF TypeOK
  <2>. QED BY <1>1, <1>2, <1>3, <2>2 DEF TypeOK, Moves, perTable, History
<1>5. ASSUME NEW q \in Installers PROVE StageLogged(q)'
  BY <1>2, <1>3 DEF ConfigInv, StageLogged, Moves, perTable
<1>6. Names' \subseteq Names /\ (Bits' = {} \/ Bits' = Bits)
  BY <1>3 DEF Names, Bits, Rows, Range
<1>7. HighestExists' /\ RegisteredIsLogged'
  BY <1>3, <1>6 DEF ConfigInv, HighestExists, RegisteredIsLogged, perTable
<1>. QED BY <1>4, <1>5, <1>7 DEF ConfigInv

LEMMA Create_Inv ==
  ASSUME ConfigInv, NEW p \in Installers, Create(p) PROVE ConfigInv'
<1>1. TypeOK
  BY DEF ConfigInv
<1>2. /\ installer[p].make \in Seq(Objects) /\ installer[p].make # <<>>
      /\ installer[p] \in Installer
  BY <1>1 DEF Create, TypeOK, Installer
<1>3. Head(installer[p].make) \in Objects /\ Tail(installer[p].make) \in Seq(Objects)
  BY <1>2
<1>4. MovesTo(p, installer[p].stage)
  BY <1>1, <1>2, <1>3 DEF Create, Moves, MovesTo, TypeOK, Installer
<1>5. objects' \subseteq Objects
  BY <1>1, <1>3 DEF Create, TypeOK
<1>6. /\ installer'[p].stage \in LoggedStages => installer'[p].table \in deTable
      /\ installer'[p].stage \in TriggerStages => installer'[p].table \in trigger
  BY <1>4 DEF ConfigInv, StageLogged, MovesTo
<1>7. UNCHANGED <<settings, sources, perTable>> /\ History
  BY DEF Create
<1>. QED BY <1>1, <1>4, <1>5, <1>6, <1>7, MoveKeeps DEF MovesTo, TypeOK, perTable, History

LEMMA LeaveBlock_Inv ==
  ASSUME ConfigInv, NEW p \in Installers, LeaveBlock(p) PROVE ConfigInv'
<1>1. TypeOK
  BY DEF ConfigInv
<1>2. PICK b \in Blocks : b = installer[p].stage /\ NextStage(p, After[b])
  BY DEF LeaveBlock
<1>3. b = "alert" \/ After[b] \in Stages \ LoggedStages
  BY DEF Blocks, Creates, After, Stages, LoggedStages
<1>4. CASE b = "alert"
  <2>1. MovesTo(p, "trigger")
    BY <1>1, <1>2, <1>4, NextStageMoves DEF After, Stages
  <2>. QED BY <1>2, <1>4, <2>1, QuietMove
           DEF LeaveBlock, ConfigInv, StageLogged, MovesTo, LoggedStages, TriggerStages
<1>5. CASE After[b] \in Stages \ LoggedStages
  <2>1. MovesTo(p, After[b])
    BY <1>1, <1>2, <1>5, NextStageMoves
  <2>. QED BY <1>5, <2>1, QuietMoveTo DEF LeaveBlock
<1>. QED BY <1>3, <1>4, <1>5

\* The steps that lead from one query to the next.
LEMMA Query_Inv ==
  ASSUME ConfigInv, NEW p \in Installers,
         HasAdd(p) \/ ReadSettings(p) \/ IsFirst(p) \/ IsExistTXN(p) \/ AddTxn(p)
  PROVE  ConfigInv'
<1>1. TypeOK
  BY DEF ConfigInv
<1>2. PICK s \in {"isFirst", "setting", "package", "column", "isExistDeTable", "addTxn",
                  "dropTxn", "addColumn", "idle"} :
        Go(p, s) \/ NextStage(p, s) \/ (s = "idle" /\ Idle(p))
  BY DEF HasAdd, ReadSettings, IsFirst, IsExistTXN, AddTxn
<1>3. s \in Stages \ LoggedStages
  BY DEF Stages, Blocks, Creates, LoggedStages
<1>4. MovesTo(p, s)
  BY <1>1, <1>2, <1>3, GoMoves, NextStageMoves, IdleMoves
<1>5. UNCHANGED <<shared, perTable>> /\ History
  BY DEF HasAdd, ReadSettings, IsFirst, IsExistTXN, AddTxn
<1>. QED BY <1>3, <1>4, <1>5, QuietMoveTo

LEMMA InsertSetting_Inv ==
  ASSUME ConfigInv, NEW p \in Installers, InsertSetting(p) PROVE ConfigInv'
<1>1. TypeOK
  BY DEF ConfigInv
<1>2. MovesTo(p, "isFirst")
  BY <1>1, GoMoves DEF InsertSetting, Stages
<1>. QED BY <1>1, <1>2, MoveKeeps
         DEF InsertSetting, TypeOK, MovesTo, perTable, History, LoggedStages, TriggerStages

LEMMA Column_Inv ==
  ASSUME ConfigInv, NEW p \in Installers, DropTxn(p) \/ AddColumn(p) PROVE ConfigInv'
<1>1. TypeOK
  BY DEF ConfigInv
<1>2. PICK s \in {"addColumn", "isExistDeTable"} : Go(p, s)
  BY DEF DropTxn, AddColumn
<1>3. MovesTo(p, s)
  BY <1>1, <1>2, GoMoves DEF Stages
<1>4. column' \in [Tables -> {"none", "other", "number"}]
  BY <1>1 DEF DropTxn, AddColumn, TypeOK
<1>5. UNCHANGED <<shared, deTable, deTrigger, trigger>> /\ History
  BY DEF DropTxn, AddColumn
<1>. QED BY <1>1, <1>3, <1>4, <1>5, MoveKeeps
         DEF TypeOK, MovesTo, shared, History, LoggedStages, TriggerStages

LEMMA IsExistDeTable_Inv ==
  ASSUME ConfigInv, NEW p \in Installers, IsExistDeTable(p) PROVE ConfigInv'
<1>1. TypeOK
  BY DEF ConfigInv
<1>2. CASE installer[p].table \in deTable
  <2>1. MovesTo(p, "alert")
    BY <1>1, <1>2, NextStageMoves DEF IsExistDeTable, Stages, Blocks, Creates
  <2>. QED BY <1>2, <2>1, QuietMove DEF IsExistDeTable, MovesTo, TriggerStages
<1>3. CASE installer[p].table \notin deTable
  <2>1. MovesTo(p, "deTable")
    BY <1>1, <1>3, NextStageMoves DEF IsExistDeTable, Stages
  <2>. QED BY <2>1, QuietMoveTo DEF IsExistDeTable, Stages, LoggedStages
<1>. QED BY <1>2, <1>3

LEMMA CreateDeTable_Inv ==
  ASSUME ConfigInv, NEW p \in Installers, CreateDeTable(p) PROVE ConfigInv'
<1>1. TypeOK /\ installer[p].table \in Tables
  BY DEF ConfigInv, TypeOK, Installer
<1>2. CASE deTable' = deTable \cup {installer[p].table} /\ Go(p, "deTrigger")
  <2>1. MovesTo(p, "deTrigger")
    BY <1>1, <1>2, GoMoves DEF Stages
  <2>. QED BY <1>1, <1>2, <2>1, MoveKeeps
           DEF CreateDeTable, TypeOK, MovesTo, shared, History, TriggerStages
<1>3. CASE Idle(p) /\ UNCHANGED deTable
  <2>1. MovesTo(p, "idle")
    BY <1>1, <1>3, IdleMoves
  <2>. QED BY <1>3, <2>1, QuietMoveTo DEF CreateDeTable, perTable, Stages, LoggedStages
<1>. QED BY <1>2, <1>3 DEF CreateDeTable

LEMMA CreateTriggers_Inv ==
  ASSUME ConfigInv, NEW p \in Installers, CreateDeTrigger(p) \/ CreateTrigger(p)
  PROVE  ConfigInv'
<1>1. TypeOK /\ installer[p].table \in Tables
  BY DEF ConfigInv, TypeOK, Installer
<1>2. CASE CreateDeTrigger(p)
  <2>1. MovesTo(p, "alert")
    BY <1>1, <1>2, EnterMoves DEF CreateDeTrigger, Blocks, Creates
  <2>2. installer[p].table \in deTable
    BY <1>2 DEF CreateDeTrigger, At, ConfigInv, StageLogged, LoggedStages
  <2>. QED BY <1>1, <1>2, <2>1, <2>2, MoveKeeps
           DEF CreateDeTrigger, TypeOK, MovesTo, shared, History, TriggerStages
<1>3. CASE CreateTrigger(p)
  <2>1. MovesTo(p, "readSources")
    BY <1>1, <1>3, GoMoves DEF CreateTrigger, Stages
  <2>2. installer[p].table \in deTable
    BY <1>3 DEF CreateTrigger, At, ConfigInv, StageLogged, LoggedStages
  <2>. QED BY <1>1, <1>3, <2>1, <2>2, MoveKeeps
           DEF CreateTrigger, TypeOK, MovesTo, shared, History
<1>. QED BY <1>2, <1>3

-----------------------------------------------------------------------------
LEMMA ElementOfSeq ==
  ASSUME NEW S, NEW q \in Seq(S), NEW i \in 1..Len(q) PROVE q[i] \in S
  OBVIOUS

LEMMA BitsAreNumbers ==
  ASSUME TypeOK PROVE Bits \subseteq Nat
<1>1. ASSUME NEW r \in Rows PROVE r.bit \in Nat
  <2>1. PICK i \in 1..Len(sources) : r = sources[i]
    BY DEF Rows, Range, TypeOK
  <2>2. sources \in Seq([name: Tables, bit: Nat])
    BY DEF TypeOK
  <2>3. sources[i] \in [name: Tables, bit: Nat]
    BY <2>2, ElementOfSeq
  <2>. QED BY <2>1, <2>3
<1>. QED BY <1>1 DEF Bits

\* The bit that InsertSource chooses is above every bit in use.
LEMMA FreeBitIsFree ==
  ASSUME ConfigInv PROVE FreeBit \in Nat /\ \A b \in Bits : FreeBit > b
<1>1. Bits \subseteq Nat
  BY BitsAreNumbers DEF ConfigInv
<1>2. CASE Rows = {}
  BY <1>2 DEF FreeBit, Bits
<1>3. CASE Rows # {}
  <2>1. Bits # {}
    BY <1>3 DEF Bits
  <2>2. Max(Bits) \in Bits /\ \A c \in Bits : Max(Bits) >= c
    BY <2>1 DEF Max, ConfigInv, HighestExists
  <2>3. PICK m \in Bits : m = Max(Bits)
    BY <2>2
  <2>4. m \in Nat /\ FreeBit = m + 1 /\ \A c \in Bits : m >= c
    BY <1>1, <1>3, <2>2, <2>3 DEF FreeBit
  <2>. QED BY <1>1, <2>4
<1>. QED BY <1>2, <1>3

LEMMA ReadSources_Inv ==
  ASSUME ConfigInv, NEW p \in Installers, ReadSources(p) PROVE ConfigInv'
<1>1. TypeOK
  BY DEF ConfigInv
<1>2. CASE Idle(p)
  <2>1. MovesTo(p, "idle")
    BY <1>1, <1>2, IdleMoves
  <2>. QED BY <2>1, QuietMoveTo DEF ReadSources, Stages, LoggedStages
<1>3. CASE installer' = [installer EXCEPT ![p].stage = "register", ![p].bit = FreeBit]
  <2>1. FreeBit \in Nat
    BY FreeBitIsFree
  <2>2. MovesTo(p, "register")
    BY <1>1, <1>3, <2>1 DEF MovesTo, Moves, TypeOK, Installer, Stages
  <2>3. installer[p].table \in deTable \cap trigger
    BY DEF ReadSources, At, ConfigInv, StageLogged, LoggedStages, TriggerStages
  <2>. QED BY <2>2, <2>3, QuietMove DEF ReadSources, MovesTo
<1>. QED BY <1>2, <1>3 DEF ReadSources

LEMMA Register_Inv ==
  ASSUME ConfigInv, NEW p \in Installers, Register(p) PROVE ConfigInv'
<1>. DEFINE row == [name |-> installer[p].table, bit |-> installer[p].bit]
<1>1. TypeOK /\ row \in [name: Tables, bit: Nat] /\ sources' = Append(sources, row)
  BY DEF ConfigInv, TypeOK, Installer, Register
<1>2. MovesTo(p, "idle")
  BY <1>1, IdleMoves DEF Register
<1>3. Rows' = Rows \cup {row}
  <2>1. /\ Len(sources') = Len(sources) + 1 /\ Len(sources) \in Nat
        /\ sources \in Seq([name: Tables, bit: Nat])
        /\ \A i \in 1..Len(sources) : sources'[i] = sources[i]
        /\ sources'[Len(sources) + 1] = row
        /\ DOMAIN sources' = 1..(Len(sources) + 1) /\ DOMAIN sources = 1..Len(sources)
    BY <1>1 DEF TypeOK
  <2>. QED BY <2>1 DEF Rows, Range
<1>4. Names' = Names \cup {installer[p].table} /\ Bits' = Bits \cup {installer[p].bit}
  <2>1. row.name = installer[p].table /\ row.bit = installer[p].bit
    OBVIOUS
  <2>. QED BY <1>3, <2>1 DEF Names, Bits
<1>5. RegisteredIsLogged'
  BY <1>4 DEF ConfigInv, RegisteredIsLogged, StageLogged, LoggedStages, TriggerStages,
     Register, At, perTable
<1>6. HighestExists'
  <2>1. Bits \subseteq Nat /\ installer[p].bit \in Nat
    BY <1>1, BitsAreNumbers DEF TypeOK, Installer
  <2>. QED BY <1>4, <2>1 DEF ConfigInv, HighestExists
<1>7. TypeOK'
  BY <1>1, <1>2 DEF TypeOK, Register, MovesTo, Moves, perTable, History
<1>8. ASSUME NEW q \in Installers PROVE StageLogged(q)'
  BY <1>2 DEF ConfigInv, StageLogged, MovesTo, Moves, Register, perTable,
     LoggedStages, TriggerStages
<1>. QED BY <1>5, <1>6, <1>7, <1>8 DEF ConfigInv

LEMMA Fail_Inv ==
  ASSUME ConfigInv, NEW p \in Installers, Fail(p) PROVE ConfigInv'
<1>1. TypeOK
  BY DEF ConfigInv
<1>2. MovesTo(p, "idle")
  BY <1>1, IdleMoves DEF Fail
<1>3. fails' \in 0..MaxFails
  BY <1>1, ConfigAssumption DEF Fail, TypeOK
<1>4. Coming(p) \in Stages
  <2>1. installer[p].stage \in Stages
    BY <1>1 DEF TypeOK, Installer
  <2>2. \A b \in Blocks : After[b] \in Stages
    BY DEF Blocks, Creates, After, Stages
  <2>. QED BY <2>1, <2>2 DEF Coming
<1>5. cut' \subseteq Stages
  BY <1>1, <1>4 DEF Fail, TypeOK
<1>. QED BY <1>1, <1>2, <1>3, <1>5, MoveKeeps
         DEF Fail, TypeOK, MovesTo, shared, perTable, LoggedStages, TriggerStages

-----------------------------------------------------------------------------
LEMMA Next_ConfigInv == ConfigInv /\ [Next]_vars => ConfigInv'
<1>1. ASSUME ConfigInv, UNCHANGED vars PROVE ConfigInv'
  <2>1. TypeOK' /\ HighestExists' /\ RegisteredIsLogged'
    BY <1>1 DEF ConfigInv, TypeOK, HighestExists, RegisteredIsLogged, Names, Bits, Rows,
       vars, shared, perTable
  <2>2. ASSUME NEW p \in Installers PROVE StageLogged(p)'
    BY <1>1 DEF ConfigInv, StageLogged, vars, perTable
  <2>. QED BY <2>1, <2>2 DEF ConfigInv
<1>2. ASSUME ConfigInv, NEW p \in Installers, Step(p) PROVE ConfigInv'
  BY <1>2, ReadObjects_Inv, IsInit_Inv, Drop_Inv, Create_Inv, LeaveBlock_Inv, Query_Inv,
     InsertSetting_Inv, Column_Inv, IsExistDeTable_Inv, CreateDeTable_Inv,
     CreateTriggers_Inv, ReadSources_Inv, Register_Inv DEF Step
<1>. QED BY <1>1, <1>2, Start_Inv, Fail_Inv DEF Next

\* The inductive invariant: types, the order of the stages, and what is registered.
THEOREM ConfigCorrect == Spec => []ConfigInv
  BY Init_ConfigInv, Next_ConfigInv, PTL DEF Spec

\* Every variable keeps its type, the bits of sy$sources among them.
THEOREM ConfigTypes == Spec => []TypeOK
<1>1. ConfigInv => TypeOK
  BY DEF ConfigInv
<1>. QED BY <1>1, ConfigCorrect, PTL

\* A registered table has its delete log and its trigger, with any number of calls of
\* addNewSource at once and any failures.
THEOREM RegisteredTablesAreLogged == Spec => []RegisteredIsLogged
<1>1. ConfigInv => RegisteredIsLogged
  BY DEF ConfigInv
<1>. QED BY <1>1, ConfigCorrect, PTL

-----------------------------------------------------------------------------
(***************************************************************************)
(* Calls that do not overlap.                                              *)
(***************************************************************************)
Busy(S) == \E p \in Installers : installer[p].stage \in S

BusyWith(S, t) == \E p \in Installers : installer[p].stage \in S /\ installer[p].table = t

Viewed == "DB_MODE" \in objects
Packaged == {"SYNC_CORE", "SYNC_CORE BODY"} \cap objects # {}

SequencesDone == Range(Creates["sequences"]) \subseteq objects
TablesDone == Range(Creates["tables"]) \subseteq objects
PackageDone == Range(Creates["package"]) \subseteq objects

\* Two installers are not under way at once.
Alone == \A p, q \in Installers : At(p, "idle") \/ At(q, "idle") \/ p = q

\* The view is the last thing Init makes: with it everything else is there, and before
\* it no settings and no sources are.
InitOK ==
  /\ settings \in {0, 1}
  /\ IF Viewed
       THEN /\ SequencesDone /\ TablesDone
            /\ \/ settings = 1 \/ cut \cap {"settings", "setting"} # {}
               \/ Busy({"view", "settings", "setting"})
       ELSE settings = 0 /\ Names = {}

\* The package is made once, and the jobs after it.
PackageOK ==
  /\ Names # {} => Packaged
  /\ Packaged => /\ PackageDone \/ "package" \in cut \/ Busy({"package"})
                 /\ \/ "J_COALESCE_LOG" \in objects \/ cut \cap {"package", "jobs"} # {}
                    \/ Busy({"package", "jobs"})

\* What has a trigger has what comes before it, and is registered in the end.
TriggersOK ==
  /\ \A t \in deTable : t \in deTrigger \/ "deTrigger" \in cut \/ BusyWith({"deTrigger"}, t)
  /\ \A t \in trigger :
       /\ Viewed /\ Packaged /\ column[t] = "number"
       /\ \/ t \in Names \/ cut \cap {"readSources", "register"} # {}
          \/ BusyWith({"readSources", "register"}, t)

SourcesOK == \A i, j \in DOMAIN sources : i # j =>
  sources[i].bit # sources[j].bit /\ sources[i].name # sources[j].name

\* The statements still to come of a block.
BlockOK(p) ==
  LET q == installer[p] IN
  IF q.stage \in Blocks
    THEN /\ q.drop \subseteq Range(Creates[q.stage]) \ TxlogParts
         /\ q.drop # {} => q.make = Creates[q.stage] /\ q.stage \in {"sequences", "tables", "jobs"}
         /\ Range(Creates[q.stage]) \subseteq objects \cup Range(q.make)
         /\ Range(q.make) \subseteq Range(Creates[q.stage])
    ELSE q.drop = {} /\ q.make = <<>>

\* What isInit has found up to here.
FoundOK(p) ==
  /\ At(p, "idle") \/ At(p, "readSequences") => installer[p].found = {}
  /\ At(p, "readTables") =>
       installer[p].found = objects \cap Range(Creates["sequences"])
  /\ At(p, "readViews") =>
       installer[p].found = objects \cap (Range(Creates["sequences"]) \cup Range(Creates["tables"]))

\* Init runs without the view, its blocks one after the other.
InitStage(p) ==
  /\ At(p, "sequences") \/ At(p, "tables") => ~Viewed
  /\ At(p, "tables") \/ At(p, "view") => SequencesDone
  /\ At(p, "view") => TablesDone /\ settings = 0 /\ Names = {}
  /\ At(p, "view") => installer[p].make = <<>> \/ (installer[p].make = Creates["view"] /\ ~Viewed)
  /\ At(p, "settings") \/ At(p, "setting") => Viewed /\ settings = 0 /\ Names = {}
  /\ At(p, "hasAdd") => Viewed

\* After isInit and Init: the table is not registered, and each stage stands for what was
\* done or found before it.
TableStage(p) ==
  LET q == installer[p] IN
  q.stage \in PastInit =>
    /\ Viewed /\ q.table \notin Names
    /\ q.stage \notin {"isFirst", "package"} => Packaged
    /\ q.stage \in {"package", "jobs"} => Names = {} /\ trigger = {}
    /\ q.stage = "addTxn" => column[q.table] # "number"
    /\ q.stage = "dropTxn" => column[q.table] = "other"
    /\ q.stage = "addColumn" => column[q.table] = "none"
    /\ q.stage \in {"isExistDeTable", "deTable", "deTrigger", "alert", "trigger", "readSources",
                    "register"} => column[q.table] = "number"
    /\ q.stage = "register" => q.bit \notin Bits

SerialInv ==
  ~overlap =>
    /\ Alone /\ InitOK /\ PackageOK /\ TriggersOK /\ SourcesOK
    /\ \A p \in Installers : BlockOK(p) /\ FoundOK(p) /\ InitStage(p) /\ TableStage(p)

\* The same, seen from the installer that is under way.
Resting(p) == /\ installer[p].stage = "idle" /\ installer[p].found = {}
              /\ installer[p].drop = {} /\ installer[p].make = <<>>

Sole(p) == \A q \in Installers \ {p} : Resting(q)

SchemaOK == InitOK /\ PackageOK /\ TriggersOK /\ SourcesOK

CallOK(p) == BlockOK(p) /\ FoundOK(p) /\ InitStage(p) /\ TableStage(p)

SerialAt(p) == ~overlap /\ Sole(p) /\ SchemaOK /\ CallOK(p)

LEMMA IdleNotBlock == "idle" \notin Blocks /\ "idle" \notin PastInit
  BY DEF Blocks, Creates, PastInit

LEMMA SerialIs ==
  ASSUME SerialInv, ~overlap, NEW p \in Installers, ~At(p, "idle") PROVE SerialAt(p)
<1>1. ASSUME NEW q \in Installers \ {p} PROVE Resting(q)
  <2>1. At(q, "idle") /\ BlockOK(q) /\ FoundOK(q)
    BY DEF SerialInv, Alone
  <2>. QED BY <2>1, IdleNotBlock DEF BlockOK, FoundOK, At, Resting
<1>. QED BY <1>1 DEF SerialInv, SerialAt, Sole, SchemaOK, CallOK

SomeSerial == \E p \in Installers : SerialAt(p)

LEMMA SerialBack == SomeSerial => SerialInv
<1>. SUFFICES ASSUME NEW p \in Installers, SerialAt(p) PROVE SerialInv
  BY DEF SomeSerial
<1>1. Alone
  BY DEF SerialAt, Sole, Resting, Alone, At
<1>2. ASSUME NEW q \in Installers PROVE CallOK(q)
  <2>1. CASE q = p
    BY <2>1 DEF SerialAt
  <2>2. CASE q # p
    <3>1. Resting(q)
      BY <2>2 DEF SerialAt, Sole
    <3>. QED BY <3>1, IdleNotBlock DEF Resting, CallOK, BlockOK, FoundOK, InitStage, TableStage, At
  <2>. QED BY <2>1, <2>2
<1>. QED BY <1>1, <1>2 DEF SerialInv, SerialAt, SchemaOK, CallOK

LEMMA SoleStays == ASSUME NEW p \in Installers, Sole(p), Moves(p) PROVE Sole(p)'
  BY DEF Sole, Moves, Resting

-----------------------------------------------------------------------------
\* What becomes of the rest of the installer's record.
Keeps(p) == /\ installer'[p].found = installer[p].found /\ installer'[p].drop = installer[p].drop
            /\ installer'[p].make = installer[p].make /\ installer'[p].bit = installer[p].bit

LEMMA GoKeeps ==
  ASSUME TypeOK, NEW p \in Installers, NEW s \in Stages, Go(p, s)
  PROVE  MovesTo(p, s) /\ Keeps(p)
  BY GoMoves DEF TypeOK, Go, Keeps, Installer

LEMMA IdleKeeps ==
  ASSUME TypeOK, NEW p \in Installers, Idle(p)
  PROVE  /\ MovesTo(p, "idle") /\ Resting(p)'
<1>1. installer[p] \in Installer /\ installer \in [Installers -> Installer]
  BY DEF TypeOK
<1>. QED BY <1>1, IdleMoves DEF Idle, Resting, Installer

LEMMA EnterKeeps ==
  ASSUME TypeOK, NEW p \in Installers, NEW b \in Blocks, Enter(p, b)
  PROVE  /\ MovesTo(p, b) /\ installer'[p].drop = Dropped(b)
         /\ installer'[p].make = Creates[b] /\ installer'[p].found = {}
<1>1. installer[p] \in Installer /\ installer \in [Installers -> Installer]
  BY DEF TypeOK
<1>. QED BY <1>1, EnterMoves DEF Enter, Installer

-----------------------------------------------------------------------------
\* The same conditions without quantifiers.
InitHere(p) ==
  /\ settings \in {0, 1}
  /\ IF Viewed
       THEN /\ SequencesDone /\ TablesDone
            /\ \/ settings = 1 \/ cut \cap {"settings", "setting"} # {}
               \/ installer[p].stage \in {"view", "settings", "setting"}
       ELSE settings = 0 /\ Names = {}

PackageHere(p) ==
  /\ Names # {} => Packaged
  /\ Packaged => /\ PackageDone \/ "package" \in cut \/ installer[p].stage = "package"
                 /\ \/ "J_COALESCE_LOG" \in objects \/ cut \cap {"package", "jobs"} # {}
                    \/ installer[p].stage \in {"package", "jobs"}

TriggersHere(p) ==
  /\ \A t \in deTable : \/ t \in deTrigger \/ "deTrigger" \in cut
                        \/ installer[p].stage = "deTrigger" /\ installer[p].table = t
  /\ \A t \in trigger :
       /\ Viewed /\ Packaged /\ column[t] = "number"
       /\ \/ t \in Names \/ cut \cap {"readSources", "register"} # {}
          \/ installer[p].stage \in {"readSources", "register"} /\ installer[p].table = t

SchemaHere(p) == InitHere(p) /\ PackageHere(p) /\ TriggersHere(p) /\ SourcesOK

LEMMA OnlyBusy ==
  ASSUME NEW p \in Installers, Sole(p), NEW q \in Installers, installer[q].stage # "idle"
  PROVE  q = p
  BY DEF Sole, Resting

LEMMA HereIs == ASSUME NEW p \in Installers, Sole(p), SchemaOK PROVE SchemaHere(p)
<1>1. InitHere(p)
  BY OnlyBusy DEF SchemaOK, InitOK, Busy, InitHere
<1>2. PackageHere(p)
  BY OnlyBusy DEF SchemaOK, PackageOK, Busy, PackageHere
<1>3. TriggersHere(p)
  BY OnlyBusy DEF SchemaOK, TriggersOK, BusyWith, TriggersHere
<1>. QED BY <1>1, <1>2, <1>3 DEF SchemaOK, SchemaHere

SomeHere == \E p \in Installers : SchemaHere(p)

LEMMA HereBack == SomeHere => SchemaOK
<1>. SUFFICES ASSUME NEW p \in Installers, SchemaHere(p) PROVE SchemaOK
  BY DEF SomeHere
<1>1. InitOK
  BY DEF SchemaHere, InitOK, Busy, InitHere
<1>2. PackageOK
  BY DEF SchemaHere, PackageOK, Busy, PackageHere
<1>3. TriggersOK
  BY DEF SchemaHere, TriggersOK, BusyWith, TriggersHere
<1>. QED BY <1>1, <1>2, <1>3 DEF SchemaHere, SchemaOK

LEMMA SerialHere ==
  ASSUME NEW p \in Installers, SerialAt(p)
  PROVE  SchemaHere(p) /\ CallOK(p) /\ ~overlap
  BY HereIs DEF SerialAt

\* What is left to show of a step of the installer under way.
LEMMA SerialStep ==
  ASSUME NEW p \in Installers, SerialAt(p), Moves(p), ~overlap', SchemaHere(p)', CallOK(p)'
  PROVE  SerialAt(p)'
<1>1. Sole(p)'
  BY SoleStays DEF SerialAt
<1>2. (SomeHere => SchemaOK)'
  BY HereBack, PTL
<1>. QED BY <1>1, <1>2 DEF SerialAt, SomeHere

\* A step that touches nothing but the installer, at stage s before.
LEMMA QuietSerial ==
  ASSUME NEW p \in Installers, SerialAt(p), NEW s, MovesTo(p, s),
         UNCHANGED <<shared, perTable>>, History, CallOK(p)',
         installer[p].stage \in {"view", "settings", "setting"} =>
           s \in {"view", "settings", "setting"} \/ settings = 1,
         installer[p].stage = "package" => PackageDone /\ s = "jobs",
         installer[p].stage = "jobs" => "J_COALESCE_LOG" \in objects,
         installer[p].stage # "deTrigger",
         installer[p].stage \in {"readSources", "register"} => s = "register"
  PROVE  SerialAt(p)'
<1>1. /\ InitHere(p) /\ PackageHere(p) /\ TriggersHere(p) /\ SourcesOK /\ ~overlap
      /\ Moves(p) /\ installer'[p].stage = s /\ installer'[p].table = installer[p].table
  BY SerialHere DEF MovesTo, SchemaHere
<1>2. /\ objects' = objects /\ settings' = settings /\ sources' = sources /\ cut' = cut
      /\ column' = column /\ deTable' = deTable /\ deTrigger' = deTrigger /\ trigger' = trigger
      /\ ~overlap' /\ Names' = Names
  BY <1>1 DEF shared, perTable, History, Names, Rows
<1>3. InitHere(p)'
  BY <1>1, <1>2 DEF InitHere, Viewed, SequencesDone, TablesDone
<1>4. PackageHere(p)'
  BY <1>1, <1>2 DEF PackageHere, Packaged, PackageDone
<1>5. TriggersHere(p)'
  BY <1>1, <1>2 DEF TriggersHere, Viewed, Packaged
<1>6. SourcesOK'
  BY <1>1, <1>2 DEF SourcesOK
<1>. QED BY <1>1, <1>2, <1>3, <1>4, <1>5, <1>6, SerialStep DEF SchemaHere

-----------------------------------------------------------------------------
LEMMA RangeOfThree == ASSUME NEW a, NEW b, NEW c PROVE Range(<<a, b, c>>) = {a, b, c}
<1>. DEFINE s == <<a, b, c>>
<1>1. DOMAIN s = {1, 2, 3} /\ s[1] = a /\ s[2] = b /\ s[3] = c
  OBVIOUS
<1>. HIDE DEF s
<1>2. Range(s) = {a, b, c}
  BY <1>1 DEF Range
<1>. QED BY <1>2 DEF s

LEMMA RangeOfTwo == ASSUME NEW a, NEW b PROVE Range(<<a, b>>) = {a, b}
<1>. DEFINE s == <<a, b>>
<1>1. DOMAIN s = {1, 2} /\ s[1] = a /\ s[2] = b
  OBVIOUS
<1>. HIDE DEF s
<1>2. Range(s) = {a, b}
  BY <1>1 DEF Range
<1>. QED BY <1>2 DEF s

LEMMA RangesAre ==
  /\ Range(Creates["sequences"]) = {"VERCONTROL_SEQ", "SY$SCN_SEQ"}
  /\ Range(Creates["tables"]) = {"PATCH_VERCONTROL", "SY$SOURCES", "SY$TXLOG", "SYNC_CORE_SETTINGS",
                                 "SY$TXLOG_PK", "SY$TXLOG_I1"}
  /\ Range(Creates["view"]) = {"DB_MODE"}
  /\ Range(Creates["package"]) = {"COMPILE_ALLOBJECTS", "SYNC_CORE", "SYNC_CORE BODY"}
  /\ Range(Creates["jobs"]) = {"P_COALESCE_LOG", "J_COALESCE_LOG", "J_CALL_SIGNAL"}
  /\ Range(Creates["alert"]) = {"SYNC_ALERT", "SYNC_ALERT BODY"}
  /\ Range(<< >>) = {}
<1>1. Range(Creates["sequences"]) = {"VERCONTROL_SEQ", "SY$SCN_SEQ"}
  BY RangeOfTwo DEF Creates
<1>2. Range(Creates["tables"]) = {"PATCH_VERCONTROL", "SY$SOURCES", "SY$TXLOG", "SYNC_CORE_SETTINGS",
                                 "SY$TXLOG_PK", "SY$TXLOG_I1"}
  BY DEF Creates, Range
<1>3. Range(Creates["view"]) = {"DB_MODE"}
  BY DEF Creates, Range
<1>4. Range(Creates["package"]) = {"COMPILE_ALLOBJECTS", "SYNC_CORE", "SYNC_CORE BODY"}
  BY RangeOfThree DEF Creates
<1>5. Range(Creates["jobs"]) = {"P_COALESCE_LOG", "J_COALESCE_LOG", "J_CALL_SIGNAL"}
  BY RangeOfThree DEF Creates
<1>6. Range(Creates["alert"]) = {"SYNC_ALERT", "SYNC_ALERT BODY"}
  BY RangeOfTwo DEF Creates
<1>7. Range(<< >>) = {}
  BY DEF Range
<1>. QED BY <1>1, <1>2, <1>3, <1>4, <1>5, <1>6, <1>7

LEMMA BlocksAre ==
  /\ Blocks = {"sequences", "tables", "view", "package", "jobs", "alert"}
  /\ After["sequences"] = "tables" /\ After["tables"] = "view" /\ After["view"] = "settings"
  /\ After["package"] = "jobs" /\ After["jobs"] = "column" /\ After["alert"] = "trigger"
  BY DEF Blocks, Creates, After

\* Where isInit looks, and what a block drops.
LEMMA InitObjectsAre ==
  /\ InitObjects \subseteq Range(Creates["sequences"]) \cup Range(Creates["tables"])
                             \cup Range(Creates["view"])
  /\ "DB_MODE" \in InitObjects
  BY RangesAre DEF InitObjects, TxlogParts

LEMMA DroppedIs ==
  ASSUME NEW b \in Blocks
  PROVE  /\ Dropped(b) \subseteq Range(Creates[b]) \ TxlogParts
         /\ Dropped(b) # {} => b \in {"sequences", "tables", "jobs"}
  BY BlocksAre DEF Dropped

-----------------------------------------------------------------------------
LEMMA RestingCall == ASSUME NEW p \in Installers, Resting(p)' PROVE CallOK(p)'
  BY IdleNotBlock DEF Resting, CallOK, BlockOK, FoundOK, InitStage, TableStage, At

\* A stage after Init that is no block of statements.
LEMMA TableCall ==
  ASSUME NEW p \in Installers, NEW s \in PastInit \ Blocks, installer'[p].stage = s,
         installer'[p].drop = {}, installer'[p].make = <<>>, TableStage(p)'
  PROVE  CallOK(p)'
<1>1. s \notin {"idle", "readSequences", "readTables", "readViews", "hasAdd", "sequences", "tables",
                "view", "settings", "setting"}
  BY DEF PastInit
<1>. QED BY <1>1 DEF CallOK, BlockOK, FoundOK, InitStage, At

\* A block that begins.
LEMMA BlockCall ==
  ASSUME NEW p \in Installers, NEW b \in Blocks, installer'[p].stage = b,
         installer'[p].drop = Dropped(b), installer'[p].make = Creates[b],
         InitStage(p)', TableStage(p)'
  PROVE  CallOK(p)'
<1>1. BlockOK(p)'
  BY DroppedIs DEF BlockOK
<1>2. FoundOK(p)'
  BY BlocksAre DEF FoundOK, At
<1>. QED BY <1>1, <1>2 DEF CallOK

LEMMA ReadObjects_Serial ==
  ASSUME TypeOK, NEW p \in Installers, SerialAt(p), ReadObjects(p) PROVE SerialAt(p)'
<1>. DEFINE q == installer[p]
<1>1. /\ q \in Installer /\ installer \in [Installers -> Installer]
      /\ BlockOK(p) /\ FoundOK(p) /\ UNCHANGED <<shared, perTable>> /\ History
  BY SerialHere DEF TypeOK, CallOK, ReadObjects
<1>2. CASE At(p, "readSequences")
  <2>1. /\ MovesTo(p, "readTables") /\ installer'[p].drop = {} /\ installer'[p].make = <<>>
        /\ installer'[p].found = objects \cap Range(Creates["sequences"])
    <3>. DEFINE rec == [q EXCEPT !.stage = "readTables",
                                 !.found = @ \cup (objects \cap Range(Creates["sequences"]))]
    <3>1. q.found = {} /\ q.drop = {} /\ q.make = <<>>
      BY <1>1, <1>2, BlocksAre DEF FoundOK, BlockOK, At
    <3>2. rec \in Installer
      BY <1>1 DEF Installer, Stages, TypeOK
    <3>3. installer' = [installer EXCEPT ![p] = rec]
      BY <1>1, <1>2 DEF ReadObjects, Installer, At
    <3>4. installer'[p] = rec /\ Moves(p)
      BY <3>2, <3>3, RecordMoves
    <3>. QED BY <1>1, <3>1, <3>4 DEF MovesTo, Installer
  <2>2. CallOK(p)'
    BY <1>1, <2>1, BlocksAre
       DEF CallOK, BlockOK, FoundOK, InitStage, TableStage, At, MovesTo, PastInit, shared
  <2>. QED BY <1>1, <1>2, <2>1, <2>2, QuietSerial DEF At
<1>3. CASE At(p, "readTables")
  <2>1. /\ MovesTo(p, "readViews") /\ installer'[p].drop = {} /\ installer'[p].make = <<>>
        /\ installer'[p].found
             = objects \cap (Range(Creates["sequences"]) \cup Range(Creates["tables"]))
    <3>. DEFINE rec == [q EXCEPT !.stage = "readViews",
                                 !.found = @ \cup (objects \cap Range(Creates["tables"]))]
    <3>1. /\ q.found = objects \cap Range(Creates["sequences"])
          /\ q.drop = {} /\ q.make = <<>>
      BY <1>1, <1>3, BlocksAre DEF FoundOK, BlockOK, At
    <3>2. rec \in Installer
      BY <1>1 DEF Installer, Stages, TypeOK
    <3>3. installer' = [installer EXCEPT ![p] = rec]
      BY <1>1, <1>3 DEF ReadObjects, Installer, At
    <3>4. installer'[p] = rec /\ Moves(p)
      BY <3>2, <3>3, RecordMoves
    <3>. QED BY <1>1, <3>1, <3>4 DEF MovesTo, Installer
  <2>2. CallOK(p)'
    BY <1>1, <2>1, BlocksAre
       DEF CallOK, BlockOK, FoundOK, InitStage, TableStage, At, MovesTo, PastInit, shared
  <2>. QED BY <1>1, <1>3, <2>1, <2>2, QuietSerial DEF At
<1>. QED BY <1>2, <1>3 DEF ReadObjects

LEMMA IsInit_Serial ==
  ASSUME TypeOK, NEW p \in Installers, SerialAt(p), IsInit(p) PROVE SerialAt(p)'
<1>. DEFINE q == installer[p]
<1>1. /\ q \in Installer /\ installer \in [Installers -> Installer]
      /\ BlockOK(p) /\ FoundOK(p) /\ InitHere(p) /\ At(p, "readViews")
      /\ UNCHANGED <<shared, perTable>> /\ History
  BY SerialHere DEF TypeOK, CallOK, SchemaHere, IsInit
<1>2. /\ q.found = objects \cap (Range(Creates["sequences"]) \cup Range(Creates["tables"]))
      /\ q.drop = {} /\ q.make = <<>>
  BY <1>1, BlocksAre DEF FoundOK, BlockOK, At
<1>3. CASE InitObjects \subseteq q.found \cup (objects \cap Range(Creates["view"]))
  <2>1. /\ MovesTo(p, "hasAdd") /\ installer'[p].drop = {} /\ installer'[p].make = <<>>
    <3>. DEFINE rec == [q EXCEPT !.stage = "hasAdd", !.found = {}]
    <3>2. rec \in Installer
      BY <1>1 DEF Installer, Stages, TypeOK
    <3>3. installer' = [installer EXCEPT ![p] = rec]
      BY <1>1, <1>3 DEF IsInit, Installer, At
    <3>4. installer'[p] = rec /\ Moves(p)
      BY <3>2, <3>3, RecordMoves
    <3>. QED BY <1>1, <1>2, <3>4 DEF MovesTo, Installer
  <2>2. Viewed
    BY <1>2, <1>3, InitObjectsAre DEF Viewed
  <2>3. CallOK(p)'
    BY <1>1, <2>1, <2>2, BlocksAre
       DEF CallOK, BlockOK, FoundOK, InitStage, TableStage, At, MovesTo, PastInit, shared, Viewed
  <2>. QED BY <1>1, <2>1, <2>3, QuietSerial DEF At
<1>4. CASE ~(InitObjects \subseteq q.found \cup (objects \cap Range(Creates["view"])))
  <2>1. Enter(p, "sequences")
    BY <1>4 DEF IsInit
  <2>2. /\ MovesTo(p, "sequences") /\ installer'[p].drop = Dropped("sequences")
        /\ installer'[p].make = Creates["sequences"]
    BY <2>1, EnterKeeps, BlocksAre
  <2>3. ~Viewed
    BY <1>1, <1>2, <1>4, InitObjectsAre, RangesAre DEF InitHere, Viewed, SequencesDone, TablesDone
  <2>4. CallOK(p)'
    <3>1. InitStage(p)' /\ TableStage(p)'
      BY <1>1, <2>2, <2>3 DEF InitStage, TableStage, At, MovesTo, PastInit, shared, Viewed
    <3>. QED BY <2>2, <3>1, BlockCall, BlocksAre DEF MovesTo
  <2>. QED BY <1>1, <2>2, <2>4, QuietSerial DEF At
<1>. QED BY <1>3, <1>4

-----------------------------------------------------------------------------
\* The facts the steps of a call start from.
LEMMA CallFacts ==
  ASSUME TypeOK, NEW p \in Installers, SerialAt(p)
  PROVE  /\ installer[p] \in Installer /\ installer \in [Installers -> Installer]
         /\ BlockOK(p) /\ FoundOK(p) /\ InitStage(p) /\ TableStage(p)
         /\ InitHere(p) /\ PackageHere(p) /\ TriggersHere(p) /\ SourcesOK /\ ~overlap
         /\ installer[p].stage \in Stages
  BY SerialHere DEF TypeOK, CallOK, SchemaHere, Installer

\* Outside the blocks there is nothing left to drop or make.
LEMMA NothingLeft ==
  ASSUME NEW p \in Installers, BlockOK(p), installer[p].stage \notin Blocks
  PROVE  installer[p].drop = {} /\ installer[p].make = <<>>
  BY DEF BlockOK

\* From one query to the next, after Init.
LEMMA TableGo ==
  ASSUME TypeOK, NEW p \in Installers, SerialAt(p), NEW s \in PastInit \ Blocks,
         installer[p].stage \notin Blocks, Go(p, s), UNCHANGED <<shared, perTable>>, History,
         installer[p].stage \in {"settings", "setting"} => settings = 1,
         installer[p].stage # "deTrigger",
         installer[p].stage \in {"readSources", "register"} => s = "register",
         TableStage(p)'
  PROVE  SerialAt(p)'
<1>1. MovesTo(p, s) /\ Keeps(p)
  BY GoKeeps DEF PastInit, Stages, Blocks, Creates
<1>2. installer'[p].drop = {} /\ installer'[p].make = <<>> /\ installer'[p].stage = s
  BY <1>1, CallFacts, NothingLeft DEF Keeps, MovesTo
<1>3. CallOK(p)'
  BY <1>2, TableCall
<1>4. installer[p].stage \notin {"view", "package", "jobs"}
  BY BlocksAre
<1>. QED BY <1>1, <1>3, <1>4, QuietSerial

\* The call returns.
LEMMA ReturnSerial ==
  ASSUME TypeOK, NEW p \in Installers, SerialAt(p), Idle(p), UNCHANGED <<shared, perTable>>, History,
         installer[p].stage \notin Blocks,
         installer[p].stage \notin {"settings", "setting", "deTrigger", "readSources", "register"}
  PROVE  SerialAt(p)'
<1>1. MovesTo(p, "idle") /\ Resting(p)'
  BY IdleKeeps
<1>2. CallOK(p)'
  BY <1>1, RestingCall
<1>3. installer[p].stage \notin {"view", "package", "jobs"}
  BY BlocksAre
<1>. QED BY <1>1, <1>2, <1>3, QuietSerial

LEMMA HasAdd_Serial ==
  ASSUME TypeOK, NEW p \in Installers, SerialAt(p), HasAdd(p) PROVE SerialAt(p)'
<1>1. /\ installer[p].stage = "hasAdd" /\ UNCHANGED <<shared, perTable>> /\ History
      /\ installer[p].stage \notin Blocks
  BY BlocksAre DEF HasAdd, At
<1>2. CASE Idle(p)
  BY <1>1, <1>2, ReturnSerial
<1>3. CASE installer[p].table \notin Names /\ Go(p, "isFirst")
  <2>1. "isFirst" \in PastInit \ Blocks
    BY BlocksAre DEF PastInit
  <2>2. MovesTo(p, "isFirst")
    BY <1>3, GoKeeps DEF Stages
  <2>3. TableStage(p)'
    <3>1. Viewed
      BY <1>1, CallFacts DEF InitStage, At
    <3>. QED BY <1>1, <1>3, <2>2, <3>1 DEF TableStage, MovesTo, Viewed, Names, Rows, shared
  <2>. QED BY <1>1, <1>3, <2>1, <2>3, TableGo
<1>. QED BY <1>2, <1>3 DEF HasAdd

LEMMA ReadSettings_Serial ==
  ASSUME TypeOK, NEW p \in Installers, SerialAt(p), ReadSettings(p) PROVE SerialAt(p)'
<1>1. /\ installer[p].stage = "settings" /\ UNCHANGED <<shared, perTable>> /\ History
      /\ installer[p].stage \notin Blocks
  BY BlocksAre DEF ReadSettings, At
<1>2. Viewed /\ settings = 0 /\ Names = {}
  BY <1>1, CallFacts DEF InitStage, At
<1>3. MovesTo(p, "setting") /\ Keeps(p)
  <2>1. Go(p, "setting")
    BY <1>2 DEF ReadSettings
  <2>. QED BY <2>1, GoKeeps DEF Stages
<1>4. CallOK(p)'
  <2>1. installer'[p].drop = {} /\ installer'[p].make = <<>> /\ installer'[p].stage = "setting"
    BY <1>1, <1>3, CallFacts, NothingLeft DEF Keeps, MovesTo
  <2>2. Viewed' /\ settings' = 0 /\ Names' = {}
    BY <1>1, <1>2 DEF shared, Viewed, Names, Rows
  <2>. QED BY <2>1, <2>2, BlocksAre
           DEF CallOK, BlockOK, FoundOK, InitStage, TableStage, At, PastInit
<1>. QED BY <1>1, <1>3, <1>4, QuietSerial

LEMMA IsFirst_Serial ==
  ASSUME TypeOK, NEW p \in Installers, SerialAt(p), IsFirst(p) PROVE SerialAt(p)'
<1>1. /\ installer[p].stage = "isFirst" /\ UNCHANGED <<shared, perTable>> /\ History
      /\ installer[p].stage \notin Blocks
  BY BlocksAre DEF IsFirst, At
<1>2. Viewed /\ installer[p].table \notin Names /\ PackageHere(p) /\ TriggersHere(p)
  BY <1>1, CallFacts DEF TableStage, PastInit
<1>. USE DEF MovesTo
<1>3. CASE Packaged
  <2>1. Go(p, "column")
    BY <1>3, BlocksAre DEF IsFirst, NextStage, Packaged
  <2>2. MovesTo(p, "column") /\ "column" \in PastInit \ Blocks
    BY <2>1, GoKeeps, BlocksAre DEF Stages, PastInit
  <2>3. TableStage(p)'
    BY <1>1, <1>2, <1>3, <2>2 DEF TableStage, Viewed, Packaged, Names, Rows, shared
  <2>. QED BY <1>1, <2>1, <2>2, <2>3, TableGo
<1>4. CASE ~Packaged
  <2>1. Enter(p, "package") /\ "package" \in Blocks
    BY <1>4, BlocksAre DEF IsFirst, NextStage, Packaged
  <2>2. /\ MovesTo(p, "package") /\ installer'[p].drop = Dropped("package")
        /\ installer'[p].make = Creates["package"]
    BY <2>1, EnterKeeps
  <2>3. Names = {} /\ trigger = {}
    BY <1>2, <1>4 DEF PackageHere, TriggersHere
  <2>4. TableStage(p)'
    BY <1>1, <1>2, <2>2, <2>3 DEF TableStage, Viewed, Names, Rows, shared, perTable
  <2>5. InitStage(p)'
    BY <2>2 DEF InitStage, At
  <2>6. CallOK(p)'
    BY <2>1, <2>2, <2>4, <2>5, BlockCall
  <2>. QED BY <1>1, <2>2, <2>6, QuietSerial
<1>. QED BY <1>3, <1>4

LEMMA Column_Serial ==
  ASSUME TypeOK, NEW p \in Installers, SerialAt(p), IsExistTXN(p) \/ AddTxn(p)
  PROVE  SerialAt(p)'
<1>1. PICK s \in {"isExistDeTable", "addTxn", "dropTxn", "addColumn"} :
        /\ Go(p, s)
        /\ s = "isExistDeTable" => column[installer[p].table] = "number"
        /\ s = "addTxn" => column[installer[p].table] # "number"
        /\ s = "dropTxn" => column[installer[p].table] = "other"
        /\ s = "addColumn" => column[installer[p].table] \notin {"other", "number"}
  <2>1. installer[p].stage = "addTxn" => column[installer[p].table] # "number"
    BY CallFacts DEF TableStage, PastInit
  <2>. QED BY <2>1 DEF IsExistTXN, AddTxn, At
<1>2. /\ installer[p].stage \in {"column", "addTxn"} /\ UNCHANGED <<shared, perTable>> /\ History
      /\ installer[p].stage \notin Blocks
  BY BlocksAre DEF IsExistTXN, AddTxn, At
<1>3. MovesTo(p, s) /\ s \in PastInit \ Blocks
  BY <1>1, GoKeeps, BlocksAre DEF Stages, PastInit
<1>4. Viewed /\ installer[p].table \notin Names /\ Packaged
  BY <1>2, CallFacts DEF TableStage, PastInit
<1>5. column[installer[p].table] \in {"none", "other", "number"}
  BY CallFacts DEF TypeOK, Installer
<1>6. TableStage(p)'
  BY <1>1, <1>2, <1>3, <1>4, <1>5
     DEF TableStage, MovesTo, Viewed, Packaged, Names, Rows, shared, perTable
<1>. QED BY <1>1, <1>2, <1>3, <1>6, TableGo

LEMMA IsExistDeTable_Serial ==
  ASSUME TypeOK, NEW p \in Installers, SerialAt(p), IsExistDeTable(p) PROVE SerialAt(p)'
<1>1. /\ installer[p].stage = "isExistDeTable" /\ UNCHANGED <<shared, perTable>> /\ History
      /\ installer[p].stage \notin Blocks
  BY BlocksAre DEF IsExistDeTable, At
<1>2. /\ Viewed /\ installer[p].table \notin Names /\ Packaged
      /\ column[installer[p].table] = "number"
  BY <1>1, CallFacts DEF TableStage, PastInit
<1>3. ASSUME NEW s \in {"alert", "deTable"}, MovesTo(p, s) PROVE TableStage(p)'
  BY <1>1, <1>2, <1>3
     DEF TableStage, MovesTo, Viewed, Packaged, Names, Rows, shared, perTable
<1>4. CASE Go(p, "deTable")
  <2>1. MovesTo(p, "deTable") /\ "deTable" \in PastInit \ Blocks
    BY <1>4, GoKeeps, BlocksAre DEF Stages, PastInit
  <2>. QED BY <1>1, <1>3, <1>4, <2>1, TableGo
<1>5. CASE Enter(p, "alert")
  <2>1. /\ MovesTo(p, "alert") /\ installer'[p].drop = Dropped("alert") /\ "alert" \in Blocks
        /\ installer'[p].make = Creates["alert"]
    BY <1>5, EnterKeeps, BlocksAre
  <2>2. InitStage(p)'
    BY <2>1 DEF InitStage, At, MovesTo
  <2>3. CallOK(p)'
    BY <1>3, <2>1, <2>2, BlockCall DEF MovesTo
  <2>. QED BY <1>1, <2>1, <2>3, QuietSerial
<1>. QED BY <1>4, <1>5, BlocksAre DEF IsExistDeTable, NextStage

\* A block is done, and what it should make is there.
LEMMA LeaveBlock_Serial ==
  ASSUME TypeOK, NEW p \in Installers, SerialAt(p), LeaveBlock(p) PROVE SerialAt(p)'
<1>. DEFINE b == installer[p].stage
<1>1. /\ b \in Blocks /\ installer[p].drop = {} /\ installer[p].make = <<>>
      /\ NextStage(p, After[b]) /\ UNCHANGED <<shared, perTable>> /\ History
  BY DEF LeaveBlock
<1>2. Range(Creates[b]) \subseteq objects
  BY <1>1, CallFacts, RangesAre DEF BlockOK
<1>3. /\ objects' = objects /\ settings' = settings /\ sources' = sources /\ Names' = Names
      /\ trigger' = trigger /\ column' = column
      /\ (Viewed' <=> Viewed) /\ (Packaged' <=> Packaged)
      /\ (SequencesDone' <=> SequencesDone) /\ (TablesDone' <=> TablesDone)
  BY <1>1 DEF shared, perTable, Names, Rows, Viewed, Packaged, SequencesDone, TablesDone
<1>4. InitStage(p) /\ TableStage(p) /\ InitHere(p)
  BY CallFacts
<1>5. b \in PastInit <=> b \in {"package", "jobs", "alert"}
  BY <1>1, BlocksAre DEF PastInit
<1>6. ASSUME NEW s \in Blocks, Enter(p, s)
      PROVE  /\ MovesTo(p, s) /\ installer'[p].drop = Dropped(s) /\ installer'[p].make = Creates[s]
             /\ InitStage(p)' /\ TableStage(p)' => CallOK(p)'
  BY <1>6, EnterKeeps, BlockCall DEF MovesTo
<1>7. ASSUME NEW s \in Stages \ Blocks, Go(p, s)
      PROVE  /\ MovesTo(p, s) /\ installer'[p].drop = {} /\ installer'[p].make = <<>>
             /\ s \in PastInit /\ TableStage(p)' => CallOK(p)'
  BY <1>1, <1>7, GoKeeps, TableCall DEF MovesTo, Keeps
<1>8. CASE b = "sequences"
  <2>1. MovesTo(p, "tables") /\ (InitStage(p)' /\ TableStage(p)' => CallOK(p)')
    BY <1>1, <1>6, <1>8, BlocksAre DEF NextStage
  <2>2. InitStage(p)' /\ TableStage(p)'
    BY <1>2, <1>3, <1>4, <1>8, <2>1 DEF InitStage, TableStage, At, MovesTo, PastInit, SequencesDone
  <2>. QED BY <1>1, <1>8, <2>1, <2>2, QuietSerial
<1>9. CASE b = "tables"
  <2>1. /\ MovesTo(p, "view") /\ installer'[p].make = Creates["view"]
        /\ (InitStage(p)' /\ TableStage(p)' => CallOK(p)')
    BY <1>1, <1>6, <1>9, BlocksAre DEF NextStage
  <2>2. ~Viewed /\ SequencesDone /\ TablesDone /\ settings = 0 /\ Names = {}
    BY <1>2, <1>4, <1>9 DEF InitStage, InitHere, At, TablesDone
  <2>3. InitStage(p)' /\ TableStage(p)'
    BY <1>3, <2>1, <2>2 DEF InitStage, TableStage, At, MovesTo, PastInit
  <2>. QED BY <1>1, <1>9, <2>1, <2>3, QuietSerial
<1>10. CASE b = "view"
  <2>1. MovesTo(p, "settings") /\ installer'[p].drop = {} /\ installer'[p].make = <<>>
    BY <1>1, <1>7, <1>10, BlocksAre DEF NextStage, Stages
  <2>2. Viewed /\ settings = 0 /\ Names = {}
    BY <1>2, <1>4, <1>10, RangesAre DEF InitStage, At, Viewed
  <2>3. CallOK(p)'
    BY <1>3, <2>1, <2>2, BlocksAre
       DEF CallOK, BlockOK, FoundOK, InitStage, TableStage, At, MovesTo, PastInit
  <2>. QED BY <1>1, <1>10, <2>1, <2>3, QuietSerial
<1>11. CASE b = "package"
  <2>1. MovesTo(p, "jobs") /\ (InitStage(p)' /\ TableStage(p)' => CallOK(p)')
    BY <1>1, <1>6, <1>11, BlocksAre DEF NextStage
  <2>2. PackageDone /\ Packaged
    BY <1>2, <1>11, RangesAre DEF PackageDone, Packaged
  <2>3. Viewed /\ installer[p].table \notin Names /\ Names = {} /\ trigger = {}
    BY <1>4, <1>5, <1>11 DEF TableStage
  <2>4. InitStage(p)' /\ TableStage(p)'
    BY <1>3, <2>1, <2>2, <2>3 DEF InitStage, TableStage, At, MovesTo, PastInit
  <2>. QED BY <1>1, <1>11, <2>1, <2>2, <2>4, QuietSerial
<1>12. CASE b = "jobs"
  <2>1. MovesTo(p, "column") /\ (TableStage(p)' => CallOK(p)')
    BY <1>1, <1>7, <1>12, BlocksAre DEF NextStage, Stages, PastInit
  <2>2. "J_COALESCE_LOG" \in objects
    BY <1>2, <1>12, RangesAre
  <2>3. Viewed /\ installer[p].table \notin Names /\ Packaged
    BY <1>4, <1>5, <1>12 DEF TableStage
  <2>4. TableStage(p)'
    BY <1>3, <2>1, <2>3 DEF TableStage, MovesTo, PastInit
  <2>. QED BY <1>1, <1>12, <2>1, <2>2, <2>4, QuietSerial
<1>13. CASE b = "alert"
  <2>1. MovesTo(p, "trigger") /\ (TableStage(p)' => CallOK(p)')
    BY <1>1, <1>7, <1>13, BlocksAre DEF NextStage, Stages, PastInit
  <2>2. /\ Viewed /\ installer[p].table \notin Names /\ Packaged
        /\ column[installer[p].table] = "number"
    BY <1>4, <1>5, <1>13 DEF TableStage
  <2>3. TableStage(p)'
    BY <1>3, <2>1, <2>2 DEF TableStage, MovesTo, PastInit
  <2>. QED BY <1>1, <1>13, <2>1, <2>3, QuietSerial
<1>. QED BY <1>1, <1>8, <1>9, <1>10, <1>11, <1>12, <1>13, BlocksAre

LEMMA ReadSources_Serial ==
  ASSUME ConfigInv, NEW p \in Installers, SerialAt(p), ReadSources(p) PROVE SerialAt(p)'
<1>1. /\ installer[p].stage = "readSources" /\ UNCHANGED <<shared, perTable>> /\ History
      /\ installer[p].stage \notin Blocks /\ TypeOK
  BY BlocksAre DEF ReadSources, At, ConfigInv
<1>2. /\ Viewed /\ installer[p].table \notin Names /\ Packaged
      /\ column[installer[p].table] = "number"
  BY <1>1, CallFacts DEF TableStage, PastInit
<1>3. installer' = [installer EXCEPT ![p].stage = "register", ![p].bit = FreeBit]
  BY <1>2 DEF ReadSources
<1>4. FreeBit \in Nat /\ FreeBit \notin Bits
  <2>1. Bits \subseteq Nat
    BY <1>1, BitsAreNumbers
  <2>. QED BY <2>1, FreeBitIsFree
<1>5. /\ MovesTo(p, "register") /\ installer'[p].bit = FreeBit
      /\ installer'[p].drop = {} /\ installer'[p].make = <<>>
  <2>. DEFINE rec == [installer[p] EXCEPT !.stage = "register", !.bit = FreeBit]
  <2>1. /\ installer[p] \in Installer /\ installer \in [Installers -> Installer]
        /\ installer[p].drop = {} /\ installer[p].make = <<>>
    BY <1>1, CallFacts, NothingLeft
  <2>2. rec \in Installer
    BY <1>4, <2>1 DEF Installer, Stages
  <2>3. installer' = [installer EXCEPT ![p] = rec]
    BY <1>3, <2>1 DEF Installer
  <2>4. installer'[p] = rec /\ Moves(p)
    BY <1>1, <2>2, <2>3, RecordMoves
  <2>. QED BY <2>1, <2>4 DEF MovesTo, Installer
<1>6. TableStage(p)'
  BY <1>1, <1>2, <1>4, <1>5
     DEF TableStage, MovesTo, Viewed, Packaged, Names, Bits, Rows, shared, perTable
<1>7. "register" \in PastInit \ Blocks
  BY BlocksAre DEF PastInit
<1>8. CallOK(p)'
  BY <1>5, <1>6, <1>7, TableCall DEF MovesTo
<1>. QED BY <1>1, <1>5, <1>8, QuietSerial

-----------------------------------------------------------------------------
\* A step of a table's own objects: the shared ones stay as they are.
LEMMA TableStep ==
  ASSUME TypeOK, NEW p \in Installers, SerialAt(p), NEW s, MovesTo(p, s),
         UNCHANGED shared, History, installer[p].stage \in PastInit \ Blocks,
         TriggersHere(p)', CallOK(p)'
  PROVE  SerialAt(p)'
<1>1. InitHere(p) /\ PackageHere(p) /\ SourcesOK /\ ~overlap
  BY CallFacts
<1>2. installer[p].stage \notin {"view", "settings", "setting", "package", "jobs"}
  BY BlocksAre DEF PastInit
<1>3. /\ objects' = objects /\ settings' = settings /\ sources' = sources /\ Names' = Names
      /\ cut' = cut /\ ~overlap'
  BY <1>1 DEF shared, History, Names, Rows
<1>4. InitHere(p)' /\ PackageHere(p)'
  BY <1>1, <1>2, <1>3
     DEF InitHere, PackageHere, Viewed, SequencesDone, TablesDone, Packaged, PackageDone
<1>5. SourcesOK'
  BY <1>1, <1>3 DEF SourcesOK
<1>. QED BY <1>3, <1>4, <1>5, SerialStep DEF SchemaHere, MovesTo

LEMMA AlterTable_Serial ==
  ASSUME TypeOK, NEW p \in Installers, SerialAt(p), DropTxn(p) \/ AddColumn(p)
  PROVE  SerialAt(p)'
<1>. DEFINE t == installer[p].table
<1>1. PICK s \in {"addColumn", "isExistDeTable"}, c \in {"none", "number"} :
        /\ Go(p, s) /\ column' = [column EXCEPT ![t] = c]
        /\ s = "addColumn" => c = "none"
        /\ s = "isExistDeTable" => c = "number"
  BY DEF DropTxn, AddColumn
<1>2. /\ installer[p].stage \in {"dropTxn", "addColumn"}
      /\ UNCHANGED <<shared, deTable, deTrigger, trigger>> /\ History
  BY DEF DropTxn, AddColumn, At
<1>3. /\ MovesTo(p, s) /\ Keeps(p) /\ s \in PastInit \ Blocks
      /\ installer[p].stage \in PastInit \ Blocks
  BY <1>1, <1>2, GoKeeps, BlocksAre DEF Stages, PastInit
<1>4. /\ Viewed /\ t \notin Names /\ Packaged /\ column[t] # "number" /\ TriggersHere(p)
      /\ t \in Tables /\ column \in [Tables -> {"none", "other", "number"}]
  BY <1>2, CallFacts DEF TableStage, PastInit, TypeOK, Installer
<1>5. TriggersHere(p)'
  <2>1. t \notin trigger /\ \A u \in Tables \ {t} : column'[u] = column[u]
    BY <1>1, <1>4 DEF TriggersHere
  <2>2. trigger \subseteq Tables
    BY DEF TypeOK
  <2>. QED BY <1>2, <1>3, <1>4, <2>1, <2>2
           DEF TriggersHere, MovesTo, Viewed, Packaged, Names, Rows, shared, History
<1>6. TableStage(p)'
  BY <1>1, <1>2, <1>3, <1>4 DEF TableStage, MovesTo, Viewed, Packaged, Names, Rows, shared
<1>7. CallOK(p)'
  <2>1. installer'[p].drop = {} /\ installer'[p].make = <<>> /\ installer'[p].stage = s
    BY <1>3, CallFacts, NothingLeft DEF Keeps, MovesTo
  <2>. QED BY <1>3, <1>6, <2>1, TableCall
<1>. QED BY <1>2, <1>3, <1>5, <1>7, TableStep

LEMMA CreateDeTable_Serial ==
  ASSUME TypeOK, NEW p \in Installers, SerialAt(p), CreateDeTable(p) PROVE SerialAt(p)'
<1>. DEFINE t == installer[p].table
<1>1. /\ installer[p].stage = "deTable" /\ installer[p].stage \in PastInit \ Blocks
      /\ UNCHANGED <<shared, column, deTrigger, trigger>> /\ History
  BY BlocksAre DEF CreateDeTable, At, PastInit
<1>2. /\ Viewed /\ t \notin Names /\ Packaged /\ column[t] = "number" /\ TriggersHere(p)
  BY <1>1, CallFacts DEF TableStage, PastInit
<1>3. CASE Idle(p) /\ UNCHANGED deTable
  BY <1>1, <1>3, ReturnSerial DEF perTable
<1>4. CASE Go(p, "deTrigger") /\ deTable' = deTable \cup {t}
  <2>1. MovesTo(p, "deTrigger") /\ Keeps(p) /\ "deTrigger" \in PastInit \ Blocks
    BY <1>4, GoKeeps, BlocksAre DEF Stages, PastInit
  <2>2. TriggersHere(p)'
    BY <1>1, <1>2, <1>4, <2>1
       DEF TriggersHere, MovesTo, Viewed, Packaged, Names, Rows, shared, History
  <2>3. TableStage(p)'
    BY <1>1, <1>2, <2>1 DEF TableStage, MovesTo, Viewed, Packaged, Names, Rows, shared
  <2>4. CallOK(p)'
    <3>1. installer'[p].drop = {} /\ installer'[p].make = <<>> /\ installer'[p].stage = "deTrigger"
      BY <1>1, <2>1, CallFacts, NothingLeft DEF Keeps, MovesTo
    <3>. QED BY <2>1, <2>3, <3>1, TableCall
  <2>. QED BY <1>1, <2>1, <2>2, <2>4, TableStep
<1>. QED BY <1>3, <1>4 DEF CreateDeTable

LEMMA CreateDeTrigger_Serial ==
  ASSUME TypeOK, NEW p \in Installers, SerialAt(p), CreateDeTrigger(p) PROVE SerialAt(p)'
<1>. DEFINE t == installer[p].table
<1>1. /\ installer[p].stage = "deTrigger" /\ installer[p].stage \in PastInit \ Blocks
      /\ UNCHANGED <<shared, column, deTable, trigger>> /\ History
      /\ deTrigger' = deTrigger \cup {t} /\ Enter(p, "alert")
  BY BlocksAre DEF CreateDeTrigger, At, PastInit
<1>2. /\ Viewed /\ t \notin Names /\ Packaged /\ column[t] = "number" /\ TriggersHere(p)
  BY <1>1, CallFacts DEF TableStage, PastInit
<1>3. /\ MovesTo(p, "alert") /\ installer'[p].drop = Dropped("alert") /\ "alert" \in Blocks
      /\ installer'[p].make = Creates["alert"]
  BY <1>1, EnterKeeps, BlocksAre
<1>4. TriggersHere(p)'
  BY <1>1, <1>2, <1>3
     DEF TriggersHere, MovesTo, Viewed, Packaged, Names, Rows, shared, History
<1>5. TableStage(p)'
  BY <1>1, <1>2, <1>3 DEF TableStage, MovesTo, Viewed, Packaged, Names, Rows, shared
<1>6. InitStage(p)'
  BY <1>3 DEF InitStage, At, MovesTo
<1>7. CallOK(p)'
  BY <1>3, <1>5, <1>6, BlockCall DEF MovesTo
<1>. QED BY <1>1, <1>3, <1>4, <1>7, TableStep

LEMMA CreateTrigger_Serial ==
  ASSUME TypeOK, NEW p \in Installers, SerialAt(p), CreateTrigger(p) PROVE SerialAt(p)'
<1>. DEFINE t == installer[p].table
<1>1. /\ installer[p].stage = "trigger" /\ installer[p].stage \in PastInit \ Blocks
      /\ UNCHANGED <<shared, column, deTable, deTrigger>> /\ History
      /\ trigger' = trigger \cup {t} /\ Go(p, "readSources")
  BY BlocksAre DEF CreateTrigger, At, PastInit
<1>2. /\ Viewed /\ t \notin Names /\ Packaged /\ column[t] = "number" /\ TriggersHere(p)
  BY <1>1, CallFacts DEF TableStage, PastInit
<1>3. MovesTo(p, "readSources") /\ Keeps(p) /\ "readSources" \in PastInit \ Blocks
  BY <1>1, GoKeeps, BlocksAre DEF Stages, PastInit
<1>4. TriggersHere(p)'
  BY <1>1, <1>2, <1>3
     DEF TriggersHere, MovesTo, Viewed, Packaged, Names, Rows, shared, History
<1>5. TableStage(p)'
  BY <1>1, <1>2, <1>3 DEF TableStage, MovesTo, Viewed, Packaged, Names, Rows, shared
<1>6. CallOK(p)'
  <2>1. installer'[p].drop = {} /\ installer'[p].make = <<>> /\ installer'[p].stage = "readSources"
    BY <1>1, <1>3, CallFacts, NothingLeft DEF Keeps, MovesTo
  <2>. QED BY <1>3, <1>5, <2>1, TableCall
<1>. QED BY <1>1, <1>3, <1>4, <1>6, TableStep

LEMMA InsertSetting_Serial ==
  ASSUME TypeOK, NEW p \in Installers, SerialAt(p), InsertSetting(p) PROVE SerialAt(p)'
<1>1. /\ installer[p].stage = "setting" /\ UNCHANGED <<objects, sources, perTable>> /\ History
      /\ settings' = settings + 1 /\ installer[p].stage \notin Blocks /\ Go(p, "isFirst")
  BY BlocksAre DEF InsertSetting, At
<1>2. /\ Viewed /\ settings = 0 /\ Names = {} /\ InitHere(p) /\ PackageHere(p) /\ TriggersHere(p)
      /\ SourcesOK /\ ~overlap
  BY <1>1, CallFacts DEF InitStage, At
<1>3. MovesTo(p, "isFirst") /\ Keeps(p) /\ "isFirst" \in PastInit \ Blocks
  BY <1>1, GoKeeps, BlocksAre DEF Stages, PastInit
<1>4. /\ objects' = objects /\ settings' = 1 /\ sources' = sources /\ Names' = {} /\ cut' = cut
      /\ ~overlap' /\ column' = column /\ deTable' = deTable /\ deTrigger' = deTrigger
      /\ trigger' = trigger
  BY <1>1, <1>2 DEF perTable, History, Names, Rows
<1>5. InitHere(p)' /\ PackageHere(p)'
  BY <1>1, <1>2, <1>3, <1>4
     DEF InitHere, PackageHere, MovesTo, Viewed, SequencesDone, TablesDone, Packaged, PackageDone
<1>6. TriggersHere(p)'
  BY <1>1, <1>2, <1>3, <1>4 DEF TriggersHere, MovesTo, Viewed, Packaged
<1>7. SourcesOK'
  BY <1>2, <1>4 DEF SourcesOK
<1>8. TableStage(p)'
  BY <1>2, <1>3, <1>4 DEF TableStage, MovesTo, Viewed
<1>9. CallOK(p)'
  <2>1. installer'[p].drop = {} /\ installer'[p].make = <<>> /\ installer'[p].stage = "isFirst"
    BY <1>1, <1>3, CallFacts, NothingLeft DEF Keeps, MovesTo
  <2>. QED BY <1>3, <1>8, <2>1, TableCall
<1>. QED BY <1>3, <1>4, <1>5, <1>6, <1>7, <1>9, SerialStep DEF SchemaHere, MovesTo

LEMMA Register_Serial ==
  ASSUME TypeOK, NEW p \in Installers, SerialAt(p), Register(p) PROVE SerialAt(p)'
<1>. DEFINE t == installer[p].table
            row == [name |-> t, bit |-> installer[p].bit]
<1>1. /\ installer[p].stage = "register" /\ UNCHANGED <<objects, settings, perTable>> /\ History
      /\ sources' = Append(sources, row) /\ Idle(p)
  BY DEF Register, At
<1>2. /\ Viewed /\ t \notin Names /\ Packaged /\ column[t] = "number" /\ InitHere(p)
      /\ PackageHere(p) /\ TriggersHere(p) /\ SourcesOK /\ ~overlap /\ installer[p].bit \notin Bits
  BY <1>1, CallFacts DEF TableStage, PastInit
<1>3. MovesTo(p, "idle") /\ Resting(p)'
  BY <1>1, IdleKeeps
<1>4. /\ row.name = t /\ row.bit = installer[p].bit
      /\ DOMAIN sources = 1..Len(sources) /\ DOMAIN sources' = 1..(Len(sources) + 1)
      /\ \A i \in 1..Len(sources) : sources'[i] = sources[i]
      /\ sources'[Len(sources) + 1] = row /\ Len(sources) \in Nat
  <2>1. row \in [name: Tables, bit: Nat] /\ sources \in Seq([name: Tables, bit: Nat])
    BY DEF TypeOK, Installer
  <2>. QED BY <1>1, <2>1
<1>5. \A i \in DOMAIN sources : sources[i].name # t /\ sources[i].bit # installer[p].bit
  BY <1>2 DEF Names, Bits, Rows, Range
<1>6. SourcesOK'
  <2>. SUFFICES ASSUME NEW i \in DOMAIN sources', NEW j \in DOMAIN sources', i # j
                PROVE  sources'[i].bit # sources'[j].bit /\ sources'[i].name # sources'[j].name
    BY DEF SourcesOK
  <2>. HIDE DEF row, t
  <2>1. /\ i \in 1..Len(sources) \/ i = Len(sources) + 1
        /\ j \in 1..Len(sources) \/ j = Len(sources) + 1
    BY <1>4
  <2>2. CASE i \in 1..Len(sources) /\ j \in 1..Len(sources)
    BY <1>2, <1>4, <2>2 DEF SourcesOK
  <2>3. CASE i = Len(sources) + 1
    BY <1>4, <1>5, <2>1, <2>3
  <2>4. CASE j = Len(sources) + 1
    BY <1>4, <1>5, <2>1, <2>4
  <2>. QED BY <2>1, <2>2, <2>3, <2>4
<1>7. Names \cup {t} \subseteq Names'
  <2>1. Rows \cup {row} \subseteq Rows'
    <3>. HIDE DEF row
    <3>. QED BY <1>4 DEF Rows, Range
  <2>. QED BY <1>4, <2>1 DEF Names
<1>8. /\ objects' = objects /\ settings' = settings /\ cut' = cut /\ ~overlap'
      /\ column' = column /\ deTable' = deTable /\ deTrigger' = deTrigger /\ trigger' = trigger
  BY <1>1, <1>2 DEF perTable, History
<1>9. InitHere(p)' /\ PackageHere(p)'
  BY <1>1, <1>2, <1>3, <1>8
     DEF InitHere, PackageHere, MovesTo, Viewed, SequencesDone, TablesDone, Packaged, PackageDone
<1>10. TriggersHere(p)'
  BY <1>1, <1>2, <1>3, <1>7, <1>8 DEF TriggersHere, MovesTo, Viewed, Packaged
<1>11. CallOK(p)'
  BY <1>3, RestingCall
<1>. QED BY <1>3, <1>6, <1>8, <1>9, <1>10, <1>11, SerialStep DEF SchemaHere, MovesTo

\* One statement dropped.  What Init and the jobs drop, nothing that is registered needs.
LEMMA Drop_Serial ==
  ASSUME TypeOK, NEW p \in Installers, SerialAt(p), Drop(p) PROVE SerialAt(p)'
<1>. DEFINE b == installer[p].stage
<1>1. PICK o \in installer[p].drop \cap objects :
        /\ installer' = [installer EXCEPT ![p].drop = @ \ {o}]
        /\ objects' = objects \ (IF o = "SY$TXLOG" THEN {o} \cup TxlogParts ELSE {o})
        /\ sources' = IF o = "SY$SOURCES" THEN <<>> ELSE sources
        /\ settings' = IF o = "SYNC_CORE_SETTINGS" THEN 0 ELSE settings
        /\ UNCHANGED perTable /\ History
  BY DEF Drop
<1>2. /\ installer[p] \in Installer /\ installer \in [Installers -> Installer]
      /\ BlockOK(p) /\ FoundOK(p) /\ InitStage(p) /\ TableStage(p)
      /\ InitHere(p) /\ PackageHere(p) /\ TriggersHere(p) /\ SourcesOK /\ ~overlap
  BY CallFacts
<1>3. /\ b \in Blocks /\ b \in {"sequences", "tables", "jobs"}
      /\ installer[p].drop \subseteq Range(Creates[b]) \ TxlogParts
      /\ installer[p].make = Creates[b]
  BY <1>1, <1>2 DEF BlockOK
<1>4. o \in Range(Creates[b])
  BY <1>1, <1>3
<1>5. /\ Moves(p) /\ installer'[p].drop = installer[p].drop \ {o} /\ installer'[p].stage = b
      /\ installer'[p].make = Creates[b] /\ installer'[p].table = installer[p].table
      /\ installer'[p].found = installer[p].found /\ installer'[p].bit = installer[p].bit
  <2>. DEFINE rec == [installer[p] EXCEPT !.drop = @ \ {o}]
  <2>1. rec \in Installer /\ installer' = [installer EXCEPT ![p] = rec]
    BY <1>1, <1>2 DEF Installer
  <2>2. Moves(p) /\ installer'[p] = rec
    BY <2>1, RecordMoves
  <2>. QED BY <1>2, <1>3, <2>2 DEF Installer
<1>6. /\ cut' = cut /\ ~overlap' /\ column' = column /\ deTable' = deTable
      /\ deTrigger' = deTrigger /\ trigger' = trigger
  BY <1>1, <1>2 DEF perTable, History
<1>7. BlockOK(p)' /\ FoundOK(p)'
  <2>1. BlockOK(p)'
    BY <1>3, <1>5 DEF BlockOK
  <2>. QED BY <1>3, <1>5, <2>1 DEF FoundOK, At
<1>8. CASE b \in {"sequences", "tables"}
  <2>1. ~Viewed /\ settings = 0 /\ Names = {} /\ trigger = {}
    BY <1>2, <1>8 DEF InitStage, At, InitHere, TriggersHere
  <2>2. ~Viewed' /\ settings' = 0 /\ Names' = {}
    <3>1. objects' \subseteq objects /\ settings' = 0 /\ sources' \in {sources, <<>>}
      BY <1>1, <2>1
    <3>2. Names' = {}
      BY <2>1, <3>1, RangesAre DEF Names, Rows
    <3>. QED BY <2>1, <3>1, <3>2 DEF Viewed
  <2>3. /\ (Packaged' <=> Packaged) /\ (PackageDone' <=> PackageDone)
        /\ ("J_COALESCE_LOG" \in objects' <=> "J_COALESCE_LOG" \in objects)
    <3>1. \A x \in {"SYNC_CORE", "SYNC_CORE BODY", "COMPILE_ALLOBJECTS", "J_COALESCE_LOG"} :
            x \in objects' <=> x \in objects
      <4>1. o \in Range(Creates["sequences"]) \cup Range(Creates["tables"])
        BY <1>4, <1>8
      <4>2. o \notin {"SYNC_CORE", "SYNC_CORE BODY", "COMPILE_ALLOBJECTS", "J_COALESCE_LOG"}
        BY <4>1, RangesAre
      <4>. QED BY <1>1, <4>2 DEF TxlogParts
    <3>2. PackageDone <=> {"COMPILE_ALLOBJECTS", "SYNC_CORE", "SYNC_CORE BODY"} \subseteq objects
      BY RangesAre DEF PackageDone
    <3>3. PackageDone' <=> {"COMPILE_ALLOBJECTS", "SYNC_CORE", "SYNC_CORE BODY"} \subseteq objects'
      BY RangesAre DEF PackageDone
    <3>. QED BY <3>1, <3>2, <3>3 DEF Packaged
  <2>4. b = "tables" => SequencesDone'
    BY <1>1, <1>2, <1>4, RangesAre DEF InitStage, At, SequencesDone, TxlogParts
  <2>5. SourcesOK'
    BY <1>1, <1>2 DEF SourcesOK
  <2>6. InitHere(p)' /\ PackageHere(p)' /\ TriggersHere(p)'
    <3>1. InitHere(p)'
      BY <2>2 DEF InitHere
    <3>2. PackageHere(p)'
      BY <1>2, <1>5, <1>6, <2>2, <2>3 DEF PackageHere
    <3>3. TriggersHere(p)'
      BY <1>2, <1>5, <1>6, <2>1 DEF TriggersHere
    <3>. QED BY <3>1, <3>2, <3>3
  <2>7. InitStage(p)' /\ TableStage(p)'
    BY <1>5, <1>8, <2>2, <2>4 DEF InitStage, TableStage, At, PastInit
  <2>. QED BY <1>5, <1>6, <1>7, <2>5, <2>6, <2>7, SerialStep DEF SchemaHere, CallOK
<1>9. CASE b = "jobs"
  <2>1. o \in {"P_COALESCE_LOG", "J_COALESCE_LOG", "J_CALL_SIGNAL"}
    BY <1>4, <1>9, RangesAre
  <2>2. objects' = objects \ {o} /\ sources' = sources /\ settings' = settings /\ Names' = Names
    BY <1>1, <2>1 DEF Names, Rows
  <2>3. /\ (Viewed' <=> Viewed) /\ (Packaged' <=> Packaged) /\ (PackageDone' <=> PackageDone)
        /\ (SequencesDone' <=> SequencesDone) /\ (TablesDone' <=> TablesDone)
    BY <2>1, <2>2, RangesAre DEF Viewed, Packaged, PackageDone, SequencesDone, TablesDone
  <2>4. SourcesOK'
    BY <1>2, <2>2 DEF SourcesOK
  <2>5. InitHere(p)'
    BY <1>2, <1>5, <1>6, <2>2, <2>3 DEF InitHere
  <2>6. PackageHere(p)'
    BY <1>2, <1>5, <1>6, <1>9, <2>2, <2>3 DEF PackageHere
  <2>7. TriggersHere(p)'
    BY <1>2, <1>5, <1>6, <1>9, <2>2, <2>3 DEF TriggersHere
  <2>8. InitStage(p)' /\ TableStage(p)'
    <3>1. InitStage(p)'
      BY <1>5, <1>9 DEF InitStage, At
    <3>2. TableStage(p)'
      BY <1>2, <1>5, <1>6, <1>9, <2>2, <2>3 DEF TableStage, PastInit
    <3>. QED BY <3>1, <3>2
  <2>. QED BY <1>5, <1>6, <1>7, <2>4, <2>5, <2>6, <2>7, <2>8, SerialStep DEF SchemaHere, CallOK
<1>. QED BY <1>3, <1>8, <1>9

\* What is left to make once a statement is done.
LEMMA HeadAndTail ==
  ASSUME NEW q \in Seq(Objects), q # <<>>
  PROVE  /\ Head(q) \in Range(q) /\ Range(Tail(q)) \subseteq Range(q)
         /\ Range(q) \subseteq {Head(q)} \cup Range(Tail(q)) /\ Tail(q) \in Seq(Objects)
<1>1. /\ Len(q) \in Nat /\ Len(q) > 0 /\ DOMAIN q = 1..Len(q) /\ Head(q) = q[1]
      /\ Tail(q) \in Seq(Objects) /\ Len(Tail(q)) = Len(q) - 1
      /\ \A i \in 1..(Len(q) - 1) : Tail(q)[i] = q[i + 1]
  OBVIOUS
<1>2. DOMAIN Tail(q) = 1..(Len(q) - 1)
  BY <1>1
<1>3. Head(q) \in Range(q)
  BY <1>1 DEF Range
<1>4. ASSUME NEW i \in 1..(Len(q) - 1) PROVE Tail(q)[i] \in Range(q)
  <2>1. i + 1 \in DOMAIN q
    BY <1>1
  <2>. QED BY <1>1, <2>1 DEF Range
<1>5. ASSUME NEW i \in 1..Len(q), i # 1 PROVE q[i] \in Range(Tail(q))
  <2>1. i - 1 \in 1..(Len(q) - 1) /\ (i - 1) + 1 = i
    BY <1>1, <1>5
  <2>2. Tail(q)[i - 1] = q[i]
    BY <1>1, <2>1
  <2>. QED BY <1>2, <2>1, <2>2 DEF Range
<1>6. Range(Tail(q)) \subseteq Range(q)
  BY <1>2, <1>4 DEF Range
<1>7. Range(q) \subseteq {Head(q)} \cup Range(Tail(q))
  BY <1>1, <1>5 DEF Range
<1>. QED BY <1>1, <1>3, <1>6, <1>7

\* Only its own block creates the package, or the view.
LEMMA OfOneBlock ==
  ASSUME NEW b \in Blocks, NEW o \in Range(Creates[b])
  PROVE  /\ o \in {"SYNC_CORE", "SYNC_CORE BODY"} => b = "package"
         /\ o = "DB_MODE" => b = "view"
<1>1. CASE b = "sequences"
  BY <1>1, RangesAre
<1>2. CASE b = "tables"
  BY <1>2, RangesAre
<1>3. CASE b = "view"
  BY <1>3, RangesAre
<1>4. CASE b = "package"
  BY <1>4, RangesAre
<1>5. CASE b = "jobs"
  BY <1>5, RangesAre
<1>6. CASE b = "alert"
  BY <1>6, RangesAre
<1>. QED BY <1>1, <1>2, <1>3, <1>4, <1>5, <1>6, BlocksAre

\* One statement that creates an object of the block.
LEMMA Create_Serial ==
  ASSUME TypeOK, NEW p \in Installers, SerialAt(p), Create(p) PROVE SerialAt(p)'
<1>. DEFINE b == installer[p].stage
            make == installer[p].make
            o == Head(make)
<1>1. /\ installer[p].drop = {} /\ make # <<>> /\ objects' = objects \cup {o}
      /\ installer' = [installer EXCEPT ![p].make = Tail(make)]
      /\ UNCHANGED <<settings, sources, perTable>> /\ History
  BY CallFacts DEF Create
<1>2. /\ installer[p] \in Installer /\ installer \in [Installers -> Installer]
      /\ BlockOK(p) /\ FoundOK(p) /\ InitStage(p) /\ TableStage(p)
      /\ InitHere(p) /\ PackageHere(p) /\ TriggersHere(p) /\ SourcesOK /\ ~overlap
  BY CallFacts
<1>3. /\ b \in Blocks /\ Range(Creates[b]) \subseteq objects \cup Range(make)
      /\ Range(make) \subseteq Range(Creates[b])
  BY <1>1, <1>2 DEF BlockOK
<1>4. /\ o \in Range(make) /\ Range(Tail(make)) \subseteq Range(make)
      /\ Range(make) \subseteq {o} \cup Range(Tail(make)) /\ Tail(make) \in Seq(Objects)
  <2>1. make \in Seq(Objects)
    BY <1>2 DEF Installer
  <2>. QED BY <1>1, <2>1, HeadAndTail
<1>5. /\ Moves(p) /\ installer'[p].drop = {} /\ installer'[p].stage = b
      /\ installer'[p].make = Tail(make) /\ installer'[p].table = installer[p].table
      /\ installer'[p].found = installer[p].found /\ installer'[p].bit = installer[p].bit
  <2>. DEFINE rec == [installer[p] EXCEPT !.make = Tail(make)]
  <2>1. rec \in Installer /\ installer' = [installer EXCEPT ![p] = rec]
    BY <1>1, <1>2, <1>4 DEF Installer
  <2>2. Moves(p) /\ installer'[p] = rec
    BY <2>1, RecordMoves
  <2>. QED BY <1>1, <1>2, <2>2 DEF Installer
<1>6. /\ cut' = cut /\ ~overlap' /\ column' = column /\ deTable' = deTable
      /\ deTrigger' = deTrigger /\ trigger' = trigger /\ sources' = sources /\ settings' = settings
      /\ Names' = Names /\ Bits' = Bits
  BY <1>1, <1>2 DEF perTable, History, Names, Bits, Rows
<1>. HIDE DEF o, make
<1>7. BlockOK(p)' /\ FoundOK(p)' /\ SourcesOK'
  <2>1. BlockOK(p)'
    BY <1>1, <1>3, <1>4, <1>5 DEF BlockOK
  <2>2. FoundOK(p)'
    BY <1>3, <1>5, BlocksAre DEF FoundOK, At
  <2>3. SourcesOK'
    BY <1>2, <1>6 DEF SourcesOK
  <2>. QED BY <2>1, <2>2, <2>3
<1>8. o \in Range(Creates[b])
  BY <1>3, <1>4
<1>9. /\ SequencesDone => SequencesDone'
      /\ TablesDone => TablesDone'
      /\ PackageDone => PackageDone'
      /\ Viewed => Viewed'
      /\ Packaged => Packaged'
      /\ "J_COALESCE_LOG" \in objects => "J_COALESCE_LOG" \in objects'
  BY <1>1 DEF SequencesDone, TablesDone, PackageDone, Viewed, Packaged
<1>10. b # "package" => (Packaged' => Packaged)
  <2>1. o \in {"SYNC_CORE", "SYNC_CORE BODY"} => b = "package"
    BY <1>3, <1>8, OfOneBlock
  <2>. QED BY <1>1, <2>1 DEF Packaged
<1>11. b # "view" => (Viewed' => Viewed)
  <2>1. o = "DB_MODE" => b = "view"
    BY <1>3, <1>8, OfOneBlock
  <2>. QED BY <1>1, <2>1 DEF Viewed
<1>12. CASE b \in {"sequences", "tables", "view"}
  <2>1. ~Viewed
    BY <1>1, <1>2, <1>12 DEF InitStage, At, make
  <2>2. settings = 0 /\ Names = {} /\ trigger = {}
    BY <1>2, <2>1 DEF InitHere, TriggersHere
  <2>3. PackageHere(p)'
    BY <1>2, <1>5, <1>6, <1>9, <1>10, <1>12 DEF PackageHere
  <2>4. TriggersHere(p)'
    BY <1>2, <1>5, <1>6, <1>12, <2>2 DEF TriggersHere
  <2>5. TableStage(p)'
    BY <1>5, <1>12 DEF TableStage, PastInit
  <2>6. CASE b = "view"
    <3>1. make = <<"DB_MODE">>
      BY <1>1, <1>2, <2>6 DEF InitStage, At, make, Creates
    <3>2. SequencesDone' /\ TablesDone' /\ Tail(make) = <<>>
      BY <1>2, <1>9, <2>6, <3>1 DEF InitStage, At
    <3>3. InitHere(p)'
      BY <1>5, <1>6, <2>2, <2>6, <3>2 DEF InitHere
    <3>4. InitStage(p)'
      BY <1>5, <1>6, <2>2, <2>6, <3>2 DEF InitStage, At
    <3>. QED BY <1>5, <1>6, <1>7, <2>3, <2>4, <2>5, <3>3, <3>4, SerialStep DEF SchemaHere, CallOK
  <2>7. CASE b # "view"
    <3>1. InitHere(p)'
      BY <1>6, <1>11, <2>1, <2>2, <2>7 DEF InitHere
    <3>2. InitStage(p)'
      BY <1>2, <1>5, <1>9, <1>11, <1>12, <2>1, <2>7 DEF InitStage, At
    <3>. QED BY <1>5, <1>6, <1>7, <2>3, <2>4, <2>5, <3>1, <3>2, SerialStep DEF SchemaHere, CallOK
  <2>. QED BY <2>6, <2>7
<1>13. CASE b \in {"package", "jobs", "alert"}
  <2>1. Viewed /\ TableStage(p)
    BY <1>2, <1>13 DEF TableStage, PastInit
  <2>2. InitHere(p)'
    BY <1>2, <1>5, <1>6, <1>9, <1>13, <2>1 DEF InitHere
  <2>3. PackageHere(p)'
    BY <1>2, <1>5, <1>6, <1>9, <1>10, <1>13 DEF PackageHere
  <2>4. TriggersHere(p)'
    BY <1>2, <1>5, <1>6, <1>9, <1>13 DEF TriggersHere
  <2>5. InitStage(p)'
    BY <1>5, <1>13 DEF InitStage, At
  <2>6. TableStage(p)'
    BY <1>5, <1>6, <1>9, <1>13, <2>1 DEF TableStage, PastInit
  <2>. QED BY <1>5, <1>6, <1>7, <2>2, <2>3, <2>4, <2>5, <2>6, SerialStep DEF SchemaHere, CallOK
<1>. QED BY <1>3, <1>12, <1>13, BlocksAre

\* A failure between two statements is on record unless what comes next makes it good.
LEMMA Fail_Serial ==
  ASSUME TypeOK, NEW p \in Installers, SerialAt(p), Fail(p) PROVE SerialAt(p)'
<1>. DEFINE b == installer[p].stage
<1>1. /\ UNCHANGED <<shared, perTable, overlap>> /\ cut' = cut \cup {Coming(p)} /\ Idle(p)
  BY DEF Fail
<1>2. /\ BlockOK(p) /\ InitStage(p) /\ InitHere(p) /\ PackageHere(p) /\ TriggersHere(p)
      /\ SourcesOK /\ ~overlap
  BY CallFacts
<1>3. MovesTo(p, "idle") /\ Resting(p)' /\ CallOK(p)'
  BY <1>1, IdleKeeps, RestingCall
<1>4. /\ objects' = objects /\ settings' = settings /\ sources' = sources /\ Names' = Names
      /\ column' = column /\ deTable' = deTable /\ deTrigger' = deTrigger /\ trigger' = trigger
      /\ ~overlap'
  BY <1>1, <1>2 DEF shared, perTable, Names, Rows
<1>5. b \notin Blocks => Coming(p) = b
  BY DEF Coming
<1>6. b \in Blocks => \/ Coming(p) = b
                      \/ (Coming(p) = After[b] /\ Range(Creates[b]) \subseteq objects)
  BY <1>2, RangesAre DEF Coming, BlockOK
<1>7. InitHere(p)'
  <2>1. b = "view" /\ Viewed => Coming(p) = "settings"
    BY <1>2, BlocksAre DEF InitStage, At, BlockOK, Coming
  <2>2. b \in {"settings", "setting"} => Coming(p) = b
    BY <1>5, BlocksAre
  <2>. QED BY <1>1, <1>2, <1>3, <1>4, <2>1, <2>2
           DEF InitHere, Viewed, SequencesDone, TablesDone
<1>8. PackageHere(p)'
  <2>1. b = "package" => Coming(p) = "package" \/ (Coming(p) = "jobs" /\ PackageDone)
    BY <1>6, BlocksAre DEF PackageDone
  <2>2. b = "jobs" => Coming(p) = "jobs" \/ "J_COALESCE_LOG" \in objects
    BY <1>6, BlocksAre, RangesAre
  <2>. QED BY <1>1, <1>2, <1>3, <1>4, <2>1, <2>2 DEF PackageHere, Packaged, PackageDone
<1>9. TriggersHere(p)'
  <2>1. b \in {"deTrigger", "readSources", "register"} => Coming(p) = b
    BY <1>5, BlocksAre
  <2>. QED BY <1>1, <1>2, <1>3, <1>4, <2>1 DEF TriggersHere, Viewed, Packaged
<1>10. SourcesOK'
  BY <1>2, <1>4 DEF SourcesOK
<1>. QED BY <1>3, <1>4, <1>7, <1>8, <1>9, <1>10, SerialStep DEF SchemaHere, MovesTo

\* A call begins when no other is under way.
LEMMA Start_Serial ==
  ASSUME TypeOK, SerialInv, NEW p \in Installers, NEW t \in Tables, Start(p, t), ~overlap'
  PROVE  SerialAt(p)'
<1>1. /\ installer[p].stage = "idle" /\ ~overlap
      /\ \A q \in Installers \ {p} : installer[q].stage = "idle"
      /\ installer' = [installer EXCEPT ![p].stage = "readSequences", ![p].table = t]
      /\ UNCHANGED <<shared, perTable, fails, cut>>
  BY DEF Start, At
<1>2. SerialAt(p)
  <2>1. ASSUME NEW q \in Installers \ {p} PROVE Resting(q)
    BY <1>1, IdleNotBlock DEF SerialInv, BlockOK, FoundOK, Resting, At
  <2>. QED BY <1>1, <2>1 DEF SerialInv, SerialAt, Sole, SchemaOK, CallOK
<1>3. /\ Moves(p) /\ installer'[p].stage = "readSequences" /\ installer'[p].drop = {}
      /\ installer'[p].make = <<>> /\ installer'[p].found = {}
  <2>. DEFINE rec == [installer[p] EXCEPT !.stage = "readSequences", !.table = t]
  <2>1. /\ installer[p] \in Installer /\ installer \in [Installers -> Installer]
        /\ installer[p].drop = {} /\ installer[p].make = <<>> /\ installer[p].found = {}
    BY <1>1, <1>2, CallFacts, NothingLeft, IdleNotBlock DEF FoundOK, At
  <2>2. rec \in Installer
    BY <2>1 DEF Installer, Stages
  <2>3. installer' = [installer EXCEPT ![p] = rec]
    BY <1>1, <2>1 DEF Installer
  <2>4. installer'[p] = rec /\ Moves(p)
    BY <2>2, <2>3, RecordMoves
  <2>. QED BY <2>1, <2>4 DEF Installer
<1>4. /\ objects' = objects /\ settings' = settings /\ sources' = sources /\ Names' = Names
      /\ column' = column /\ deTable' = deTable /\ deTrigger' = deTrigger /\ trigger' = trigger
      /\ cut' = cut
  BY <1>1 DEF shared, perTable, Names, Rows
<1>5. InitHere(p) /\ PackageHere(p) /\ TriggersHere(p) /\ SourcesOK
  BY <1>2, CallFacts
<1>6. InitHere(p)' /\ PackageHere(p)'
  BY <1>1, <1>3, <1>4, <1>5
     DEF InitHere, PackageHere, Viewed, SequencesDone, TablesDone, Packaged, PackageDone
<1>7. TriggersHere(p)' /\ SourcesOK'
  BY <1>1, <1>3, <1>4, <1>5 DEF TriggersHere, SourcesOK, Viewed, Packaged
<1>8. CallOK(p)'
  BY <1>3, BlocksAre DEF CallOK, BlockOK, FoundOK, InitStage, TableStage, At, PastInit
<1>. QED BY <1>2, <1>3, <1>6, <1>7, <1>8, SerialStep DEF SchemaHere

-----------------------------------------------------------------------------
LEMMA Init_Serial == Init => SerialInv
<1>. SUFFICES ASSUME Init PROVE SerialInv
  OBVIOUS
<1>1. /\ objects = {} /\ settings = 0 /\ sources = <<>> /\ deTable = {} /\ deTrigger = {}
      /\ trigger = {}
  BY DEF Init
<1>2. Names = {}
  BY <1>1, RangesAre DEF Names, Rows
<1>3. InitOK /\ PackageOK /\ TriggersOK /\ SourcesOK
  BY <1>1, <1>2 DEF InitOK, PackageOK, TriggersOK, SourcesOK, Viewed, Packaged
<1>4. ASSUME NEW p \in Installers PROVE At(p, "idle") /\ CallOK(p)
  <2>1. Resting(p)
    BY DEF Init, Resting
  <2>. QED BY <2>1, IdleNotBlock
           DEF Resting, CallOK, BlockOK, FoundOK, InitStage, TableStage, At
<1>. QED BY <1>3, <1>4 DEF SerialInv, Alone, CallOK

LEMMA Step_Serial ==
  ASSUME ConfigInv, SerialInv, NEW p \in Installers, Step(p), ~overlap'
  PROVE  SerialAt(p)'
<1>1. TypeOK /\ overlap' = overlap
  BY DEF ConfigInv, Step, ReadObjects, IsInit, HasAdd, Drop, Create, LeaveBlock, ReadSettings,
     InsertSetting, IsFirst, IsExistTXN, AddTxn, DropTxn, AddColumn, IsExistDeTable,
     CreateDeTable, CreateDeTrigger, CreateTrigger, ReadSources, Register, History
<1>2. ~At(p, "idle")
  <2>1. SUFFICES ASSUME At(p, "idle") PROVE FALSE
    OBVIOUS
  <2>2. installer[p].drop = {} /\ installer[p].make = <<>> /\ installer[p].stage \notin Blocks
    BY <1>1, <2>1, IdleNotBlock DEF SerialInv, BlockOK, At
  <2>. QED BY <2>1, <2>2
           DEF Step, ReadObjects, IsInit, HasAdd, Drop, Create, LeaveBlock, ReadSettings,
               InsertSetting, IsFirst, IsExistTXN, AddTxn, DropTxn, AddColumn, IsExistDeTable,
               CreateDeTable, CreateDeTrigger, CreateTrigger, ReadSources, Register, At
<1>3. SerialAt(p)
  BY <1>1, <1>2, SerialIs
<1>. QED BY <1>1, <1>3, ReadObjects_Serial, IsInit_Serial, HasAdd_Serial, Drop_Serial,
         Create_Serial, LeaveBlock_Serial, ReadSettings_Serial, InsertSetting_Serial,
         IsFirst_Serial, Column_Serial, AlterTable_Serial, IsExistDeTable_Serial,
         CreateDeTable_Serial, CreateDeTrigger_Serial, CreateTrigger_Serial,
         ReadSources_Serial, Register_Serial DEF Step

LEMMA Next_Serial == ConfigInv /\ SerialInv /\ [Next]_vars => SerialInv'
<1>1. ASSUME overlap' PROVE SerialInv'
  BY <1>1 DEF SerialInv
<1>2. ASSUME SerialInv, UNCHANGED vars PROVE SerialInv'
  <2>1. /\ objects' = objects /\ settings' = settings /\ sources' = sources /\ column' = column
        /\ deTable' = deTable /\ deTrigger' = deTrigger /\ trigger' = trigger
        /\ installer' = installer /\ cut' = cut /\ overlap' = overlap
        /\ Names' = Names /\ Bits' = Bits
    BY <1>2 DEF vars, shared, perTable, Names, Bits, Rows
  <2>2. ~overlap => Alone' /\ SourcesOK'
    BY <1>2, <2>1 DEF SerialInv, Alone, SourcesOK, At
  <2>3. /\ (Viewed' <=> Viewed) /\ (Packaged' <=> Packaged) /\ (SequencesDone' <=> SequencesDone)
        /\ (TablesDone' <=> TablesDone) /\ (PackageDone' <=> PackageDone)
    BY <2>1 DEF Viewed, Packaged, SequencesDone, TablesDone, PackageDone
  <2>4. ~overlap => InitOK'
    BY <1>2, <2>1, <2>3 DEF SerialInv, InitOK, Busy
  <2>5. ~overlap => PackageOK'
    BY <1>2, <2>1, <2>3 DEF SerialInv, PackageOK, Busy
  <2>6. ~overlap => TriggersOK'
    BY <1>2, <2>1, <2>3 DEF SerialInv, TriggersOK, BusyWith
  <2>7. ASSUME NEW p \in Installers, CallOK(p) PROVE CallOK(p)'
    <3>1. BlockOK(p)' /\ FoundOK(p)'
      BY <2>1, <2>7 DEF CallOK, BlockOK, FoundOK, At
    <3>2. InitStage(p)'
      BY <2>1, <2>3, <2>7 DEF CallOK, InitStage, At
    <3>3. TableStage(p)'
      BY <2>1, <2>3, <2>7 DEF CallOK, TableStage
    <3>. QED BY <3>1, <3>2, <3>3 DEF CallOK
  <2>. QED BY <1>2, <2>1, <2>2, <2>4, <2>5, <2>6, <2>7 DEF SerialInv, CallOK
<1>3. ASSUME ConfigInv, SerialInv, ~overlap', NEW p \in Installers,
             Step(p) \/ Fail(p) \/ \E t \in Tables : Start(p, t)
      PROVE  SerialInv'
  <2>1. TypeOK
    BY <1>3 DEF ConfigInv
  <2>2. SerialAt(p)'
    <3>1. CASE Step(p)
      BY <1>3, <3>1, Step_Serial
    <3>2. CASE \E t \in Tables : Start(p, t)
      BY <1>3, <2>1, <3>2, Start_Serial
    <3>3. CASE Fail(p)
      <4>1. ~overlap /\ ~At(p, "idle")
        BY <1>3, <3>3 DEF Fail
      <4>. QED BY <1>3, <2>1, <3>3, <4>1, SerialIs, Fail_Serial
    <3>. QED BY <1>3, <3>1, <3>2, <3>3
  <2>3. (SomeSerial => SerialInv)'
    BY SerialBack, PTL
  <2>. QED BY <2>2, <2>3 DEF SomeSerial
<1>4. overlap' \/ ~overlap'
  OBVIOUS
<1>. QED BY <1>1, <1>2, <1>3, <1>4 DEF Next

\* As long as calls have not overlapped, what each stage of addNewSource stands for holds.
THEOREM SerialCorrect == Spec => [](ConfigInv /\ SerialInv)
<1>1. Init => ConfigInv /\ SerialInv
  BY Init_ConfigInv, Init_Serial
<1>2. (ConfigInv /\ SerialInv) /\ [Next]_vars => (ConfigInv /\ SerialInv)'
  BY Next_ConfigInv, Next_Serial
<1>. QED BY <1>1, <1>2, PTL DEF Spec

\* Every registered table has a bit of the mask to itself and one row of sy$sources, with
\* any tables and failures, as long as calls do not overlap.
THEOREM BitsAlwaysDiffer == Spec => []BitsDiffer
<1>1. ConfigInv /\ SerialInv => BitsDiffer
  BY DEF SerialInv, SourcesOK, BitsDiffer
<1>. QED BY <1>1, SerialCorrect, PTL

\* What isInit looks for stands for everything Init makes.
THEOREM InitIsAlwaysEnough == Spec => []InitIsEnough
<1>1. ConfigInv /\ SerialInv => InitIsEnough
  <2>. SUFFICES ASSUME SerialInv, ~overlap, NEW p \in Installers, installer[p].stage \in PastInit
                PROVE  /\ InitObjects \cup TxlogParts \subseteq objects
                       /\ settings = 1 \/ cut \cap {"settings", "setting"} # {}
    BY DEF InitIsEnough
  <2>1. ~At(p, "idle")
    BY IdleNotBlock DEF At
  <2>2. SerialAt(p)
    BY <2>1, SerialIs
  <2>3. InitHere(p) /\ TableStage(p)
    BY <2>2, SerialHere DEF SchemaHere, CallOK
  <2>4. Viewed /\ installer[p].stage \notin {"view", "settings", "setting"}
    BY <2>3 DEF TableStage, PastInit
  <2>5. SequencesDone /\ TablesDone /\ (settings = 1 \/ cut \cap {"settings", "setting"} # {})
    BY <2>3, <2>4 DEF InitHere
  <2>. QED BY <2>4, <2>5, InitObjectsAre, RangesAre
           DEF SequencesDone, TablesDone, Viewed, TxlogParts
<1>. QED BY <1>1, SerialCorrect, PTL

\* The deletions of a registered table are logged, and the job that stamps the change log
\* exists, unless a call failed at one of the stages named.
THEOREM RegisteredIsAlwaysMonitored == Spec => []RegisteredIsMonitored
<1>1. ConfigInv /\ SerialInv => RegisteredIsMonitored
  <2>. SUFFICES ASSUME ConfigInv, SerialInv, ~overlap
                PROVE  /\ Names \subseteq deTrigger \/ "deTrigger" \in cut
                       /\ Names # {} => \/ "J_COALESCE_LOG" \in objects
                                        \/ cut \cap {"package", "jobs"} # {}
    BY DEF RegisteredIsMonitored
  <2>1. PackageOK /\ TriggersOK /\ RegisteredIsLogged /\ \A p \in Installers : TableStage(p)
    BY DEF SerialInv, ConfigInv
  <2>2. ASSUME NEW t \in Names PROVE t \in deTrigger \/ "deTrigger" \in cut
    <3>1. ~BusyWith({"deTrigger"}, t)
      BY <2>1 DEF BusyWith, TableStage, PastInit
    <3>. QED BY <2>1, <3>1 DEF RegisteredIsLogged, TriggersOK
  <2>3. Names # {} => ~Busy({"package", "jobs"})
    BY <2>1 DEF Busy, TableStage, PastInit
  <2>. QED BY <2>1, <2>2, <2>3 DEF PackageOK
<1>. QED BY <1>1, SerialCorrect, PTL

\* Installing osync does not make the statements of an application fail, whatever else a
\* call fails at, between createTrigger and the registration excepted.
THEOREM ApplicationsAlwaysWork == Spec => []ApplicationsWork
<1>1. ConfigInv /\ SerialInv => ApplicationsWork
  <2>. SUFFICES ASSUME SerialInv, ~overlap, NEW t \in trigger,
                       cut \cap {"settings", "setting", "package", "readSources", "register"} = {}
                PROVE  \/ StatementsWork(t)
                       \/ \E p \in Installers : installer[p].table = t
                            /\ installer[p].stage \in {"readSources", "register"}
    BY DEF ApplicationsWork
  <2>1. /\ InitOK /\ PackageOK /\ TriggersOK /\ SourcesOK
        /\ \A p \in Installers : InitStage(p) /\ TableStage(p)
    BY DEF SerialInv
  <2>2. Viewed /\ Packaged /\ column[t] = "number"
    BY <2>1 DEF TriggersOK
  <2>3. CASE BusyWith({"readSources", "register"}, t)
    BY <2>3 DEF BusyWith
  <2>4. CASE ~BusyWith({"readSources", "register"}, t)
    <3>1. t \in Names
      BY <2>1, <2>4 DEF TriggersOK
    <3>2. ~Busy({"view", "settings", "setting"}) /\ ~Busy({"package"})
      BY <2>1, <3>1 DEF Busy, InitStage, TableStage, At, PastInit
    <3>3. settings = 1 /\ SequencesDone /\ TablesDone /\ PackageDone
      BY <2>1, <2>2, <3>2 DEF InitOK, PackageOK
    <3>4. PICK i \in DOMAIN sources : sources[i].name = t
      BY <3>1 DEF Names, Rows, Range
    <3>5. {j \in DOMAIN sources : sources[j].name = t} = {i}
      BY <2>1, <3>4 DEF SourcesOK
    <3>6. Cardinality({j \in DOMAIN sources : sources[j].name = t}) = 1
      BY <3>5, FS_Singleton
    <3>. QED BY <2>2, <3>3, <3>6, RangesAre
             DEF StatementsWork, SequencesDone, TablesDone, PackageDone
  <2>. QED BY <2>3, <2>4
<1>. QED BY <1>1, SerialCorrect, PTL

\* No step of a call undoes the registration of a table.
THEOREM RegistrationsAlwaysKept == Spec => RegistrationsKept
<1>1. ConfigInv /\ SerialInv /\ [Next]_vars => [~overlap' => Names \subseteq Names']_vars
  <2>. SUFFICES ASSUME ConfigInv, SerialInv, Next, ~overlap' PROVE Names \subseteq Names'
    OBVIOUS
  <2>1. CASE UNCHANGED sources
    BY <2>1 DEF Names, Rows
  <2>2. ASSUME NEW p \in Installers, Drop(p), sources' # sources PROVE Names = {}
    <3>1. PICK o \in installer[p].drop : o = "SY$SOURCES"
      BY <2>2 DEF Drop
    <3>2. ~overlap
      BY <2>2 DEF Drop, History
    <3>3. BlockOK(p) /\ InitStage(p) /\ InitOK
      BY <3>2 DEF SerialInv
    <3>4. installer[p].stage = "tables"
      BY <3>1, <3>3, RangesAre DEF BlockOK
    <3>. QED BY <3>3, <3>4 DEF InitStage, InitOK, At
  <2>3. ASSUME NEW p \in Installers, Register(p) PROVE Names \subseteq Names'
    <3>. DEFINE row == [name |-> installer[p].table, bit |-> installer[p].bit]
    <3>1. row \in [name: Tables, bit: Nat] /\ sources \in Seq([name: Tables, bit: Nat])
      BY DEF ConfigInv, TypeOK, Installer
    <3>2. sources' = Append(sources, row)
      BY <2>3 DEF Register
    <3>3. /\ DOMAIN sources = 1..Len(sources) /\ DOMAIN sources' = 1..(Len(sources) + 1)
          /\ Len(sources) \in Nat /\ \A i \in 1..Len(sources) : sources'[i] = sources[i]
      BY <3>1, <3>2
    <3>4. Rows \subseteq Rows'
      BY <3>3 DEF Rows, Range
    <3>. QED BY <3>4 DEF Names
  <2>4. PICK p \in Installers : Step(p) \/ Fail(p) \/ \E t \in Tables : Start(p, t)
    BY DEF Next
  <2>5. UNCHANGED sources \/ Drop(p) \/ Register(p)
    BY <2>4 DEF Step, Start, Fail, ReadObjects, IsInit, HasAdd, Create, LeaveBlock, ReadSettings,
       InsertSetting, IsFirst, IsExistTXN, AddTxn, DropTxn, AddColumn, IsExistDeTable,
       CreateDeTable, CreateDeTrigger, CreateTrigger, ReadSources, shared
  <2>. QED BY <2>1, <2>2, <2>3, <2>5
<1>. QED BY <1>1, SerialCorrect, PTL DEF Spec, RegistrationsKept
===============================================================================
