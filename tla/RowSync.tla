------------------------------- MODULE RowSync -------------------------------
(***************************************************************************)
(* What becomes of the columns of a row on their way through one table map: *)
(* SelectData and MonitorDeleteThread read the row or its key, SynServer-   *)
(* Handler translates the columns (DataTranslator.transData) and OperateDB  *)
(* executes the statement that GenerateSQL makes of them.                   *)
(*                                                                          *)
(* The order of messages, and their loss, are the matter of Transfer: here  *)
(* each write is queued as it commits, and one server applies the queue.    *)
(***************************************************************************)
EXTENDS Naturals, Sequences, FiniteSets, Functions

CONSTANTS
  TableMaps,    \* the table maps of which a behaviour has one
  Numbers,      \* numbers written to a column outside the key, in halves
  KeyNumbers,   \* numbers written to a key column, in halves and whole
  MaxInt,       \* the highest number Integer.parseInt takes, in halves
  Words,        \* strings written to a column outside the key
  KeyWords,     \* strings written to a key column
  NullWord,     \* the string that reads "null", in capitals or not
  Quoted,       \* a string with an apostrophe
  Dates,        \* values of a date column
  Texts,        \* values of a column of any other type
  Null,
  MaxWrites     \* bound: statements on the source table

Values == Numbers \cup KeyNumbers \cup Words \cup KeyWords \cup Dates \cup Texts

\* The types of columns the program has a rule for; the others are one here.
ColumnTypes == {"number", "varchar2", "date", "other"}

\* A table map takes every key column to a column of its own, and there are no
\* apostrophes or fractions in keys.
ASSUME RowSyncAssumption ==
  /\ \A g \in TableMaps :
       /\ g.valiFields \in Seq(DOMAIN g.columnType)
       /\ g.keys # {} /\ g.keys \subseteq Range(g.valiFields)
       /\ g.columnType \in [DOMAIN g.columnType -> ColumnTypes]
       /\ g.toType \in [DOMAIN g.toType -> ColumnTypes]
       /\ \A f \in Range(g.valiFields) : g.fieldsMap[f] \in DOMAIN g.toType
       /\ \A f, h \in Range(g.valiFields) : g.fieldsMap[f] = g.fieldsMap[h] => f = h
       /\ \A k \in g.keys : /\ g.columnType[k] \in {"number", "varchar2"}
                            /\ g.toType[g.fieldsMap[k]] = g.columnType[k]
  /\ Numbers \subseteq Nat /\ KeyNumbers \subseteq Nat
  /\ \A n \in KeyNumbers : n % 2 = 0
  /\ MaxInt \in Nat /\ MaxWrites \in Nat
  /\ Quoted \notin KeyWords
  /\ Null \notin Values \cup Nat

VARIABLES
  tableMap,     \* the table map
  rows,         \* rows of the source table
  queue,        \* messages not yet applied
  capturing,    \* the monitor for inserts and updates has not died
  target,       \* rows of the target table, by ROWID
  writes

\* History, read by the properties only: keys whose row in the target may differ
\* from the source, because of a message, or for want of one.
VARIABLES marred, unheard

vars == <<tableMap, rows, queue, capturing, target, writes, marred, unheard>>

-----------------------------------------------------------------------------
(***************************************************************************)
(* Rows and keys.                                                          *)
(***************************************************************************)
FromColumns(g) == DOMAIN g.columnType
ToColumns(g) == DOMAIN g.toType
Fields(g) == Range(g.valiFields)

\* The values a column may hold: Oracle takes no null into a primary key.
Column(g, c) ==
  CASE g.columnType[c] = "number" -> IF c \in g.keys THEN KeyNumbers ELSE Numbers \cup {Null}
    [] g.columnType[c] = "varchar2" -> IF c \in g.keys THEN KeyWords ELSE Words \cup {Null}
    [] g.columnType[c] = "date" -> Dates \cup {Null}
    [] OTHER -> Texts \cup {Null}

IsRow(g, r) == DOMAIN r = FromColumns(g) /\ \A c \in DOMAIN r : r[c] \in Column(g, c)
Rows(g) == {r \in [FromColumns(g) -> Values \cup {Null}] : IsRow(g, r)}
Keys(g) == {k \in [g.keys -> KeyNumbers \cup KeyWords] : \A c \in g.keys : k[c] \in Column(g, c)}

KeyOf(r) == Restrict(r, tableMap.keys)

\* The columns that both ends have a rule for.
Carried(g) == {f \in Fields(g) : /\ g.columnType[f] \in {"number", "varchar2"}
                                 /\ g.toType[g.fieldsMap[f]] = g.columnType[f]}

-----------------------------------------------------------------------------
(***************************************************************************)
(* SelectData.select and MonitorDeleteThread.getInfo.  A field the message  *)
(* lacks and one that is null are treated alike everywhere: both are Null.  *)
(***************************************************************************)
\* Variant: a null is kept.
GetObject(v) == IF v = Null THEN Null ELSE v - (v % 2)

\* ResultSet.getLong: no null and no fractions.
GetLong(v) == IF v = Null THEN 0 ELSE v - (v % 2)

\* The date is kept as it is: no rule of the translation looks at it.
SelectedField(g, r, c) ==
  CASE g.columnType[c] = "number" -> GetLong(r[c])
    [] g.columnType[c] = "other" -> Null
    [] OTHER -> r[c]

Selected(g, r) == [c \in FromColumns(g) |-> SelectedField(g, r, c)]

\* SimpleDateFormat.format does not take a null.
SelectThrows(g, r) == \E c \in FromColumns(g) : g.columnType[c] = "date" /\ r[c] = Null

\* The delete log has the key columns only.
Deleted(g, r) == [c \in FromColumns(g) |-> IF c \in g.keys THEN SelectedField(g, r, c) ELSE Null]

-----------------------------------------------------------------------------
(***************************************************************************)
(* DataTranslator.transData.                                               *)
(***************************************************************************)
\* A number that is not in the message: value.toString() throws.
TransThrows(g, datas) ==
  \E f \in Carried(g) : g.columnType[f] = "number" /\ datas[f] = Null

\* A date is looked up in the map under construction, by its name at the source.
TransDate(g, done, f) == IF f \in ToColumns(g) THEN done[f] ELSE Null

TransField(g, datas, done, f) ==
  LET to == g.fieldsMap[f] IN
  CASE f \in Carried(g) -> [done EXCEPT ![to] = datas[f]]
    [] g.columnType[f] = "date" /\ g.toType[to] = "date" -> [done EXCEPT ![to] = TransDate(g, done, f)]
    [] OTHER -> done

TransData(g, datas) ==
  LET done[n \in 0..Len(g.valiFields)] ==
        IF n = 0 THEN [c \in ToColumns(g) |-> Null]
        ELSE TransField(g, datas, done[n - 1], g.valiFields[n])
  IN done[Len(g.valiFields)]

-----------------------------------------------------------------------------
(***************************************************************************)
(* GenerateSQL, of the translated columns d.  A where clause and a list of  *)
(* assignments are functions from columns to values.                        *)
(***************************************************************************)
\* Variant: no column is passed over.
NoneSkipped(g, d) == ToColumns(g)

\* The columns that are not passed over for their value.
Effective(g, d) == {c \in ToColumns(g) : d[c] \notin {Null, NullWord}}

\* getKeyString
KeyString(g, d) ==
  Restrict(d, {g.fieldsMap[k] : k \in g.keys} \cap
              {c \in Effective(g, d) : g.toType[c] \in {"number", "varchar2"}})

\* getInsertSQL: the columns it names and those it has a value for.
InsertColumns(g, d) == Effective(g, d)
InsertValues(g, d) == {c \in Effective(g, d) : g.toType[c] # "other"}

\* Variant: without the rule for numbers.
WordsOnly(g, d) == Restrict(d, {c \in Effective(g, d) : g.toType[c] = "varchar2"})

\* getUpdateSQL; an insert has the same values.
Assignments(g, d) == Restrict(d, {c \in Effective(g, d) : g.toType[c] # "other"})

\* Integer.parseInt throws.
ParseThrows(g, part) == \E c \in DOMAIN part : g.toType[c] = "number" /\ part[c] > MaxInt

\* Oracle refuses a string with an apostrophe and a date that is none.
Malformed(g, part) ==
  \E c \in DOMAIN part : \/ g.toType[c] = "varchar2" /\ part[c] = Quoted
                         \/ g.toType[c] = "date" /\ part[c] \notin Dates

Matches(r, where) == \A c \in DOMAIN where : r[c] = where[c]

\* Variant: the first row of the table.
FirstExists(g, d) == \E i \in DOMAIN target :
  Matches(target[i], KeyString(g, d)) /\ \A j \in DOMAIN target : i <= j

\* isExist
IsExist(g, d) == /\ DOMAIN KeyString(g, d) # {}
                 /\ \E i \in DOMAIN target : Matches(target[i], KeyString(g, d))

-----------------------------------------------------------------------------
(***************************************************************************)
(* The history.                                                            *)
(***************************************************************************)
TargetKey(g, k) == [c \in {g.fieldsMap[f] : f \in g.keys} |-> k[CHOOSE f \in g.keys : g.fieldsMap[f] = c]]

\* A value that arrives as another one: a null number as 0, a fraction cut off,
\* the word that reads "null" as nothing.
Distorted(g, r) ==
  \E f \in Carried(g) : \/ g.columnType[f] = "number" /\ GetLong(r[f]) # r[f]
                        \/ r[f] = NullWord

\* A value that a null does not clear.
Kept(g, r, d) ==
  \E f \in Carried(g), i \in DOMAIN target :
    /\ Matches(target[i], KeyString(g, d))
    /\ r[f] = Null /\ target[i][g.fieldsMap[f]] # Null

\* Keys of other rows that the where clause takes in.
Hit(g, d) == {k \in Keys(g) : Matches(TargetKey(g, k), KeyString(g, d))}

-----------------------------------------------------------------------------
(***************************************************************************)
(* The source table.                                                       *)
(***************************************************************************)
Init ==
  /\ tableMap \in TableMaps
  /\ rows = {} /\ queue = <<>> /\ capturing = TRUE /\ target = <<>> /\ writes = 0
  /\ marred = {} /\ unheard = {}

\* Row r has been written; was is the key it had before.
Capture(r, was) ==
  IF capturing /\ ~SelectThrows(tableMap, r)
  THEN /\ queue' = Append(queue, [op |-> "put", datas |-> Selected(tableMap, r), row |-> r, was |-> was])
       /\ UNCHANGED <<capturing, unheard>>
  ELSE /\ capturing' = FALSE
       /\ unheard' = unheard \cup {KeyOf(r), was}
       /\ UNCHANGED queue

Write ==
  /\ writes < MaxWrites
  /\ writes' = writes + 1
  /\ UNCHANGED <<tableMap, target, marred>>

Insert ==
  /\ Write
  /\ \E r \in Rows(tableMap) :
       /\ \A s \in rows : KeyOf(s) # KeyOf(r)
       /\ rows' = rows \cup {r}
       /\ Capture(r, KeyOf(r))

\* The key may change too: no delete trigger fires for it.
Update ==
  /\ Write
  /\ \E s \in rows, r \in Rows(tableMap) :
       /\ s # r
       /\ \A o \in rows \ {s} : KeyOf(o) # KeyOf(r)
       /\ rows' = (rows \ {s}) \cup {r}
       /\ Capture(r, KeyOf(s))

Delete ==
  /\ Write
  /\ \E s \in rows :
       /\ rows' = rows \ {s}
       /\ queue' = Append(queue, [op |-> "delete", datas |-> Deleted(tableMap, s), row |-> s, was |-> KeyOf(s)])
       /\ unheard' = unheard \ {KeyOf(s)}
  /\ UNCHANGED capturing

-----------------------------------------------------------------------------
(***************************************************************************)
(* SynServerHandler.messageReceived and OperateDB.synData.  A message that  *)
(* an exception ends changes nothing.                                       *)
(***************************************************************************)
Translated(m) == TransData(tableMap, m.datas)

DeleteThrows(g, d) ==
  \/ DOMAIN KeyString(g, d) = {}
  \/ ParseThrows(g, KeyString(g, d)) \/ Malformed(g, KeyString(g, d))

PutThrows(g, d) ==
  \/ ParseThrows(g, Assignments(g, d)) \/ Malformed(g, Assignments(g, d))
  \/ DOMAIN Assignments(g, d) = {}
  \/ ~IsExist(g, d) /\ InsertColumns(g, d) # InsertValues(g, d)

Throws(m) ==
  \/ TransThrows(tableMap, m.datas)
  \/ IF m.op = "delete" THEN DeleteThrows(tableMap, Translated(m)) ELSE PutThrows(tableMap, Translated(m))

\* Row r after the assignments.
Assigned(d, r) ==
  LET set == Assignments(tableMap, d) IN
  [c \in ToColumns(tableMap) |-> IF c \in DOMAIN set THEN set[c] ELSE r[c]]

Deleting(d) ==
  Restrict(target, {i \in DOMAIN target : ~Matches(target[i], KeyString(tableMap, d))})

Updating(d) ==
  [i \in DOMAIN target |->
     IF Matches(target[i], KeyString(tableMap, d)) THEN Assigned(d, target[i]) ELSE target[i]]

\* A ROWID that is not in use.
FreeId == CHOOSE i \in 1..(Cardinality(DOMAIN target) + 1) : i \notin DOMAIN target

Inserting(d) ==
  [i \in DOMAIN target \cup {FreeId} |->
     IF i \in DOMAIN target THEN target[i]
     ELSE Assigned(d, [c \in ToColumns(tableMap) |-> Null])]

SynData(m) ==
  LET d == Translated(m) IN
  CASE m.op = "delete" -> Deleting(d)
    [] m.op = "put" /\ IsExist(tableMap, d) -> Updating(d)
    [] m.op = "put" /\ ~IsExist(tableMap, d) -> Inserting(d)

\* The message leaves the row of its key as it is at the source, and no other row
\* of the target is concerned.
Faithful(m) ==
  LET d == Translated(m) IN
  /\ DOMAIN KeyString(tableMap, d) = {tableMap.fieldsMap[k] : k \in tableMap.keys}
  /\ m.op = "put" => ~Distorted(tableMap, m.row) /\ ~Kept(tableMap, m.row, d)

MessageReceived ==
  /\ queue # <<>>
  /\ LET m == Head(queue)
         k == KeyOf(m.row) IN
     IF Throws(m)
     THEN /\ marred' = marred \cup {k, m.was}
          /\ UNCHANGED target
     ELSE /\ target' = SynData(m)
          /\ marred' = IF Faithful(m) THEN (marred \ {k}) \cup ({m.was} \ {k})
                       ELSE marred \cup {k, m.was} \cup
                            IF DOMAIN KeyString(tableMap, Translated(m)) = {} THEN {}
                            ELSE Hit(tableMap, Translated(m))
  /\ queue' = Tail(queue)
  /\ UNCHANGED <<tableMap, rows, capturing, writes, unheard>>

Next == Insert \/ Update \/ Delete \/ MessageReceived

Spec == Init /\ [][Next]_vars

-----------------------------------------------------------------------------
(***************************************************************************)
(* Properties.                                                             *)
(***************************************************************************)
\* What may be in a message or in the target: numbers as getLong returns them, too.
Contents == Values \cup {Null} \cup {GetLong(v) : v \in Numbers \cup {Null}}

\* A put message has a value in every number column.  Fields row and was are history:
\* the row the message is of, and the key it had before.
MessageOK(m) ==
  /\ m.op \in {"put", "delete"}
  /\ m.datas \in [FromColumns(tableMap) -> Contents]
  /\ m.op = "put" => \A c \in FromColumns(tableMap) :
                        tableMap.columnType[c] = "number" => m.datas[c] # Null

\* Every variable keeps its type.
TypeOK ==
  /\ tableMap \in TableMaps
  /\ \A r \in rows : IsRow(tableMap, r)
  /\ \A i \in DOMAIN queue : MessageOK(queue[i])
  /\ capturing \in BOOLEAN
  /\ IsFiniteSet(DOMAIN target) /\ DOMAIN target \subseteq Nat
  /\ \A i \in DOMAIN target : target[i] \in [ToColumns(tableMap) -> Contents]
  /\ writes \in 0..MaxWrites
  /\ marred \subseteq Keys(tableMap) /\ unheard \subseteq Keys(tableMap)

\* The carried columns of a source row as the target should show them.
Image(r) == [c \in {tableMap.fieldsMap[f] : f \in Carried(tableMap)} |->
              r[CHOOSE f \in Carried(tableMap) : tableMap.fieldsMap[f] = c]]

\* The rows the target shows under a key, and those it should show.
Shown(k) ==
  {Restrict(target[i], {tableMap.fieldsMap[f] : f \in Carried(tableMap)}) :
     i \in {j \in DOMAIN target : Matches(target[j], TargetKey(tableMap, k))}}
Wanted(k) == {Image(r) : r \in {s \in rows : KeyOf(s) = k}}

Pending(k) == \E i \in DOMAIN queue : k \in {KeyOf(queue[i].row), queue[i].was}

\* When the messages of a row are applied, its carried columns in the target are those
\* of the source.  The exceptions, for as long as no later message of the row heals
\* them: a message refused for a number beyond an int, an apostrophe or, for deletions,
\* a number outside the key; a value that a null leaves behind, or that arrives as
\* another one; a row left under the key it had; rows that a where clause without all
\* its key columns took in.  Without a monitor nothing is promised.
InStep ==
  \A k \in Keys(tableMap) :
    k \in marred \cup unheard \/ Pending(k) \/ Shown(k) = Wanted(k)

\* However messages have been refused or distorted, the target has one row per key at
\* most, so that update and delete take one row: isExist and the insert after it
\* agree on what the key is.
OneRowPerKey ==
  \A k \in Keys(tableMap) : \A i, j \in DOMAIN target :
    Matches(target[i], TargetKey(tableMap, k)) /\ Matches(target[j], TargetKey(tableMap, k)) => i = j

\* The translation lets nothing through that getInsertSQL names a column for and has no
\* value for: the two lists of an insert have the same columns.
ListsCorrespond ==
  \A i \in DOMAIN queue :
    LET d == Translated(queue[i]) IN InsertColumns(tableMap, d) = InsertValues(tableMap, d)

=============================================================================
