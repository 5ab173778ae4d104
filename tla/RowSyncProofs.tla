----------------------------- MODULE RowSyncProofs -----------------------------
(***************************************************************************)
(* Column values on their way through a table map: every property of the    *)
(* component, for any maps, values and numbers of writes.  The first part   *)
(* says what transData returns, the second what the statements made of it   *)
(* do to the target; the inductive invariant of the third says which        *)
(* message of the queue tells of a key last, and that it tells the truth.   *)
(***************************************************************************)
EXTENDS RowSync, FiniteSetTheorems, WellFoundedInduction, TLAPS

-----------------------------------------------------------------------------
(***************************************************************************)
(* Table maps.                                                             *)
(***************************************************************************)
Ruled == {"number", "varchar2"}

\* The key's columns in the target.
KeyColumns(g) == {g.fieldsMap[k] : k \in g.keys}

LEMMA MapFacts ==
  ASSUME NEW g \in TableMaps
  PROVE  /\ Len(g.valiFields) \in Nat
         /\ \A n \in 1..Len(g.valiFields) : g.valiFields[n] \in Fields(g)
         /\ \A f \in Fields(g) : \E n \in 1..Len(g.valiFields) : f = g.valiFields[n]
         /\ Fields(g) \subseteq FromColumns(g)
         /\ \A f \in Fields(g) : g.fieldsMap[f] \in ToColumns(g)
         /\ \A f, h \in Fields(g) : g.fieldsMap[f] = g.fieldsMap[h] => f = h
<1>1. /\ g.valiFields \in Seq(DOMAIN g.columnType)
      /\ \A f \in Range(g.valiFields) : g.fieldsMap[f] \in DOMAIN g.toType
      /\ \A f, h \in Range(g.valiFields) : g.fieldsMap[f] = g.fieldsMap[h] => f = h
  BY RowSyncAssumption
<1>2. /\ Len(g.valiFields) \in Nat
      /\ DOMAIN g.valiFields = 1..Len(g.valiFields)
      /\ \A n \in 1..Len(g.valiFields) : g.valiFields[n] \in DOMAIN g.columnType
  BY <1>1
<1>3. Fields(g) = {g.valiFields[n] : n \in 1..Len(g.valiFields)}
  BY <1>2 DEF Fields, Range
<1>. QED BY <1>1, <1>2, <1>3 DEF Fields, FromColumns, ToColumns

LEMMA CarriedFacts ==
  ASSUME NEW g \in TableMaps
  PROVE  /\ g.keys # {} /\ g.keys \subseteq Carried(g) /\ Carried(g) \subseteq Fields(g)
         /\ \A f \in Carried(g) : /\ g.columnType[f] \in Ruled
                                  /\ g.toType[g.fieldsMap[f]] = g.columnType[f]
                                  /\ g.fieldsMap[f] \in ToColumns(g)
         /\ \A f, h \in Carried(g) : g.fieldsMap[f] = g.fieldsMap[h] => f = h
         /\ KeyColumns(g) \subseteq ToColumns(g) /\ KeyColumns(g) # {}
<1>1. /\ g.keys # {} /\ g.keys \subseteq Fields(g)
      /\ \A k \in g.keys : /\ g.columnType[k] \in Ruled
                           /\ g.toType[g.fieldsMap[k]] = g.columnType[k]
  BY RowSyncAssumption DEF Fields, Ruled
<1>. QED BY <1>1, MapFacts DEF Carried, KeyColumns, Ruled

-----------------------------------------------------------------------------
(***************************************************************************)
(* The translation.  transData goes through the fields; its map under       *)
(* construction is followed from field to field.                            *)
(***************************************************************************)
LEMMA SetInduction ==
  ASSUME NEW S, 0 \in S, \A n \in Nat : n \in S => n + 1 \in S
  PROVE  Nat \subseteq S
<1>. DEFINE T == {n \in Nat : n \notin S}
<1>1. SUFFICES ASSUME T # {} PROVE FALSE
  OBVIOUS
<1>2. T \subseteq Nat
  OBVIOUS
<1>3. PICK n \in T : \A m \in T : <<m, n>> \notin OpToRel(<, Nat)
  <2>. HIDE DEF T
  <2>. QED BY <1>1, <1>2, WFMin, NatLessThanWellFounded, Zenon
<1>4. \A m \in T : ~(m < n)
  BY <1>2, <1>3 DEF OpToRel
<1>5. n - 1 \in Nat /\ n - 1 \notin T /\ n = (n - 1) + 1
  BY <1>4
<1>. QED BY <1>5

NoValues(g) == [c \in ToColumns(g) |-> Null]

\* D has the map under construction after each of the first n fields.
Construction(g, datas, n, D) ==
  D = [i \in 0..n |-> IF i = 0 THEN NoValues(g)
                      ELSE TransField(g, datas, D[i - 1], g.valiFields[i])]

LEMMA ConstructionExists ==
  ASSUME NEW g, NEW datas, NEW n \in Nat
  PROVE  \E D : Construction(g, datas, n, D)
<1>. DEFINE S == {i \in Nat : \E D : Construction(g, datas, i, D)}
<1>1. 0 \in S
  <2>1. Construction(g, datas, 0, [i \in 0..0 |-> NoValues(g)])
    BY DEF Construction
  <2>. QED BY <2>1
<1>2. ASSUME NEW i \in Nat, i \in S PROVE i + 1 \in S
  <2>1. PICK D : Construction(g, datas, i, D)
    BY <1>2
  <2>. DEFINE E == [j \in 0..(i + 1) |-> IF j <= i THEN D[j]
                      ELSE TransField(g, datas, D[i], g.valiFields[i + 1])]
  <2>2. \A j \in 0..i : D[j] = IF j = 0 THEN NoValues(g)
                               ELSE TransField(g, datas, D[j - 1], g.valiFields[j])
    BY <2>1 DEF Construction
  <2>3. \A j \in 0..(i + 1) : E[j] = IF j = 0 THEN NoValues(g)
                                     ELSE TransField(g, datas, E[j - 1], g.valiFields[j])
    <3>. SUFFICES ASSUME NEW j \in 0..(i + 1)
                  PROVE  E[j] = IF j = 0 THEN NoValues(g)
                                ELSE TransField(g, datas, E[j - 1], g.valiFields[j])
      OBVIOUS
    <3>1. CASE j = 0
      BY <2>2, <3>1
    <3>2. CASE j \in 1..i
      <4>1. E[j] = D[j] /\ E[j - 1] = D[j - 1] /\ j # 0 /\ j \in 0..i
        BY <3>2
      <4>. QED BY <2>2, <4>1
    <3>3. CASE j = i + 1
      <4>1. E[j - 1] = D[i] /\ j # 0
        BY <3>3
      <4>2. E[j] = TransField(g, datas, D[i], g.valiFields[i + 1])
        BY <3>3
      <4>. QED BY <3>3, <4>1, <4>2
    <3>. QED BY <3>1, <3>2, <3>3
  <2>4. Construction(g, datas, i + 1, E)
    BY <2>3 DEF Construction
  <2>. QED BY <2>4
<1>3. Nat \subseteq S
  <2>. HIDE DEF S
  <2>. QED BY <1>1, <1>2, SetInduction
<1>. QED BY <1>3

LEMMA TransDataConstructs ==
  ASSUME NEW g \in TableMaps, NEW datas
  PROVE  \E D : /\ Construction(g, datas, Len(g.valiFields), D)
                /\ TransData(g, datas) = D[Len(g.valiFields)]
<1>1. \E D : Construction(g, datas, Len(g.valiFields), D)
  BY MapFacts, ConstructionExists
<1>2. TransData(g, datas) = (CHOOSE D : Construction(g, datas, Len(g.valiFields), D))[Len(g.valiFields)]
  BY DEF TransData, Construction, NoValues
<1>. QED BY <1>1, <1>2

\* The map after n fields: columns without a rule have no value, those of the carried
\* fields so far have theirs.
Built(g, datas, n, d) ==
  /\ d \in [ToColumns(g) -> Contents]
  /\ \A c \in ToColumns(g) : g.toType[c] = "other" => d[c] = Null
  /\ \A i \in 1..n : g.valiFields[i] \in Carried(g) =>
                       d[g.fieldsMap[g.valiFields[i]]] = datas[g.valiFields[i]]

LEMMA TransFieldBuilds ==
  ASSUME NEW g \in TableMaps, NEW datas \in [FromColumns(g) -> Contents],
         NEW n \in Nat, n + 1 <= Len(g.valiFields), NEW d, Built(g, datas, n, d)
  PROVE  Built(g, datas, n + 1, TransField(g, datas, d, g.valiFields[n + 1]))
<1>. DEFINE f == g.valiFields[n + 1]
            to == g.fieldsMap[f]
            e == TransField(g, datas, d, f)
<1>1. /\ n + 1 \in 1..Len(g.valiFields) /\ f \in Fields(g) /\ f \in FromColumns(g)
      /\ to \in ToColumns(g)
      /\ \A i \in 1..n : g.valiFields[i] \in Fields(g)
  BY MapFacts
<1>2. /\ d \in [ToColumns(g) -> Contents]
      /\ \A c \in ToColumns(g) : g.toType[c] = "other" => d[c] = Null
      /\ \A i \in 1..n : g.valiFields[i] \in Carried(g) =>
                           d[g.fieldsMap[g.valiFields[i]]] = datas[g.valiFields[i]]
  BY DEF Built
<1>3. Null \in Contents
  BY DEF Contents
<1>. HIDE DEF f, to
<1>4. CASE f \in Carried(g)
  <2>0. g.columnType[f] # "date"
    BY <1>4, CarriedFacts DEF Ruled
  <2>1. e = [d EXCEPT ![to] = datas[f]]
    BY <1>4, <2>0 DEF TransField, to
  <2>2. g.toType[to] # "other"
    BY <1>4, CarriedFacts DEF to, Ruled
  <2>3. datas[f] \in Contents
    BY <1>1
  <2>4. e \in [ToColumns(g) -> Contents]
    BY <1>2, <2>1, <2>3
  <2>5. \A c \in ToColumns(g) : g.toType[c] = "other" => e[c] = Null
    BY <1>2, <2>1, <2>2
  <2>6. ASSUME NEW i \in 1..(n + 1), g.valiFields[i] \in Carried(g)
        PROVE  e[g.fieldsMap[g.valiFields[i]]] = datas[g.valiFields[i]]
    <3>1. g.fieldsMap[g.valiFields[i]] \in ToColumns(g)
      BY <2>6, CarriedFacts
    <3>2. CASE g.valiFields[i] = f
      BY <1>1, <1>2, <2>1, <3>2 DEF to
    <3>3. CASE g.valiFields[i] # f
      <4>1. i \in 1..n
        BY <3>3 DEF f
      <4>2. g.fieldsMap[g.valiFields[i]] # to
        BY <1>1, <3>3, <4>1, MapFacts DEF to
      <4>. QED BY <1>2, <2>1, <2>6, <3>1, <4>1, <4>2
    <3>. QED BY <3>2, <3>3
  <2>. QED BY <2>4, <2>5, <2>6 DEF Built, f
<1>5. CASE f \notin Carried(g) /\ g.columnType[f] = "date" /\ g.toType[to] = "date"
  <2>1. e = [d EXCEPT ![to] = TransDate(g, d, f)]
    BY <1>5 DEF TransField, to
  <2>2. TransDate(g, d, f) \in Contents
    BY <1>2, <1>3 DEF TransDate
  <2>3. e \in [ToColumns(g) -> Contents]
    BY <1>2, <2>1, <2>2
  <2>4. \A c \in ToColumns(g) : g.toType[c] = "other" => e[c] = Null
    BY <1>2, <1>5, <2>1
  <2>5. ASSUME NEW i \in 1..(n + 1), g.valiFields[i] \in Carried(g)
        PROVE  e[g.fieldsMap[g.valiFields[i]]] = datas[g.valiFields[i]]
    <3>1. i \in 1..n
      BY <1>5, <2>5 DEF f
    <3>2. /\ g.fieldsMap[g.valiFields[i]] \in ToColumns(g)
          /\ g.toType[g.fieldsMap[g.valiFields[i]]] # "date"
      BY <2>5, CarriedFacts DEF Ruled
    <3>. QED BY <1>2, <1>5, <2>1, <2>5, <3>1, <3>2
  <2>. QED BY <2>3, <2>4, <2>5 DEF Built, f
<1>6. CASE f \notin Carried(g) /\ ~(g.columnType[f] = "date" /\ g.toType[to] = "date")
  <2>1. e = d
    BY <1>6 DEF TransField, to
  <2>2. ASSUME NEW i \in 1..(n + 1), g.valiFields[i] \in Carried(g)
        PROVE  i \in 1..n
    BY <1>6, <2>2 DEF f
  <2>. QED BY <1>2, <2>1, <2>2 DEF Built, f
<1>. QED BY <1>4, <1>5, <1>6

\* What transData returns.
LEMMA TransDataFacts ==
  ASSUME NEW g \in TableMaps, NEW datas \in [FromColumns(g) -> Contents]
  PROVE  /\ TransData(g, datas) \in [ToColumns(g) -> Contents]
         /\ \A c \in ToColumns(g) : g.toType[c] = "other" => TransData(g, datas)[c] = Null
         /\ \A f \in Carried(g) : TransData(g, datas)[g.fieldsMap[f]] = datas[f]
<1>. DEFINE L == Len(g.valiFields)
<1>1. PICK D : Construction(g, datas, L, D) /\ TransData(g, datas) = D[L]
  BY TransDataConstructs
<1>. DEFINE S == {n \in Nat : n <= L => Built(g, datas, n, D[n])}
<1>2. L \in Nat
  BY MapFacts
<1>3. \A n \in 0..L : D[n] = IF n = 0 THEN NoValues(g)
                             ELSE TransField(g, datas, D[n - 1], g.valiFields[n])
  BY <1>1 DEF Construction
<1>4. 0 \in S
  <2>1. D[0] = NoValues(g)
    BY <1>2, <1>3
  <2>2. Built(g, datas, 0, NoValues(g))
    BY DEF Built, NoValues, Contents
  <2>. QED BY <2>1, <2>2
<1>5. ASSUME NEW n \in Nat, n \in S PROVE n + 1 \in S
  <2>1. SUFFICES ASSUME n + 1 <= L PROVE Built(g, datas, n + 1, D[n + 1])
    OBVIOUS
  <2>2. Built(g, datas, n, D[n])
    BY <1>2, <1>5, <2>1
  <2>3. D[n + 1] = TransField(g, datas, D[n], g.valiFields[n + 1])
    <3>1. n + 1 \in 0..L /\ n + 1 # 0 /\ (n + 1) - 1 = n
      BY <1>2, <2>1
    <3>. QED BY <1>3, <3>1
  <2>. QED BY <2>1, <2>2, <2>3, TransFieldBuilds
<1>6. Nat \subseteq S
  <2>. HIDE DEF S
  <2>. QED BY <1>4, <1>5, SetInduction
<1>7. Built(g, datas, L, TransData(g, datas))
  BY <1>1, <1>2, <1>6
<1>8. \A f \in Carried(g) : \E n \in 1..L : f = g.valiFields[n]
  BY MapFacts, CarriedFacts
<1>. QED BY <1>7, <1>8 DEF Built

-----------------------------------------------------------------------------
(***************************************************************************)
(* Rows, keys and messages.                                                *)
(***************************************************************************)
LEMMA SelectedFacts ==
  ASSUME NEW g \in TableMaps, NEW r, IsRow(g, r), NEW c \in FromColumns(g)
  PROVE  /\ SelectedField(g, r, c) \in Contents
         /\ g.columnType[c] = "number" => SelectedField(g, r, c) # Null
         /\ c \in g.keys => SelectedField(g, r, c) = r[c] /\ r[c] \in Values
<1>1. /\ g.columnType[c] \in ColumnTypes
      /\ c \in g.keys => g.columnType[c] \in Ruled
      /\ Numbers \subseteq Nat /\ KeyNumbers \subseteq Nat
      /\ \A n \in KeyNumbers : n % 2 = 0
      /\ Null \notin Values /\ Null \notin Nat
  BY RowSyncAssumption DEF FromColumns, Ruled
<1>2. r[c] \in Column(g, c)
  BY DEF IsRow
<1>3. CASE g.columnType[c] = "number"
  <2>1. SelectedField(g, r, c) = GetLong(r[c])
    BY <1>3 DEF SelectedField
  <2>2. CASE c \in g.keys
    <3>1. r[c] \in KeyNumbers
      BY <1>2, <1>3, <2>2 DEF Column
    <3>2. r[c] \in Nat /\ r[c] % 2 = 0 /\ r[c] # Null /\ r[c] \in Values
      BY <1>1, <3>1 DEF Values
    <3>3. GetLong(r[c]) = r[c]
      BY <3>2 DEF GetLong
    <3>. QED BY <2>1, <3>2, <3>3 DEF Contents
  <2>3. CASE c \notin g.keys
    <3>1. r[c] \in Numbers \cup {Null}
      BY <1>2, <1>3, <2>3 DEF Column
    <3>2. GetLong(r[c]) \in Contents
      BY <3>1 DEF Contents
    <3>3. GetLong(r[c]) \in Nat
      <4>1. CASE r[c] = Null
        BY <4>1 DEF GetLong
      <4>2. CASE r[c] # Null
        <5>1. r[c] \in Nat
          BY <1>1, <3>1, <4>2
        <5>2. \A n \in Nat : n - (n % 2) \in Nat
          OBVIOUS
        <5>. QED BY <4>2, <5>1, <5>2 DEF GetLong
      <4>. QED BY <4>1, <4>2
    <3>. QED BY <1>1, <2>1, <2>3, <3>2, <3>3
  <2>. QED BY <2>2, <2>3
<1>4. CASE g.columnType[c] = "other"
  <2>1. SelectedField(g, r, c) = Null
    BY <1>4 DEF SelectedField
  <2>. QED BY <1>1, <1>4, <2>1 DEF Contents, Ruled
<1>5. CASE g.columnType[c] \in {"varchar2", "date"}
  <2>1. SelectedField(g, r, c) = r[c]
    BY <1>5 DEF SelectedField
  <2>2. r[c] \in Values \cup {Null}
    BY <1>2, <1>5 DEF Column, Values
  <2>3. c \in g.keys => r[c] \in KeyWords
    BY <1>1, <1>2, <1>5 DEF Column, Ruled
  <2>. QED BY <1>5, <2>1, <2>2, <2>3 DEF Contents, Values
<1>. QED BY <1>1, <1>3, <1>4, <1>5 DEF ColumnTypes

LEMMA KeyOfFacts ==
  ASSUME NEW g \in TableMaps, NEW r, IsRow(g, r)
  PROVE  Restrict(r, g.keys) \in Keys(g)
<1>1. /\ g.keys \subseteq FromColumns(g)
      /\ \A c \in g.keys : g.columnType[c] \in Ruled
  BY MapFacts, CarriedFacts
<1>2. \A c \in g.keys : r[c] \in Column(g, c)
  BY <1>1 DEF IsRow
<1>3. \A c \in g.keys : Column(g, c) \subseteq KeyNumbers \cup KeyWords
  BY <1>1 DEF Column, Ruled
<1>. QED BY <1>2, <1>3 DEF Restrict, Keys

\* The key in the target says of each of its columns what the key at the source does,
\* and none of them is null.
LEMMA TargetKeyFacts ==
  ASSUME NEW g \in TableMaps, NEW k \in Keys(g)
  PROVE  /\ DOMAIN TargetKey(g, k) = KeyColumns(g)
         /\ \A f \in g.keys : TargetKey(g, k)[g.fieldsMap[f]] = k[f]
         /\ \A c \in KeyColumns(g) : TargetKey(g, k)[c] # Null
         /\ \A h \in Keys(g) :
              (\A c \in KeyColumns(g) : TargetKey(g, h)[c] = TargetKey(g, k)[c]) => h = k
<1>1. ASSUME NEW f \in g.keys, NEW h \in Keys(g) PROVE TargetKey(g, h)[g.fieldsMap[f]] = h[f]
  <2>1. \A e \in g.keys : g.fieldsMap[e] = g.fieldsMap[f] => e = f
    BY CarriedFacts
  <2>2. (CHOOSE e \in g.keys : g.fieldsMap[e] = g.fieldsMap[f]) = f
    BY <2>1
  <2>. QED BY <2>2 DEF TargetKey
<1>2. /\ KeyNumbers \cup KeyWords \subseteq Values
      /\ Null \notin Values
  BY RowSyncAssumption DEF Values
<1>3. \A f \in g.keys : k[f] # Null
  BY <1>2 DEF Keys
<1>4. ASSUME NEW h \in Keys(g),
             \A c \in KeyColumns(g) : TargetKey(g, h)[c] = TargetKey(g, k)[c]
      PROVE  h = k
  <2>1. \A f \in g.keys : h[f] = k[f]
    BY <1>1, <1>4 DEF KeyColumns
  <2>. QED BY <2>1 DEF Keys
<1>5. \A c \in KeyColumns(g) : TargetKey(g, k)[c] # Null
  BY <1>1, <1>3 DEF KeyColumns
<1>. QED BY <1>1, <1>4, <1>5 DEF TargetKey, KeyColumns

\* A message is of a row, and has what the monitors read of it.
MessageTrue(m) ==
  /\ IsRow(tableMap, m.row) /\ m.was \in Keys(tableMap)
  /\ m.op = "put" => m.datas = Selected(tableMap, m.row)
  /\ m.op = "delete" => m.datas = Deleted(tableMap, m.row) /\ m.was = KeyOf(m.row)

\* The translated columns d are those of a row with key k.
Fits(d, k) ==
  /\ d \in [ToColumns(tableMap) -> Contents]
  /\ k \in Keys(tableMap)
  /\ \A c \in KeyColumns(tableMap) : d[c] = TargetKey(tableMap, k)[c]

LEMMA MessageFits ==
  ASSUME tableMap \in TableMaps, NEW m, MessageOK(m), MessageTrue(m)
  PROVE  /\ Fits(Translated(m), KeyOf(m.row))
         /\ \A c \in ToColumns(tableMap) :
              tableMap.toType[c] = "other" => Translated(m)[c] = Null
         /\ m.op = "put" => \A f \in Carried(tableMap) :
              Translated(m)[tableMap.fieldsMap[f]] = SelectedField(tableMap, m.row, f)
<1>1. /\ m.datas \in [FromColumns(tableMap) -> Contents]
      /\ m.op \in {"put", "delete"}
  BY DEF MessageOK
<1>2. /\ Translated(m) \in [ToColumns(tableMap) -> Contents]
      /\ \A c \in ToColumns(tableMap) : tableMap.toType[c] = "other" => Translated(m)[c] = Null
      /\ \A f \in Carried(tableMap) : Translated(m)[tableMap.fieldsMap[f]] = m.datas[f]
  BY <1>1, TransDataFacts DEF Translated
<1>3. KeyOf(m.row) \in Keys(tableMap)
  BY KeyOfFacts DEF KeyOf, MessageTrue
<1>4. /\ tableMap.keys \subseteq Carried(tableMap)
      /\ Carried(tableMap) \subseteq FromColumns(tableMap)
  BY MapFacts, CarriedFacts
<1>5. m.op = "put" => \A f \in Carried(tableMap) : m.datas[f] = SelectedField(tableMap, m.row, f)
  BY <1>4 DEF MessageTrue, Selected
<1>6. \A f \in tableMap.keys : m.datas[f] = SelectedField(tableMap, m.row, f)
  BY <1>1, <1>4 DEF MessageTrue, Selected, Deleted
<1>7. \A f \in tableMap.keys : m.datas[f] = KeyOf(m.row)[f]
  BY <1>4, <1>6, SelectedFacts DEF KeyOf, Restrict, MessageTrue
<1>8. \A f \in tableMap.keys :
        Translated(m)[tableMap.fieldsMap[f]] = TargetKey(tableMap, KeyOf(m.row))[tableMap.fieldsMap[f]]
  BY <1>2, <1>3, <1>4, <1>7, TargetKeyFacts
<1>. QED BY <1>2, <1>3, <1>5, <1>8 DEF Fits, KeyColumns

-----------------------------------------------------------------------------
(***************************************************************************)
(* The statements.                                                         *)
(***************************************************************************)
Where(d) == KeyString(tableMap, d)

\* The assignments have every column with a rule that is not passed over.
LEMMA AssignedFacts ==
  ASSUME NEW d, NEW r, NEW c \in ToColumns(tableMap)
  PROVE  Assigned(d, r)[c] = IF d[c] \notin {Null, NullWord} /\ tableMap.toType[c] # "other"
                             THEN d[c] ELSE r[c]
<1>. DEFINE S == {b \in Effective(tableMap, d) : tableMap.toType[b] # "other"}
<1>1. Assignments(tableMap, d) = [b \in S |-> d[b]]
  BY DEF Assignments, Restrict
<1>2. Assigned(d, r)[c] = IF c \in S THEN d[c] ELSE r[c]
  BY <1>1 DEF Assigned
<1>. QED BY <1>2 DEF Effective

LEMMA AssignedType ==
  ASSUME NEW d \in [ToColumns(tableMap) -> Contents], NEW r \in [ToColumns(tableMap) -> Contents]
  PROVE  Assigned(d, r) \in [ToColumns(tableMap) -> Contents]
<1>1. \A c \in ToColumns(tableMap) : Assigned(d, r)[c] \in {d[c], r[c]}
  BY AssignedFacts
<1>2. Assigned(d, r) = [c \in ToColumns(tableMap) |-> Assigned(d, r)[c]]
  BY DEF Assigned
<1>. QED BY <1>1, <1>2

\* The where clause has the key columns that are not passed over, with the values of
\* the key.
LEMMA StatementFacts ==
  ASSUME tableMap \in TableMaps, NEW d, NEW k, Fits(d, k)
  PROVE  /\ DOMAIN Where(d) \subseteq KeyColumns(tableMap)
         /\ \A c \in KeyColumns(tableMap) : c \in DOMAIN Where(d) <=> d[c] \notin {Null, NullWord}
         /\ \A c \in DOMAIN Where(d) : Where(d)[c] = TargetKey(tableMap, k)[c]
<1>1. /\ d \in [ToColumns(tableMap) -> Contents]
      /\ \A c \in KeyColumns(tableMap) : d[c] = TargetKey(tableMap, k)[c]
  BY DEF Fits
<1>2. /\ KeyColumns(tableMap) \subseteq ToColumns(tableMap)
      /\ \A c \in KeyColumns(tableMap) : tableMap.toType[c] \in Ruled
  BY CarriedFacts DEF KeyColumns
<1>3. Effective(tableMap, d) = {c \in ToColumns(tableMap) : d[c] \notin {Null, NullWord}}
  BY DEF Effective
<1>4. Where(d) = [c \in {c \in KeyColumns(tableMap) : d[c] \notin {Null, NullWord}} |-> d[c]]
  <2>1. KeyColumns(tableMap) \cap {c \in Effective(tableMap, d) : tableMap.toType[c] \in Ruled}
          = {c \in KeyColumns(tableMap) : d[c] \notin {Null, NullWord}}
    BY <1>2, <1>3
  <2>2. Where(d) = Restrict(d, KeyColumns(tableMap) \cap
                      {c \in Effective(tableMap, d) : tableMap.toType[c] \in Ruled})
    BY DEF Where, KeyString, KeyColumns, Ruled
  <2>. QED BY <2>1, <2>2 DEF Restrict
<1>. QED BY <1>1, <1>4

\* An update leaves the key columns of the rows it takes alone.
LEMMA KeysStay ==
  ASSUME tableMap \in TableMaps, NEW d, NEW k, Fits(d, k),
         NEW r, Matches(r, Where(d)), NEW c \in KeyColumns(tableMap)
  PROVE  Assigned(d, r)[c] = r[c]
<1>1. c \in ToColumns(tableMap)
  BY CarriedFacts
<1>2. CASE d[c] \in {Null, NullWord}
  BY <1>1, <1>2, AssignedFacts
<1>3. CASE d[c] \notin {Null, NullWord}
  <2>1. c \in DOMAIN Where(d) /\ Where(d)[c] = TargetKey(tableMap, k)[c]
    BY <1>3, StatementFacts
  <2>2. r[c] = d[c]
    BY <2>1 DEF Matches, Fits
  <2>3. Assigned(d, r)[c] \in {d[c], r[c]}
    BY <1>1, AssignedFacts
  <2>. QED BY <2>2, <2>3
<1>. QED BY <1>2, <1>3

\* An insert makes a row under a key only if the where clause has all of that key.
LEMMA NewRowKey ==
  ASSUME tableMap \in TableMaps, NEW d, NEW k, Fits(d, k), NEW h \in Keys(tableMap),
         Matches(Assigned(d, NoValues(tableMap)), TargetKey(tableMap, h))
  PROVE  h = k /\ DOMAIN Where(d) = KeyColumns(tableMap)
<1>. DEFINE N == Assigned(d, NoValues(tableMap))
<1>1. KeyColumns(tableMap) \subseteq ToColumns(tableMap)
  BY CarriedFacts
<1>2. \A c \in KeyColumns(tableMap) : N[c] = TargetKey(tableMap, h)[c] /\ N[c] # Null
  BY TargetKeyFacts DEF Matches
<1>3. ASSUME NEW c \in KeyColumns(tableMap)
      PROVE  d[c] \notin {Null, NullWord} /\ N[c] = d[c]
  <2>1. c \in ToColumns(tableMap) /\ NoValues(tableMap)[c] = Null
    BY <1>1 DEF NoValues
  <2>2. N[c] = IF d[c] \notin {Null, NullWord} /\ tableMap.toType[c] # "other"
               THEN d[c] ELSE NoValues(tableMap)[c]
    BY <2>1, AssignedFacts
  <2>. HIDE DEF N
  <2>. QED BY <1>2, <2>1, <2>2
<1>4. DOMAIN Where(d) = KeyColumns(tableMap)
  <2>1. /\ DOMAIN Where(d) \subseteq KeyColumns(tableMap)
        /\ \A c \in KeyColumns(tableMap) : c \in DOMAIN Where(d) <=> d[c] \notin {Null, NullWord}
    BY StatementFacts
  <2>. QED BY <1>3, <2>1
<1>5. k \in Keys(tableMap) /\ \A c \in KeyColumns(tableMap) : d[c] = TargetKey(tableMap, k)[c]
  BY DEF Fits
<1>6. \A c \in KeyColumns(tableMap) : TargetKey(tableMap, h)[c] = TargetKey(tableMap, k)[c]
  BY <1>2, <1>3, <1>5
<1>7. h = k
  BY <1>5, <1>6, TargetKeyFacts
<1>. QED BY <1>4, <1>7

-----------------------------------------------------------------------------
(***************************************************************************)
(* The target after a statement.                                           *)
(***************************************************************************)
TargetOK ==
  /\ IsFiniteSet(DOMAIN target) /\ DOMAIN target \subseteq Nat
  /\ \A i \in DOMAIN target : target[i] \in [ToColumns(tableMap) -> Contents]

\* The rows of the target under key k.
Under(k) == {j \in DOMAIN target : Matches(target[j], TargetKey(tableMap, k))}

\* One of the three statements of synData has been executed.
Executed(op, d) ==
  /\ tableMap' = tableMap
  /\ target' = IF op = "delete" THEN Deleting(d)
               ELSE IF IsExist(tableMap, d) THEN Updating(d) ELSE Inserting(d)

LEMMA FreeIdFacts ==
  ASSUME TargetOK
  PROVE  FreeId \in Nat /\ FreeId \notin DOMAIN target
<1>. DEFINE n == Cardinality(DOMAIN target)
<1>1. n \in Nat
  BY FS_CardinalityType DEF TargetOK
<1>2. IsFiniteSet(1..(n + 1)) /\ Cardinality(1..(n + 1)) = n + 1
  <2>. HIDE DEF n
  <2>1. 1 \in Int /\ n + 1 \in Int /\ ~(1 > n + 1) /\ (n + 1) - 1 + 1 = n + 1
    BY <1>1
  <2>. QED BY <2>1, FS_Interval
<1>3. ~(1..(n + 1) \subseteq DOMAIN target)
  <2>1. SUFFICES ASSUME 1..(n + 1) \in SUBSET DOMAIN target PROVE FALSE
    OBVIOUS
  <2>2. Cardinality(1..(n + 1)) <= n
    BY <2>1, FS_Subset DEF TargetOK
  <2>. HIDE DEF n
  <2>. QED BY <1>1, <1>2, <2>2
<1>. QED BY <1>1, <1>3 DEF FreeId

LEMMA DeletingEffect ==
  ASSUME NEW d, Executed("delete", d)
  PROVE  /\ DOMAIN target' = {i \in DOMAIN target : ~Matches(target[i], Where(d))}
         /\ \A i \in DOMAIN target' : target'[i] = target[i]
BY DEF Executed, Deleting, Restrict, Where

LEMMA UpdatingEffect ==
  ASSUME NEW d, Executed("put", d), IsExist(tableMap, d)
  PROVE  /\ DOMAIN target' = DOMAIN target
         /\ \A i \in DOMAIN target :
              target'[i] = IF Matches(target[i], Where(d)) THEN Assigned(d, target[i]) ELSE target[i]
BY DEF Executed, Updating, Where

LEMMA InsertingEffect ==
  ASSUME NEW d, TargetOK, Executed("put", d), ~IsExist(tableMap, d)
  PROVE  /\ DOMAIN target' = DOMAIN target \cup {FreeId}
         /\ FreeId \in Nat /\ FreeId \notin DOMAIN target
         /\ \A i \in DOMAIN target : target'[i] = target[i]
         /\ target'[FreeId] = Assigned(d, NoValues(tableMap))
BY FreeIdFacts DEF Executed, Inserting, NoValues

LEMMA StatementKeepsTypes ==
  ASSUME tableMap \in TableMaps, NEW d, NEW k, Fits(d, k), TargetOK,
         NEW op \in {"put", "delete"}, Executed(op, d)
  PROVE  TargetOK'
<1>1. tableMap' = tableMap
  BY DEF Executed
<1>2. \A r \in [ToColumns(tableMap) -> Contents] : Assigned(d, r) \in [ToColumns(tableMap) -> Contents]
  BY AssignedType DEF Fits
<1>3. CASE op = "delete"
  <2>1. DOMAIN target' \subseteq DOMAIN target /\ \A i \in DOMAIN target' : target'[i] = target[i]
    BY <1>3, DeletingEffect
  <2>2. IsFiniteSet(DOMAIN target')
    BY <2>1, FS_Subset DEF TargetOK
  <2>. QED BY <1>1, <2>1, <2>2 DEF TargetOK, Contents
<1>4. CASE op = "put" /\ IsExist(tableMap, d)
  <2>1. /\ DOMAIN target' = DOMAIN target
        /\ \A i \in DOMAIN target : target'[i] \in {Assigned(d, target[i]), target[i]}
    BY <1>4, UpdatingEffect
  <2>2. \A i \in DOMAIN target : target'[i] \in [ToColumns(tableMap) -> Contents]
    BY <1>2, <2>1 DEF TargetOK
  <2>. QED BY <1>1, <2>1, <2>2 DEF TargetOK
<1>5. CASE op = "put" /\ ~IsExist(tableMap, d)
  <2>1. /\ DOMAIN target' = DOMAIN target \cup {FreeId} /\ FreeId \in Nat
        /\ \A i \in DOMAIN target : target'[i] = target[i]
        /\ target'[FreeId] = Assigned(d, NoValues(tableMap))
    BY <1>5, InsertingEffect
  <2>2. NoValues(tableMap) \in [ToColumns(tableMap) -> Contents]
    BY DEF NoValues, Contents
  <2>3. target'[FreeId] \in [ToColumns(tableMap) -> Contents]
    BY <1>2, <2>1, <2>2
  <2>4. IsFiniteSet(DOMAIN target')
    BY <2>1, FS_AddElement DEF TargetOK
  <2>5. DOMAIN target' \subseteq Nat
    BY <2>1 DEF TargetOK
  <2>6. \A i \in DOMAIN target' : target'[i] \in [ToColumns(tableMap) -> Contents]
    BY <2>1, <2>3 DEF TargetOK
  <2>. QED BY <1>1, <2>4, <2>5, <2>6 DEF TargetOK
<1>. QED BY <1>3, <1>4, <1>5

\* The rows that were in the target stay under the keys they were under.
LEMMA RowsStayUnder ==
  ASSUME tableMap \in TableMaps, NEW d, NEW k, Fits(d, k), TargetOK,
         NEW op \in {"put", "delete"}, Executed(op, d),
         NEW h \in Keys(tableMap), NEW i \in DOMAIN target, i \in DOMAIN target'
  PROVE  i \in Under(h)' <=> i \in Under(h)
<1>1. tableMap' = tableMap
  BY DEF Executed
<1>2. \A c \in KeyColumns(tableMap) : target'[i][c] = target[i][c]
  <2>1. CASE op = "delete"
    BY <2>1, DeletingEffect
  <2>2. CASE op = "put" /\ IsExist(tableMap, d)
    <3>1. target'[i] = IF Matches(target[i], Where(d)) THEN Assigned(d, target[i]) ELSE target[i]
      BY <2>2, UpdatingEffect
    <3>. QED BY <3>1, KeysStay
  <2>3. CASE op = "put" /\ ~IsExist(tableMap, d)
    BY <2>3, InsertingEffect
  <2>. QED BY <2>1, <2>2, <2>3
<1>3. DOMAIN TargetKey(tableMap, h) = KeyColumns(tableMap)
  BY TargetKeyFacts
<1>. QED BY <1>1, <1>2, <1>3 DEF Under, Matches

\* A row that is new is the only one under its key, and the where clause has all of it.
LEMMA NewRowUnder ==
  ASSUME tableMap \in TableMaps, NEW d, NEW k, Fits(d, k), TargetOK,
         Executed("put", d), ~IsExist(tableMap, d),
         NEW h \in Keys(tableMap), FreeId \in Under(h)'
  PROVE  /\ h = k /\ DOMAIN Where(d) = KeyColumns(tableMap)
         /\ Under(h) = {}
<1>1. /\ tableMap' = tableMap
      /\ target'[FreeId] = Assigned(d, NoValues(tableMap))
  BY InsertingEffect DEF Executed
<1>2. Matches(Assigned(d, NoValues(tableMap)), TargetKey(tableMap, h))
  BY <1>1 DEF Under
<1>3. h = k /\ DOMAIN Where(d) = KeyColumns(tableMap)
  BY <1>2, NewRowKey
<1>4. \A c \in KeyColumns(tableMap) : Where(d)[c] = TargetKey(tableMap, h)[c]
  BY <1>3, StatementFacts
<1>5. DOMAIN TargetKey(tableMap, h) = KeyColumns(tableMap) /\ KeyColumns(tableMap) # {}
  BY TargetKeyFacts, CarriedFacts
<1>6. \A j \in Under(h) : Matches(target[j], Where(d))
  BY <1>3, <1>4, <1>5 DEF Under, Matches
<1>7. DOMAIN Where(d) # {} /\ \A j \in DOMAIN target : ~Matches(target[j], Where(d))
  BY <1>3, <1>5 DEF IsExist, Where
<1>. QED BY <1>3, <1>6, <1>7 DEF Under

LEMMA StatementKeepsOneRow ==
  ASSUME tableMap \in TableMaps, NEW d, NEW k, Fits(d, k), TargetOK, OneRowPerKey,
         NEW op \in {"put", "delete"}, Executed(op, d)
  PROVE  OneRowPerKey'
<1>1. tableMap' = tableMap
  BY DEF Executed
<1>2. \A h \in Keys(tableMap) : \A i, j \in Under(h) : i = j
  BY DEF OneRowPerKey, Under
<1>3. ASSUME NEW h \in Keys(tableMap), NEW i \in Under(h)', NEW j \in Under(h)'
      PROVE  i = j
  <2>0. i \in DOMAIN target' /\ j \in DOMAIN target'
    BY DEF Under
  <2>1. CASE i \in DOMAIN target /\ j \in DOMAIN target
    <3>1. i \in Under(h) /\ j \in Under(h)
      BY <2>0, <2>1, RowsStayUnder
    <3>. QED BY <1>2, <3>1
  <2>2. CASE ~(i \in DOMAIN target /\ j \in DOMAIN target)
    <3>1. op = "put" /\ ~IsExist(tableMap, d)
      <4>1. op = "delete" => DOMAIN target' \subseteq DOMAIN target
        BY DeletingEffect
      <4>2. op = "put" /\ IsExist(tableMap, d) => DOMAIN target' = DOMAIN target
        BY UpdatingEffect
      <4>. QED BY <2>0, <2>2, <4>1, <4>2
    <3>2. DOMAIN target' = DOMAIN target \cup {FreeId}
      BY <3>1, InsertingEffect
    <3>3. FreeId \in Under(h)'
      BY <2>0, <2>2, <3>2
    <3>4. Under(h) = {}
      BY <3>1, <3>3, NewRowUnder
    <3>5. i \notin DOMAIN target /\ j \notin DOMAIN target
      BY <2>0, <3>4, RowsStayUnder
    <3>. QED BY <2>0, <3>2, <3>5
  <2>. QED BY <2>1, <2>2
<1>4. \A h \in Keys(tableMap) : \A i, j \in DOMAIN target' :
        /\ Matches(target'[i], TargetKey(tableMap, h))
        /\ Matches(target'[j], TargetKey(tableMap, h))
        => i = j
  BY <1>1, <1>3 DEF Under
<1>. QED BY <1>1, <1>4 DEF OneRowPerKey

\* The columns of the target that the properties compare.
CarriedColumns == {tableMap.fieldsMap[f] : f \in Carried(tableMap)}

LEMMA ShownUnder ==
  ASSUME NEW k PROVE Shown(k) = {Restrict(target[i], CarriedColumns) : i \in Under(k)}
BY DEF Shown, Under, CarriedColumns

\* A row shows r if its carried columns are those of r.
LEMMA ImageFacts ==
  ASSUME tableMap \in TableMaps, NEW r, NEW x,
         \A f \in Carried(tableMap) : x[tableMap.fieldsMap[f]] = r[f]
  PROVE  Restrict(x, CarriedColumns) = Image(r)
<1>1. ASSUME NEW f \in Carried(tableMap)
      PROVE  r[CHOOSE e \in Carried(tableMap) : tableMap.fieldsMap[e] = tableMap.fieldsMap[f]] = r[f]
  <2>1. \A e \in Carried(tableMap) : tableMap.fieldsMap[e] = tableMap.fieldsMap[f] => e = f
    BY CarriedFacts
  <2>2. (CHOOSE e \in Carried(tableMap) : tableMap.fieldsMap[e] = tableMap.fieldsMap[f]) = f
    BY <2>1
  <2>. QED BY <2>2
<1>2. \A c \in CarriedColumns :
        x[c] = r[CHOOSE e \in Carried(tableMap) : tableMap.fieldsMap[e] = c]
  BY <1>1 DEF CarriedColumns
<1>. QED BY <1>2 DEF Image, Restrict, CarriedColumns

\* A statement concerns the keys that its where clause takes in and no other.
LEMMA OthersStay ==
  ASSUME tableMap \in TableMaps, NEW d, NEW k, Fits(d, k), TargetOK,
         NEW op \in {"put", "delete"}, Executed(op, d),
         op = "delete" => DOMAIN Where(d) # {},
         NEW h \in Keys(tableMap),
         ~(DOMAIN Where(d) # {} /\ Matches(TargetKey(tableMap, h), Where(d)))
  PROVE  Shown(h)' = Shown(h)
<1>1. tableMap' = tableMap
  BY DEF Executed
<1>2. DOMAIN Where(d) \subseteq KeyColumns(tableMap)
  BY StatementFacts
<1>3. DOMAIN TargetKey(tableMap, h) = KeyColumns(tableMap)
  BY TargetKeyFacts
<1>4. DOMAIN Where(d) # {} => \A i \in Under(h) : ~Matches(target[i], Where(d))
  BY <1>2, <1>3 DEF Under, Matches
<1>5. Under(h) \subseteq DOMAIN target /\ Under(h)' \subseteq DOMAIN target'
  BY DEF Under
<1>6. Under(h)' = Under(h) /\ \A i \in Under(h) : target'[i] = target[i]
  <2>1. CASE op = "delete"
    <3>1. Under(h) \subseteq DOMAIN target' /\ DOMAIN target' \subseteq DOMAIN target
      BY <1>4, <1>5, <2>1, DeletingEffect
    <3>2. \A i \in DOMAIN target' : i \in Under(h)' <=> i \in Under(h)
      BY <3>1, RowsStayUnder
    <3>. QED BY <1>5, <2>1, <3>1, <3>2, DeletingEffect
  <2>2. CASE op = "put" /\ IsExist(tableMap, d)
    <3>1. DOMAIN Where(d) # {}
      BY <2>2 DEF IsExist, Where
    <3>2. DOMAIN target' = DOMAIN target
      BY <2>2, UpdatingEffect
    <3>3. \A i \in DOMAIN target : i \in Under(h)' <=> i \in Under(h)
      BY <3>2, RowsStayUnder
    <3>. QED BY <1>4, <1>5, <2>2, <3>1, <3>2, <3>3, UpdatingEffect
  <2>3. CASE op = "put" /\ ~IsExist(tableMap, d)
    <3>1. /\ DOMAIN target' = DOMAIN target \cup {FreeId}
          /\ \A i \in DOMAIN target : target'[i] = target[i]
      BY <2>3, InsertingEffect
    <3>2. \A i \in DOMAIN target : i \in Under(h)' <=> i \in Under(h)
      BY <3>1, RowsStayUnder
    <3>3. FreeId \notin Under(h)'
      <4>1. SUFFICES ASSUME FreeId \in Under(h)' PROVE FALSE
        OBVIOUS
      <4>2. h = k /\ DOMAIN Where(d) = KeyColumns(tableMap)
        BY <2>3, <4>1, NewRowUnder
      <4>3. \A c \in DOMAIN Where(d) : Where(d)[c] = TargetKey(tableMap, k)[c]
        BY StatementFacts
      <4>4. KeyColumns(tableMap) # {}
        BY CarriedFacts
      <4>. QED BY <4>2, <4>3, <4>4 DEF Matches
    <3>. QED BY <1>5, <3>1, <3>2, <3>3
  <2>. QED BY <2>1, <2>2, <2>3
<1>7. CarriedColumns' = CarriedColumns
  BY <1>1 DEF CarriedColumns
<1>8. Shown(h)' = {Restrict(target'[i], CarriedColumns) : i \in Under(h)'}
  BY <1>1 DEF Shown, Under, CarriedColumns
<1>9. {Restrict(target'[i], CarriedColumns) : i \in Under(h)'}
        = {Restrict(target[i], CarriedColumns) : i \in Under(h)}
  BY <1>6
<1>. QED BY <1>8, <1>9, ShownUnder

\* A deletion with a whole key leaves no row under it.
LEMMA DeletedIsGone ==
  ASSUME tableMap \in TableMaps, NEW d, NEW k, Fits(d, k),
         Executed("delete", d), DOMAIN Where(d) = KeyColumns(tableMap)
  PROVE  Shown(k)' = {}
<1>1. tableMap' = tableMap /\ k \in Keys(tableMap)
  BY DEF Executed, Fits
<1>2. /\ DOMAIN TargetKey(tableMap, k) = KeyColumns(tableMap)
      /\ \A c \in KeyColumns(tableMap) : Where(d)[c] = TargetKey(tableMap, k)[c]
  BY <1>1, TargetKeyFacts, StatementFacts
<1>3. \A i \in DOMAIN target' : ~Matches(target'[i], Where(d))
  BY DeletingEffect
<1>4. \A i \in DOMAIN target' : ~Matches(target'[i], TargetKey(tableMap, k))
  BY <1>2, <1>3 DEF Matches
<1>. QED BY <1>1, <1>4 DEF Shown

\* A row that is put with a whole key is shown, and is the only one under its key, when
\* its values arrive as they are and it has no null where the target has a value.
LEMMA PutIsShown ==
  ASSUME tableMap \in TableMaps, NEW d, NEW k, Fits(d, k), TargetOK, OneRowPerKey,
         Executed("put", d), DOMAIN Where(d) = KeyColumns(tableMap),
         NEW r, ~Kept(tableMap, r, d),
         \A f \in Carried(tableMap) :
           IF d[tableMap.fieldsMap[f]] \in {Null, NullWord} THEN r[f] = Null
           ELSE d[tableMap.fieldsMap[f]] = r[f]
  PROVE  Shown(k)' = {Image(r)}
<1>1. tableMap' = tableMap /\ k \in Keys(tableMap)
  BY DEF Executed, Fits
<1>2. /\ DOMAIN TargetKey(tableMap, k) = KeyColumns(tableMap)
      /\ \A c \in KeyColumns(tableMap) : Where(d)[c] = TargetKey(tableMap, k)[c]
      /\ KeyColumns(tableMap) # {}
  <2>1. DOMAIN TargetKey(tableMap, k) = KeyColumns(tableMap)
    BY <1>1, TargetKeyFacts
  <2>2. \A c \in KeyColumns(tableMap) : Where(d)[c] = TargetKey(tableMap, k)[c]
    BY StatementFacts
  <2>3. KeyColumns(tableMap) # {}
    BY CarriedFacts
  <2>. QED BY <2>1, <2>2, <2>3
<1>3. \A x : Matches(x, Where(d)) <=> Matches(x, TargetKey(tableMap, k))
  BY <1>2 DEF Matches
<1>4. \A x : \A f \in Carried(tableMap) :
        Assigned(d, x)[tableMap.fieldsMap[f]] =
          IF d[tableMap.fieldsMap[f]] \in {Null, NullWord} THEN x[tableMap.fieldsMap[f]] ELSE r[f]
  <2>1. ASSUME NEW x, NEW f \in Carried(tableMap)
        PROVE  Assigned(d, x)[tableMap.fieldsMap[f]] =
                 IF d[tableMap.fieldsMap[f]] \in {Null, NullWord}
                 THEN x[tableMap.fieldsMap[f]] ELSE r[f]
    <3>1. tableMap.fieldsMap[f] \in ToColumns(tableMap) /\ tableMap.toType[tableMap.fieldsMap[f]] # "other"
      BY CarriedFacts DEF Ruled
    <3>. QED BY <3>1, AssignedFacts
  <2>. QED BY <2>1
<1>5. PICK i \in DOMAIN target' : /\ Under(k)' = {i}
                                  /\ Restrict(target'[i], CarriedColumns) = Image(r)
  <2>1. CASE IsExist(tableMap, d)
    <3>1. PICK i \in DOMAIN target : Matches(target[i], Where(d))
      BY <2>1 DEF IsExist, Where
    <3>2. Under(k) = {i}
      BY <1>1, <1>3, <3>1 DEF OneRowPerKey, Under
    <3>3. /\ DOMAIN target' = DOMAIN target
          /\ target'[i] = Assigned(d, target[i])
      BY <2>1, <3>1, UpdatingEffect
    <3>4. \A j \in DOMAIN target : j \in Under(k)' <=> j \in Under(k)
      BY <1>1, <3>3, RowsStayUnder
    <3>5. Under(k)' = {i}
      <4>1. Under(k)' \subseteq DOMAIN target'
        BY DEF Under
      <4>. QED BY <3>2, <3>3, <3>4, <4>1
    <3>6. \A f \in Carried(tableMap) : r[f] = Null => target[i][tableMap.fieldsMap[f]] = Null
      BY <3>1 DEF Kept, Where
    <3>7. \A f \in Carried(tableMap) : target'[i][tableMap.fieldsMap[f]] = r[f]
      BY <1>4, <3>3, <3>6
    <3>. QED BY <3>3, <3>5, <3>7, ImageFacts
  <2>2. CASE ~IsExist(tableMap, d)
    <3>1. /\ DOMAIN target' = DOMAIN target \cup {FreeId}
          /\ target'[FreeId] = Assigned(d, NoValues(tableMap))
      BY <2>2, InsertingEffect
    <3>2. \A f \in Carried(tableMap) : NoValues(tableMap)[tableMap.fieldsMap[f]] = Null
      BY CarriedFacts DEF NoValues
    <3>3. \A f \in Carried(tableMap) : target'[FreeId][tableMap.fieldsMap[f]] = r[f]
      BY <1>4, <3>1, <3>2
    <3>4. FreeId \in Under(k)'
      <4>1. ASSUME NEW c \in KeyColumns(tableMap)
            PROVE  Assigned(d, NoValues(tableMap))[c] = TargetKey(tableMap, k)[c]
        <5>1. d[c] \notin {Null, NullWord} /\ d[c] = TargetKey(tableMap, k)[c]
          BY StatementFacts DEF Fits
        <5>2. c \in ToColumns(tableMap) /\ tableMap.toType[c] # "other"
          BY CarriedFacts DEF KeyColumns, Ruled
        <5>. QED BY <5>1, <5>2, AssignedFacts
      <4>. QED BY <1>1, <1>2, <3>1, <4>1 DEF Under, Matches
    <3>5. Under(k) = {}
      BY <1>1, <2>2, <3>4, NewRowUnder
    <3>6. \A j \in DOMAIN target : j \notin Under(k)'
      BY <1>1, <3>1, <3>5, RowsStayUnder
    <3>7. Under(k)' = {FreeId}
      <4>1. Under(k)' \subseteq DOMAIN target'
        BY DEF Under
      <4>. QED BY <3>1, <3>4, <3>6, <4>1
    <3>. QED BY <3>1, <3>3, <3>7, ImageFacts
  <2>. QED BY <2>1, <2>2
<1>6. Shown(k)' = {Restrict(target'[j], CarriedColumns) : j \in Under(k)'}
  BY <1>1 DEF Shown, Under, CarriedColumns
<1>. QED BY <1>5, <1>6

-----------------------------------------------------------------------------
(***************************************************************************)
(* The inductive invariant.                                                *)
(***************************************************************************)
Messages(g) ==
  [op: {"put", "delete"}, datas: [FromColumns(g) -> Contents], row: Rows(g), was: Keys(g)]

QueueOK ==
  /\ queue \in Seq(Messages(tableMap))
  /\ \A i \in DOMAIN queue : MessageOK(queue[i]) /\ MessageTrue(queue[i])

UniqueKeys == \A r, s \in rows : KeyOf(r) = KeyOf(s) => r = s

\* Message m is of a row that has, or had, key k.
Concerns(m, k) == k \in {KeyOf(m.row), m.was}

\* What the message says of k is so at the source.
Tells(m, k) ==
  IF m.op = "put" /\ KeyOf(m.row) = k THEN m.row \in rows ELSE \A r \in rows : KeyOf(r) # k

\* The last message of the queue that concerns a key tells what has become of it, unless
\* the monitor was not there to see.
QueueTells ==
  \A k \in Keys(tableMap) \ unheard : \A i \in DOMAIN queue :
    /\ Concerns(queue[i], k)
    /\ \A j \in DOMAIN queue : i < j => ~Concerns(queue[j], k)
    => Tells(queue[i], k)

IInv ==
  /\ TypeOK
  /\ rows \subseteq Rows(tableMap)
  /\ QueueOK
  /\ UniqueKeys
  /\ QueueTells
  /\ OneRowPerKey
  /\ InStep

LEMMA MessagesFacts ==
  ASSUME tableMap \in TableMaps, NEW m \in Messages(tableMap)
  PROVE  /\ m.row \in Rows(tableMap) /\ m.op \in {"put", "delete"}
         /\ KeyOf(m.row) \in Keys(tableMap) /\ m.was \in Keys(tableMap)
<1>1. /\ m.row \in Rows(tableMap) /\ m.op \in {"put", "delete"} /\ m.was \in Keys(tableMap)
  BY DEF Messages
<1>2. KeyOf(m.row) \in Keys(tableMap)
  BY <1>1, KeyOfFacts DEF KeyOf, Rows
<1>. QED BY <1>1, <1>2

LEMMA RowKeys ==
  ASSUME tableMap \in TableMaps, NEW r \in Rows(tableMap)
  PROVE  KeyOf(r) \in Keys(tableMap) /\ IsRow(tableMap, r)
BY KeyOfFacts DEF KeyOf, Rows

LEMMA Init_IInv == Init => IInv
<1>. SUFFICES ASSUME Init PROVE IInv
  OBVIOUS
<1>1. /\ tableMap \in TableMaps /\ rows = {} /\ queue = <<>> /\ capturing = TRUE
      /\ target = <<>> /\ writes = 0 /\ marred = {} /\ unheard = {}
  BY DEF Init
<1>2. DOMAIN queue = {} /\ DOMAIN target = {} /\ queue \in Seq(Messages(tableMap))
  BY <1>1
<1>3. MaxWrites \in Nat
  BY RowSyncAssumption
<1>4. IsFiniteSet(DOMAIN target)
  BY <1>2, FS_EmptySet
<1>5. TypeOK
  BY <1>1, <1>2, <1>3, <1>4 DEF TypeOK
<1>6. QueueOK /\ UniqueKeys /\ QueueTells /\ OneRowPerKey
  BY <1>1, <1>2 DEF QueueOK, UniqueKeys, QueueTells, OneRowPerKey
<1>7. InStep
  BY <1>1, <1>2 DEF InStep, Shown, Wanted
<1>. QED BY <1>1, <1>5, <1>6, <1>7 DEF IInv

-----------------------------------------------------------------------------
(***************************************************************************)
(* Statements on the source table.  They concern the keys of a set K.      *)
(***************************************************************************)
\* Rows with other keys are as they were.
Elsewhere(K) == \A s : KeyOf(s) \notin K => (s \in rows' <=> s \in rows)

\* The variables a statement leaves alone, and the types of those it does not.
Statement ==
  /\ UNCHANGED <<tableMap, target, marred>>
  /\ writes' \in 0..MaxWrites /\ capturing' \in BOOLEAN
  /\ rows' \subseteq Rows(tableMap) /\ UniqueKeys'

LEMMA StatementTypes ==
  ASSUME IInv, Statement, QueueOK', unheard' \subseteq Keys(tableMap)
  PROVE  /\ TypeOK' /\ OneRowPerKey' /\ rows' \subseteq Rows(tableMap)'
         /\ \A k \in Keys(tableMap) : Shown(k)' = Shown(k)
<1>1. tableMap \in TableMaps /\ tableMap' = tableMap /\ target' = target /\ marred' = marred
  BY DEF IInv, TypeOK, Statement
<1>2. \A r \in rows' : IsRow(tableMap, r)
  BY <1>1, RowKeys DEF Statement
<1>3. TypeOK'
  BY <1>1, <1>2 DEF IInv, TypeOK, Statement, QueueOK
<1>4. OneRowPerKey'
  BY <1>1 DEF IInv, OneRowPerKey
<1>5. \A k \in Keys(tableMap) : Shown(k)' = Shown(k)
  BY <1>1 DEF Shown
<1>6. rows' \subseteq Rows(tableMap)'
  BY <1>1 DEF Statement
<1>. QED BY <1>3, <1>4, <1>5, <1>6

LEMMA WantedElsewhere ==
  ASSUME tableMap' = tableMap, NEW K, Elsewhere(K), NEW h, h \notin K
  PROVE  Wanted(h)' = Wanted(h)
<1>1. {s \in rows' : KeyOf(s) = h} = {s \in rows : KeyOf(s) = h}
  BY DEF Elsewhere
<1>2. \A s : KeyOf(s)' = KeyOf(s) /\ Image(s)' = Image(s)
  BY DEF KeyOf, Image
<1>3. Wanted(h)' = {Image(r) : r \in {s \in rows' : KeyOf(s) = h}}
  BY <1>2 DEF Wanted
<1>. QED BY <1>1, <1>3 DEF Wanted

\* A statement that is told of.
LEMMA ToldKeeps ==
  ASSUME IInv, Statement, NEW m \in Messages(tableMap), MessageOK(m), MessageTrue(m),
         queue' = Append(queue, m),
         NEW K, K = {KeyOf(m.row), m.was}, Elsewhere(K),
         unheard' \subseteq unheard, unheard \subseteq unheard' \cup K,
         \A k \in K : IF m.op = "put" /\ KeyOf(m.row) = k THEN m.row \in rows'
                      ELSE \A r \in rows' : KeyOf(r) # k
  PROVE  IInv'
<1>1. /\ tableMap \in TableMaps /\ tableMap' = tableMap /\ marred' = marred
      /\ queue \in Seq(Messages(tableMap)) /\ unheard' \subseteq Keys(tableMap)
  BY DEF IInv, TypeOK, Statement, QueueOK
<1>2. /\ DOMAIN queue = 1..Len(queue) /\ Len(queue) \in Nat
      /\ DOMAIN queue' = 1..(Len(queue) + 1) /\ queue'[Len(queue) + 1] = m
      /\ \A i \in DOMAIN queue : queue'[i] = queue[i]
  BY <1>1
<1>3. \A i \in DOMAIN queue' : i \in DOMAIN queue \/ i = Len(queue) + 1
  BY <1>2
<1>4. \A x : /\ MessageOK(x)' <=> MessageOK(x)
             /\ MessageTrue(x)' <=> MessageTrue(x)
             /\ KeyOf(x)' = KeyOf(x)
  BY <1>1 DEF MessageOK, MessageTrue, KeyOf
<1>5. QueueOK'
  <2>1. queue' \in Seq(Messages(tableMap))
    BY <1>1
  <2>2. \A i \in DOMAIN queue' : MessageOK(queue'[i]) /\ MessageTrue(queue'[i])
    BY <1>2, <1>3 DEF IInv, QueueOK
  <2>. QED BY <1>1, <2>1, <2>2 DEF QueueOK, MessageOK, MessageTrue, KeyOf
<1>6. QueueTells'
  <2>1. ASSUME NEW k \in Keys(tableMap) \ unheard', NEW i \in DOMAIN queue',
               Concerns(queue'[i], k),
               \A j \in DOMAIN queue' : i < j => ~Concerns(queue'[j], k)
        PROVE  IF queue'[i].op = "put" /\ KeyOf(queue'[i].row) = k THEN queue'[i].row \in rows'
               ELSE \A r \in rows' : KeyOf(r) # k
    <3>1. CASE k \in K
      <4>1. Concerns(m, k)
        BY <3>1 DEF Concerns
      <4>2. i = Len(queue) + 1
        BY <1>2, <1>3, <2>1, <4>1
      <4>. QED BY <1>2, <3>1, <4>2
    <3>2. CASE k \notin K
      <4>1. ~Concerns(m, k)
        BY <3>2 DEF Concerns
      <4>2. i \in DOMAIN queue
        BY <1>2, <1>3, <2>1, <4>1
      <4>3. k \in Keys(tableMap) \ unheard
        BY <3>2
      <4>4. \A j \in DOMAIN queue : i < j => ~Concerns(queue[j], k)
        BY <1>2, <2>1
      <4>5. Tells(queue[i], k)
        BY <1>2, <2>1, <4>2, <4>3, <4>4 DEF IInv, QueueTells
      <4>. QED BY <1>2, <3>2, <4>2, <4>5 DEF Tells, Elsewhere
    <3>. QED BY <3>1, <3>2
  <2>. QED BY <1>1, <2>1 DEF QueueTells, Concerns, Tells, KeyOf
<1>7. InStep'
  <2>1. ASSUME NEW k \in Keys(tableMap), k \notin marred \cup unheard', ~Pending(k)'
        PROVE  Shown(k)' = Wanted(k)'
    <3>1. \A i \in DOMAIN queue' : k \notin {KeyOf(queue'[i].row), queue'[i].was}
      BY <1>1, <2>1 DEF Pending, KeyOf
    <3>2. k \notin K
      BY <1>2, <3>1
    <3>3. ~Pending(k)
      BY <1>2, <3>1 DEF Pending
    <3>4. Shown(k) = Wanted(k)
      BY <2>1, <3>2, <3>3 DEF IInv, InStep
    <3>5. Wanted(k)' = Wanted(k)
      BY <1>1, <3>2, WantedElsewhere
    <3>. QED BY <1>1, <1>5, <3>4, <3>5, StatementTypes
  <2>. QED BY <1>1, <2>1 DEF InStep
<1>. QED BY <1>1, <1>5, <1>6, <1>7, StatementTypes DEF IInv, Statement

\* A statement that nobody tells of.
LEMMA UnheardKeeps ==
  ASSUME IInv, Statement, UNCHANGED queue,
         NEW K \in SUBSET Keys(tableMap), Elsewhere(K), unheard' = unheard \cup K
  PROVE  IInv'
<1>1. /\ tableMap \in TableMaps /\ tableMap' = tableMap /\ marred' = marred /\ queue' = queue
      /\ unheard' \subseteq Keys(tableMap)
  BY DEF IInv, TypeOK, Statement
<1>2. QueueOK'
  BY <1>1 DEF IInv, QueueOK, MessageOK, MessageTrue, KeyOf
<1>3. QueueTells'
  <2>1. ASSUME NEW k \in Keys(tableMap) \ unheard', NEW i \in DOMAIN queue,
               Concerns(queue[i], k),
               \A j \in DOMAIN queue : i < j => ~Concerns(queue[j], k)
        PROVE  IF queue[i].op = "put" /\ KeyOf(queue[i].row) = k THEN queue[i].row \in rows'
               ELSE \A r \in rows' : KeyOf(r) # k
    <3>1. k \in Keys(tableMap) \ unheard /\ k \notin K
      BY <2>1
    <3>2. Tells(queue[i], k)
      BY <2>1, <3>1 DEF IInv, QueueTells
    <3>. QED BY <3>1, <3>2 DEF Tells, Elsewhere
  <2>. QED BY <1>1, <2>1 DEF QueueTells, Concerns, Tells, KeyOf
<1>4. InStep'
  <2>1. ASSUME NEW k \in Keys(tableMap), k \notin marred \cup unheard', ~Pending(k)'
        PROVE  Shown(k)' = Wanted(k)'
    <3>1. k \notin K /\ ~Pending(k)
      BY <1>1, <2>1 DEF Pending, KeyOf
    <3>2. Shown(k) = Wanted(k)
      BY <2>1, <3>1 DEF IInv, InStep
    <3>3. Wanted(k)' = Wanted(k)
      BY <1>1, <3>1, WantedElsewhere
    <3>. QED BY <1>1, <1>2, <3>2, <3>3, StatementTypes
  <2>. QED BY <1>1, <2>1 DEF InStep
<1>. QED BY <1>1, <1>2, <1>3, <1>4, StatementTypes DEF IInv, Statement

LEMMA WriteFacts ==
  ASSUME IInv, Write
  PROVE  /\ UNCHANGED <<tableMap, target, marred>> /\ writes' \in 0..MaxWrites
         /\ tableMap \in TableMaps /\ capturing \in BOOLEAN
         /\ unheard \subseteq Keys(tableMap)
BY RowSyncAssumption DEF IInv, TypeOK, Write

\* A row that has been written is captured, or its keys are unheard of.
LEMMA CaptureKeeps ==
  ASSUME IInv, Write, NEW r \in Rows(tableMap), NEW was \in Keys(tableMap), Capture(r, was),
         rows' \subseteq Rows(tableMap), UniqueKeys', r \in rows',
         Elsewhere({KeyOf(r), was}),
         was # KeyOf(r) => \A s \in rows' : KeyOf(s) # was
  PROVE  IInv'
<1>1. KeyOf(r) \in Keys(tableMap) /\ IsRow(tableMap, r)
  BY WriteFacts, RowKeys
<1>. DEFINE K == {KeyOf(r), was}
<1>2. CASE capturing /\ ~SelectThrows(tableMap, r)
  <2>. DEFINE m == [op |-> "put", datas |-> Selected(tableMap, r), row |-> r, was |-> was]
  <2>1. queue' = Append(queue, m) /\ UNCHANGED <<capturing, unheard>>
    BY <1>2 DEF Capture
  <2>2. \A c \in FromColumns(tableMap) :
          /\ Selected(tableMap, r)[c] \in Contents
          /\ tableMap.columnType[c] = "number" => Selected(tableMap, r)[c] # Null
    BY <1>1, WriteFacts, SelectedFacts DEF Selected
  <2>3. Selected(tableMap, r) \in [FromColumns(tableMap) -> Contents]
    BY <2>2 DEF Selected
  <2>4. m \in Messages(tableMap)
    BY <2>3 DEF Messages
  <2>5. MessageOK(m)
    BY <2>2, <2>3 DEF MessageOK
  <2>6. MessageTrue(m)
    BY <1>1 DEF MessageTrue
  <2>7. Statement
    BY <2>1, WriteFacts DEF Statement
  <2>8. K = {KeyOf(m.row), m.was} /\ m.op = "put" /\ m.row = r /\ m.was = was
    OBVIOUS
  <2>9. \A k \in K : IF m.op = "put" /\ KeyOf(m.row) = k THEN m.row \in rows'
                     ELSE \A s \in rows' : KeyOf(s) # k
    BY <2>8
  <2>. HIDE DEF m
  <2>10. /\ unheard' \subseteq unheard /\ unheard \subseteq unheard' \cup K
         /\ Elsewhere(K)
    BY <2>1
  <2>. HIDE DEF K
  <2>. QED BY <2>1, <2>4, <2>5, <2>6, <2>7, <2>8, <2>9, <2>10, ToldKeeps
<1>3. CASE ~(capturing /\ ~SelectThrows(tableMap, r))
  <2>1. capturing' = FALSE /\ unheard' = unheard \cup K /\ UNCHANGED queue
    BY <1>3 DEF Capture
  <2>2. Statement
    BY <2>1, WriteFacts DEF Statement
  <2>3. K \in SUBSET Keys(tableMap) /\ Elsewhere(K)
    BY <1>1
  <2>. QED BY <2>1, <2>2, <2>3, UnheardKeeps
<1>. QED BY <1>2, <1>3

LEMMA InsertKeeps == ASSUME IInv, Insert PROVE IInv'
<1>1. Write
  BY DEF Insert
<1>2. PICK r \in Rows(tableMap) : /\ \A s \in rows : KeyOf(s) # KeyOf(r)
                                  /\ rows' = rows \cup {r}
                                  /\ Capture(r, KeyOf(r))
  BY DEF Insert
<1>3. KeyOf(r) \in Keys(tableMap) /\ tableMap' = tableMap
  BY <1>1, WriteFacts, RowKeys
<1>4. rows' \subseteq Rows(tableMap)
  BY <1>2 DEF IInv
<1>5. \A p, s \in rows' : KeyOf(p) = KeyOf(s) => p = s
  BY <1>2 DEF IInv, UniqueKeys
<1>6. UniqueKeys'
  BY <1>3, <1>5 DEF UniqueKeys, KeyOf
<1>7. Elsewhere({KeyOf(r), KeyOf(r)})
  BY <1>2 DEF Elsewhere
<1>. QED BY <1>1, <1>2, <1>3, <1>4, <1>6, <1>7, CaptureKeeps

LEMMA UpdateKeeps == ASSUME IInv, Update PROVE IInv'
<1>1. Write
  BY DEF Update
<1>2. PICK s \in rows, r \in Rows(tableMap) :
        /\ s # r
        /\ \A o \in rows \ {s} : KeyOf(o) # KeyOf(r)
        /\ rows' = (rows \ {s}) \cup {r}
        /\ Capture(r, KeyOf(s))
  BY DEF Update
<1>3. /\ KeyOf(r) \in Keys(tableMap) /\ KeyOf(s) \in Keys(tableMap) /\ tableMap' = tableMap
      /\ rows \subseteq Rows(tableMap)
      /\ \A p, q \in rows : KeyOf(p) = KeyOf(q) => p = q
  BY <1>1, <1>2, WriteFacts, RowKeys DEF IInv, UniqueKeys
<1>4. rows' \subseteq Rows(tableMap)
  BY <1>2, <1>3
<1>5. \A p, q \in rows' : KeyOf(p) = KeyOf(q) => p = q
  BY <1>2, <1>3
<1>6. UniqueKeys'
  BY <1>3, <1>5 DEF UniqueKeys, KeyOf
<1>7. Elsewhere({KeyOf(r), KeyOf(s)})
  BY <1>2 DEF Elsewhere
<1>8. KeyOf(s) # KeyOf(r) => \A q \in rows' : KeyOf(q) # KeyOf(s)
  BY <1>2, <1>3
<1>. QED BY <1>1, <1>2, <1>3, <1>4, <1>6, <1>7, <1>8, CaptureKeeps

LEMMA DeleteKeeps == ASSUME IInv, Delete PROVE IInv'
<1>1. Write /\ UNCHANGED capturing
  BY DEF Delete
<1>2. PICK s \in rows :
        /\ rows' = rows \ {s}
        /\ queue' = Append(queue, [op |-> "delete", datas |-> Deleted(tableMap, s),
                                   row |-> s, was |-> KeyOf(s)])
        /\ unheard' = unheard \ {KeyOf(s)}
  BY DEF Delete
<1>. DEFINE m == [op |-> "delete", datas |-> Deleted(tableMap, s), row |-> s, was |-> KeyOf(s)]
            K == {KeyOf(s), KeyOf(s)}
<1>3. /\ s \in Rows(tableMap) /\ IsRow(tableMap, s) /\ KeyOf(s) \in Keys(tableMap)
      /\ tableMap' = tableMap /\ rows \subseteq Rows(tableMap)
      /\ \A p, q \in rows : KeyOf(p) = KeyOf(q) => p = q
  BY <1>1, <1>2, WriteFacts, RowKeys DEF IInv, UniqueKeys
<1>4. \A c \in FromColumns(tableMap) : Deleted(tableMap, s)[c] \in Contents
  BY <1>1, <1>3, WriteFacts, SelectedFacts DEF Deleted, Contents
<1>5. Deleted(tableMap, s) \in [FromColumns(tableMap) -> Contents]
  BY <1>4 DEF Deleted
<1>6. m \in Messages(tableMap)
  BY <1>3, <1>5 DEF Messages
<1>7. MessageOK(m)
  BY <1>5 DEF MessageOK
<1>8. MessageTrue(m)
  BY <1>3 DEF MessageTrue
<1>9. UniqueKeys' /\ rows' \subseteq Rows(tableMap)
  BY <1>2, <1>3 DEF UniqueKeys, KeyOf
<1>10. Statement
  BY <1>1, <1>9, WriteFacts DEF Statement
<1>11. K = {KeyOf(m.row), m.was} /\ m.op = "delete"
  OBVIOUS
<1>12. /\ Elsewhere(K) /\ unheard' \subseteq unheard /\ unheard \subseteq unheard' \cup K
       /\ \A k \in K : \A r \in rows' : KeyOf(r) # k
  BY <1>2, <1>3 DEF Elsewhere
<1>13. queue' = Append(queue, m)
  BY <1>2
<1>. HIDE DEF m, K
<1>. QED BY <1>6, <1>7, <1>8, <1>10, <1>11, <1>12, <1>13, ToldKeeps

-----------------------------------------------------------------------------
(***************************************************************************)
(* A message is applied.                                                   *)
(***************************************************************************)
LEMMA TailKeeps ==
  ASSUME IInv, queue # <<>>, queue' = Tail(queue), UNCHANGED <<tableMap, rows, unheard>>
  PROVE  /\ QueueOK' /\ QueueTells'
         /\ Head(queue) \in Messages(tableMap)
         /\ MessageOK(Head(queue)) /\ MessageTrue(Head(queue))
         /\ \A k : Pending(k) => Pending(k)' \/ Concerns(Head(queue), k)
         /\ \A k \in Keys(tableMap) \ unheard :
              ~Pending(k)' /\ Concerns(Head(queue), k) => Tells(Head(queue), k)
<1>1. queue \in Seq(Messages(tableMap)) /\ tableMap' = tableMap /\ rows' = rows /\ unheard' = unheard
  BY DEF IInv, QueueOK
<1>2. /\ Len(queue) \in Nat /\ Len(queue) > 0 /\ DOMAIN queue = 1..Len(queue)
      /\ Head(queue) = queue[1] /\ 1 \in DOMAIN queue
      /\ queue' \in Seq(Messages(tableMap)) /\ DOMAIN queue' = 1..(Len(queue) - 1)
      /\ \A i \in DOMAIN queue' : queue'[i] = queue[i + 1]
  BY <1>1
<1>3. /\ \A i \in DOMAIN queue' : i + 1 \in DOMAIN queue
      /\ \A i \in DOMAIN queue : i = 1 \/ (i - 1 \in DOMAIN queue' /\ queue'[i - 1] = queue[i])
  BY <1>2
<1>4. Head(queue) \in Messages(tableMap) /\ MessageOK(Head(queue)) /\ MessageTrue(Head(queue))
  BY <1>1, <1>2 DEF IInv, QueueOK
<1>5. QueueOK'
  <2>1. \A i \in DOMAIN queue' : MessageOK(queue'[i]) /\ MessageTrue(queue'[i])
    BY <1>2, <1>3 DEF IInv, QueueOK
  <2>. QED BY <1>1, <1>2, <2>1 DEF QueueOK, MessageOK, MessageTrue, KeyOf
<1>6. QueueTells'
  <2>1. ASSUME NEW k \in Keys(tableMap) \ unheard, NEW i \in DOMAIN queue',
               Concerns(queue'[i], k),
               \A j \in DOMAIN queue' : i < j => ~Concerns(queue'[j], k)
        PROVE  Tells(queue'[i], k)
    <3>1. i + 1 \in DOMAIN queue /\ queue'[i] = queue[i + 1]
      BY <1>2, <1>3
    <3>2. ASSUME NEW j \in DOMAIN queue, i + 1 < j PROVE ~Concerns(queue[j], k)
      <4>1. j - 1 \in DOMAIN queue' /\ i < j - 1 /\ queue'[j - 1] = queue[j]
        BY <1>2, <1>3, <3>2
      <4>. QED BY <2>1, <4>1
    <3>. QED BY <2>1, <3>1, <3>2 DEF IInv, QueueTells
  <2>. QED BY <1>1, <2>1 DEF QueueTells, Concerns, Tells, KeyOf
<1>7. ASSUME NEW k, Pending(k), ~Pending(k)' PROVE Concerns(Head(queue), k)
  <2>1. \A i \in DOMAIN queue' : k \notin {KeyOf(queue'[i].row), queue'[i].was}
    BY <1>1, <1>7 DEF Pending, KeyOf
  <2>2. PICK i \in DOMAIN queue : k \in {KeyOf(queue[i].row), queue[i].was}
    BY <1>7 DEF Pending
  <2>3. i = 1
    BY <1>3, <2>1, <2>2
  <2>. QED BY <1>2, <2>2, <2>3 DEF Concerns
<1>8. ASSUME NEW k \in Keys(tableMap) \ unheard, ~Pending(k)', Concerns(Head(queue), k)
      PROVE  Tells(Head(queue), k)
  <2>1. \A i \in DOMAIN queue' : ~Concerns(queue'[i], k)
    BY <1>1, <1>8 DEF Pending, KeyOf, Concerns
  <2>2. \A j \in DOMAIN queue : 1 < j => ~Concerns(queue[j], k)
    BY <1>3, <2>1
  <2>. QED BY <1>2, <1>8, <2>2 DEF IInv, QueueTells
<1>. QED BY <1>4, <1>5, <1>6, <1>7, <1>8

\* A faithful message leaves the row of its key in step.
LEMMA FaithfulShows ==
  ASSUME IInv, NEW m \in Messages(tableMap), MessageOK(m), MessageTrue(m), Faithful(m),
         NEW d, d = Translated(m), NEW k, k = KeyOf(m.row),
         Executed(m.op, d), rows' = rows, Tells(m, k)
  PROVE  Shown(k)' = Wanted(k)
<1>1. /\ tableMap \in TableMaps /\ m.op \in {"put", "delete"} /\ TargetOK /\ OneRowPerKey
      /\ Fits(d, k)
  BY MessagesFacts, MessageFits DEF IInv, TypeOK, TargetOK
<1>2. DOMAIN Where(d) = KeyColumns(tableMap)
  BY DEF Faithful, Where, KeyColumns
<1>3. CASE m.op = "delete"
  <2>1. \A r \in rows : KeyOf(r) # k
    BY <1>3 DEF Tells
  <2>2. Wanted(k) = {}
    BY <2>1 DEF Wanted
  <2>3. Executed("delete", d)
    BY <1>3
  <2>4. Shown(k)' = {}
    BY <1>1, <1>2, <2>3, DeletedIsGone
  <2>. QED BY <2>2, <2>4
<1>4. CASE m.op = "put"
  <2>1. m.row \in rows /\ \A r \in rows : KeyOf(r) = k => r = m.row
    BY <1>4 DEF Tells, IInv, UniqueKeys
  <2>2. Wanted(k) = {Image(m.row)}
    BY <2>1 DEF Wanted
  <2>3. ~Distorted(tableMap, m.row) /\ ~Kept(tableMap, m.row, d)
    BY <1>4 DEF Faithful
  <2>4. ASSUME NEW f \in Carried(tableMap)
        PROVE  d[tableMap.fieldsMap[f]] = m.row[f] /\ m.row[f] # NullWord
    <3>1. d[tableMap.fieldsMap[f]] = SelectedField(tableMap, m.row, f)
      BY <1>1, <1>4, MessageFits
    <3>2. /\ m.row[f] # NullWord
          /\ tableMap.columnType[f] = "number" => GetLong(m.row[f]) = m.row[f]
      BY <2>3 DEF Distorted
    <3>3. tableMap.columnType[f] \in Ruled
      BY <1>1, CarriedFacts
    <3>4. SelectedField(tableMap, m.row, f) = m.row[f]
      BY <3>2, <3>3 DEF SelectedField, Ruled
    <3>. QED BY <3>1, <3>2, <3>4
  <2>5. Executed("put", d)
    BY <1>4
  <2>6. \A f \in Carried(tableMap) :
          IF d[tableMap.fieldsMap[f]] \in {Null, NullWord} THEN m.row[f] = Null
          ELSE d[tableMap.fieldsMap[f]] = m.row[f]
    BY <2>4
  <2>7. Shown(k)' = {Image(m.row)}
    BY <1>1, <1>2, <2>3, <2>5, <2>6, PutIsShown
  <2>. QED BY <2>2, <2>7
<1>. QED BY <1>1, <1>3, <1>4

LEMMA ReceivedKeeps == ASSUME IInv, MessageReceived PROVE IInv'
<1>0. PICK m, k, d : m = Head(queue) /\ k = KeyOf(m.row) /\ d = Translated(m)
  OBVIOUS
<1>1. /\ queue # <<>> /\ queue' = Tail(queue)
      /\ UNCHANGED <<tableMap, rows, capturing, writes, unheard>>
  BY DEF MessageReceived
<1>2. /\ QueueOK' /\ QueueTells'
      /\ m \in Messages(tableMap) /\ MessageOK(m) /\ MessageTrue(m)
      /\ \A h : Pending(h) => Pending(h)' \/ Concerns(m, h)
      /\ \A h \in Keys(tableMap) \ unheard : ~Pending(h)' /\ Concerns(m, h) => Tells(m, h)
  BY <1>0, <1>1, TailKeeps
<1>3. /\ tableMap \in TableMaps /\ TargetOK /\ OneRowPerKey
      /\ marred \subseteq Keys(tableMap)
  BY DEF IInv, TypeOK, TargetOK
<1>4. /\ k \in Keys(tableMap) /\ m.was \in Keys(tableMap) /\ m.op \in {"put", "delete"}
      /\ Fits(d, k)
  BY <1>0, <1>2, <1>3, MessagesFacts, MessageFits
<1>5. UniqueKeys' /\ rows' \subseteq Rows(tableMap)'
  BY <1>1 DEF IInv, UniqueKeys, KeyOf
<1>6. /\ \A h : Wanted(h)' = Wanted(h)
      /\ Keys(tableMap)' = Keys(tableMap)
  BY <1>1 DEF Wanted, KeyOf, Image
<1>7. ASSUME TargetOK', marred' \subseteq Keys(tableMap) PROVE TypeOK'
  BY <1>1, <1>2, <1>7 DEF IInv, TypeOK, TargetOK, QueueOK, MessageOK
<1>8. ASSUME TargetOK', marred' \subseteq Keys(tableMap), OneRowPerKey',
             \A h \in Keys(tableMap) :
               h \notin marred' \cup unheard /\ ~Pending(h)' => Shown(h)' = Wanted(h)
      PROVE  IInv'
  <2>1. InStep'
    BY <1>1, <1>6, <1>8 DEF InStep
  <2>. QED BY <1>2, <1>5, <1>7, <1>8, <2>1 DEF IInv
<1>9. \A h \in Keys(tableMap) :
        /\ h \notin marred \cup unheard /\ ~Pending(h)' /\ ~Concerns(m, h)
        => Shown(h) = Wanted(h)
  BY <1>2 DEF IInv, InStep
<1>10. CASE Throws(m)
  <2>1. marred' = marred \cup {k, m.was} /\ target' = target
    BY <1>0, <1>10 DEF MessageReceived
  <2>2. TargetOK' /\ OneRowPerKey' /\ \A h : Shown(h)' = Shown(h)
    BY <1>1, <1>3, <2>1 DEF TargetOK, OneRowPerKey, Shown
  <2>3. \A h \in Keys(tableMap) : h \notin marred' => h \notin marred /\ ~Concerns(m, h)
    BY <1>0, <2>1 DEF Concerns
  <2>. QED BY <1>3, <1>4, <1>8, <1>9, <2>1, <2>2, <2>3
<1>11. CASE ~Throws(m)
  <2>1. /\ target' = SynData(m)
        /\ marred' = IF Faithful(m) THEN (marred \ {k}) \cup ({m.was} \ {k})
                     ELSE marred \cup {k, m.was} \cup
                          IF DOMAIN Where(d) = {} THEN {} ELSE Hit(tableMap, d)
    BY <1>0, <1>11 DEF MessageReceived, Where
  <2>2. Executed(m.op, d)
    BY <1>0, <1>1, <1>4, <2>1 DEF Executed, SynData
  <2>3. m.op = "delete" => DOMAIN Where(d) # {}
    BY <1>0, <1>11 DEF Throws, DeleteThrows, Where
  <2>4. Hit(tableMap, d) = {h \in Keys(tableMap) : Matches(TargetKey(tableMap, h), Where(d))}
    BY DEF Hit, Where
  <2>5. Faithful(m) => DOMAIN Where(d) = KeyColumns(tableMap)
    BY <1>0 DEF Faithful, Where, KeyColumns
  <2>6. Faithful(m) /\ Tells(m, k) => Shown(k)' = Wanted(k)
    BY <1>0, <1>1, <1>2, <2>2, FaithfulShows
  <2>7. TargetOK' /\ OneRowPerKey'
    BY <1>3, <1>4, <2>2, StatementKeepsTypes, StatementKeepsOneRow
  <2>8. marred' \subseteq Keys(tableMap)
    BY <1>3, <1>4, <2>1, <2>4
  <2>9. ASSUME NEW h \in Keys(tableMap), h \notin marred' \cup unheard, ~Pending(h)'
        PROVE  Shown(h)' = Wanted(h)
    <3>1. CASE Faithful(m) /\ h = k
      <4>1. Concerns(m, k)
        BY <1>0 DEF Concerns
      <4>2. Tells(m, k)
        BY <1>2, <2>9, <3>1, <4>1
      <4>. QED BY <2>6, <3>1, <4>2
    <3>2. CASE Faithful(m) /\ h # k
      <4>1. h \notin marred /\ ~Concerns(m, h)
        BY <1>0, <2>1, <2>9, <3>2 DEF Concerns
      <4>2. ~Matches(TargetKey(tableMap, h), Where(d))
        <5>1. SUFFICES ASSUME Matches(TargetKey(tableMap, h), Where(d)) PROVE FALSE
          OBVIOUS
        <5>2. \A c \in KeyColumns(tableMap) : TargetKey(tableMap, h)[c] = TargetKey(tableMap, k)[c]
          <6>1. DOMAIN Where(d) = KeyColumns(tableMap)
            BY <2>5, <3>2
          <6>2. \A c \in DOMAIN Where(d) : Where(d)[c] = TargetKey(tableMap, k)[c]
            BY <1>3, <1>4, StatementFacts
          <6>. QED BY <5>1, <6>1, <6>2 DEF Matches
        <5>3. h = k
          BY <1>3, <1>4, <5>2, TargetKeyFacts
        <5>. QED BY <3>2, <5>3
      <4>3. Shown(h)' = Shown(h)
        BY <1>3, <1>4, <2>2, <2>3, <4>2, OthersStay
      <4>. QED BY <1>9, <2>9, <4>1, <4>3
    <3>3. CASE ~Faithful(m)
      <4>1. h \notin marred /\ h # k /\ h # m.was
        BY <2>1, <2>9, <3>3
      <4>2. ~Concerns(m, h)
        BY <1>0, <4>1 DEF Concerns
      <4>3. ~(DOMAIN Where(d) # {} /\ Matches(TargetKey(tableMap, h), Where(d)))
        BY <2>1, <2>4, <2>9, <3>3
      <4>4. Shown(h)' = Shown(h)
        BY <1>3, <1>4, <2>2, <2>3, <4>3, OthersStay
      <4>. QED BY <1>9, <2>9, <4>1, <4>2, <4>4
    <3>. QED BY <3>1, <3>2, <3>3
  <2>. QED BY <1>8, <2>7, <2>8, <2>9
<1>. QED BY <1>10, <1>11

LEMMA Next_IInv == IInv /\ [Next]_vars => IInv'
<1>1. ASSUME IInv, UNCHANGED vars PROVE IInv'
  <2>1. UNCHANGED <<tableMap, rows, queue, capturing, target, writes, marred, unheard>>
    BY <1>1 DEF vars
  <2>2. TypeOK' /\ QueueOK' /\ UniqueKeys' /\ OneRowPerKey' /\ rows' \subseteq Rows(tableMap)'
    BY <1>1, <2>1 DEF IInv, TypeOK, QueueOK, UniqueKeys, OneRowPerKey, MessageOK, MessageTrue, KeyOf
  <2>3. QueueTells'
    BY <1>1, <2>1 DEF IInv, QueueTells, Concerns, Tells, KeyOf
  <2>4. /\ \A k : (Pending(k)' <=> Pending(k)) /\ Shown(k)' = Shown(k) /\ Wanted(k)' = Wanted(k)
        /\ Keys(tableMap)' = Keys(tableMap)
    BY <2>1 DEF Pending, Shown, Wanted, Image, KeyOf
  <2>5. InStep'
    BY <1>1, <2>1, <2>4 DEF IInv, InStep
  <2>. QED BY <2>2, <2>3, <2>5 DEF IInv
<1>. QED BY <1>1, InsertKeeps, UpdateKeeps, DeleteKeeps, ReceivedKeeps DEF Next

LEMMA Spec_IInv == Spec => []IInv
BY Init_IInv, Next_IInv, PTL DEF Spec

\* No message of the queue is refused because getInsertSQL names a column without a value.
LEMMA TypedListsCorrespond == IInv => ListsCorrespond
<1>. SUFFICES ASSUME IInv, NEW i \in DOMAIN queue
              PROVE  LET d == Translated(queue[i]) IN
                     InsertColumns(tableMap, d) = InsertValues(tableMap, d)
  BY DEF ListsCorrespond
<1>1. tableMap \in TableMaps /\ MessageOK(queue[i]) /\ MessageTrue(queue[i])
  BY DEF IInv, TypeOK, QueueOK
<1>2. \A c \in ToColumns(tableMap) : tableMap.toType[c] = "other" => Translated(queue[i])[c] = Null
  BY <1>1, MessageFits
<1>. QED BY <1>2 DEF InsertColumns, InsertValues, Effective

\* Every variable keeps its type: for any table maps and values, what getLong makes of a
\* number and transData of a message is what the target may hold.
THEOREM TypesOK == Spec => []TypeOK
<1>1. IInv => TypeOK
  BY DEF IInv
<1>. QED BY <1>1, Spec_IInv, PTL

\* A row whose messages have been applied shows its carried columns in the target, unless
\* the row is marred or unheard of.
THEOREM TargetIsInStep == Spec => []InStep
<1>1. IInv => InStep
  BY DEF IInv
<1>. QED BY <1>1, Spec_IInv, PTL

\* The target never has two rows of one key, whatever has been refused or distorted.
THEOREM TargetHasOneRow == Spec => []OneRowPerKey
<1>1. IInv => OneRowPerKey
  BY DEF IInv
<1>. QED BY <1>1, Spec_IInv, PTL

\* The columns that an insert names are those it has values for.
THEOREM InsertListsCorrespond == Spec => []ListsCorrespond
BY Spec_IInv, TypedListsCorrespond, PTL
===============================================================================
