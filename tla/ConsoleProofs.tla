----------------------------- MODULE ConsoleProofs -----------------------------
(***************************************************************************)
(* The console's pages, for any maps, forms and days and any number of      *)
(* calls without answer.                                                    *)
(***************************************************************************)
EXTENDS Console, SequenceTheorems, WellFoundedInduction, TLAPS

LEMMA RemoveAtIs ==
  ASSUME NEW S, NEW s \in Seq(S), NEW i \in DOMAIN s
  PROVE  /\ RemoveAt(s, i) \in Seq(S)
         /\ Len(RemoveAt(s, i)) = Len(s) - 1
         /\ \A j \in 1..(Len(s) - 1) : RemoveAt(s, i)[j] = IF j < i THEN s[j] ELSE s[j + 1]
<1>. DEFINE a == SubSeq(s, 1, i - 1)
            b == SubSeq(s, i + 1, Len(s))
<1>1. i \in 1..Len(s) /\ Len(s) \in Nat
  OBVIOUS
<1>2. a \in Seq(S) /\ Len(a) = i - 1 /\ \A j \in 1..(i - 1) : a[j] = s[j]
  BY <1>1
<1>3. b \in Seq(S) /\ Len(b) = Len(s) - i /\ \A j \in 1..(Len(s) - i) : b[j] = s[j + i]
  BY <1>1, SubSeqProperties
<1>. HIDE DEF a, b
<1>4. /\ a \o b \in Seq(S) /\ Len(a \o b) = Len(a) + Len(b)
      /\ \A j \in 1..(Len(a) + Len(b)) :
            (a \o b)[j] = IF j <= Len(a) THEN a[j] ELSE b[j - Len(a)]
  BY <1>2, <1>3, ConcatProperties
<1>5. Len(a \o b) = Len(s) - 1
  BY <1>1, <1>2, <1>3, <1>4
<1>6. ASSUME NEW j \in 1..(Len(s) - 1)
      PROVE  (a \o b)[j] = IF j < i THEN s[j] ELSE s[j + 1]
  <2>1. CASE j < i
    BY <1>1, <1>2, <1>3, <1>4, <2>1
  <2>2. CASE ~(j < i)
    <3>1. j - (i - 1) \in 1..(Len(s) - i) /\ j - (i - 1) + i = j + 1
      BY <1>1, <2>2
    <3>2. Len(a) = i - 1 /\ j \in 1..(Len(a) + Len(b)) /\ ~(j <= Len(a))
      BY <1>1, <1>2, <1>3, <2>2
    <3>3. (a \o b)[j] = b[j - (i - 1)]
      BY <1>4, <3>2
    <3>4. b[j - (i - 1)] = s[j - (i - 1) + i]
      BY <1>3, <3>1
    <3>. QED BY <2>2, <3>1, <3>3, <3>4
  <2>. QED BY <2>1, <2>2
<1>. QED BY <1>4, <1>5, <1>6 DEF RemoveAt, a, b

\* The last element of a kind.
LastIn(s, K, j) == s[j] \in K /\ \A n \in (j + 1)..Len(s) : s[n] \notin K

\* An element that is the last of its kind after another one was removed was so before,
\* unless the one removed was the last.
LEMMA LastAfterRemoval ==
  ASSUME NEW S, NEW K, NEW s \in Seq(S), NEW i \in DOMAIN s, NEW j \in 1..(Len(s) - 1),
         LastIn(RemoveAt(s, i), K, j), ~LastIn(s, K, i)
  PROVE  \E k \in DOMAIN s : k # i /\ LastIn(s, K, k) /\ s[k] = RemoveAt(s, i)[j]
<1>. DEFINE t == RemoveAt(s, i)
<1>1. /\ i \in 1..Len(s) /\ Len(s) \in Nat /\ Len(t) = Len(s) - 1
      /\ \A n \in 1..(Len(s) - 1) : t[n] = IF n < i THEN s[n] ELSE s[n + 1]
  BY RemoveAtIs
<1>2. t[j] \in K /\ \A n \in (j + 1)..Len(t) : t[n] \notin K
  BY DEF LastIn
<1>. HIDE DEF t
<1>3. ASSUME NEW n \in (i + 1)..Len(s), j < n - 1 PROVE s[n] \notin K
  <2>1. n - 1 \in 1..(Len(s) - 1) /\ ~(n - 1 < i) /\ n - 1 \in (j + 1)..Len(t) /\ (n - 1) + 1 = n
    BY <1>1, <1>3
  <2>2. t[n - 1] = s[n]
    BY <1>1, <2>1
  <2>. QED BY <1>2, <2>1, <2>2
<1>4. CASE j < i
  <2>1. \A n \in (i + 1)..Len(s) : s[n] \notin K
    BY <1>1, <1>3, <1>4
  <2>2. s[i] \notin K
    BY <2>1 DEF LastIn
  <2>3. ASSUME NEW n \in (j + 1)..Len(s) PROVE s[n] \notin K
    <3>1. CASE n < i
      BY <1>1, <1>2, <1>4, <3>1
    <3>. QED BY <1>1, <2>1, <2>2, <3>1
  <2>. QED BY <1>1, <1>2, <1>4, <2>3 DEF LastIn, t
<1>5. CASE ~(j < i)
  <2>1. t[j] = s[j + 1] /\ j + 1 \in DOMAIN s /\ j + 1 # i
    BY <1>1, <1>5
  <2>2. \A n \in (j + 2)..Len(s) : s[n] \notin K
    BY <1>1, <1>3, <1>5
  <2>. QED BY <1>1, <1>2, <2>1, <2>2 DEF LastIn, t
<1>. QED BY <1>4, <1>5

LEMMA LastAfterAppend ==
  ASSUME NEW S, NEW K, NEW s \in Seq(S), NEW e \in S, NEW j \in 1..(Len(s) + 1),
         LastIn(Append(s, e), K, j)
  PROVE  IF e \in K THEN j = Len(s) + 1 ELSE j \in 1..Len(s) /\ LastIn(s, K, j)
<1>1. /\ Len(s) \in Nat /\ Len(Append(s, e)) = Len(s) + 1 /\ Append(s, e)[Len(s) + 1] = e
      /\ \A n \in 1..Len(s) : Append(s, e)[n] = s[n]
  OBVIOUS
<1>. QED BY <1>1 DEF LastIn

------------------------------------------------------------------------------
(* Dates.                                                                  *)

LEMMA NormalIsDate ==
  ASSUME NEW y \in Nat, NEW m \in Months, NEW d \in 1..31
  PROVE  Normal(y, m, d) \in Date
  BY DEF Normal, Date, DaysIn, Months, Years

LEMMA DatesAre ==
  ASSUME NEW t \in Date
  PROVE  t[1] \in Nat /\ t[2] \in Months /\ t[3] \in 1..31 /\ t = <<t[1], t[2], t[3]>>
         /\ t[3] <= DaysIn(t[1], t[2])
  BY DEF Date, Years

\* selectDay after a pick is the day picked, or the same day of the next month; the
\* latter only when the month picked is a short one.
LEMMA PickedDay ==
  ASSUME NEW t \in Date, NEW p \in Date
  PROVE  /\ SetDay(t, p) \in Date
         /\ \/ SetDay(t, p) = p
            \/ DaysIn(p[1], p[2]) < 31 /\ SetDay(t, p) = <<p[1], p[2] + 1, p[3]>>
<1>. DEFINE u == SetFullYear(t, p[1])
            w == SetMonth(u, p[2])
<1>1. u \in Date /\ u[1] = p[1]
  BY DatesAre, NormalIsDate DEF SetFullYear, Normal
<1>2. w \in Date
  BY <1>1, DatesAre, NormalIsDate DEF SetMonth
<1>3. SetDay(t, p) = Normal(w[1], w[2], p[3])
  BY DEF SetDay, SetDate
<1>4. SetDay(t, p) \in Date
  <2>1. w[1] \in Nat /\ w[2] \in Months /\ p[3] \in 1..31
    BY <1>2, DatesAre
  <2>. QED BY <1>3, <2>1, NormalIsDate
<1>5. CASE u[3] <= DaysIn(p[1], p[2])
  <2>1. w[1] = p[1] /\ w[2] = p[2]
    BY <1>1, <1>5 DEF SetMonth, Normal
  <2>. QED BY <1>4, <2>1, <1>3, DatesAre DEF Normal
<1>6. CASE ~(u[3] <= DaysIn(p[1], p[2]))
  <2>1. DaysIn(p[1], p[2]) < 31 /\ p[2] \in {2, 4, 6, 9, 11} /\ p[2] + 1 \in Months
    BY <1>1, <1>6, DatesAre DEF DaysIn, Months
  <2>2. w[1] = p[1] /\ w[2] = p[2] + 1
    BY <1>1, <1>6, DatesAre DEF SetMonth, Normal
  <2>3. DaysIn(w[1], w[2]) = 31
    BY <2>1, <2>2 DEF DaysIn
  <2>4. SetDay(t, p) = <<p[1], p[2] + 1, p[3]>>
    BY <1>3, <2>2, <2>3, DatesAre DEF Normal
  <2>. QED BY <1>4, <2>1, <2>4
<1>. QED BY <1>5, <1>6

------------------------------------------------------------------------------
(* The chart page.                                                         *)

\* Until the page's first answer there are no numbers but those of the script, and
\* nothing can be asked.
Opening ==
  /\ Len(queries) = 1 /\ options = 0 /\ chosen = 0 /\ current = "waiting"
  /\ bar = Sample /\ line.of = Sample
  /\ canvas[tab] = Sample \/ (canvas[tab] = Blank /\ tab = "line")

InitIsFirst == \A i \in DOMAIN queries : queries[i].op = "init" => Opening

NoLater(i) == \A j \in (i + 1)..Len(queries) : queries[j].op # "data"

\* The last query outstanding is the last one asked, until that is answered.
LastIsAsked ==
  current = "waiting" =>
    \A i \in DOMAIN queries : queries[i].op = "data" /\ NoLater(i) => queries[i].query = asked

QueriesOK == \A i \in DOMAIN queries : queries[i].op = "data" => queries[i].query \in Query

ChartInv ==
  /\ ChartTypeOK /\ DayIsPicked /\ LabelsFit /\ ChartsAreOfLast /\ VisibleIsCurrent
  /\ InitIsFirst /\ LastIsAsked /\ QueriesOK

LEMMA TodayIsDate == Today \in Date /\ \A d \in Days : d \in Date
  BY DaysAssumption

\* A page that has just been opened, or left.
ClosedChart ==
  /\ options = 0 /\ chosen = 0 /\ mode = "0" /\ day = Today /\ shown = Today /\ tab = "line"
  /\ line = [of |-> Sample, labels |-> 24, points |-> 24] /\ bar = Sample
  /\ canvas = [t \in Tabs |-> Blank] /\ asked = Sample /\ current = "waiting" /\ overtaken = FALSE
  /\ queries = << >> \/ queries = <<[op |-> "init", query |-> Sample]>>

LEMMA Closed_Chart == ClosedChart => ChartInv
<1>. SUFFICES ASSUME ClosedChart PROVE ChartInv
  OBVIOUS
<1>. DEFINE first == [op |-> "init", query |-> Sample]
<1>1. /\ queries \in Seq(Pending)
      /\ \A i \in DOMAIN queries : queries[i].op = "init" /\ Len(queries) = 1
  <2>1. first \in Pending /\ first.op = "init"
    BY DEF Pending
  <2>. HIDE DEF first, ClosedChart
  <2>2. CASE queries = << >>
    BY <2>2
  <2>3. CASE queries = <<first>>
    BY <2>1, <2>3
  <2>. QED BY <2>2, <2>3 DEF first, ClosedChart
<1>2. /\ Sample \in Numbers
      /\ [of |-> Sample, labels |-> 24, points |-> 24] \in LineData
      /\ [t \in Tabs |-> Blank] \in [Tabs -> Numbers \cup {Blank}]
  BY DEF Numbers, LineData
<1>3. 0 \in 0..MaxMap /\ 0 \in 0..0
  BY MapsAssumption
<1>4. ChartTypeOK
  BY <1>1, <1>2, <1>3, TodayIsDate DEF ChartTypeOK, Tabs, Modes, ClosedChart
<1>5. canvas[tab] = Blank /\ line.of = Sample /\ line.points = 24 /\ line.labels = 24
  BY DEF Tabs, ClosedChart
<1>. QED
  BY <1>1, <1>4, <1>5 DEF ChartInv, DayIsPicked, LabelsFit, ChartsAreOfLast, VisibleIsCurrent,
     InitIsFirst, Opening, LastIsAsked, QueriesOK, ClosedChart

\* What remains of the queries when one is answered.
LEMMA Answered ==
  ASSUME ChartInv, NEW i \in DOMAIN queries, queries' = RemoveAt(queries, i)
  PROVE  /\ queries' \in Seq(Pending) /\ Len(queries') = Len(queries) - 1
         /\ \A j \in DOMAIN queries' :
               \E k \in DOMAIN queries : k # i /\ queries'[j] = queries[k] /\ k \in {j, j + 1}
                  /\ (k = j <=> j < i)
         /\ QueriesOK'
         /\ queries[i].op = "init" => queries' = << >>
<1>1. queries \in Seq(Pending) /\ DOMAIN queries = 1..Len(queries) /\ Len(queries) \in Nat
  BY DEF ChartInv, ChartTypeOK
<1>2. /\ queries' \in Seq(Pending) /\ Len(queries') = Len(queries) - 1
      /\ \A j \in 1..(Len(queries) - 1) :
            queries'[j] = IF j < i THEN queries[j] ELSE queries[j + 1]
  BY <1>1, RemoveAtIs
<1>3. ASSUME NEW j \in DOMAIN queries'
      PROVE  \E k \in DOMAIN queries : k # i /\ queries'[j] = queries[k] /\ k \in {j, j + 1}
                /\ (k = j <=> j < i)
  <2>1. j \in 1..(Len(queries) - 1)
    BY <1>1, <1>2
  <2>2. CASE j < i
    BY <1>1, <1>2, <2>1, <2>2
  <2>3. CASE ~(j < i)
    <3>1. j + 1 \in DOMAIN queries /\ j + 1 # i /\ queries'[j] = queries[j + 1] /\ j + 1 # j
      BY <1>1, <1>2, <2>1, <2>3
    <3>. QED BY <2>3, <3>1
  <2>. QED BY <2>2, <2>3
<1>4. QueriesOK'
  BY <1>3 DEF ChartInv, QueriesOK
<1>5. queries[i].op = "init" => queries' = << >>
  BY <1>1, <1>2 DEF ChartInv, InitIsFirst, Opening
<1>. QED BY <1>2, <1>3, <1>4, <1>5

\* A query asked last remains the last one as long as it is outstanding.
LEMMA StillLast ==
  ASSUME ChartInv, NEW i \in DOMAIN queries, queries' = RemoveAt(queries, i),
         queries[i].op = "data", asked' = asked,
         current' = "waiting" => current = "waiting" /\ ~LastQuery(i)
  PROVE  LastIsAsked'
<1>. SUFFICES ASSUME current' = "waiting", NEW j \in DOMAIN queries', queries'[j].op = "data",
                     NoLater(j)'
              PROVE  queries'[j].query = asked
  BY DEF LastIsAsked
<1>1. /\ queries \in Seq(Pending) /\ DOMAIN queries = 1..Len(queries) /\ Len(queries) \in Nat
      /\ DOMAIN queries' = 1..(Len(queries) - 1)
      /\ \A n \in 1..(Len(queries) - 1) :
            queries'[n] = IF n < i THEN queries[n] ELSE queries[n + 1]
  BY RemoveAtIs DEF ChartInv, ChartTypeOK
<1>2. PICK m \in (i + 1)..Len(queries) : queries[m].op = "data"
  BY DEF LastQuery
<1>3. ~(j < i)
  <2>1. m - 1 \in 1..(Len(queries) - 1) /\ ~(m - 1 < i) /\ (m - 1) + 1 = m
    BY <1>1, <1>2
  <2>2. queries'[m - 1] = queries[m]
    BY <1>1, <2>1
  <2>3. m - 1 \notin (j + 1)..Len(queries')
    BY <1>2, <2>2 DEF NoLater
  <2>. QED BY <1>1, <1>2, <2>1, <2>3
<1>4. queries'[j] = queries[j + 1] /\ j + 1 \in DOMAIN queries
  BY <1>1, <1>3
<1>5. NoLater(j + 1)
  <2>. SUFFICES ASSUME NEW n \in (j + 2)..Len(queries) PROVE queries[n].op # "data"
    BY <1>1 DEF NoLater
  <2>1. n - 1 \in (j + 1)..(Len(queries) - 1) /\ ~(n - 1 < i) /\ (n - 1) + 1 = n
        /\ n - 1 \in 1..(Len(queries) - 1)
    BY <1>1, <1>3
  <2>2. queries'[n - 1] = queries[n]
    BY <1>1, <2>1
  <2>3. Len(queries') = Len(queries) - 1
    BY RemoveAtIs DEF ChartInv, ChartTypeOK
  <2>. QED BY <2>1, <2>2, <2>3 DEF NoLater
<1>. QED BY <1>4, <1>5 DEF ChartInv, LastIsAsked

LEMMA TypedQueries == ASSUME ChartInv PROVE queries \in Seq(Pending) /\ Len(queries) \in Nat
  BY DEF ChartInv, ChartTypeOK

LEMMA Pick_ChartInv == ASSUME ChartInv, NEW p \in Days, Pick(p) PROVE ChartInv'
<1>1. p \in Date /\ day \in Date
  BY TodayIsDate DEF ChartInv, ChartTypeOK
<1>2. DayIsPicked' /\ day' \in Date /\ shown' \in Date
  BY <1>1, PickedDay DEF Pick, DayIsPicked
<1>. QED
  BY <1>2 DEF ChartInv, Pick, ChartTypeOK, LabelsFit, ChartsAreOfLast, VisibleIsCurrent, Numbered,
     InitIsFirst, Opening, LastIsAsked, NoLater, QueriesOK

LEMMA Show_ChartInv == ASSUME ChartInv, NEW t \in Tabs, Show(t) PROVE ChartInv'
<1>1. /\ canvas' \in [Tabs -> Numbers \cup {Blank}] /\ canvas'[tab'] = Numbered(t)
      /\ tab' = t /\ line' = line /\ bar' = bar
      /\ UNCHANGED <<options, chosen, mode, day, shown, queries, asked, current, overtaken>>
  BY DEF Show, ChartInv, ChartTypeOK, Numbered, LineData
<1>2. VisibleIsCurrent'
  BY <1>1 DEF VisibleIsCurrent, Numbered
<1>3. InitIsFirst'
  <2>1. Opening => Numbered(t) = Sample
    BY DEF Opening, Numbered
  <2>2. ASSUME Opening PROVE Opening'
    <3>1. canvas'[tab'] = Sample
      BY <1>1, <2>1, <2>2
    <3>2. UNCHANGED <<options, chosen, current, bar, queries>> /\ line'.of = line.of
      BY <1>1
    <3>. QED BY <2>2, <3>1, <3>2 DEF Opening
  <2>. QED BY <1>1, <2>2 DEF ChartInv, InitIsFirst
<1>4. DayIsPicked' /\ LabelsFit' /\ ChartsAreOfLast' /\ LastIsAsked' /\ QueriesOK'
  BY <1>1 DEF ChartInv, DayIsPicked, LabelsFit, ChartsAreOfLast, LastIsAsked, NoLater, QueriesOK
<1>5. ChartTypeOK'
  BY <1>1 DEF ChartInv, ChartTypeOK
<1>. QED BY <1>2, <1>3, <1>4, <1>5 DEF ChartInv

LEMMA Choose_ChartInv ==
  ASSUME ChartInv, (\E q \in Maps : ChooseMap(q)) \/ (\E w \in Modes : ChooseMode(w))
  PROVE  ChartInv'
<1>1. /\ chosen' \in 0..options /\ mode' \in Modes
      /\ options = 0 => chosen' = 0
      /\ UNCHANGED <<options, day, shown, tab, line, bar, canvas, queries, asked, current, overtaken>>
  BY MapsAssumption DEF ChooseMap, ChooseMode, ChartInv, ChartTypeOK
<1>. QED
  BY <1>1 DEF ChartInv, ChartTypeOK, DayIsPicked, LabelsFit, ChartsAreOfLast, VisibleIsCurrent,
     Numbered, InitIsFirst, Opening, LastIsAsked, NoLater, QueriesOK

LEMMA GetMapData_ChartInv == ASSUME ChartInv, GetMapData PROVE ChartInv'
<1>. DEFINE q == [map |-> chosen, day |-> day, mode |-> mode]
            e == [op |-> "data", query |-> q]
<1>1. q \in Query /\ asked' = q /\ queries' = Append(queries, e) /\ e.op = "data" /\ e.query = q
  BY MapsAssumption DEF GetMapData, ChartInv, ChartTypeOK, Query, Maps
<1>2. e \in Pending
  BY <1>1 DEF Pending
<1>. HIDE DEF q, e
<1>3. /\ queries' \in Seq(Pending) /\ Len(queries') = Len(queries) + 1
      /\ DOMAIN queries' = 1..(Len(queries) + 1) /\ DOMAIN queries = 1..Len(queries)
      /\ queries'[Len(queries) + 1] = e /\ \A j \in 1..Len(queries) : queries'[j] = queries[j]
  BY <1>1, <1>2, TypedQueries
<1>4. \A i \in DOMAIN queries : queries[i].op # "init"
  BY DEF GetMapData, ChartInv, InitIsFirst, Opening
<1>5. InitIsFirst'
  BY <1>1, <1>3, <1>4, TypedQueries DEF InitIsFirst
<1>6. QueriesOK'
  BY <1>1, <1>3, TypedQueries DEF ChartInv, QueriesOK
<1>7. LastIsAsked'
  <2>. SUFFICES ASSUME NEW j \in DOMAIN queries', NoLater(j)' PROVE queries'[j].query = asked'
    BY DEF LastIsAsked
  <2>1. j = Len(queries) + 1
    BY <1>1, <1>3, TypedQueries DEF NoLater
  <2>. QED BY <1>1, <1>3, <2>1
<1>8. ChartTypeOK'
  BY <1>1, <1>3 DEF GetMapData, ChartInv, ChartTypeOK
<1>. QED
  BY <1>5, <1>6, <1>7, <1>8 DEF GetMapData, ChartInv, DayIsPicked, LabelsFit, ChartsAreOfLast,
     VisibleIsCurrent, Numbered

LEMMA ShowData_ChartInv ==
  ASSUME ChartInv, NEW i \in DOMAIN queries, ShowData(i) PROVE ChartInv'
<1>. DEFINE q == queries[i].query
<1>1. q \in Query /\ queries' = RemoveAt(queries, i) /\ queries[i].op = "data"
      /\ asked' = asked
  BY DEF ShowData, ChartInv, QueriesOK
<1>2. /\ line' \in LineData /\ line'.of = q /\ line'.points = line'.labels /\ bar' = q
      /\ canvas' \in [Tabs -> Numbers \cup {Blank}] /\ canvas'[tab] = q
  BY <1>1 DEF ShowData, LineData, Numbers, Points, Labels, BarOf, Redrawn, Drawn, ChartInv,
     ChartTypeOK
<1>3. /\ queries' \in Seq(Pending) /\ QueriesOK'
      /\ \A j \in DOMAIN queries' : \E k \in DOMAIN queries : k # i /\ queries'[j] = queries[k]
  BY <1>1, Answered
<1>4. \A j \in DOMAIN queries : queries[j].op # "init"
  BY <1>1, TypedQueries DEF ChartInv, InitIsFirst, Opening
<1>5. InitIsFirst'
  BY <1>3, <1>4 DEF InitIsFirst
<1>6. current' = "waiting" => current = "waiting" /\ ~LastQuery(i)
  BY DEF ShowData
<1>7. LastIsAsked'
  BY <1>1, <1>6, StillLast
<1>8. ChartsAreOfLast'
  <2>1. CASE current = "waiting" /\ LastQuery(i)
    BY <1>1, <1>2, <2>1 DEF ChartInv, LastIsAsked, LastQuery, NoLater, ChartsAreOfLast
  <2>2. CASE current = "waiting" /\ ~LastQuery(i)
    BY <2>2 DEF ShowData, ChartsAreOfLast
  <2>3. CASE current # "waiting"
    BY <2>3 DEF ShowData, ChartsAreOfLast
  <2>. QED BY <2>1, <2>2, <2>3
<1>9. VisibleIsCurrent' /\ LabelsFit' /\ DayIsPicked'
  BY <1>2 DEF ShowData, VisibleIsCurrent, Numbered, LabelsFit, DayIsPicked, ChartInv
<1>10. Numbers = Query \cup {Sample, Empty} /\ current' \in {"waiting", "shown", "null"}
       /\ overtaken' \in BOOLEAN
  BY DEF Numbers, ShowData, ChartInv, ChartTypeOK
<1>11. ChartTypeOK'
  BY <1>1, <1>2, <1>3, <1>10 DEF ShowData, ChartInv, ChartTypeOK
<1>. QED BY <1>3, <1>5, <1>7, <1>8, <1>9, <1>11 DEF ChartInv

LEMMA NoData_ChartInv == ASSUME ChartInv, NEW i \in DOMAIN queries, NoData(i) PROVE ChartInv'
<1>1. queries' = RemoveAt(queries, i) /\ queries[i].op = "data" /\ asked' = asked
      /\ (current' = "waiting" => current = "waiting" /\ ~LastQuery(i))
      /\ (current' = "shown" => current = "shown")
      /\ UNCHANGED <<options, chosen, mode, day, shown, tab, line, bar, canvas, asked, overtaken>>
  BY DEF NoData
<1>2. /\ queries' \in Seq(Pending) /\ QueriesOK'
      /\ \A j \in DOMAIN queries' : \E k \in DOMAIN queries : k # i /\ queries'[j] = queries[k]
  BY <1>1, Answered
<1>3. \A j \in DOMAIN queries : queries[j].op # "init"
  BY <1>1, TypedQueries DEF ChartInv, InitIsFirst, Opening
<1>4. InitIsFirst'
  BY <1>2, <1>3 DEF InitIsFirst
<1>5. LastIsAsked'
  BY <1>1, StillLast
<1>6. ChartTypeOK'
  BY <1>1, <1>2 DEF NoData, ChartInv, ChartTypeOK
<1>. QED
  BY <1>1, <1>2, <1>4, <1>5, <1>6 DEF ChartInv, DayIsPicked, LabelsFit, ChartsAreOfLast,
     VisibleIsCurrent, Numbered

LEMMA Init_ChartInv ==
  ASSUME ChartInv, NEW i \in DOMAIN queries, ShowInit(i) \/ InitFails(i)
  PROVE  ChartInv'
<1>1. queries' = RemoveAt(queries, i) /\ queries[i].op = "init" /\ Opening
      /\ UNCHANGED <<mode, day, shown, tab, asked, current, overtaken>>
  BY DEF ShowInit, InitFails, ChartInv, InitIsFirst
<1>2. queries' \in Seq(Pending) /\ QueriesOK' /\ queries' = << >>
  BY <1>1, Answered
<1>3. InitIsFirst' /\ LastIsAsked'
  BY <1>2 DEF InitIsFirst, LastIsAsked
<1>4. ChartsAreOfLast' /\ DayIsPicked'
  BY <1>1 DEF Opening, ChartsAreOfLast, ChartInv, DayIsPicked
<1>5. /\ options' \in 0..MaxMap /\ chosen' \in 0..options'
      /\ First \in Numbers \/ MaxMap = 0
  BY MapsAssumption, TodayIsDate DEF ShowInit, InitFails, First, Numbers, Query, Maps, Modes
<1>6. ASSUME NEW n \in Numbers, NEW k \in {0, 24}, n \in {First, Empty},
             line' = [of |-> n, labels |-> 24, points |-> k], bar' = n,
             canvas' = [canvas EXCEPT !["line"] = Drawn("line", n)]
      PROVE  ChartInv'
  <2>1. line' \in LineData /\ line'.of = n /\ LabelsFit'
    BY <1>6 DEF LineData, LabelsFit
  <2>2. canvas' \in [Tabs -> Numbers \cup {Blank}]
    BY <1>6 DEF ChartInv, ChartTypeOK, Drawn
  <2>3. ASSUME tab = "line" PROVE VisibleIsCurrent'
    BY <1>1, <1>6, <2>1, <2>3 DEF VisibleIsCurrent, Numbered, Drawn, ChartInv, ChartTypeOK
  <2>4. ASSUME tab = "bar" PROVE VisibleIsCurrent'
    <3>1. canvas'[tab'] = Sample
      BY <1>1, <1>6, <2>4 DEF Opening, ChartInv, ChartTypeOK, Tabs
    <3>. QED BY <1>1, <1>6, <2>4, <3>1 DEF VisibleIsCurrent
  <2>5. VisibleIsCurrent'
    BY <2>3, <2>4 DEF ChartInv, ChartTypeOK, Tabs
  <2>6. ChartTypeOK'
    BY <1>1, <1>2, <1>5, <1>6, <2>1, <2>2 DEF ChartInv, ChartTypeOK
  <2>. QED BY <1>2, <1>3, <1>4, <2>1, <2>5, <2>6 DEF ChartInv
<1>7. CASE UNCHANGED <<line, bar, canvas>>
  BY <1>1, <1>2, <1>3, <1>4, <1>5, <1>7 DEF ChartInv, ChartTypeOK, LabelsFit, VisibleIsCurrent,
     Numbered
<1>8. Empty \in Numbers
  BY DEF Numbers
<1>9. CASE ShowInit(i) /\ MaxMap > 0
  BY <1>5, <1>6, <1>9 DEF ShowInit
<1>10. CASE ShowInit(i) /\ ~(MaxMap > 0)
  BY <1>7, <1>10 DEF ShowInit
<1>11. CASE InitFails(i)
  BY <1>6, <1>8, <1>11 DEF InitFails
<1>. QED BY <1>9, <1>10, <1>11

LEMMA Chart_ChartInv == ASSUME ChartInv, ChartScript PROVE ChartInv'
  BY Pick_ChartInv, Show_ChartInv, Choose_ChartInv, GetMapData_ChartInv, ShowData_ChartInv,
     NoData_ChartInv, Init_ChartInv DEF ChartScript

------------------------------------------------------------------------------
(* The deploy pages.                                                       *)

Schemas == {c \in Call : c.op = "schemas"}

\* The last call for columns outstanding is the last one made, until that is answered.
LastIsWanted ==
  ~answered => \A i \in DOMAIN calls : LastIn(calls, Schemas, i) => calls[i].form = wanted

\* Columns are asked for with a complete form.
FormsAsked == \A i \in DOMAIN calls : calls[i].op = "schemas" => calls[i].form \in Forms

ColumnsOK == answered /\ misfit = "no" => columns = {wanted}

\* The list is asked for once, and there is no button before it is there.
ListOnce ==
  /\ Listed => \A r \in Rows : buttons[r] # "none"
  /\ \A i \in DOMAIN calls : calls[i].op = "list" => ~Listed /\ calls[i].answer # "no"
  /\ \A i, j \in DOMAIN calls : calls[i].op = "list" /\ calls[j].op = "list" => i = j
  /\ \A i \in DOMAIN calls : OfMap(calls[i]) => Listed /\ calls[i].row \in Rows

ListTells ==
  \A i \in DOMAIN calls :
    calls[i].op = "list" /\ calls[i].answer = "yes" /\ causes = {} => calls[i].list = running

\* Calls that have started or stopped the map of row r, and the page will be told.
Told(r) == {c \in Call : OfMap(c) /\ c.answer = "yes" /\ ById(c.row) = r}

\* The last of them decides the status of the map; without any, the button tells it.
Known(s, r, button, on) ==
  /\ (\A i \in DOMAIN s : s[i] \notin Told(r)) => ((button = "stop") <=> (r \in on))
  /\ \A i \in DOMAIN s : LastIn(s, Told(r), i) => ((s[i].op = "start") <=> (r \in on))

StatusKnown(r) == Known(calls, r, buttons[r], running)

StatusesKnown == Listed /\ causes = {} => \A r \in Rows : StatusKnown(r)

DeployInv ==
  DeployTypeOK /\ LastIsWanted /\ FormsAsked /\ ColumnsOK /\ ListOnce /\ ListTells /\ StatusesKnown

LEMMA InvImpliesDeploy == ASSUME DeployInv PROVE ColumnsFit /\ ButtonsTell
<1>1. ColumnsFit
  BY DEF DeployInv, ColumnsOK, ColumnsFit
<1>2. ASSUME Listed, causes = {}, \A i \in DOMAIN calls : ~OfMap(calls[i]), NEW r \in Rows
      PROVE  (buttons[r] = "stop") <=> (r \in running)
  <2>1. StatusKnown(r) /\ \A i \in DOMAIN calls : calls[i] \notin Told(r)
    BY <1>2 DEF DeployInv, StatusesKnown, Told
  <2>. QED BY <2>1 DEF StatusKnown, Known
<1>. QED BY <1>1, <1>2 DEF ButtonsTell

LEMMA ByIdIs == ASSUME NEW r \in Rows PROVE ById(r) \in Rows
<1>. DEFINE T == {q \in Rows : Id[q] = Id[r]}
<1>1. T \subseteq Nat /\ T # {}
  BY RowsAssumption DEF Rows
<1>2. PICK x \in T : \A y \in T : ~ (<<y, x>> \in OpToRel(<, Nat))
  <2>. HIDE DEF T
  <2>. QED BY <1>1, WFMin, NatLessThanWellFounded, Zenon
<1>3. ASSUME NEW y \in T PROVE x <= y
  <2>1. x \in Nat /\ y \in Nat
    BY <1>1
  <2>2. SUFFICES ASSUME y < x PROVE FALSE
    BY <2>1
  <2>3. <<y, x>> \in Nat \X Nat /\ <<y, x>>[1] = y /\ <<y, x>>[2] = x
    BY <2>1
  <2>4. <<y, x>> \in OpToRel(<, Nat)
    BY <2>2, <2>3, Zenon DEF OpToRel
  <2>. QED BY <1>2, <2>4
<1>4. \E q \in Rows : Id[q] = Id[r] /\ \A p \in Rows : Id[p] = Id[r] => q <= p
  BY <1>3
<1>. QED BY <1>4 DEF ById

LEMMA TypedCalls ==
  ASSUME DeployInv
  PROVE  calls \in Seq(Call) /\ Len(calls) \in Nat /\ DOMAIN calls = 1..Len(calls)
         /\ \A i \in DOMAIN calls : calls[i] \in Call
<1>1. calls \in Seq(Call)
  BY DEF DeployInv, DeployTypeOK
<1>. QED BY <1>1

\* A page that has just been opened, or left.
ClosedDeploy ==
  /\ view = "list" /\ form = None /\ columns = {} /\ buttons = [r \in Rows |-> "none"]
  /\ wanted = None /\ answered = FALSE /\ misfit = "no" /\ causes = {} /\ running \in SUBSET Rows
  /\ calls = << >> \/ calls = <<NewCall("list", None, 0)>>

LEMMA Closed_Deploy == ClosedDeploy => DeployInv
<1>. SUFFICES ASSUME ClosedDeploy PROVE DeployInv
  OBVIOUS
<1>. DEFINE first == NewCall("list", None, 0)
<1>1. /\ calls \in Seq(Call)
      /\ \A i \in DOMAIN calls : calls[i].op = "list" /\ calls[i].answer = "none" /\ i = 1
  <2>1. first \in Call /\ first.op = "list" /\ first.answer = "none"
    BY DEF Call, NewCall, Ops
  <2>. HIDE DEF first
  <2>2. CASE calls = << >>
    BY <2>2
  <2>3. CASE calls = <<first>>
    BY <2>1, <2>3
  <2>. QED BY <2>2, <2>3 DEF first, ClosedDeploy
<1>2. ~Listed
  BY DEF Listed, ClosedDeploy
<1>3. DeployTypeOK
  BY <1>1 DEF DeployTypeOK, Buttons, ClosedDeploy
<1>. QED
  BY <1>1, <1>2, <1>3 DEF DeployInv, LastIsWanted, LastIn, Schemas, FormsAsked, ColumnsOK, ListOnce,
     OfMap, ListTells, StatusesKnown, ClosedDeploy

\* A step that leaves the calls, the buttons, the status and their histories alone.
LEMMA Quiet_Deploy ==
  ASSUME DeployInv, UNCHANGED <<columns, buttons, calls, running, wanted, answered, misfit, causes>>,
         view' \in {"list", "first", "second"}, form' \in Forms \cup {None}
  PROVE  DeployInv'
  BY DEF DeployInv, DeployTypeOK, LastIsWanted, LastIn, FormsAsked, ColumnsOK, ListOnce, Listed,
     ListTells, StatusesKnown, StatusKnown, Known

\* A new call, which is not for the list; if it is for columns, they are the wanted ones.
LEMMA Asked ==
  ASSUME DeployInv, NEW c \in Call, c.answer = "none", c.op # "list", calls' = Append(calls, c),
         OfMap(c) => Listed /\ c.row \in Rows,
         UNCHANGED <<form, columns, buttons, running, causes>>,
         view' \in {"list", "first", "second"},
         \/ c.op # "schemas" /\ UNCHANGED <<wanted, answered, misfit>>
         \/ c.op = "schemas" /\ c.form \in Forms /\ wanted' = c.form /\ answered' = FALSE /\ misfit' = "no"
  PROVE  DeployInv'
<1>1. /\ calls \in Seq(Call) /\ Len(calls) \in Nat /\ DOMAIN calls = 1..Len(calls)
      /\ calls' \in Seq(Call) /\ Len(calls') = Len(calls) + 1
      /\ DOMAIN calls' = 1..(Len(calls) + 1) /\ calls'[Len(calls) + 1] = c
      /\ \A j \in 1..Len(calls) : calls'[j] = calls[j]
  BY TypedCalls
<1>2. DeployTypeOK'
  BY <1>1 DEF DeployInv, DeployTypeOK, Call
<1>3. LastIsWanted'
  <2>. SUFFICES ASSUME ~answered', NEW j \in DOMAIN calls', LastIn(calls', Schemas, j)
                PROVE  calls'[j].form = wanted'
    BY DEF LastIsWanted
  <2>1. IF c \in Schemas THEN j = Len(calls) + 1 ELSE j \in 1..Len(calls) /\ LastIn(calls, Schemas, j)
    BY <1>1, LastAfterAppend
  <2>. QED BY <1>1, <2>1 DEF DeployInv, LastIsWanted, Schemas
<1>4. ColumnsOK' /\ FormsAsked'
  BY <1>1 DEF DeployInv, ColumnsOK, FormsAsked
<1>5. Listed' = Listed
  BY DEF Listed
<1>6. ListOnce'
  BY <1>1, <1>5 DEF DeployInv, ListOnce, OfMap
<1>7. ListTells'
  BY <1>1 DEF DeployInv, ListTells
<1>8. StatusesKnown'
  <2>. SUFFICES ASSUME Listed, causes = {}, NEW r \in Rows PROVE StatusKnown(r)'
    BY <1>5 DEF StatusesKnown
  <2>1. StatusKnown(r)
    BY DEF DeployInv, StatusesKnown
  <2>2. c \notin Told(r) /\ Told(r)' = Told(r)
    BY DEF Told, OfMap, ById
  <2>3. ASSUME NEW j \in DOMAIN calls', LastIn(calls', Told(r), j)
        PROVE  (calls'[j].op = "start") <=> (r \in running)
    <3>1. j \in 1..Len(calls) /\ LastIn(calls, Told(r), j)
      BY <1>1, <2>2, <2>3, LastAfterAppend
    <3>. QED BY <1>1, <2>1, <3>1 DEF StatusKnown, Known
  <2>4. (\A j \in DOMAIN calls' : calls'[j] \notin Told(r)) => \A j \in DOMAIN calls : calls[j] \notin Told(r)
    BY <1>1
  <2>. QED BY <2>1, <2>2, <2>3, <2>4 DEF StatusKnown, Known
<1>. QED BY <1>2, <1>3, <1>4, <1>6, <1>7, <1>8 DEF DeployInv

LEMMA Removed ==
  ASSUME DeployInv, NEW i \in DOMAIN calls
  PROVE  /\ RemoveAt(calls, i) \in Seq(Call) /\ Len(RemoveAt(calls, i)) = Len(calls) - 1
         /\ DOMAIN RemoveAt(calls, i) = 1..(Len(calls) - 1)
         /\ \A j \in DOMAIN RemoveAt(calls, i) :
               \E k \in DOMAIN calls : k # i /\ RemoveAt(calls, i)[j] = calls[k]
         /\ \A k \in DOMAIN calls :
               k # i => \E j \in DOMAIN RemoveAt(calls, i) : RemoveAt(calls, i)[j] = calls[k]
<1>. DEFINE t == RemoveAt(calls, i)
<1>1. calls \in Seq(Call) /\ Len(calls) \in Nat /\ DOMAIN calls = 1..Len(calls) /\ i \in 1..Len(calls)
  BY TypedCalls
<1>2. /\ t \in Seq(Call) /\ Len(t) = Len(calls) - 1
      /\ \A j \in 1..(Len(calls) - 1) : t[j] = IF j < i THEN calls[j] ELSE calls[j + 1]
  BY <1>1, RemoveAtIs
<1>. HIDE DEF t
<1>3. DOMAIN t = 1..(Len(calls) - 1)
  BY <1>2
<1>4. ASSUME NEW j \in DOMAIN t PROVE \E k \in DOMAIN calls : k # i /\ t[j] = calls[k]
  <2>1. CASE j < i
    BY <1>1, <1>2, <1>3, <2>1
  <2>2. CASE ~(j < i)
    <3>1. j + 1 \in DOMAIN calls /\ j + 1 # i /\ t[j] = calls[j + 1]
      BY <1>1, <1>2, <1>3, <2>2
    <3>. QED BY <3>1
  <2>. QED BY <2>1, <2>2
<1>5. ASSUME NEW k \in DOMAIN calls, k # i PROVE \E j \in DOMAIN t : t[j] = calls[k]
  <2>1. CASE k < i
    <3>1. k \in DOMAIN t /\ t[k] = calls[k]
      BY <1>1, <1>2, <1>3, <2>1
    <3>. QED BY <3>1
  <2>2. CASE ~(k < i)
    <3>1. k - 1 \in DOMAIN t /\ ~(k - 1 < i) /\ (k - 1) + 1 = k
      BY <1>1, <1>3, <1>5, <2>2
    <3>2. t[k - 1] = calls[k]
      BY <1>2, <1>3, <3>1
    <3>. QED BY <3>1, <3>2
  <2>. QED BY <2>1, <2>2
<1>. QED BY <1>2, <1>3, <1>4, <1>5 DEF t

\* A call that has not changed the status of a map is not missed.
LEMMA KnownRemoved ==
  ASSUME DeployInv, NEW i \in DOMAIN calls, NEW r, NEW b, NEW on,
         calls[i] \notin Told(r), Known(calls, r, b, on)
  PROVE  Known(RemoveAt(calls, i), r, b, on)
<1>. DEFINE t == RemoveAt(calls, i)
<1>1. (\A j \in DOMAIN t : t[j] \notin Told(r)) => \A k \in DOMAIN calls : calls[k] \notin Told(r)
  BY Removed
<1>2. ASSUME NEW j \in DOMAIN t, LastIn(t, Told(r), j) PROVE (t[j].op = "start") <=> (r \in on)
  <2>1. ~LastIn(calls, Told(r), i) /\ calls \in Seq(Call) /\ j \in 1..(Len(calls) - 1)
    BY TypedCalls, Removed DEF LastIn
  <2>2. PICK k \in DOMAIN calls : LastIn(calls, Told(r), k) /\ calls[k] = t[j]
    BY <1>2, <2>1, LastAfterRemoval
  <2>. QED BY <2>2 DEF Known
<1>. QED BY <1>1, <1>2 DEF Known

LEMMA KnownAppended ==
  ASSUME NEW s \in Seq(Call), NEW e \in Call, NEW r, NEW b, NEW on,
         e \notin Told(r), Known(s, r, b, on)
  PROVE  Known(Append(s, e), r, b, on)
<1>. DEFINE t == Append(s, e)
<1>1. /\ Len(s) \in Nat /\ DOMAIN s = 1..Len(s) /\ DOMAIN t = 1..(Len(s) + 1)
      /\ \A n \in 1..Len(s) : t[n] = s[n]
  OBVIOUS
<1>2. (\A j \in DOMAIN t : t[j] \notin Told(r)) => \A k \in DOMAIN s : s[k] \notin Told(r)
  BY <1>1
<1>3. ASSUME NEW j \in DOMAIN t, LastIn(t, Told(r), j) PROVE (t[j].op = "start") <=> (r \in on)
  <2>1. j \in 1..Len(s) /\ LastIn(s, Told(r), j)
    BY <1>1, <1>3, LastAfterAppend
  <2>. QED BY <1>1, <2>1 DEF Known
<1>. QED BY <1>2, <1>3 DEF Known

\* The last call for columns outstanding, when a call is gone.
LEMMA LastColumns ==
  ASSUME DeployInv, NEW i \in DOMAIN calls, ~answered, ~LastIn(calls, Schemas, i),
         NEW j \in DOMAIN RemoveAt(calls, i), LastIn(RemoveAt(calls, i), Schemas, j)
  PROVE  RemoveAt(calls, i)[j].form = wanted
<1>1. calls \in Seq(Call) /\ j \in 1..(Len(calls) - 1)
  BY TypedCalls, Removed
<1>2. PICK k \in DOMAIN calls : LastIn(calls, Schemas, k) /\ calls[k] = RemoveAt(calls, i)[j]
  BY <1>1, LastAfterRemoval
<1>. QED BY <1>2 DEF DeployInv, LastIsWanted

LEMMA ServeMap_Deploy == ASSUME DeployInv, NEW i \in DOMAIN calls, ServeMap(i) PROVE DeployInv'
<1>. DEFINE t == RemoveAt(calls, i)
            q == ById(calls[i].row)
<1>1. PICK done \in BOOLEAN, answer \in {"yes", "no"} :
        /\ answer = "yes" => done
        /\ running' = IF done THEN Performed(calls[i]) ELSE running
        /\ calls' = Append(t, [calls[i] EXCEPT !.answer = answer])
        /\ causes' = IF done /\ answer = "no" THEN causes \cup {"lost"} ELSE causes
  BY DEF ServeMap
<1>. DEFINE e == [calls[i] EXCEPT !.answer = answer]
<1>2. /\ calls[i] \in Call /\ OfMap(calls[i]) /\ calls[i].answer = "none"
      /\ UNCHANGED <<view, form, columns, buttons, wanted, answered, misfit>>
  BY TypedCalls DEF ServeMap
<1>3. /\ e \in Call /\ e.op = calls[i].op /\ e.row = calls[i].row /\ e.answer = answer
      /\ OfMap(e) /\ e \notin Schemas
  BY <1>2 DEF Call, OfMap, Schemas
<1>4. Listed /\ calls[i].row \in Rows /\ q \in Rows
  BY <1>2, ByIdIs DEF DeployInv, ListOnce
<1>. HIDE DEF t, e, q
<1>5. /\ t \in Seq(Call) /\ calls' = Append(t, e) /\ Len(t) \in Nat /\ DOMAIN t = 1..Len(t)
      /\ calls' \in Seq(Call) /\ DOMAIN calls' = 1..(Len(t) + 1) /\ calls'[Len(t) + 1] = e
      /\ \A j \in 1..Len(t) : calls'[j] = t[j]
      /\ \A j \in DOMAIN t : \E k \in DOMAIN calls : t[j] = calls[k]
  <2>1. t \in Seq(Call) /\ \A j \in DOMAIN t : \E k \in DOMAIN calls : t[j] = calls[k]
    BY Removed DEF t
  <2>2. calls' = Append(t, e)
    BY <1>1 DEF e
  <2>. QED BY <1>3, <2>1, <2>2
<1>6. running' \in SUBSET Rows /\ causes' \in SUBSET {"other row", "overtaken", "lost", "elsewhere"}
  BY <1>1, <1>4 DEF Performed, DeployInv, DeployTypeOK, q
<1>7. DeployTypeOK'
  BY <1>2, <1>5, <1>6 DEF DeployInv, DeployTypeOK
<1>8. LastIsWanted'
  <2>. SUFFICES ASSUME ~answered, NEW j \in DOMAIN calls', LastIn(calls', Schemas, j)
                PROVE  calls'[j].form = wanted
    BY <1>2 DEF LastIsWanted
  <2>1. j \in 1..Len(t) /\ LastIn(t, Schemas, j)
    BY <1>3, <1>5, LastAfterAppend
  <2>2. ~LastIn(calls, Schemas, i)
    BY <1>2 DEF LastIn, Schemas, OfMap
  <2>3. t[j].form = wanted
    BY <1>5, <2>1, <2>2, LastColumns DEF t
  <2>. QED BY <1>5, <2>1, <2>3
<1>9. ColumnsOK' /\ FormsAsked'
  <2>1. e.op # "schemas" /\ \A j \in DOMAIN t : t[j].op = "schemas" => t[j].form \in Forms
    BY <1>3, <1>5 DEF DeployInv, FormsAsked, OfMap
  <2>. QED BY <1>2, <1>5, <2>1 DEF DeployInv, ColumnsOK, FormsAsked
<1>10. Listed' = Listed
  BY <1>2 DEF Listed
<1>11. \A j \in DOMAIN calls' : calls'[j].op # "list" /\ (OfMap(calls'[j]) => calls'[j].row \in Rows)
  <2>1. \A k \in DOMAIN calls : calls[k].op # "list" /\ (OfMap(calls[k]) => calls[k].row \in Rows)
    BY <1>4 DEF DeployInv, ListOnce
  <2>2. e.op # "list" /\ e.row \in Rows
    BY <1>2, <1>3, <1>4 DEF OfMap
  <2>. QED BY <1>5, <2>1, <2>2
<1>12. ListOnce' /\ ListTells'
  BY <1>2, <1>4, <1>10, <1>11 DEF DeployInv, ListOnce, ListTells, OfMap
<1>13. StatusesKnown'
  <2>. SUFFICES ASSUME causes' = {}, NEW r \in Rows
                PROVE  Known(calls', r, buttons[r], running')
    BY <1>2 DEF StatusesKnown, StatusKnown, Known, Told, OfMap, ById, LastIn
  <2>1. causes = {} /\ (done <=> answer = "yes")
    BY <1>1
  <2>2. Known(calls, r, buttons[r], running)
    BY <1>4, <2>1 DEF DeployInv, StatusesKnown, StatusKnown
  <2>3. Known(t, r, buttons[r], running)
    <3>1. calls[i] \notin Told(r)
      BY <1>2 DEF Told
    <3>. QED BY <2>2, <3>1, KnownRemoved DEF t
  <2>4. CASE answer = "yes" /\ q = r
    <3>1. e \in Told(r)
      BY <1>3, <2>4 DEF Told, q
    <3>2. (e.op = "start") <=> (r \in running')
      BY <1>1, <1>2, <1>3, <2>1, <2>4 DEF Performed, OfMap, q
    <3>3. ASSUME NEW j \in DOMAIN calls', LastIn(calls', Told(r), j)
          PROVE  j = Len(t) + 1
      BY <1>3, <1>5, <3>1, <3>3, LastAfterAppend
    <3>4. ~ \A j \in DOMAIN calls' : calls'[j] \notin Told(r)
      BY <1>5, <3>1
    <3>. QED BY <1>5, <3>2, <3>3, <3>4 DEF Known
  <2>5. CASE ~(answer = "yes" /\ q = r)
    <3>1. e \notin Told(r)
      BY <1>3, <2>5 DEF Told, q
    <3>2. (r \in running') <=> (r \in running)
      BY <1>1, <2>1, <2>5 DEF Performed, q
    <3>3. Known(Append(t, e), r, buttons[r], running)
      BY <1>3, <1>5, <2>3, <3>1, KnownAppended
    <3>. QED BY <1>5, <3>2, <3>3 DEF Known
  <2>. QED BY <2>4, <2>5
<1>. QED BY <1>7, <1>8, <1>9, <1>12, <1>13 DEF DeployInv

\* An answer to a call that is not on a map.
LEMMA Serve_Deploy ==
  ASSUME DeployInv, NEW i \in DOMAIN calls, ServeList(i) \/ ServeForm(i)
  PROVE  DeployInv'
<1>1. PICK e \in Call :
        /\ calls' = [calls EXCEPT ![i] = e]
        /\ e.op = calls[i].op /\ e.form = calls[i].form /\ e.row = calls[i].row
        /\ ~OfMap(e) /\ ~OfMap(calls[i])
        /\ e.op = "list" => e.answer = "yes" /\ e.list = running
  <2>1. calls[i] \in Call
    BY TypedCalls
  <2>2. CASE ServeList(i)
    <3>. DEFINE e == [calls[i] EXCEPT !.answer = "yes", !.list = running]
    <3>1. e \in Call
      BY <2>1 DEF Call, DeployInv, DeployTypeOK
    <3>2. calls' = [calls EXCEPT ![i] = e]
      BY <2>2 DEF ServeList
    <3>3. e.op = calls[i].op /\ e.form = calls[i].form /\ e.row = calls[i].row
          /\ e.answer = "yes" /\ e.list = running
      BY <2>1 DEF Call
    <3>4. ~OfMap(e) /\ ~OfMap(calls[i])
      BY <2>2, <3>3 DEF OfMap, ServeList
    <3>. QED BY <3>1, <3>2, <3>3, <3>4
  <2>3. CASE ServeForm(i)
    <3>1. PICK answer \in {"yes", "no"} : calls' = [calls EXCEPT ![i].answer = answer]
      BY <2>3 DEF ServeForm
    <3>. DEFINE e == [calls[i] EXCEPT !.answer = answer]
    <3>2. e \in Call /\ calls' = [calls EXCEPT ![i] = e]
      BY <2>1, <3>1 DEF Call
    <3>3. e.op = calls[i].op /\ e.form = calls[i].form /\ e.row = calls[i].row
      BY <2>1 DEF Call
    <3>4. ~OfMap(e) /\ ~OfMap(calls[i]) /\ e.op # "list"
      BY <2>3, <3>3 DEF OfMap, ServeForm
    <3>. QED BY <3>2, <3>3, <3>4
  <2>. QED BY <2>2, <2>3
<1>2. UNCHANGED <<view, form, columns, buttons, running, wanted, answered, misfit, causes>>
  BY DEF ServeList, ServeForm
<1>3. /\ calls \in Seq(Call) /\ DOMAIN calls = 1..Len(calls) /\ calls' \in Seq(Call)
      /\ DOMAIN calls' = 1..Len(calls) /\ Len(calls') = Len(calls) /\ calls'[i] = e
      /\ \A j \in DOMAIN calls : j # i => calls'[j] = calls[j]
  BY <1>1, TypedCalls
<1>4. \A j \in DOMAIN calls : /\ calls'[j].op = calls[j].op /\ calls'[j].form = calls[j].form
                              /\ calls'[j].row = calls[j].row
                              /\ calls[j] \in Call /\ calls'[j] \in Call
  BY <1>1, <1>3, TypedCalls
<1>5. DeployTypeOK'
  BY <1>2, <1>3 DEF DeployInv, DeployTypeOK
<1>6. LastIsWanted' /\ ColumnsOK' /\ FormsAsked'
  BY <1>2, <1>3, <1>4 DEF DeployInv, LastIsWanted, LastIn, Schemas, ColumnsOK, FormsAsked
<1>7. Listed' = Listed
  BY <1>2 DEF Listed
<1>8. \A j \in DOMAIN calls : calls'[j].op = "list" => calls'[j].answer # "no"
  BY <1>1, <1>3 DEF DeployInv, ListOnce
<1>9. ListOnce'
  BY <1>2, <1>3, <1>4, <1>7, <1>8 DEF DeployInv, ListOnce, OfMap
<1>10. ListTells'
  BY <1>1, <1>2, <1>3 DEF DeployInv, ListTells
<1>11. ASSUME NEW r PROVE \A j \in DOMAIN calls : /\ calls'[j] \in Told(r) <=> calls[j] \in Told(r)
                                                  /\ calls[j] \in Told(r) => calls'[j] = calls[j]
  <2>1. calls[i] \notin Told(r) /\ e \notin Told(r)
    BY <1>1 DEF Told
  <2>. QED BY <1>3, <2>1
<1>12. StatusesKnown'
  <2>. SUFFICES ASSUME Listed, causes = {}, NEW r \in Rows
                PROVE  Known(calls', r, buttons[r], running)
    BY <1>2, <1>7 DEF StatusesKnown, StatusKnown, Known, Told, OfMap, ById, LastIn
  <2>1. Known(calls, r, buttons[r], running)
    BY DEF DeployInv, StatusesKnown, StatusKnown
  <2>2. \A j \in DOMAIN calls : LastIn(calls', Told(r), j) => LastIn(calls, Told(r), j)
    BY <1>3, <1>11 DEF LastIn
  <2>3. \A j \in DOMAIN calls : LastIn(calls', Told(r), j) => calls'[j] = calls[j]
    BY <1>11 DEF LastIn
  <2>. QED BY <1>3, <1>11, <2>1, <2>2, <2>3 DEF Known
<1>. QED BY <1>5, <1>6, <1>9, <1>10, <1>12 DEF DeployInv

LEMMA Elsewhere_Deploy == ASSUME DeployInv, NEW r \in Rows, Elsewhere(r) PROVE DeployInv'
<1>1. /\ UNCHANGED <<view, form, columns, buttons, calls, wanted, answered, misfit>>
      /\ running' \in SUBSET Rows
      /\ causes' \in SUBSET {"other row", "overtaken", "lost", "elsewhere"}
      /\ ListServed => causes' # {}
  BY DEF Elsewhere, DeployInv, DeployTypeOK
<1>2. StatusesKnown'
  BY <1>1 DEF StatusesKnown, ListServed, Listed
<1>3. ListTells'
  <2>. SUFFICES ASSUME NEW i \in DOMAIN calls, calls[i].op = "list", calls[i].answer = "yes"
                PROVE  causes' # {}
    BY <1>1 DEF ListTells
  <2>. QED BY <1>1 DEF ListServed
<1>. QED
  BY <1>1, <1>2, <1>3 DEF DeployInv, DeployTypeOK, LastIsWanted, LastIn, FormsAsked, ColumnsOK,
     ListOnce, Listed

\* What holds of the calls when one is gone.
LEMMA Gone ==
  ASSUME DeployInv, NEW i \in DOMAIN calls, calls' = RemoveAt(calls, i), running' = running,
         Listed \/ Listed' => \A r \in Rows : buttons'[r] # "none", Listed => Listed',
         Listed' => Listed \/ calls[i].op = "list", causes' = {} => causes = {}
  PROVE  calls' \in Seq(Call) /\ FormsAsked' /\ ListOnce' /\ ListTells'
<1>1. /\ calls' \in Seq(Call) /\ DOMAIN calls' = 1..(Len(calls) - 1)
      /\ Len(calls) \in Nat /\ DOMAIN calls = 1..Len(calls) /\ i \in 1..Len(calls)
      /\ \A j \in DOMAIN calls' : \E k \in DOMAIN calls : k # i /\ calls'[j] = calls[k]
  BY Removed, TypedCalls
<1>2. ListTells' /\ FormsAsked'
  BY <1>1 DEF DeployInv, ListTells, FormsAsked
<1>3. \A j \in DOMAIN calls' : calls'[j].op = "list" =>
        calls[i].op # "list" /\ ~Listed /\ calls'[j].answer # "no"
  BY <1>1 DEF DeployInv, ListOnce
<1>4. \A j, k \in DOMAIN calls' : calls'[j].op = "list" /\ calls'[k].op = "list" => j = k
  <2>. SUFFICES ASSUME NEW j \in DOMAIN calls', NEW k \in DOMAIN calls', calls'[j].op = "list",
                       calls'[k].op = "list"
                PROVE  j = k
    OBVIOUS
  <2>1. \A n \in 1..(Len(calls) - 1) : calls'[n] = IF n < i THEN calls[n] ELSE calls[n + 1]
    BY TypedCalls, RemoveAtIs
  <2>2. \E n \in DOMAIN calls : n = (IF j < i THEN j ELSE j + 1) /\ calls[n] = calls'[j]
    BY <1>1, <2>1
  <2>3. \E n \in DOMAIN calls : n = (IF k < i THEN k ELSE k + 1) /\ calls[n] = calls'[k]
    BY <1>1, <2>1
  <2>4. (IF j < i THEN j ELSE j + 1) = (IF k < i THEN k ELSE k + 1)
    BY <2>2, <2>3 DEF DeployInv, ListOnce
  <2>. QED BY <1>1, <2>4
<1>5. \A j \in DOMAIN calls' : OfMap(calls'[j]) => Listed /\ calls'[j].row \in Rows
  BY <1>1 DEF DeployInv, ListOnce
<1>6. ListOnce'
  BY <1>3, <1>4, <1>5 DEF ListOnce, OfMap
<1>. QED BY <1>1, <1>2, <1>6

LEMMA ShowList_Deploy == ASSUME DeployInv, NEW i \in DOMAIN calls, ShowList(i) PROVE DeployInv'
<1>1. /\ calls[i].op = "list" /\ calls[i].answer # "none" /\ calls' = RemoveAt(calls, i)
      /\ buttons' = [r \in Rows |-> IF r \in calls[i].list THEN "stop" ELSE "start"]
      /\ UNCHANGED <<view, form, columns, running, wanted, answered, misfit, causes>>
  BY DEF ShowList, Returns
<1>2. calls[i].answer = "yes" /\ ~Listed /\ \A j \in DOMAIN calls : ~OfMap(calls[j])
  BY <1>1, TypedCalls DEF DeployInv, ListOnce, Call
<1>3. \A r \in Rows : buttons'[r] # "none"
  BY <1>1
<1>4. Listed'
  BY <1>3, RowsAssumption DEF Listed, Rows
<1>5. calls' \in Seq(Call) /\ FormsAsked' /\ ListOnce' /\ ListTells'
  BY <1>1, <1>2, <1>3, <1>4, Gone
<1>6. DeployTypeOK'
  BY <1>1, <1>5 DEF DeployInv, DeployTypeOK, Buttons
<1>7. LastIsWanted'
  <2>1. ~LastIn(calls, Schemas, i)
    BY <1>1 DEF LastIn, Schemas
  <2>2. ASSUME ~answered, NEW j \in DOMAIN calls', LastIn(calls', Schemas, j)
        PROVE  calls'[j].form = wanted
    BY <1>1, <2>1, <2>2, LastColumns
  <2>. QED BY <1>1, <2>2 DEF LastIsWanted
<1>8. ColumnsOK'
  BY <1>1 DEF DeployInv, ColumnsOK
<1>9. StatusesKnown'
  <2>. SUFFICES ASSUME causes = {}, NEW r \in Rows PROVE Known(calls', r, buttons'[r], running)
    BY <1>1 DEF StatusesKnown, StatusKnown, Known, Told, OfMap, ById, LastIn
  <2>1. calls[i].list = running
    BY <1>1, <1>2 DEF DeployInv, ListTells
  <2>2. \A j \in DOMAIN calls' : calls'[j] \notin Told(r)
    BY <1>1, <1>2, Removed DEF Told
  <2>. QED BY <1>1, <2>1, <2>2 DEF Known, LastIn
<1>. QED BY <1>5, <1>6, <1>7, <1>8, <1>9 DEF DeployInv

\* The answers that leave the buttons alone.
LEMMA ShowForm_Deploy ==
  ASSUME DeployInv, NEW i \in DOMAIN calls, ShowColumns(i) \/ ShowAlert(i)
  PROVE  DeployInv'
<1>1. /\ calls[i].op \notin {"list", "start", "stop"} /\ calls' = RemoveAt(calls, i)
      /\ calls[i] \in Call /\ calls[i].answer \in {"yes", "no"}
      /\ UNCHANGED <<form, buttons, running, wanted, causes>>
  <2>1. calls[i] \in Call
    BY TypedCalls
  <2>2. calls[i].answer # "none"
    BY DEF ShowColumns, ShowAlert, Returns
  <2>. QED BY <2>1, <2>2 DEF ShowColumns, ShowAlert, Returns, Call
<1>2. Listed' = Listed
  BY <1>1 DEF Listed
<1>3. calls' \in Seq(Call) /\ FormsAsked' /\ ListOnce' /\ ListTells'
  <2>1. Listed => \A r \in Rows : buttons'[r] # "none"
    BY <1>1 DEF DeployInv, ListOnce
  <2>. QED BY <1>1, <1>2, <2>1, Gone
<1>4. StatusesKnown'
  <2>. SUFFICES ASSUME Listed, causes = {}, NEW r \in Rows
                PROVE  Known(calls', r, buttons[r], running)
    BY <1>1, <1>2 DEF StatusesKnown, StatusKnown, Known, Told, OfMap, ById, LastIn
  <2>1. Known(calls, r, buttons[r], running)
    BY DEF DeployInv, StatusesKnown, StatusKnown
  <2>2. calls[i] \notin Told(r)
    BY <1>1 DEF Told, OfMap
  <2>. QED BY <1>1, <2>1, <2>2, KnownRemoved
<1>5. CASE ShowAlert(i)
  <2>1. UNCHANGED <<view, columns, answered, misfit>> /\ ~LastIn(calls, Schemas, i)
    BY <1>5 DEF ShowAlert, Returns, LastIn, Schemas
  <2>2. ASSUME ~answered, NEW j \in DOMAIN calls', LastIn(calls', Schemas, j)
        PROVE  calls'[j].form = wanted
    BY <1>1, <2>1, <2>2, LastColumns
  <2>3. LastIsWanted' /\ ColumnsOK' /\ DeployTypeOK'
    BY <1>1, <1>3, <2>1, <2>2 DEF LastIsWanted, ColumnsOK, DeployInv, DeployTypeOK
  <2>. QED BY <1>3, <1>4, <2>3 DEF DeployInv
<1>6. CASE ShowColumns(i)
  <2>1. calls[i].op = "schemas" /\ calls[i] \in Schemas /\ calls[i].form \in Forms \cup {None}
    BY <1>1, <1>6 DEF ShowColumns, Returns, Schemas, Call
  <2>2. IsLast(i) <=> ~answered /\ LastIn(calls, Schemas, i)
    BY <2>1, TypedCalls DEF IsLast, LastIn, Schemas
  <2>3. LastIsWanted'
    <3>1. ASSUME ~answered', NEW j \in DOMAIN calls', LastIn(calls', Schemas, j)
          PROVE  calls'[j].form = wanted
      <4>1. ~answered /\ ~LastIn(calls, Schemas, i)
        BY <1>6, <2>2, <3>1 DEF ShowColumns
      <4>. QED BY <1>1, <3>1, <4>1, LastColumns
    <3>. QED BY <1>1, <3>1 DEF LastIsWanted
  <2>4. ColumnsOK'
    <3>. SUFFICES ASSUME answered', misfit' = "no" PROVE columns' = {wanted}
      BY <1>1 DEF ColumnsOK
    <3>1. CASE IsLast(i)
      <4>1. calls[i].answer = "yes" /\ calls[i].form = wanted
        BY <1>1, <1>6, <2>2, <3>1 DEF ShowColumns, DeployInv, LastIsWanted
      <4>. QED BY <1>6, <4>1 DEF ShowColumns, Filled
    <3>2. CASE ~IsLast(i)
      <4>1. answered /\ misfit = "no" /\ calls[i].answer = "no"
        BY <1>1, <1>6, <3>2 DEF ShowColumns
      <4>. QED BY <1>6, <4>1 DEF ShowColumns, DeployInv, ColumnsOK
    <3>. QED BY <3>1, <3>2
  <2>5. DeployTypeOK'
    <3>1. columns' \in SUBSET Forms
      <4>1. calls[i].form \in Forms
        BY <2>1 DEF DeployInv, FormsAsked
      <4>. QED BY <1>6, <4>1 DEF ShowColumns, Filled, DeployInv, DeployTypeOK
    <3>2. /\ view' \in {"list", "first", "second"} /\ answered' \in BOOLEAN
          /\ misfit' \in {"no", "refused", "overtaken"}
      BY <1>6 DEF ShowColumns, DeployInv, DeployTypeOK, IsLast
    <3>. QED BY <1>1, <1>3, <3>1, <3>2 DEF DeployInv, DeployTypeOK
  <2>. QED BY <1>3, <1>4, <2>3, <2>4, <2>5 DEF DeployInv
<1>. QED BY <1>5, <1>6

LEMMA ShowStartStop_Deploy ==
  ASSUME DeployInv, NEW i \in DOMAIN calls, ShowStartStop(i) PROVE DeployInv'
<1>. DEFINE c == calls[i]
<1>1. /\ OfMap(c) /\ c.answer \in {"yes", "no"} /\ c.op \in {"start", "stop"} /\ c \in Call
      /\ calls' = RemoveAt(calls, i) /\ buttons' = Toggled(c)
      /\ UNCHANGED <<view, form, columns, running, wanted, answered, misfit>>
  <2>1. c \in Call
    BY TypedCalls
  <2>. QED BY <2>1 DEF ShowStartStop, Returns, OfMap, Call
<1>2. Listed /\ (\A r \in Rows : buttons[r] # "none") /\ c.row \in Rows /\ 1 \in Rows
  BY <1>1, RowsAssumption DEF DeployInv, ListOnce, Rows
<1>3. causes' \in SUBSET {"other row", "overtaken", "lost", "elsewhere"} /\ causes \subseteq causes'
  BY DEF ShowStartStop, DeployInv, DeployTypeOK
<1>4. /\ buttons' \in [Rows -> Buttons] /\ \A r \in Rows : buttons'[r] # "none"
      /\ \A r \in Rows : r # 1 => buttons'[r] = buttons[r]
      /\ IF c.answer = "yes" THEN buttons'[1] = Other(c.op) ELSE buttons' = buttons
  <2>1. Other(c.op) \in {"start", "stop"} /\ buttons \in [Rows -> Buttons]
    BY DEF Other, DeployInv, DeployTypeOK
  <2>. QED BY <1>1, <1>2, <2>1 DEF Toggled, Buttons
<1>5. Listed'
  BY <1>2, <1>4 DEF Listed
<1>6. calls' \in Seq(Call) /\ FormsAsked' /\ ListOnce' /\ ListTells'
  BY <1>1, <1>2, <1>3, <1>4, <1>5, Gone
<1>7. DeployTypeOK'
  BY <1>1, <1>3, <1>4, <1>6 DEF DeployInv, DeployTypeOK
<1>8. ~LastIn(calls, Schemas, i)
  BY <1>1 DEF LastIn, Schemas, OfMap
<1>9. LastIsWanted'
  <2>1. ASSUME ~answered, NEW j \in DOMAIN calls', LastIn(calls', Schemas, j)
        PROVE  calls'[j].form = wanted
    BY <1>1, <1>8, <2>1, LastColumns
  <2>. QED BY <1>1, <2>1 DEF LastIsWanted
<1>10. ColumnsOK'
  BY <1>1 DEF DeployInv, ColumnsOK
<1>11. StatusesKnown'
  <2>. SUFFICES ASSUME causes' = {}, NEW r \in Rows PROVE Known(calls', r, buttons'[r], running)
    BY <1>1 DEF StatusesKnown, StatusKnown, Known, Told, OfMap, ById, LastIn
  <2>1. /\ causes = {} /\ (c.answer = "yes" => ById(c.row) = 1)
        /\ \A j \in 1..(i - 1) : ~(OfMap(calls[j]) /\ calls[j].answer # "none")
    BY DEF ShowStartStop, EarlierOfMap
  <2>2. Known(calls, r, buttons[r], running)
    BY <1>2, <2>1 DEF DeployInv, StatusesKnown, StatusKnown
  <2>3. CASE c \notin Told(r)
    <3>1. buttons'[r] = buttons[r]
      BY <1>1, <1>4, <2>1, <2>3 DEF Told
    <3>. QED BY <1>1, <2>2, <2>3, <3>1, KnownRemoved
  <2>4. CASE c \in Told(r)
    <3>1. r = 1 /\ buttons'[r] = Other(c.op)
      BY <1>4, <2>1, <2>4 DEF Told
    <3>2. ASSUME LastIn(calls, Told(r), i) PROVE \A j \in DOMAIN calls' : calls'[j] \notin Told(r)
      <4>. SUFFICES ASSUME NEW k \in DOMAIN calls, k # i PROVE calls[k] \notin Told(r)
        BY <1>1, Removed
      <4>1. CASE k < i
        BY <2>1, <4>1, TypedCalls DEF Told
      <4>2. CASE ~(k < i)
        BY <3>2, <4>2, TypedCalls DEF LastIn
      <4>. QED BY <4>1, <4>2
    <3>3. ASSUME LastIn(calls, Told(r), i) PROVE Known(calls', r, buttons'[r], running)
      <4>1. (c.op = "start") <=> (r \in running)
        BY <2>2, <3>3 DEF Known
      <4>. QED BY <1>1, <3>1, <3>2, <3>3, <4>1 DEF Known, LastIn, Other
    <3>4. ASSUME ~LastIn(calls, Told(r), i) PROVE Known(calls', r, buttons'[r], running)
      <4>1. calls \in Seq(Call) /\ DOMAIN calls' = 1..(Len(calls) - 1)
        BY <1>1, TypedCalls, Removed
      <4>2. ASSUME NEW j \in DOMAIN calls', LastIn(calls', Told(r), j)
            PROVE  (calls'[j].op = "start") <=> (r \in running)
        <5>1. PICK k \in DOMAIN calls : LastIn(calls, Told(r), k) /\ calls[k] = calls'[j]
          BY <1>1, <3>4, <4>1, <4>2, LastAfterRemoval
        <5>. QED BY <2>2, <5>1 DEF Known
      <4>3. PICK m \in (i + 1)..Len(calls) : calls[m] \in Told(r)
        BY <2>4, <3>4 DEF LastIn
      <4>4. \E j \in DOMAIN calls' : calls'[j] = calls[m]
        <5>1. m \in DOMAIN calls /\ m # i
          BY <4>3, TypedCalls
        <5>. QED BY <1>1, <5>1, Removed
      <4>. QED BY <4>2, <4>3, <4>4 DEF Known
    <3>. QED BY <3>3, <3>4
  <2>. QED BY <2>3, <2>4
<1>. QED BY <1>6, <1>7, <1>9, <1>10, <1>11 DEF DeployInv

LEMMA Ask_Deploy ==
  ASSUME DeployInv, TestDB \/ NextStep \/ Submit("add") \/ Submit("addLogmnr")
                    \/ \E r \in Rows : StartStop(r)
  PROVE  DeployInv'
<1>1. /\ form \in Forms \cup {None} /\ columns \in SUBSET Forms /\ view \in {"list", "first", "second"}
      /\ buttons \in [Rows -> Buttons]
  BY DEF DeployInv, DeployTypeOK
<1>2. CASE TestDB
  <2>1. NewCall("test", form, 0) \in Call /\ NewCall("test", form, 0).op = "test"
        /\ NewCall("test", form, 0).answer = "none"
    BY <1>1 DEF NewCall, Call, Ops
  <2>. QED BY <1>1, <1>2, <2>1, Asked DEF TestDB, Ask, OfMap
<1>3. CASE NextStep
  <2>1. CASE form = None
    BY <1>1, <1>3, <2>1, Quiet_Deploy DEF NextStep
  <2>2. CASE form # None
    <3>. DEFINE c == NewCall("schemas", form, 0)
    <3>1. c \in Call /\ c.op = "schemas" /\ c.answer = "none" /\ c.form = form /\ form \in Forms
      BY <1>1, <2>2 DEF NewCall, Call, Ops
    <3>2. /\ calls' = Append(calls, c) /\ wanted' = form /\ answered' = FALSE /\ misfit' = "no"
          /\ view' = "second" /\ UNCHANGED <<form, columns, buttons, running, causes>>
      BY <1>3, <2>2 DEF NextStep, Ask
    <3>. HIDE DEF c
    <3>. QED BY <3>1, <3>2, Asked DEF OfMap
  <2>. QED BY <2>1, <2>2
<1>4. ASSUME NEW op \in {"add", "addLogmnr"}, Submit(op) PROVE DeployInv'
  <2>. DEFINE c == [NewCall(op, form, 0) EXCEPT !.columns = columns]
  <2>1. c \in Call /\ c.op = op /\ c.answer = "none"
    BY <1>1 DEF NewCall, Call, Ops
  <2>2. /\ calls' = Append(calls, c)
        /\ UNCHANGED <<view, form, columns, buttons, running, wanted, answered, misfit, causes>>
    BY <1>4 DEF Submit, Ask
  <2>. HIDE DEF c
  <2>. QED BY <1>1, <2>1, <2>2, Asked DEF OfMap
<1>5. ASSUME NEW r \in Rows, StartStop(r) PROVE DeployInv'
  <2>. DEFINE c == NewCall(buttons[r], None, r)
  <2>1. Listed /\ buttons[r] \in {"start", "stop"}
    BY <1>1, <1>5 DEF StartStop, Listed, Buttons
  <2>2. c \in Call /\ c.op = buttons[r] /\ c.answer = "none" /\ c.row = r
    BY <2>1 DEF NewCall, Call, Ops
  <2>3. /\ calls' = Append(calls, c)
        /\ UNCHANGED <<view, form, columns, buttons, running, wanted, answered, misfit, causes>>
    BY <1>5 DEF StartStop, Ask
  <2>. HIDE DEF c
  <2>. QED BY <1>1, <2>1, <2>2, <2>3, Asked DEF OfMap
<1>. QED BY <1>2, <1>3, <1>4, <1>5

LEMMA Deploy_DeployInv == ASSUME DeployInv, Deploy PROVE DeployInv'
<1>1. CASE NewMap \/ PrevStep \/ \E f \in Forms \cup {None} : FillIn(f)
  <2>1. view' \in {"list", "first", "second"} /\ form' \in Forms \cup {None}
        /\ UNCHANGED <<columns, buttons, calls, running, wanted, answered, misfit, causes>>
    BY <1>1 DEF NewMap, PrevStep, FillIn, DeployInv, DeployTypeOK
  <2>. QED BY <2>1, Quiet_Deploy
<1>2. CASE DeployServer
  BY <1>2, ServeMap_Deploy, Serve_Deploy DEF DeployServer
<1>3. CASE DeployCallbacks
  BY <1>3, ShowList_Deploy, ShowStartStop_Deploy, ShowForm_Deploy DEF DeployCallbacks
<1>4. CASE DeployScript \/ LogmnrScript
  BY <1>4, Ask_Deploy DEF DeployScript, LogmnrScript, SynSet, LogmnrTestDB, LogmnrNextStep,
     LogmnrSynSet, LogmnrStartStop
<1>5. CASE \E r \in Rows : Elsewhere(r)
  BY <1>5, Elsewhere_Deploy
<1>. QED BY <1>1, <1>2, <1>3, <1>4, <1>5 DEF Deploy, DeployCommon

------------------------------------------------------------------------------
(* The console.                                                            *)

Inv ==
  /\ DeployInv /\ ChartInv
  /\ page \in Pages /\ waiting \in BOOLEAN /\ cells \in SUBSET Cells

LEMMA Open_Inv == ASSUME Inv, NEW p \in Pages, Open(p) PROVE Inv'
<1>1. ClosedDeploy'
  <2>1. running \in SUBSET Rows
    BY DEF Inv, DeployInv, DeployTypeOK
  <2>. QED BY <2>1 DEF Open, OpenDeploy, LeaveDeploy, ClosedDeploy, NewCall
<1>2. ClosedChart'
  BY DEF Open, OpenChart, LeaveChart, ClosedChart
<1>3. (ClosedDeploy => DeployInv)' /\ (ClosedChart => ChartInv)'
  BY Closed_Deploy, Closed_Chart, PTL
<1>4. page' \in Pages /\ waiting' \in BOOLEAN /\ cells' \in SUBSET Cells
  BY DEF Open, OpenTuopu
<1>. QED BY <1>1, <1>2, <1>3, <1>4 DEF Inv

LEMMA Deploy_Unchanged == ASSUME DeployInv, UNCHANGED deployVars PROVE DeployInv'
  BY Quiet_Deploy DEF deployVars, DeployInv, DeployTypeOK

LEMMA Chart_Unchanged == ASSUME ChartInv, UNCHANGED chartVars PROVE ChartInv'
  BY DEF chartVars, ChartInv, ChartTypeOK, DayIsPicked, LabelsFit, ChartsAreOfLast, VisibleIsCurrent,
     Numbered, InitIsFirst, Opening, LastIsAsked, NoLater, QueriesOK

LEMMA Init_Inv == ASSUME Init PROVE Inv
<1>1. ClosedDeploy
  BY DEF Init, DeployInit, ClosedDeploy
<1>2. ClosedChart
  BY DEF Init, ChartInit, ClosedChart
<1>. QED BY <1>1, <1>2, Closed_Deploy, Closed_Chart DEF Init, Inv, Pages

LEMMA Next_Inv == ASSUME Inv, [Next]_vars PROVE Inv'
<1>1. CASE Menu
  <2>1. PICK p \in Pages : Open(p)
    BY <1>1 DEF Menu, OpenRizhi, OpenYinqing, OpenWangluo, Pages
  <2>. QED BY <2>1, Open_Inv
<1>2. CASE ShowClients
  <2>1. UNCHANGED deployVars /\ UNCHANGED chartVars /\ page' = page /\ waiting' = FALSE
        /\ cells' \in SUBSET Cells
    BY <1>2 DEF ShowClients, CellsFor
  <2>. QED BY <2>1, Deploy_Unchanged, Chart_Unchanged DEF Inv
<1>3. CASE Deploy
  <2>1. UNCHANGED chartVars /\ UNCHANGED consoleVars
    BY <1>3 DEF Deploy
  <2>2. DeployInv' /\ ChartInv'
    BY <1>3, <2>1, Deploy_DeployInv, Chart_Unchanged DEF Inv
  <2>. QED BY <2>1, <2>2 DEF Inv, consoleVars
<1>4. CASE Chart
  <2>1. UNCHANGED deployVars /\ UNCHANGED consoleVars
    BY <1>4 DEF Chart
  <2>2. DeployInv' /\ ChartInv'
    BY <1>4, <2>1, Chart_ChartInv, Deploy_Unchanged DEF Inv, Chart
  <2>. QED BY <2>1, <2>2 DEF Inv, consoleVars
<1>5. CASE UNCHANGED vars
  <2>1. UNCHANGED deployVars /\ UNCHANGED chartVars /\ UNCHANGED consoleVars
    BY <1>5 DEF vars
  <2>. QED BY <2>1, Deploy_Unchanged, Chart_Unchanged DEF Inv, consoleVars
<1>. QED BY <1>1, <1>2, <1>3, <1>4, <1>5 DEF Next

LEMMA Invariance == Spec => []Inv
  BY Init_Inv, Next_Inv, PTL DEF Spec

\* Every variable of the pages keeps its type; a node beyond the sixth has no cell.
THEOREM ConsoleTypes == Spec => []TypeOK
<1>1. Inv => TypeOK
  BY DEF Inv, TypeOK, DeployInv, ChartInv
<1>. QED BY <1>1, Invariance, PTL

\* What is sent for a new map fits together: form and columns are of the same tables.
THEOREM ColumnsAlwaysFit == Spec => []ColumnsFit
<1>1. Inv => ColumnsFit
  BY InvImpliesDeploy DEF Inv
<1>. QED BY <1>1, Invariance, PTL

\* The buttons of the list tell which maps run.
THEOREM ButtonsAlwaysTell == Spec => []ButtonsTell
<1>1. Inv => ButtonsTell
  BY InvImpliesDeploy DEF Inv
<1>. QED BY <1>1, Invariance, PTL

\* The day that is asked for is the one the field shows, or the same of the next month.
THEOREM DayIsAlwaysPicked == Spec => []DayIsPicked
<1>1. Inv => DayIsPicked
  BY DEF Inv, ChartInv
<1>. QED BY <1>1, Invariance, PTL

\* A line has as many points as there are labels under it.
THEOREM LabelsAlwaysFit == Spec => []LabelsFit
<1>1. Inv => LabelsFit
  BY DEF Inv, ChartInv
<1>. QED BY <1>1, Invariance, PTL

\* The charts are of the query that was made last.
THEOREM ChartsAlwaysOfLast == Spec => []ChartsAreOfLast
<1>1. Inv => ChartsAreOfLast
  BY DEF Inv, ChartInv
<1>. QED BY <1>1, Invariance, PTL

\* What is seen is what the script holds.
THEOREM VisibleAlwaysCurrent == Spec => []VisibleIsCurrent
<1>1. Inv => VisibleIsCurrent
  BY DEF Inv, ChartInv
<1>. QED BY <1>1, Invariance, PTL
================================================================================
