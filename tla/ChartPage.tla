------------------------------- MODULE ChartPage -------------------------------
(***************************************************************************)
(* The page jiankong.jsp of the console: a line chart and a bar chart of    *)
(* the records of one table map, on a day or over the week before it.       *)
(*                                                                         *)
(* The numbers of a chart are named by the query they answer.  A chart is   *)
(* drawn on a canvas as wide as its panel, which is nothing while the panel *)
(* is hidden.                                                               *)
(***************************************************************************)
EXTENDS Naturals, SequencesExt

CONSTANTS
  Days,       \* days that are picked: <<year, month, day>>
  Today,      \* the day the page is opened
  MaxMap,     \* table maps there are
  MaxQueries  \* bound: queries without answer

Months == 1..12
Years == Nat

Leap(y) == y % 4 = 0 /\ (y % 100 # 0 \/ y % 400 = 0)

DaysIn(y, m) ==
  CASE m = 2 -> IF Leap(y) THEN 29 ELSE 28
    [] m \in {4, 6, 9, 11} -> 30
    [] OTHER -> 31

Date == {d \in Years \X Months \X (1..31) : d[3] <= DaysIn(d[1], d[2])}

ASSUME DaysAssumption == Today \in Date /\ \A d \in Days : d \in Date
ASSUME MapsAssumption == MaxMap \in Nat

VARIABLES
  options,    \* maps in map_select
  chosen,     \* the map selected, 0 for none
  mode,       \* dayOrWeek: "0", a day, or "1", a week
  day,        \* selectDay
  shown,      \* the day the input field shows
  tab,        \* the panel that is visible
  line, bar,  \* lineChartData, barChartData
  canvas,     \* what is drawn on each canvas
  queries,    \* calls without answer
  asked,      \* history: the last query
  current,    \* history: the last query is without answer, shown, or answered by null
  overtaken   \* history: an earlier query was answered after it

chartVars == <<options, chosen, mode, day, shown, tab, line, bar, canvas, queries, asked, current,
               overtaken>>

Maps == 1..MaxMap

Tabs == {"line", "bar"}
Modes == {"0", "1"}
Query == [map: Maps, day: Date, mode: Modes]

Sample == [map |-> 0, day |-> Today, mode |-> "0"] \* the numbers in the script itself
Empty == [map |-> 0, day |-> Today, mode |-> "1"]  \* no numbers
Blank == [map |-> 0, day |-> <<0, 0, 0>>, mode |-> "0"] \* nothing drawn
First == [map |-> 1, day |-> Today, mode |-> "0"]  \* what initGetMapData asks getMapData for

Numbers == Query \cup {Sample, Empty}
LineData == [of: Numbers, labels: {7, 24}, points: {0, 7, 24}]
Pending == [op: {"init", "data"}, query: Query \cup {Sample}]

ChartTypeOK ==
  /\ options \in 0..MaxMap
  /\ chosen \in 0..options
  /\ mode \in Modes
  /\ day \in Date /\ shown \in Date
  /\ tab \in Tabs
  /\ line \in LineData /\ bar \in Numbers
  /\ canvas \in [Tabs -> Numbers \cup {Blank}]
  /\ queries \in Seq(Pending)
  /\ asked \in Query \cup {Sample}
  /\ current \in {"waiting", "shown", "null"} /\ overtaken \in BOOLEAN

------------------------------------------------------------------------------
(* The day: selectDay.setFullYear, setMonth, setDate one after another.     *)

\* Of a JavaScript Date: a day beyond the end of its month is one of the next.
Normal(y, m, d) ==
  IF d <= DaysIn(y, m) THEN <<y, m, d>> ELSE <<y, m + 1, d - DaysIn(y, m)>>

SetFullYear(t, y) == Normal(y, t[2], t[3])
SetMonth(t, m) == Normal(t[1], m, t[3])
SetDate(t, d) == Normal(t[1], t[2], d)

\* Variant: the date is set first.
DateFirst(t, p) == SetMonth(SetFullYear(SetDate(t, p[3]), p[1]), p[2])

SetDay(t, p) == SetDate(SetMonth(SetFullYear(t, p[1]), p[2]), p[3])

Pick(p) ==
  /\ day' = SetDay(day, p)
  /\ shown' = p
  /\ UNCHANGED <<options, chosen, mode, tab, line, bar, canvas, queries, asked, current, overtaken>>

------------------------------------------------------------------------------
(* Drawing.                                                                *)

\* drawLine, drawBar: on a canvas of no width nothing is seen.
Drawn(t, numbers) == IF tab = t THEN numbers ELSE Blank

Numbered(t) == IF t = "line" THEN line.of ELSE bar

\* qushishow, cuowushow
Show(t) ==
  /\ tab' = t
  /\ canvas' = [canvas EXCEPT ![t] = Numbered(t)]
  /\ UNCHANGED <<options, chosen, mode, day, shown, line, bar, queries, asked, current, overtaken>>

------------------------------------------------------------------------------
(* Queries.                                                                *)

OpenChart ==
  /\ options' = 0 /\ chosen' = 0 /\ mode' = "0" /\ day' = Today /\ shown' = Today /\ tab' = "line"
  /\ line' = [of |-> Sample, labels |-> 24, points |-> 24] /\ bar' = Sample
  /\ canvas' = [t \in Tabs |-> Blank]
  /\ queries' = <<[op |-> "init", query |-> Sample]>>
  /\ asked' = Sample /\ current' = "waiting" /\ overtaken' = FALSE

LeaveChart ==
  /\ options' = 0 /\ chosen' = 0 /\ mode' = "0" /\ day' = Today /\ shown' = Today /\ tab' = "line"
  /\ line' = [of |-> Sample, labels |-> 24, points |-> 24] /\ bar' = Sample
  /\ canvas' = [t \in Tabs |-> Blank]
  /\ queries' = << >>
  /\ asked' = Sample /\ current' = "waiting" /\ overtaken' = FALSE

ChooseMap(q) ==
  /\ q \in 1..options /\ chosen' = q
  /\ UNCHANGED <<options, mode, day, shown, tab, line, bar, canvas, queries, asked, current,
                 overtaken>>

ChooseMode(w) ==
  /\ mode' = w
  /\ UNCHANGED <<options, chosen, day, shown, tab, line, bar, canvas, queries, asked, current,
                 overtaken>>

\* getMapData: the query is the callback's own; nothing is asked without a map.
GetMapData ==
  /\ chosen # 0
  /\ Len(queries) < MaxQueries
  /\ asked' = [map |-> chosen, day |-> day, mode |-> mode]
  /\ queries' = Append(queries, [op |-> "data", query |-> asked'])
  /\ current' = "waiting" /\ overtaken' = FALSE
  /\ UNCHANGED <<options, chosen, mode, day, shown, tab, line, bar, canvas>>

\* TableMapService.getMapData: an hour is a point, or a day of a week.
Points(q) == IF q.mode = "0" THEN 24 ELSE 7

Labels(q) == IF q.mode = "0" THEN 24 ELSE 7

\* Variant: drawBar is forgotten, as initJianKong's callback forgets it.
LineOnly(q) == [canvas EXCEPT !["line"] = Drawn("line", q)]

Redrawn(q) == [t \in Tabs |-> Drawn(t, q)]

\* Variant: only the line chart takes the week's numbers.
DayBar(q) == IF q.mode = "0" THEN q ELSE bar

BarOf(q) == q

LastQuery(i) == current = "waiting" /\ \A j \in (i + 1)..Len(queries) : queries[j].op # "data"

\* getMapData's callback; no answer of the node is null.
ShowData(i) ==
  /\ queries[i].op = "data"
  /\ LET q == queries[i].query IN
       /\ line' = [of |-> q, labels |-> Labels(q), points |-> Points(q)]
       /\ bar' = BarOf(q)
       /\ canvas' = Redrawn(q)
  /\ queries' = RemoveAt(queries, i)
  /\ current' = IF LastQuery(i) THEN "shown" ELSE current
  /\ overtaken' = (overtaken \/ current # "waiting")
  /\ UNCHANGED <<options, chosen, mode, day, shown, tab, asked>>

NoData(i) ==
  /\ queries[i].op = "data"
  /\ queries' = RemoveAt(queries, i)
  /\ current' = IF LastQuery(i) THEN "null" ELSE current
  /\ UNCHANGED <<options, chosen, mode, day, shown, tab, line, bar, canvas, asked, overtaken>>

\* initJianKong's callback, by the number of maps the answer has: none is null, and
\* nothing happens.
ShowInit(i) ==
  /\ queries[i].op = "init"
  /\ options' = MaxMap /\ chosen' = IF MaxMap > 0 THEN 1 ELSE 0
  /\ IF MaxMap > 0
       THEN /\ line' = [of |-> First, labels |-> 24, points |-> 24] /\ bar' = First
            /\ canvas' = [canvas EXCEPT !["line"] = Drawn("line", First)]
       ELSE UNCHANGED <<line, bar, canvas>>
  /\ queries' = RemoveAt(queries, i)
  /\ UNCHANGED <<mode, day, shown, tab, asked, current, overtaken>>

\* The node does not answer: the console's server makes of it an answer without
\* maps and without numbers, which is not null.
InitFails(i) ==
  /\ queries[i].op = "init"
  /\ options' = 0 /\ chosen' = 0
  /\ line' = [of |-> Empty, labels |-> 24, points |-> 0] /\ bar' = Empty
  /\ canvas' = [canvas EXCEPT !["line"] = Drawn("line", Empty)]
  /\ queries' = RemoveAt(queries, i)
  /\ UNCHANGED <<mode, day, shown, tab, asked, current, overtaken>>

------------------------------------------------------------------------------
ChartInit ==
  /\ options = 0 /\ chosen = 0 /\ mode = "0" /\ day = Today /\ shown = Today /\ tab = "line"
  /\ line = [of |-> Sample, labels |-> 24, points |-> 24] /\ bar = Sample
  /\ canvas = [t \in Tabs |-> Blank]
  /\ queries = << >>
  /\ asked = Sample /\ current = "waiting" /\ overtaken = FALSE

ChartScript ==
  \/ \E p \in Days : Pick(p)
  \/ \E t \in Tabs : Show(t)
  \/ \E q \in Maps : ChooseMap(q)
  \/ \E w \in Modes : ChooseMode(w)
  \/ GetMapData
  \/ \E i \in DOMAIN queries : ShowData(i) \/ NoData(i) \/ ShowInit(i) \/ InitFails(i)

------------------------------------------------------------------------------
(* Properties.                                                             *)

\* The day that is queried is the day that is shown (jiankong.js:128-131), or the
\* same day of the next month: the latter when the day picked before does not exist
\* in the month picked now, which then has fewer than 31 days.
DayIsPicked ==
  \/ day = shown
  \/ DaysIn(shown[1], shown[2]) < 31 /\ day = <<shown[1], shown[2] + 1, shown[3]>>

\* A line chart has a label for every point (jiankong.js:251, 272): the labels are of
\* the mode the query had, whatever is selected when its answer comes.
LabelsFit == line.points \in {0, line.labels}

\* Both charts show the last query (jiankong.js:254-333), once it has been answered with
\* numbers and no earlier answer came after it; the answer to the page's first call
\* never replaces them.
ChartsAreOfLast == current = "shown" /\ ~overtaken => line.of = asked /\ bar = asked

\* The visible canvas shows the present numbers (jiankong.js:234, 331), except
\* before anything was drawn, and on the bar chart, which the page's first answer does
\* not draw again.
VisibleIsCurrent ==
  \/ canvas[tab] = Numbered(tab)
  \/ bar = Sample /\ canvas[tab] = Blank
  \/ tab = "bar" /\ canvas[tab] = Sample /\ bar \in {First, Empty}
================================================================================
