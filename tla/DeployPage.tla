------------------------------ MODULE DeployPage -------------------------------
(***************************************************************************)
(* The pages deploy.jsp and logmnr.jsp of the console, whose scripts differ *)
(* in the form's fields and in the call that adds a map: a list of the      *)
(* table maps with a button each that starts or stops the map, and two      *)
(* steps that lead to a new one, the form with both databases and the       *)
(* columns of their tables.                                                 *)
(*                                                                         *)
(* Every answer of the console's server (TanentBean) comes to a callback    *)
(* some time after the call, and the page does not wait for it.  A form is  *)
(* a model value, None when a required field is empty; the columns shown    *)
(* are named by the forms they were read for.                               *)
(***************************************************************************)
EXTENDS Naturals, SequencesExt

CONSTANTS
  Forms,    \* complete forms
  MaxRow,   \* table maps there are, the rows of the list
  Id,       \* the id of the map of a row; maps added since the last start share an id
  MaxCalls, \* bound: calls without answer
  None

Rows == 1..MaxRow

ASSUME RowsAssumption == MaxRow \in Nat \ {0} /\ Id \in [Rows -> Nat]
ASSUME NoneAssumption == None \notin Forms

VARIABLES
  view,     \* what is visible: the list, the first or the second step
  form,     \* the form as it is filled in
  columns,  \* forms whose columns are in the two containers
  buttons,  \* the button visible in each row
  calls,    \* calls without answer, as asked; those on a map as served
  running,  \* server: maps whose status is 1
  wanted,   \* history: the form of the last call for columns
  answered, \* history: that call has been answered
  misfit,   \* history: why the columns may be of another form
  causes    \* history: why the buttons may be wrong

deployVars == <<view, form, columns, buttons, calls, running, wanted, answered, misfit, causes>>

Ops == {"list", "start", "stop", "test", "schemas", "add", "addLogmnr"}

\* answer is "none" until the server has served the call.
Call == [op: Ops, form: Forms \cup {None}, row: Rows \cup {0}, columns: SUBSET Forms,
         answer: {"none", "yes", "no"}, list: SUBSET Rows]

Buttons == {"none", "start", "stop"}

DeployTypeOK ==
  /\ view \in {"list", "first", "second"}
  /\ form \in Forms \cup {None}
  /\ columns \in SUBSET Forms
  /\ buttons \in [Rows -> Buttons]
  /\ calls \in Seq(Call)
  /\ running \in SUBSET Rows
  /\ wanted \in Forms \cup {None}
  /\ answered \in BOOLEAN
  /\ misfit \in {"no", "refused", "overtaken"}
  /\ causes \in SUBSET {"other row", "overtaken", "lost", "elsewhere"}

NewCall(op, f, r) ==
  [op |-> op, form |-> f, row |-> r, columns |-> {}, answer |-> "none", list |-> {}]

Ask(call) ==
  /\ Len(calls) < MaxCalls
  /\ calls' = Append(calls, call)

------------------------------------------------------------------------------
(* Clicks.                                                                 *)

\* $(document).ready: getTableMapWebs asks for the list.
OpenDeploy ==
  /\ view' = "list" /\ form' = None /\ columns' = {}
  /\ buttons' = [r \in Rows |-> "none"]
  /\ calls' = <<NewCall("list", None, 0)>>
  /\ wanted' = None /\ answered' = FALSE /\ misfit' = "no" /\ causes' = {}
  /\ UNCHANGED running

\* The callbacks of a page that is left are never called.
LeaveDeploy ==
  /\ view' = "list" /\ form' = None /\ columns' = {}
  /\ buttons' = [r \in Rows |-> "none"]
  /\ calls' = << >>
  /\ wanted' = None /\ answered' = FALSE /\ misfit' = "no" /\ causes' = {}
  /\ UNCHANGED running

FillIn(f) ==
  /\ view = "first" /\ f # form
  /\ form' = f
  /\ UNCHANGED <<view, columns, buttons, calls, running, wanted, answered, misfit, causes>>

NewMap ==
  /\ view = "list"
  /\ view' = "first"
  /\ UNCHANGED <<form, columns, buttons, calls, running, wanted, answered, misfit, causes>>

PrevStep ==
  /\ view = "second"
  /\ view' = "first"
  /\ UNCHANGED <<form, columns, buttons, calls, running, wanted, answered, misfit, causes>>

TestDB ==
  /\ view = "first" /\ form # None
  /\ Ask(NewCall("test", form, 0))
  /\ UNCHANGED <<view, form, columns, buttons, running, wanted, answered, misfit, causes>>

\* Two handlers of one click: the second step is shown, whether the form is
\* complete or not; only then the form is read.
NextStep ==
  /\ view = "first"
  /\ view' = "second"
  /\ IF form = None
       THEN UNCHANGED <<calls, wanted, answered, misfit>>
       ELSE /\ Ask(NewCall("schemas", form, 0))
            /\ wanted' = form /\ answered' = FALSE /\ misfit' = "no"
  /\ UNCHANGED <<form, columns, buttons, running, causes>>

\* The form as it is now, with the columns as they are now.
Submit(op) ==
  /\ view = "second" /\ form # None
  /\ Ask([NewCall(op, form, 0) EXCEPT !.columns = columns])
  /\ UNCHANGED <<view, form, columns, buttons, running, wanted, answered, misfit, causes>>

SynSet == Submit("add")

StartStop(r) ==
  /\ view = "list" /\ buttons[r] # "none"
  /\ Ask(NewCall(buttons[r], None, r))
  /\ UNCHANGED <<view, form, columns, buttons, running, wanted, answered, misfit, causes>>

LogmnrTestDB == TestDB
LogmnrNextStep == NextStep
LogmnrSynSet == Submit("addLogmnr")
LogmnrStartStop(r) == StartStop(r)

------------------------------------------------------------------------------
(* The server.                                                             *)

\* startTableMapById, stopTableMapById: the first map with the id.
ById(r) == CHOOSE q \in Rows : Id[q] = Id[r] /\ \A p \in Rows : Id[p] = Id[r] => q <= p

Listed == \E r \in Rows : buttons[r] # "none"
ListServed == Listed \/ \E i \in DOMAIN calls : calls[i].op = "list" /\ calls[i].answer = "yes"

OfMap(call) == call.op \in {"start", "stop"}

Performed(call) ==
  IF call.op = "start" THEN running \cup {ById(call.row)} ELSE running \ {ById(call.row)}

\* The node is asked over HTTP: it may not be reached, and its answer may be
\* lost on the way, which both read as false.
ServeMap(i) ==
  /\ OfMap(calls[i]) /\ calls[i].answer = "none"
  /\ \E done \in BOOLEAN, answer \in {"yes", "no"} :
       /\ answer = "yes" => done
       /\ running' = IF done THEN Performed(calls[i]) ELSE running
       /\ calls' = Append(RemoveAt(calls, i), [calls[i] EXCEPT !.answer = answer])
       /\ causes' = IF done /\ answer = "no" THEN causes \cup {"lost"} ELSE causes
  /\ UNCHANGED <<view, form, columns, buttons, wanted, answered, misfit>>

ServeList(i) ==
  /\ calls[i].op = "list" /\ calls[i].answer = "none"
  /\ calls' = [calls EXCEPT ![i].answer = "yes", ![i].list = running]
  /\ UNCHANGED <<view, form, columns, buttons, running, wanted, answered, misfit, causes>>

\* testBoth, getBothSchemas, addBothTableMap, addLogmnrBothTableMap: what they
\* do on the nodes does not come back to the page but for the answer.
ServeForm(i) ==
  /\ calls[i].op \in {"test", "schemas", "add", "addLogmnr"} /\ calls[i].answer = "none"
  /\ \E answer \in {"yes", "no"} : calls' = [calls EXCEPT ![i].answer = answer]
  /\ UNCHANGED <<view, form, columns, buttons, running, wanted, answered, misfit, causes>>

\* Another page, or a call of this one before it was opened again.
Elsewhere(r) ==
  /\ running' = IF r \in running THEN running \ {r} ELSE running \cup {r}
  /\ causes' = IF ListServed THEN causes \cup {"elsewhere"} ELSE causes
  /\ UNCHANGED <<view, form, columns, buttons, calls, wanted, answered, misfit>>

------------------------------------------------------------------------------
(* Callbacks.                                                              *)

Returns(i, op) == calls[i].op = op /\ calls[i].answer # "none" /\ calls' = RemoveAt(calls, i)

\* getTableMapWebs: the list is filled; every row has both buttons, one hidden.
ShowList(i) ==
  /\ Returns(i, "list")
  /\ buttons' = [r \in Rows |-> IF r \in calls[i].list THEN "stop" ELSE "start"]
  /\ UNCHANGED <<view, form, columns, running, wanted, answered, misfit, causes>>

Other(op) == IF op = "stop" THEN "start" ELSE "stop"

\* Variant: the button changes whatever the answer is.
ToggledAlways(call) == [buttons EXCEPT ![1] = Other(call.op)]

\* All rows have buttons of the same two names, which select the first row's.
Toggled(call) ==
  IF call.answer = "yes" THEN [buttons EXCEPT ![1] = Other(call.op)] ELSE buttons

EarlierOfMap(i) == \E j \in 1..(i - 1) : OfMap(calls[j]) /\ calls[j].answer # "none"

ShowStartStop(i) ==
  /\ OfMap(calls[i]) /\ Returns(i, calls[i].op)
  /\ buttons' = Toggled(calls[i])
  /\ causes' = causes \cup
       (IF calls[i].answer = "yes" /\ ById(calls[i].row) # 1 THEN {"other row"} ELSE {}) \cup
       (IF EarlierOfMap(i) THEN {"overtaken"} ELSE {})
  /\ UNCHANGED <<view, form, columns, running, wanted, answered, misfit>>

\* Variant: the containers are not emptied.
FilledUp(call) == columns \cup {call.form}

Filled(call) == {call.form}

\* The last call for columns is the one without another behind it.
IsLast(i) ==
  ~answered /\ \A j \in (i + 1)..Len(calls) : calls[j].op # "schemas"

\* nextStep's callback: null is an alert; columns fill the second step, and
\* show it even to somebody who has gone back to the form.
ShowColumns(i) ==
  /\ Returns(i, "schemas")
  /\ IF calls[i].answer = "no"
       THEN UNCHANGED <<columns, view>>
       ELSE columns' = Filled(calls[i]) /\ view' = "second"
  /\ answered' = (answered \/ IsLast(i))
  /\ misfit' = CASE IsLast(i) /\ calls[i].answer = "no" -> "refused"
                 [] answered /\ calls[i].answer = "yes" -> "overtaken"
                 [] OTHER -> misfit
  /\ UNCHANGED <<form, buttons, running, wanted, causes>>

\* The answers of the other calls are only told.
ShowAlert(i) ==
  /\ \E op \in {"test", "add", "addLogmnr"} : Returns(i, op)
  /\ UNCHANGED <<view, form, columns, buttons, running, wanted, answered, misfit, causes>>

------------------------------------------------------------------------------
DeployInit ==
  /\ view = "list" /\ form = None /\ columns = {}
  /\ buttons = [r \in Rows |-> "none"]
  /\ calls = << >> /\ running \in SUBSET Rows
  /\ wanted = None /\ answered = FALSE /\ misfit = "no" /\ causes = {}

DeployServer == \E i \in DOMAIN calls : ServeMap(i) \/ ServeList(i) \/ ServeForm(i)

DeployCallbacks ==
  \E i \in DOMAIN calls : ShowList(i) \/ ShowStartStop(i) \/ ShowColumns(i) \/ ShowAlert(i)

DeployCommon ==
  \/ NewMap \/ PrevStep
  \/ \E f \in Forms \cup {None} : FillIn(f)
  \/ DeployServer \/ DeployCallbacks

DeployScript == TestDB \/ NextStep \/ SynSet \/ \E r \in Rows : StartStop(r)

LogmnrScript ==
  LogmnrTestDB \/ LogmnrNextStep \/ LogmnrSynSet \/ \E r \in Rows : LogmnrStartStop(r)

------------------------------------------------------------------------------
(* Properties.                                                             *)

\* What syn_set_btn sends fits together (deploy.js:171, 212, 278): when the last
\* call for columns has been answered and the form has not been changed since it
\* was asked, the columns in the second step are those of the form and of no
\* other, unless the databases could not be read or answers overtook each other.
ColumnsFit == answered /\ misfit = "no" /\ form = wanted => columns = {form}

\* A button tells the status of its map (deploy.js:323-370): when no call on a map is
\* outstanding, a row of the list offers to stop what runs and to start what does
\* not, unless a row other than the first was used, answers overtook each other,
\* an answer was lost, or the map was started or stopped elsewhere.
ButtonsTell ==
  Listed /\ causes = {} /\ (\A i \in DOMAIN calls : ~OfMap(calls[i]))
    => \A r \in Rows : (buttons[r] = "stop") <=> (r \in running)
================================================================================
