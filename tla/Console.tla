-------------------------------- MODULE Console --------------------------------
(***************************************************************************)
(* The console in a browser window.  Every page has the same menu, whose    *)
(* entries open another page in the same window: the page that is left is   *)
(* gone, with the callbacks of its calls.  Besides the pages of the modules *)
(* this one composes there is tuopu.jsp, with the nodes in six cells, and   *)
(* three pages without calls: rizhi.jsp has nothing but the menu, and       *)
(* yinqing.jsp and wangluo.jsp draw a chart of constant numbers.            *)
(***************************************************************************)
EXTENDS DeployPage, ChartPage

CONSTANT MaxClients \* bound: nodes in the ClientManager

ASSUME ClientsAssumption == MaxClients \in Nat

VARIABLES
  page,    \* the page that is open
  waiting, \* tuopu.jsp: getClients has not been answered
  cells    \* tuopu.jsp: the cells that show a node

consoleVars == <<page, waiting, cells>>
vars == <<deployVars, chartVars, consoleVars>>

Pages == {"tuopu", "deploy", "logmnr", "jiankong", "rizhi", "yinqing", "wangluo"}
Cells == 1..6

TypeOK ==
  /\ DeployTypeOK
  /\ ChartTypeOK
  /\ page \in Pages /\ waiting \in BOOLEAN /\ cells \in SUBSET Cells

OpenTuopu(p) == waiting' = (p = "tuopu") /\ cells' = {}

\* getClients: a node beyond the sixth finds no cell.
CellsFor(n) == {c \in Cells : c <= n}

ShowClients ==
  /\ page = "tuopu" /\ waiting
  /\ \E n \in 0..MaxClients : cells' = CellsFor(n)
  /\ waiting' = FALSE
  /\ UNCHANGED <<page, deployVars, chartVars>>

\* window.open(p, "_self")
Open(p) ==
  /\ page' = p
  /\ OpenTuopu(p)
  /\ IF p \in {"deploy", "logmnr"} THEN OpenDeploy ELSE LeaveDeploy
  /\ IF p = "jiankong" THEN OpenChart ELSE LeaveChart

OpenRizhi == Open("rizhi")
OpenYinqing == Open("yinqing")
OpenWangluo == Open("wangluo")

Menu ==
  \/ OpenRizhi \/ OpenYinqing \/ OpenWangluo
  \/ \E p \in {"tuopu", "deploy", "logmnr", "jiankong"} : Open(p)

Init == DeployInit /\ ChartInit /\ page = "rizhi" /\ waiting = FALSE /\ cells = {}

Deploy ==
  /\ \/ page \in {"deploy", "logmnr"} /\ DeployCommon
     \/ page = "deploy" /\ DeployScript
     \/ page = "logmnr" /\ LogmnrScript
     \/ \E r \in Rows : Elsewhere(r)
  /\ UNCHANGED <<chartVars, consoleVars>>

Chart ==
  /\ page = "jiankong"
  /\ ChartScript
  /\ UNCHANGED <<deployVars, consoleVars>>

Next == Menu \/ ShowClients \/ Deploy \/ Chart

Spec == Init /\ [][Next]_vars
================================================================================
