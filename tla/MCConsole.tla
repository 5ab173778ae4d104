------------------------------- MODULE MCConsole -------------------------------
(* The console with three maps, of which the last two share an id.           *)
EXTENDS Console

CONSTANTS f1, f2

TwoForms == {f1, f2}
SharedId == <<1, 0, 0>>

January31 == <<2013, 1, 31>>
TwoDays == {<<2013, 2, 28>>, <<2012, 2, 29>>}

\* Not followed further: buttons that are wrong for a known reason.  The status of the maps
\* is of no interest to the other pages, nor to the two steps of this one.
Focus ==
  /\ causes = {}
  /\ page \notin {"deploy", "logmnr"} => running \in {{}, {1, 2}}
  /\ view # "list" => running = {} /\ \A i \in DOMAIN calls : ~OfMap(calls[i])
================================================================================
