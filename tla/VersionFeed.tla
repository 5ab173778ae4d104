----------------------------- MODULE VersionFeed -----------------------------
(***************************************************************************)
(* What the sender is promised of the rows of a source database, whatever   *)
(* lies in between: triggers, change log, coalesce_log, the capture thread. *)
(* Every commit has a time; a row has the time of the commit that wrote it. *)
(* A reader takes rows of one commit that are current at that moment, holds *)
(* their messages, and puts them on the queue one after the other; later    *)
(* commits may overtake them there.  A restart loses the messages in        *)
(* memory.                                                                  *)
(***************************************************************************)
EXTENDS Naturals, Sequences

CONSTANT Rows

VARIABLES
  clock,    \* time of the last commit
  current,  \* the commit that wrote each row, 0 when the row is absent
  held,     \* messages read and not yet queued
  queue     \* messages for the sender

vars == <<clock, current, held, queue>>

Message == [row: Rows, version: Nat \ {0}]

Init ==
  /\ clock = 0
  /\ current = [r \in Rows |-> 0]
  /\ held = {}
  /\ queue = <<>>

\* A transaction writes the rows of puts and deletes those of dels.
Commit(puts, dels) ==
  /\ clock' \in {clock, clock + 1}
  /\ puts # {} => clock' = clock + 1
  /\ current' = [r \in Rows |-> IF r \in puts THEN clock + 1
                                ELSE IF r \in dels THEN 0 ELSE current[r]]
  /\ UNCHANGED <<held, queue>>

\* All or some of the rows that commit v wrote last are read.
Read(v, some) ==
  /\ held = {}
  /\ v # 0
  /\ \A r \in some : current[r] = v
  /\ held' = {[row |-> r, version |-> v] : r \in some}
  /\ UNCHANGED <<clock, current, queue>>

Offer(m) ==
  /\ held' = held \ {m}
  /\ queue' = Append(queue, m)
  /\ UNCHANGED <<clock, current>>

Deliver ==
  /\ queue # <<>>
  /\ queue' = Tail(queue)
  /\ UNCHANGED <<clock, current, held>>

Restart ==
  /\ held' = {}
  /\ queue' = <<>>
  /\ UNCHANGED <<clock, current>>

Next ==
  \/ \E puts, dels \in SUBSET Rows : Commit(puts, dels)
  \/ \E some \in SUBSET Rows : \E r \in some : Read(current[r], some)
  \/ \E m \in held : Offer(m)
  \/ Deliver
  \/ Restart

Spec == Init /\ [][Next]_vars

-----------------------------------------------------------------------------
\* The versions of a row are queued in commit order, and none comes from the
\* future: from the head of the queue to its end, then to what is held, then to
\* the row itself.
InOrder ==
  /\ \A i, j \in DOMAIN queue :
       i <= j /\ queue[i].row = queue[j].row => queue[i].version <= queue[j].version
  /\ \A i \in DOMAIN queue, m \in held :
       queue[i].row = m.row => queue[i].version <= m.version
  /\ \A m \in held : current[m.row] # 0 => m.version <= current[m.row]
  /\ \A i \in DOMAIN queue :
       current[queue[i].row] # 0 => queue[i].version <= current[queue[i].row]
===============================================================================
