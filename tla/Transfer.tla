------------------------------- MODULE Transfer -------------------------------
(***************************************************************************)
(* From the queue of a source node to the tables of a destination node:     *)
(* SynClient takes a message, looks up the started table maps of its source *)
(* table, and for each of them obtains a channel from ChannelManager, adds  *)
(* a Record and writes the message; SynServerHandler applies a message to   *)
(* every map of its source table (OperateDB) and replies with a status;     *)
(* SynClientHandler enters the status into the Record.                      *)
(*                                                                          *)
(* The two monitor threads that fill the queue appear here with what they   *)
(* promise: per row the messages of its versions come in order, a message   *)
(* is selected when its version is the committed one, and deletes, logged   *)
(* by another thread, may be queued before or after them.                   *)
(***************************************************************************)
EXTENDS Naturals, Sequences, FiniteSets

CONSTANTS
  Tables,       \* tables of the source
  Keys,         \* primary key values
  Maps,         \* the started table maps, the same set on both nodes
  FromTable,    \* the source table of each map; its target table is its own
  None,         \* no message, no delivery, no job
  MaxVersion,   \* bound: versions written to the source
  MaxRemoves,   \* bound: rows deleted at the source
  MaxChannels,  \* bound: connections made
  MaxFails      \* bound: failures of MySQL, Oracle, the network

ASSUME TransferAssumption ==
  /\ FromTable \in [Maps -> Tables]
  /\ MaxVersion \in Nat
  /\ MaxRemoves \in Nat
  /\ MaxChannels \in Nat
  /\ MaxFails \in Nat

Rows == Tables \X Keys
TableOf(r) == r[1]
KeyOf(r) == r[2]
Channels == 1..MaxChannels

\* Variant: the maps of all tables.
MapsOfAll(t) == Maps

\* TableMapManager.getTableMapsBySourceInfo.
MapsOf(t) == {g \in Maps : FromTable[g] = t}

VARIABLES
  \* the source database and its two monitor threads
  rows,         \* committed version of every row, 0 when absent
  version,      \* versions written so far
  removes,      \* deletions so far
  putsDue,      \* versions the monitor has not come to
  selected,     \* version selected and not yet queued, if any
  delsDue,      \* deleted rows whose message is not yet queued
  sharedTable,  \* table name of the SourceInfo all delete messages refer to
  queue,        \* messages for the sender
  \* SynClient
  msg,          \* the message it is sending
  recordId,     \* the record id in that message
  todo,         \* maps it has not come to
  built,        \* the delivery it has recorded and not yet written
  alive,        \* the thread has not died of an exception
  records,      \* table record of the MySQL database, by id
  \* the connections
  link,         \* as the client sees it: "down", "up", or "half": closed by the
                \* server, which the client has not noticed
  wire,         \* messages written and not yet received
  replies,      \* replies written and not yet received
  current,      \* the channel ChannelManager holds, 0 for none
  \* SynServerHandler, one per connection
  job,          \* the message it is applying
  pool,         \* ConPool: "new", "con", or a cached failure: "null", or "dead", the
                \* connection that broke
  tenants,      \* maps whose target tenant is in the TenantManager
  dest,         \* version in every target table, 0 when absent
  fails

\* History, read by the properties only.
VARIABLES
  applied,      \* record ids of messages that some map was applied for
  lost,         \* record ids that no message was given, or whose message or reply was
                \* withheld or lost on its way
  harm          \* what has happened that may keep a target from its source

sourceVars == <<rows, version, removes, putsDue, selected, delsDue, sharedTable>>
senderVars == <<msg, recordId, todo, built, alive>>
linkVars == <<link, wire, replies, current>>
serverVars == <<job, pool, tenants, dest>>
vars == <<sourceVars, queue, senderVars, records, linkVars, serverVars, fails,
          applied, lost, harm>>

Message == [row: Rows, version: 0..MaxVersion]     \* version 0: a delete
Delivery == [map: Maps, channel: Channels, table: Tables, id: Nat]
Json == [table: Tables, key: Keys, version: 0..MaxVersion, id: Nat]
Record == [msg: Message, type: 0..2, status: 0..1, returned: BOOLEAN]
ReturnMsg == [id: Nat, status: 0..3, whole: BOOLEAN]
Job == [json: Json, todo: SUBSET Maps, resFlag: 0..3, whole: BOOLEAN]
Causes == {"dropped", "refused", "misnamed", "crossed", "stale"}

ASSUME NoneAssumption == None \notin Delivery /\ None \notin Job

\* Every variable keeps its type.
TypeOK ==
  /\ rows \in [Rows -> 0..MaxVersion]
  /\ version \in 0..MaxVersion
  /\ removes \in 0..MaxRemoves
  /\ putsDue \subseteq Message
  /\ selected \subseteq Message
  /\ delsDue \subseteq Rows
  /\ sharedTable \in Tables \cup {None}
  /\ queue \in Seq(Message)
  /\ msg \in Message \cup {None}
  /\ recordId \in 0..Len(records)
  /\ todo \subseteq Maps
  /\ built \in Delivery \cup {None}
  /\ alive \in BOOLEAN
  /\ records \in Seq(Record)
  /\ link \in [Channels -> {"down", "up", "half"}]
  /\ wire \in [Channels -> Seq(Json)]
  /\ replies \in [Channels -> Seq(ReturnMsg)]
  /\ current \in 0..MaxChannels
  /\ job \in [Channels -> Job \cup {None}]
  /\ pool \in [Channels -> [Maps -> {"new", "con", "null", "dead"}]]
  /\ tenants \subseteq Maps
  /\ dest \in [Maps -> [Keys -> 0..MaxVersion]]
  /\ fails \in 0..MaxFails
  /\ applied \subseteq 0..Len(records)
  /\ lost \subseteq 0..Len(records)
  /\ harm \subseteq Causes

Init ==
  /\ rows = [r \in Rows |-> 0] /\ version = 0 /\ removes = 0
  /\ putsDue = {} /\ selected = {} /\ delsDue = {} /\ sharedTable = None
  /\ queue = <<>>
  /\ msg = None /\ recordId = 0 /\ todo = {} /\ built = None /\ alive = TRUE
  /\ records = <<>>
  /\ link = [c \in Channels |-> "down"]
  /\ wire = [c \in Channels |-> <<>>]
  /\ replies = [c \in Channels |-> <<>>]
  /\ current = 0
  /\ job = [c \in Channels |-> None]
  /\ pool = [c \in Channels |-> [g \in Maps |-> "new"]]
  /\ tenants = {}
  /\ dest = [g \in Maps |-> [k \in Keys |-> 0]]
  /\ fails = 0
  /\ applied = {} /\ lost = {} /\ harm = {}

-----------------------------------------------------------------------------
(***************************************************************************)
(* The source.                                                             *)
(***************************************************************************)
\* Variant: a stack.
Push(m) == queue' = <<m>> \o queue

\* queue.offer
Enqueue(m) == queue' = Append(queue, m)

\* An insert or update commits.
Change(r) ==
  /\ version < MaxVersion
  /\ version' = version + 1
  /\ rows' = [rows EXCEPT ![r] = version + 1]
  /\ putsDue' = putsDue \cup {[row |-> r, version |-> version + 1]}
  /\ UNCHANGED <<removes, selected, delsDue, sharedTable, queue, senderVars, records, linkVars,
                 serverVars, fails, applied, lost, harm>>

\* A delete commits.
Remove(r) ==
  /\ rows[r] # 0
  /\ removes < MaxRemoves
  /\ removes' = removes + 1
  /\ rows' = [rows EXCEPT ![r] = 0]
  /\ delsDue' = delsDue \cup {r}
  /\ UNCHANGED <<version, putsDue, selected, sharedTable, queue, senderVars, records, linkVars,
                 serverVars, fails, applied, lost, harm>>

\* The insert/update monitor comes to a version: it selects the row, if the row
\* still has it.
Select(c) ==
  /\ selected = {}
  /\ c \in putsDue
  /\ \A d \in putsDue : d.row = c.row => c.version <= d.version
  /\ putsDue' = putsDue \ {c}
  /\ selected' = IF rows[c.row] = c.version THEN {c} ELSE {}
  /\ UNCHANGED <<rows, version, removes, delsDue, sharedTable, queue, senderVars, records,
                 linkVars, serverVars, fails, applied, lost, harm>>

\* ... and queues the message. If the row has been deleted since, and the delete
\* was queued before this message, the target will keep a row without a source.
Offer(c) ==
  /\ c \in selected
  /\ selected' = {}
  /\ Enqueue(c)
  /\ harm' = IF rows[c.row] = 0 /\ c.row \notin delsDue THEN harm \cup {"stale"} ELSE harm
  /\ UNCHANGED <<rows, version, removes, putsDue, delsDue, sharedTable, senderVars, records,
                 linkVars, serverVars, fails, applied, lost>>

\* The delete monitor queues a message; the name goes into the SourceInfo that
\* this message shares with all others of the thread.
OfferDelete(r) ==
  /\ r \in delsDue
  /\ delsDue' = delsDue \ {r}
  /\ sharedTable' = TableOf(r)
  /\ Enqueue([row |-> r, version |-> 0])
  /\ UNCHANGED <<rows, version, removes, putsDue, selected, senderVars, records, linkVars,
                 serverVars, fails, applied, lost, harm>>

-----------------------------------------------------------------------------
(***************************************************************************)
(* SynClient.monitorMessage and sendMessage.                               *)
(***************************************************************************)
IsDelete(m) == m.version = 0

\* The table name a message's SourceInfo gives when it is read.
NameIn(m) == IF IsDelete(m) THEN sharedTable ELSE TableOf(m.row)

Misnamed(m) == IF NameIn(m) # TableOf(m.row) THEN {"misnamed"} ELSE {}

Poll ==
  /\ alive
  /\ todo = {}
  /\ built = None
  /\ queue # <<>>
  /\ msg' = Head(queue)
  /\ queue' = Tail(queue)
  /\ todo' = MapsOf(NameIn(Head(queue)))
  /\ recordId' = 0
  /\ harm' = harm \cup Misnamed(Head(queue))
  /\ UNCHANGED <<sourceVars, built, alive, records, linkVars, serverVars, fails, applied, lost>>

Connected == current # 0 /\ link[current] # "down"

Sending == todo # {} /\ built = None

\* ChannelManager.getChannelByIpAndPort finds no connected channel and makes one.
Connect ==
  /\ Sending
  /\ ~Connected
  /\ current < MaxChannels
  /\ current' = current + 1
  /\ link' = [link EXCEPT ![current + 1] = "up"]
  /\ UNCHANGED <<sourceVars, queue, senderVars, records, wire, replies, serverVars, fails,
                 applied, lost, harm>>

\* ... or gets none: nothing is sent for this map.
ConnectFails(g) ==
  /\ Sending
  /\ ~Connected
  /\ g \in todo
  /\ fails < MaxFails \/ current = MaxChannels
  /\ fails' = IF fails < MaxFails THEN fails + 1 ELSE fails
  /\ todo' = todo \ {g}
  /\ harm' = harm \cup {"dropped"}
  /\ UNCHANGED <<sourceVars, queue, msg, recordId, built, alive, records, linkVars, serverVars,
                 applied, lost>>

NewRecord(m) == [msg |-> m, type |-> IF IsDelete(m) THEN 0 ELSE 1, status |-> 0,
                 returned |-> FALSE]

\* A Record whose id its adder does not get.
Orphan ==
  /\ records' = Append(records, NewRecord(msg))
  /\ lost' = lost \cup {Len(records) + 1}

\* A channel for map g is there; the Record is added and the message is turned into its
\* text.  add inserts the Record and reads it again, each over a connection of its own: if
\* either fails, with or without a Record, the id in the message stays that of the map
\* before.
Build(g) ==
  /\ Sending
  /\ Connected
  /\ g \in todo
  /\ \/ /\ records' = Append(records, NewRecord(msg))
        /\ recordId' = Len(records) + 1
        /\ UNCHANGED <<fails, lost>>
     \/ /\ fails < MaxFails
        /\ fails' = fails + 1
        /\ Orphan \/ UNCHANGED <<records, lost>>
        /\ UNCHANGED recordId
  /\ built' = [map |-> g, channel |-> current, table |-> NameIn(msg), id |-> recordId']
  /\ todo' = todo \ {g}
  /\ harm' = harm \cup Misnamed(msg)
  /\ UNCHANGED <<sourceVars, queue, msg, alive, linkVars, serverVars, applied>>

\* MySQL gives one of the two a connection and no statement: the null that is closed then
\* ends the sender.
AddThrows(g) ==
  /\ Sending
  /\ Connected
  /\ g \in todo
  /\ fails < MaxFails
  /\ fails' = fails + 1
  /\ Orphan \/ UNCHANGED <<records, lost>>
  /\ alive' = FALSE
  /\ todo' = {}
  /\ harm' = harm \cup {"dropped"}
  /\ UNCHANGED <<sourceVars, queue, msg, recordId, built, linkVars, serverVars, applied>>

\* The row that is selected at the source before a delete is sent.
CheckedRow == <<NameIn(msg), KeyOf(msg.row)>>

\* Variant: a delete is sent unchecked.
Unchecked == TRUE

MaySend == IsDelete(msg) => rows[CheckedRow] = 0

JsonOf(b) == [table |-> b.table, key |-> KeyOf(msg.row), version |-> msg.version, id |-> b.id]

\* Older connections on which the server still has messages to apply.
Crossed(c) == \E o \in Channels : o < c /\ (wire[o] # <<>> \/ job[o] # None)

\* channel.write; a delete goes out only if the row is not there any more.
Write ==
  /\ built # None
  /\ MaySend
  /\ built' = None
  /\ IF link[built.channel] = "up"
     THEN /\ wire' = [wire EXCEPT ![built.channel] = Append(@, JsonOf(built))]
          /\ harm' = harm \cup Misnamed(msg)
                       \cup (IF Crossed(built.channel) THEN {"crossed"} ELSE {})
          /\ UNCHANGED lost
     ELSE /\ harm' = harm \cup {"dropped"}
          /\ lost' = lost \cup {built.id}
          /\ UNCHANGED wire
  /\ UNCHANGED <<sourceVars, queue, msg, recordId, todo, alive, records, link, replies, current,
                 serverVars, fails, applied>>

\* The row is there again, or the select throws: the delete is not sent, and its
\* Record stays as it was added.
Withhold ==
  /\ built # None
  /\ IsDelete(msg)
  /\ built' = None
  /\ lost' = lost \cup {built.id}
  /\ \/ /\ rows[CheckedRow] # 0
        /\ harm' = harm \cup Misnamed(msg)
        /\ UNCHANGED fails
     \/ /\ fails < MaxFails
        /\ fails' = fails + 1
        /\ harm' = harm \cup {"dropped"}
  /\ UNCHANGED <<sourceVars, queue, msg, recordId, todo, alive, records, linkVars, serverVars,
                 applied>>

\* The source database gives no connection for that select: the dereferenced null
\* ends the sender, and what is queued and will be queued stays there.
SenderDies ==
  /\ built # None
  /\ IsDelete(msg)
  /\ fails < MaxFails
  /\ fails' = fails + 1
  /\ alive' = FALSE
  /\ todo' = {}
  /\ built' = None
  /\ lost' = lost \cup {built.id}
  /\ harm' = harm \cup {"dropped"}
  /\ UNCHANGED <<sourceVars, queue, msg, recordId, records, linkVars, serverVars, applied>>

-----------------------------------------------------------------------------
(***************************************************************************)
(* SynServerHandler.messageReceived, on one connection.                    *)
(***************************************************************************)
\* Variant: a status to begin with.
Inserted == 3

\* resFlag before the first map.
NoResult == 0

Receive(c) ==
  /\ job[c] = None
  /\ wire[c] # <<>>
  /\ wire' = [wire EXCEPT ![c] = Tail(@)]
  /\ job' = [job EXCEPT ![c] = [json |-> Head(wire[c]),
                                todo |-> MapsOf(Head(wire[c]).table),
                                resFlag |-> NoResult, whole |-> TRUE]]
  /\ UNCHANGED <<sourceVars, queue, senderVars, records, link, replies, current, pool, tenants,
                 dest, fails, applied, lost, harm>>

\* ConPool.getCon: what is in the pool, or a new connection, or the null that
\* OracleConnection.getConnection returns when it fails; all are kept.
Pooled(c, g) ==
  \/ /\ pool[c][g] \in {"con", "null"}
     /\ UNCHANGED <<pool, fails>>
  \/ /\ pool[c][g] = "new"
     /\ pool' = [pool EXCEPT ![c][g] = "con"]
     /\ UNCHANGED fails
  \/ /\ pool[c][g] = "new"
     /\ fails < MaxFails
     /\ fails' = fails + 1
     /\ pool' = [pool EXCEPT ![c][g] = "null"]

\* OperateDB.synData: 1 deleted, 2 updated, 3 inserted.
SynStatus(g, j) == IF IsDelete(j) THEN 1 ELSE IF dest[g][j.key] # 0 THEN 2 ELSE 3

InHand(c, g) == job[c] # None /\ g \in job[c].todo

\* The statement of synData takes effect.
Store(g, j) == dest' = [dest EXCEPT ![g][j.key] = j.version]

\* The loop over the maps: resFlag is that of the map applied last.
Apply(c, g) ==
  /\ InHand(c, g)
  /\ g \in tenants
  /\ Pooled(c, g)
  /\ LET j == job[c].json IN
     IF pool'[c][g] = "con"
     THEN /\ Store(g, j)
          /\ job' = [job EXCEPT ![c].todo = @ \ {g}, ![c].resFlag = SynStatus(g, j)]
          /\ applied' = applied \cup {j.id}
          /\ UNCHANGED harm
     ELSE /\ job' = [job EXCEPT ![c].todo = @ \ {g}, ![c].resFlag = 0, ![c].whole = FALSE]
          /\ harm' = harm \cup {"refused"}
          /\ UNCHANGED <<dest, applied>>
  /\ UNCHANGED <<sourceVars, queue, senderVars, records, linkVars, tenants, lost>>

\* A statement throws, for once or because its connection breaks, which may be after it
\* has taken effect and is for good: the maps that are left are skipped, resFlag stays.
ApplyThrows(c, g) ==
  /\ InHand(c, g)
  /\ g \in tenants
  /\ \/ /\ pool[c][g] = "dead"
        /\ UNCHANGED <<pool, fails, dest>>
     \/ /\ pool[c][g] \in {"new", "con"}
        /\ fails < MaxFails
        /\ fails' = fails + 1
        /\ \/ pool' = [pool EXCEPT ![c][g] = "con"] /\ UNCHANGED dest
           \/ /\ pool' = [pool EXCEPT ![c][g] = "dead"]
              /\ Store(g, job[c].json) \/ UNCHANGED dest
  /\ job' = [job EXCEPT ![c].todo = {}, ![c].whole = FALSE]
  /\ harm' = harm \cup {"refused"}
  /\ UNCHANGED <<sourceVars, queue, senderVars, records, linkVars, tenants, applied, lost>>

Ids(s) == {s[i].id : i \in DOMAIN s}

\* The map's tenant is not there: the NullPointerException closes the channel.
NoTenant(c, g) ==
  /\ InHand(c, g)
  /\ g \notin tenants
  /\ job' = [job EXCEPT ![c] = None]
  /\ wire' = [wire EXCEPT ![c] = <<>>]
  /\ link' = [link EXCEPT ![c] = IF @ = "up" THEN "half" ELSE @]
  /\ lost' = lost \cup {job[c].json.id} \cup Ids(wire[c])
  /\ harm' = harm \cup {"dropped"}
  /\ UNCHANGED <<sourceVars, queue, senderVars, records, replies, current, pool, tenants, dest,
                 fails, applied>>

Reply(c) ==
  /\ job[c] # None
  /\ job[c].todo = {}
  /\ job' = [job EXCEPT ![c] = None]
  /\ IF link[c] = "up"
     THEN /\ replies' = [replies EXCEPT ![c] =
                           Append(@, [id |-> job[c].json.id, status |-> job[c].resFlag,
                                      whole |-> job[c].whole])]
          /\ UNCHANGED lost
     ELSE /\ lost' = lost \cup {job[c].json.id}
          /\ UNCHANGED replies
  /\ UNCHANGED <<sourceVars, queue, senderVars, records, link, wire, current, pool, tenants,
                 dest, fails, applied, harm>>

\* TableMapService adds the tenant of a map after it has started the map.
AddTenant(g) ==
  /\ g \notin tenants
  /\ tenants' = tenants \cup {g}
  /\ UNCHANGED <<sourceVars, queue, senderVars, records, linkVars, job, pool, dest, fails,
                 applied, lost, harm>>

-----------------------------------------------------------------------------
(***************************************************************************)
(* SynClientHandler.messageReceived.                                       *)
(***************************************************************************)
\* Variants: the status is taken for the type; the return time is not entered.
AnsweredType(rec, status) ==
  IF status = 0 THEN [rec EXCEPT !.returned = TRUE, !.status = 0]
  ELSE [rec EXCEPT !.returned = TRUE, !.status = 1, !.type = status]
AnsweredOnly(rec, status) == [rec EXCEPT !.status = IF status = 0 THEN 0 ELSE 1]

\* updateRTStatusById, updateRTStatusTypeById: type 0 delete, 1 update, 2 insert.
Answered(rec, status) ==
  IF status = 0 THEN [rec EXCEPT !.returned = TRUE, !.status = 0]
  ELSE [rec EXCEPT !.returned = TRUE, !.status = 1, !.type = status - 1]

HandleReply(c) ==
  /\ replies[c] # <<>>
  /\ replies' = [replies EXCEPT ![c] = Tail(@)]
  /\ LET r == Head(replies[c]) IN
     \/ /\ records' = [i \in DOMAIN records |->
                         IF i = r.id THEN Answered(records[i], r.status) ELSE records[i]]
        /\ UNCHANGED <<fails, lost>>
     \/ /\ fails < MaxFails
        /\ fails' = fails + 1
        /\ lost' = lost \cup {r.id}
        /\ UNCHANGED records
  /\ UNCHANGED <<sourceVars, queue, senderVars, link, wire, current, serverVars, applied, harm>>

\* The client has no connection any more; replies on it are lost.  What is on its way to
\* the server may still arrive.
Closed(c) ==
  /\ fails < MaxFails
  /\ fails' = fails + 1
  /\ link' = [link EXCEPT ![c] = "down"]
  /\ replies' = [replies EXCEPT ![c] = <<>>]
  /\ lost' = lost \cup Ids(replies[c])
  /\ UNCHANGED <<sourceVars, queue, senderVars, records, wire, current, serverVars, applied,
                 harm>>

\* As in AddThrows, MySQL gives no statement: the exception closes the channel.
ReplyThrows(c) == replies[c] # <<>> /\ Closed(c)

-----------------------------------------------------------------------------
(***************************************************************************)
(* The network.                                                            *)
(***************************************************************************)
\* A connection breaks.
Break(c) == link[c] = "up" /\ Closed(c)

\* What was still on its way when the connection broke never arrives.
Drop(c) ==
  /\ link[c] = "down"
  /\ wire[c] # <<>>
  /\ wire' = [wire EXCEPT ![c] = <<>>]
  /\ lost' = lost \cup Ids(wire[c])
  /\ harm' = harm \cup {"dropped"}
  /\ UNCHANGED <<sourceVars, queue, senderVars, records, link, replies, current, serverVars,
                 fails, applied>>

\* The client learns that the server has closed the connection.
Notice(c) ==
  /\ link[c] = "half"
  /\ replies[c] = <<>>
  /\ link' = [link EXCEPT ![c] = "down"]
  /\ UNCHANGED <<sourceVars, queue, senderVars, records, wire, replies, current, serverVars,
                 fails, applied, lost, harm>>

-----------------------------------------------------------------------------
Sender ==
  \/ Poll
  \/ Connect
  \/ \E g \in todo : ConnectFails(g) \/ Build(g) \/ AddThrows(g)
  \/ Write
  \/ Withhold
  \/ SenderDies

Server(c) ==
  \/ Receive(c)
  \/ \E g \in Maps : Apply(c, g) \/ ApplyThrows(c, g) \/ NoTenant(c, g)
  \/ Reply(c)

Next ==
  \/ \E r \in Rows : Change(r) \/ Remove(r)
  \/ \E c \in putsDue : Select(c)
  \/ \E c \in selected : Offer(c)
  \/ \E r \in delsDue : OfferDelete(r)
  \/ Sender
  \/ \E g \in Maps : AddTenant(g)
  \/ \E c \in Channels :
       \/ Server(c)
       \/ HandleReply(c) \/ ReplyThrows(c)
       \/ Break(c) \/ Drop(c) \/ Notice(c)

Spec == Init /\ [][Next]_vars

\* SynClient's loop, until it dies, and Netty's worker threads run for ever.
FairSpec ==
  /\ Spec
  /\ WF_vars(Sender)
  /\ \A c \in Channels : WF_vars(Server(c)) /\ WF_vars(HandleReply(c))

-----------------------------------------------------------------------------
Quiet ==
  /\ putsDue = {} /\ selected = {} /\ delsDue = {} /\ queue = <<>>
  /\ todo = {} /\ built = None
  /\ \A c \in Channels : wire[c] = <<>> /\ job[c] = None

\* When all messages have been applied every target table has the versions of its
\* source table, unless one of five things has happened: a message was dropped or
\* refused, a delete was misnamed, messages of an old connection were applied
\* beside those of a new one, or a stale version was queued behind its delete.
Converged ==
  Quiet /\ harm = {} =>
    \A g \in Maps, k \in Keys : dest[g][k] = rows[<<FromTable[g], k>>]

\* A Record with status 1 is right: the message it was written for has been
\* applied to a target, and was a delete exactly if its type says so, although
\* replies are matched by an id that MySQL failures make two deliveries share.
RecordsAreTrue ==
  \A i \in DOMAIN records :
    records[i].status = 1 => /\ i \in applied
                             /\ records[i].type = 0 <=> IsDelete(records[i].msg)

\* A target row never goes back to an older version while messages of one
\* connection are applied at a time.
NoStepBack ==
  [][\A g \in Maps, k \in Keys :
       "crossed" \in harm' \/ dest'[g][k] = 0 \/ dest'[g][k] >= dest[g][k]]_vars

\* The status of a reply: "0 means no success, 1 deleted, 2 updated, 3 inserted
\* successfully" (ReturnMsg): with a status other than 0 nothing has failed.
ReplyTellsSuccess ==
  \A c \in Channels : \A i \in DOMAIN replies[c] :
    replies[c][i].status # 0 => replies[c][i].whole

\* Again and again every Record there is has its return time (SynClientHandler.java:52-80),
\* but for those whose id never came into a message (RecordDaoImpl.java:380), whose message
\* was withheld or lost or whose reply was.
EventuallyReturned ==
  []<>(\A i \in DOMAIN records : i \in lost \/ records[i].returned)
===============================================================================
