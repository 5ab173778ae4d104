---------------------------- MODULE TransferProofs ----------------------------
(***************************************************************************)
(* From the queue to the targets: types, that the records of MySQL tell the *)
(* truth, that no target row goes back to an older version, and that where  *)
(* nothing has done harm the targets end with what their sources are.       *)
(***************************************************************************)
EXTENDS Transfer, TLAPS

Elems(s) == {s[i] : i \in DOMAIN s}

\* The sender has a message in hand.
Active == todo # {} \/ built # None

\* What is in the sender's hand is a message, and its delivery is for this one.
WorkOK ==
  /\ Active => msg \in Message
  /\ built # None => /\ built \in Delivery /\ built.channel = current /\ built.id = recordId
                     /\ ~IsDelete(msg) => built.table = TableOf(msg.row)

\* A delete is queued only once the shared name is there.
NamedOK ==
  /\ \A m \in Elems(queue) : IsDelete(m) => sharedTable \in Tables
  /\ Active /\ IsDelete(msg) => sharedTable \in Tables
  /\ \A m \in putsDue \cup selected : ~IsDelete(m)

\* Every id on its way is that of a record, or none.
IdsOK ==
  \A c \in Channels :
    /\ \A j \in Elems(wire[c]) : j.id <= Len(records)
    /\ \A r \in Elems(replies[c]) : r.id <= Len(records)
    /\ job[c] # None => job[c] \in Job /\ job[c].json.id <= Len(records)

TypeInv == TypeOK /\ WorkOK /\ NamedOK /\ IdsOK

-----------------------------------------------------------------------------
LEMMA AppendFacts ==
  ASSUME NEW S, NEW s \in Seq(S), NEW x \in S
  PROVE  /\ Append(s, x) \in Seq(S) /\ Len(Append(s, x)) = Len(s) + 1
         /\ Elems(Append(s, x)) = Elems(s) \cup {x}
<1>1. /\ Append(s, x) \in Seq(S) /\ Len(Append(s, x)) = Len(s) + 1 /\ Len(s) \in Nat
      /\ DOMAIN s = 1..Len(s) /\ DOMAIN Append(s, x) = 1..(Len(s) + 1)
      /\ \A i \in 1..Len(s) : Append(s, x)[i] = s[i]
      /\ Append(s, x)[Len(s) + 1] = x
  OBVIOUS
<1>2. Elems(s) \cup {x} \subseteq Elems(Append(s, x))
  BY <1>1 DEF Elems
<1>3. ASSUME NEW i \in 1..(Len(s) + 1) PROVE Append(s, x)[i] \in Elems(s) \cup {x}
  <2>1. i \in 1..Len(s) \/ i = Len(s) + 1
    BY <1>1
  <2>. QED BY <1>1, <2>1 DEF Elems
<1>. QED BY <1>1, <1>2, <1>3 DEF Elems

LEMMA TailFacts ==
  ASSUME NEW S, NEW s \in Seq(S), s # <<>>
  PROVE  /\ Head(s) \in S /\ Head(s) \in Elems(s) /\ Tail(s) \in Seq(S)
         /\ Elems(Tail(s)) \subseteq Elems(s)
<1>1. /\ Len(s) \in Nat /\ Len(s) > 0 /\ DOMAIN s = 1..Len(s) /\ Head(s) = s[1] /\ Head(s) \in S
      /\ Tail(s) \in Seq(S) /\ Len(Tail(s)) = Len(s) - 1
      /\ \A i \in 1..(Len(s) - 1) : Tail(s)[i] = s[i + 1]
  OBVIOUS
<1>2. DOMAIN Tail(s) = 1..(Len(s) - 1)
  BY <1>1
<1>3. ASSUME NEW i \in 1..(Len(s) - 1) PROVE Tail(s)[i] \in Elems(s)
  <2>1. i + 1 \in DOMAIN s
    BY <1>1
  <2>. QED BY <1>1, <2>1 DEF Elems
<1>4. Head(s) \in Elems(s)
  BY <1>1 DEF Elems
<1>. QED BY <1>1, <1>2, <1>3, <1>4 DEF Elems

LEMMA EmptyFacts == Elems(<< >>) = {} /\ \A S : << >> \in Seq(S)
  BY DEF Elems

LEMMA ElemsAre == ASSUME NEW S, NEW s \in Seq(S) PROVE Elems(s) \subseteq S
<1>1. ASSUME NEW i \in 1..Len(s) PROVE s[i] \in S
  OBVIOUS
<1>. QED BY <1>1 DEF Elems

LEMMA IdsAre == ASSUME NEW s PROVE Ids(s) = {j.id : j \in Elems(s)}
  BY DEF Ids, Elems

LEMMA TypeFacts ==
  ASSUME TypeInv
  PROVE  /\ TypeOK /\ WorkOK /\ NamedOK /\ IdsOK
         /\ Len(records) \in Nat /\ MaxVersion \in Nat /\ MaxFails \in Nat /\ MaxChannels \in Nat
         /\ MaxRemoves \in Nat /\ FromTable \in [Maps -> Tables] /\ Channels = 1..MaxChannels
  BY TransferAssumption DEF TypeInv, TypeOK, Channels

LEMMA MapsOfFacts == ASSUME NEW t PROVE MapsOf(t) \subseteq Maps
  BY DEF MapsOf

LEMMA NameIsTable ==
  ASSUME NEW m \in Message, IsDelete(m) => sharedTable \in Tables
  PROVE  NameIn(m) \in Tables
  BY DEF NameIn, TableOf, Message, Rows

-----------------------------------------------------------------------------
LEMMA Init_Types == Init => TypeInv
<1>. SUFFICES ASSUME Init PROVE TypeInv
  OBVIOUS
<1>1. TypeOK
  BY TransferAssumption, EmptyFacts DEF Init, TypeOK, Message, Delivery, Channels, Causes
<1>2. WorkOK /\ NamedOK /\ IdsOK
  BY EmptyFacts DEF Init, WorkOK, NamedOK, IdsOK, Active
<1>. QED BY <1>1, <1>2 DEF TypeInv

\* What a step leaves alone keeps its type.
Kept == UNCHANGED <<senderVars, records, linkVars, serverVars, fails, applied, lost>>

LEMMA SourceKeeps ==
  ASSUME TypeInv, Kept, rows' \in [Rows -> 0..MaxVersion], version' \in 0..MaxVersion,
         removes' \in 0..MaxRemoves, putsDue' \subseteq Message, selected' \subseteq Message,
         delsDue' \subseteq Rows, sharedTable' = sharedTable \/ sharedTable' \in Tables,
         queue' \in Seq(Message), harm' \subseteq Causes,
         \A m \in Elems(queue') \ Elems(queue) : IsDelete(m) => sharedTable' \in Tables,
         \A m \in putsDue' \cup selected' : ~IsDelete(m)
  PROVE  TypeInv'
<1>1. TypeOK'
  BY TypeFacts DEF TypeOK, Kept, senderVars, linkVars, serverVars
<1>2. WorkOK' /\ IdsOK'
  BY TypeFacts DEF WorkOK, IdsOK, Active, Kept, senderVars, linkVars, serverVars
<1>3. NamedOK'
  BY TypeFacts DEF NamedOK, Active, Kept, senderVars
<1>. QED BY <1>1, <1>2, <1>3 DEF TypeInv

LEMMA Change_Types == ASSUME TypeInv, NEW r \in Rows, Change(r) PROVE TypeInv'
<1>1. /\ version + 1 \in 0..MaxVersion
      /\ [row |-> r, version |-> version + 1] \in Message
  BY TypeFacts DEF TypeOK, Change, Message
<1>2. \A m \in putsDue' \cup selected' : ~IsDelete(m)
  BY <1>1, TypeFacts DEF TypeOK, NamedOK, Change, IsDelete
<1>. QED BY <1>1, <1>2, SourceKeeps, TypeFacts DEF TypeOK, Change, Kept

LEMMA Remove_Types == ASSUME TypeInv, NEW r \in Rows, Remove(r) PROVE TypeInv'
<1>1. removes + 1 \in 0..MaxRemoves /\ 0 \in 0..MaxVersion
  BY TransferAssumption, TypeFacts DEF TypeOK, Remove
<1>. QED BY <1>1, SourceKeeps, TypeFacts DEF TypeOK, NamedOK, Remove, Kept

LEMMA Select_Types == ASSUME TypeInv, NEW m \in putsDue, Select(m) PROVE TypeInv'
  BY SourceKeeps, TypeFacts DEF TypeOK, NamedOK, Select, Kept

LEMMA Offer_Types == ASSUME TypeInv, NEW m \in selected, Offer(m) PROVE TypeInv'
<1>1. m \in Message /\ queue \in Seq(Message)
  BY TypeFacts DEF TypeOK
<1>2. queue' \in Seq(Message) /\ Elems(queue') = Elems(queue) \cup {m}
  BY <1>1, AppendFacts DEF Offer, Enqueue
<1>. QED BY <1>1, <1>2, SourceKeeps, TypeFacts DEF TypeOK, NamedOK, Offer, Kept, Causes

LEMMA OfferDelete_Types == ASSUME TypeInv, NEW r \in delsDue, OfferDelete(r) PROVE TypeInv'
<1>. DEFINE m == [row |-> r, version |-> 0]
<1>1. m \in Message /\ queue \in Seq(Message) /\ TableOf(r) \in Tables
  BY TypeFacts DEF TypeOK, Message, TableOf, Rows
<1>2. queue' \in Seq(Message) /\ Elems(queue') = Elems(queue) \cup {m}
  BY <1>1, AppendFacts DEF OfferDelete, Enqueue
<1>. QED BY <1>1, <1>2, SourceKeeps, TypeFacts DEF TypeOK, NamedOK, OfferDelete, Kept

-----------------------------------------------------------------------------
\* The sender's steps leave the source and the server alone.
LEMMA SenderKeeps ==
  ASSUME TypeInv, UNCHANGED <<sourceVars, serverVars, applied>>,
         queue' \in Seq(Message), Elems(queue') \subseteq Elems(queue),
         msg' \in Message \cup {None}, recordId' \in 0..Len(records'),
         todo' \subseteq Maps, built' \in Delivery \cup {None}, alive' \in BOOLEAN,
         records' \in Seq(Record), Len(records') >= Len(records), Len(records') \in Nat,
         link' \in [Channels -> {"down", "up", "half"}],
         wire' \in [Channels -> Seq(Json)], replies' = replies,
         current' \in 0..MaxChannels, fails' \in 0..MaxFails, harm' \subseteq Causes,
         lost' \subseteq 0..Len(records'),
         \A c \in Channels : \A j \in Elems(wire'[c]) : j \in Elems(wire[c]) \/ j.id <= Len(records'),
         WorkOK', Active' /\ IsDelete(msg)' => sharedTable \in Tables
  PROVE  TypeInv'
<1>1. TypeOK'
  <2>1. applied' \subseteq 0..Len(records')
    <3>1. applied' = applied /\ applied \subseteq 0..Len(records) /\ Len(records) \in Nat
      BY TypeFacts DEF TypeOK
    <3>. QED BY <3>1
  <2>2. /\ rows' = rows /\ version' = version /\ removes' = removes /\ putsDue' = putsDue
        /\ selected' = selected /\ delsDue' = delsDue /\ sharedTable' = sharedTable
        /\ job' = job /\ pool' = pool /\ tenants' = tenants /\ dest' = dest
    BY DEF sourceVars, serverVars
  <2>3. TypeOK
    BY TypeFacts
  <2>. QED BY <2>1, <2>2, <2>3 DEF TypeOK
<1>2. NamedOK'
  BY TypeFacts DEF NamedOK, sourceVars
<1>3. IdsOK'
  <2>. SUFFICES ASSUME NEW c \in Channels
                PROVE  /\ \A j \in Elems(wire[c])' : j.id <= Len(records')
                       /\ \A r \in Elems(replies[c])' : r.id <= Len(records')
                       /\ job[c]' # None => job[c]' \in Job /\ job[c]'.json.id <= Len(records')
    BY TypeFacts DEF IdsOK
  <2>1. Len(records) \in Nat /\ Len(records') \in Nat /\ Len(records') >= Len(records)
    BY TypeFacts
  <2>2. \A j \in Elems(wire[c]) : j \in Json /\ j.id <= Len(records)
    BY ElemsAre, TypeFacts DEF TypeOK, IdsOK
  <2>3. \A j \in Elems(wire[c])' : j.id <= Len(records')
    <3>1. Elems(wire[c])' = Elems(wire'[c])
      BY DEF Elems
    <3>. QED BY <2>1, <2>2, <3>1 DEF Json
  <2>4. \A r \in Elems(replies[c])' : r.id <= Len(records')
    <3>1. \A r \in Elems(replies[c]) : r \in ReturnMsg /\ r.id <= Len(records)
      BY ElemsAre, TypeFacts DEF TypeOK, IdsOK
    <3>. QED BY <2>1, <3>1 DEF ReturnMsg, Elems
  <2>5. job[c]' # None => job[c]' \in Job /\ job[c]'.json.id <= Len(records')
    BY <2>1, TypeFacts DEF IdsOK, serverVars, Job, Json
  <2>. QED BY <2>3, <2>4, <2>5
<1>. QED BY <1>1, <1>2, <1>3 DEF TypeInv

LEMMA Poll_Types == ASSUME TypeInv, Poll PROVE TypeInv'
<1>1. queue \in Seq(Message) /\ queue # <<>>
  BY TypeFacts DEF TypeOK, Poll
<1>2. /\ Head(queue) \in Message /\ Head(queue) \in Elems(queue) /\ Tail(queue) \in Seq(Message)
      /\ Elems(Tail(queue)) \subseteq Elems(queue)
  BY <1>1, TailFacts
<1>3. IsDelete(Head(queue)) => sharedTable \in Tables
  BY <1>2, TypeFacts DEF NamedOK
<1>4. todo' \subseteq Maps /\ harm' \subseteq Causes
  <2>1. MapsOf(NameIn(Head(queue))) \subseteq Maps /\ Misnamed(Head(queue)) \subseteq Causes
    BY MapsOfFacts DEF Misnamed, Causes
  <2>. QED BY <2>1, TypeFacts DEF Poll, TypeOK
<1>5. WorkOK'
  BY <1>2, TypeFacts DEF Poll, WorkOK
<1>. QED BY <1>2, <1>3, <1>4, <1>5, TypeFacts, SenderKeeps
         DEF Poll, TypeOK, sourceVars, serverVars, linkVars

LEMMA Connect_Types == ASSUME TypeInv, Connect PROVE TypeInv'
<1>1. current + 1 \in Channels /\ current + 1 \in 0..MaxChannels
  BY TypeFacts DEF Connect, TypeOK, Channels
<1>2. link' \in [Channels -> {"down", "up", "half"}]
  BY <1>1, TypeFacts DEF Connect, TypeOK
<1>3. WorkOK'
  BY TypeFacts DEF Connect, Sending, senderVars, WorkOK, Active
<1>. QED BY <1>1, <1>2, <1>3, TypeFacts, SenderKeeps
         DEF Connect, TypeOK, NamedOK, Active, sourceVars, senderVars, serverVars

LEMMA ConnectFails_Types == ASSUME TypeInv, NEW g \in todo, ConnectFails(g) PROVE TypeInv'
<1>1. fails' \in 0..MaxFails /\ harm' \subseteq Causes /\ todo' \subseteq Maps
  BY TypeFacts DEF ConnectFails, TypeOK, Causes
<1>2. WorkOK'
  BY TypeFacts DEF ConnectFails, Sending, WorkOK, Active
<1>. QED BY <1>1, <1>2, TypeFacts, SenderKeeps
         DEF ConnectFails, Sending, TypeOK, NamedOK, Active, sourceVars, serverVars, linkVars

\* A Record is added, with or without its id, or none is.
LEMMA AddedRecord ==
  ASSUME TypeInv, msg \in Message,
         \/ UNCHANGED <<records, lost>>
         \/ /\ records' = Append(records, NewRecord(msg))
            /\ lost' = lost \/ lost' = lost \cup {Len(records) + 1}
  PROVE  /\ records' \in Seq(Record) /\ Len(records') \in Nat /\ Len(records') >= Len(records)
         /\ records' = Append(records, NewRecord(msg)) => Len(records') = Len(records) + 1
         /\ lost' \subseteq 0..Len(records')
<1>1. NewRecord(msg) \in Record
  BY DEF NewRecord, Record
<1>2. records \in Seq(Record) /\ Len(records) \in Nat /\ lost \subseteq 0..Len(records)
  BY TypeFacts DEF TypeOK
<1>3. /\ Append(records, NewRecord(msg)) \in Seq(Record)
      /\ Len(Append(records, NewRecord(msg))) = Len(records) + 1
  BY <1>1, <1>2, AppendFacts
<1>4. /\ Len(records) + 1 \in Nat /\ 0..Len(records) \subseteq 0..(Len(records) + 1)
      /\ Len(records) + 1 \in 0..(Len(records) + 1)
  BY <1>2
<1>5. CASE UNCHANGED <<records, lost>>
  <2>1. records # Append(records, NewRecord(msg))
    BY <1>2, <1>3
  <2>. QED BY <1>2, <1>5, <2>1
<1>6. CASE records' = Append(records, NewRecord(msg))
           /\ (lost' = lost \/ lost' = lost \cup {Len(records) + 1})
  <2>1. Len(records') = Len(records) + 1 /\ records' \in Seq(Record)
    BY <1>3, <1>6
  <2>2. lost' \subseteq 0..Len(records')
    BY <1>2, <1>4, <1>6, <2>1
  <2>. QED BY <1>2, <2>1, <2>2
<1>. QED BY <1>5, <1>6

LEMMA Build_Types == ASSUME TypeInv, NEW g \in todo, Build(g) PROVE TypeInv'
<1>1. /\ msg \in Message /\ g \in Maps /\ current \in Channels /\ NameIn(msg) \in Tables
  <2>1. msg \in Message /\ (IsDelete(msg) => sharedTable \in Tables)
    BY TypeFacts DEF WorkOK, NamedOK, Active
  <2>2. NameIn(msg) \in Tables
    BY <2>1, NameIsTable
  <2>3. g \in Maps /\ current \in Channels
    BY TypeFacts DEF Build, Connected, TypeOK, Channels
  <2>. QED BY <2>1, <2>2, <2>3
<1>2. /\ records' \in Seq(Record) /\ Len(records') >= Len(records) /\ Len(records') \in Nat
      /\ recordId' \in 0..Len(records') /\ fails' \in 0..MaxFails
      /\ lost' \subseteq 0..Len(records')
  <2>1. /\ records' \in Seq(Record) /\ Len(records') \in Nat /\ Len(records') >= Len(records)
        /\ records' = Append(records, NewRecord(msg)) => Len(records') = Len(records) + 1
        /\ lost' \subseteq 0..Len(records')
    BY <1>1, AddedRecord DEF Build, Orphan
  <2>2. recordId \in 0..Len(records) /\ Len(records) \in Nat
    BY TypeFacts DEF TypeOK
  <2>3. recordId' \in 0..Len(records')
    BY <2>1, <2>2 DEF Build
  <2>4. fails' \in 0..MaxFails
    BY TypeFacts DEF Build, TypeOK
  <2>. QED BY <2>1, <2>3, <2>4
<1>3. built' \in Delivery
  BY <1>1, <1>2 DEF Build, Delivery
<1>4. WorkOK'
  <2>1. built'.channel = current /\ built'.id = recordId' /\ built'.table = NameIn(msg)
    BY DEF Build
  <2>2. ~IsDelete(msg) => NameIn(msg) = TableOf(msg.row)
    BY DEF NameIn
  <2>. QED BY <1>1, <1>3, <2>1, <2>2, TypeFacts DEF WorkOK, Build, linkVars
<1>5. todo' \subseteq Maps /\ harm' \subseteq Causes
  BY TypeFacts DEF Build, Misnamed, Causes, TypeOK
<1>6. UNCHANGED <<sourceVars, queue, msg, alive, linkVars, serverVars, applied>>
  BY DEF Build
<1>7. IsDelete(msg) => sharedTable \in Tables
  BY TypeFacts DEF NamedOK, Active
<1>. QED BY <1>2, <1>3, <1>4, <1>5, <1>6, <1>7, TypeFacts, SenderKeeps
         DEF TypeOK, linkVars

LEMMA AddThrows_Types == ASSUME TypeInv, NEW g \in todo, AddThrows(g) PROVE TypeInv'
<1>1. /\ built = None /\ built' = None /\ todo' = {} /\ alive' = FALSE
      /\ Orphan \/ UNCHANGED <<records, lost>>
      /\ UNCHANGED <<sourceVars, queue, msg, recordId, linkVars, serverVars, applied>>
  BY DEF AddThrows, Sending
<1>2. msg \in Message
  BY TypeFacts DEF WorkOK, Active
<1>3. /\ records' \in Seq(Record) /\ Len(records') \in Nat /\ Len(records') >= Len(records)
      /\ lost' \subseteq 0..Len(records')
  BY <1>1, <1>2, AddedRecord DEF Orphan
<1>4. recordId' \in 0..Len(records')
  <2>1. recordId \in 0..Len(records) /\ Len(records) \in Nat
    BY TypeFacts DEF TypeOK
  <2>. QED BY <1>1, <1>3, <2>1
<1>5. fails' \in 0..MaxFails /\ harm' \subseteq Causes
  BY TypeFacts DEF AddThrows, TypeOK, Causes
<1>6. WorkOK' /\ ~Active'
  BY <1>1 DEF WorkOK, Active
<1>. QED BY <1>1, <1>3, <1>4, <1>5, <1>6, TypeFacts, SenderKeeps DEF TypeOK, linkVars

LEMMA Write_Types == ASSUME TypeInv, Write PROVE TypeInv'
<1>1. /\ built \in Delivery /\ msg \in Message /\ built.id \in 0..Len(records)
  BY TypeFacts DEF Write, TypeOK, WorkOK, Active
<1>2. JsonOf(built) \in Json /\ JsonOf(built).id = built.id
  BY <1>1 DEF JsonOf, Json, Delivery, Message, KeyOf, Rows
<1>3. /\ wire' \in [Channels -> Seq(Json)]
      /\ \A c \in Channels : \A j \in Elems(wire'[c]) : j \in Elems(wire[c]) \/ j.id <= Len(records)
  <2>1. wire \in [Channels -> Seq(Json)] /\ built.channel \in Channels
    BY <1>1, TypeFacts DEF TypeOK, Delivery
  <2>2. CASE wire' = [wire EXCEPT ![built.channel] = Append(@, JsonOf(built))]
    <3>1. /\ Append(wire[built.channel], JsonOf(built)) \in Seq(Json)
          /\ Elems(Append(wire[built.channel], JsonOf(built)))
               = Elems(wire[built.channel]) \cup {JsonOf(built)}
      BY <1>2, <2>1, AppendFacts
    <3>2. JsonOf(built).id <= Len(records)
      BY <1>1, <1>2, TypeFacts
    <3>. QED BY <2>1, <2>2, <3>1, <3>2
  <2>3. CASE UNCHANGED wire
    BY <2>1, <2>3
  <2>. QED BY <2>2, <2>3 DEF Write
<1>4. harm' \subseteq Causes /\ lost' \subseteq 0..Len(records)
  BY <1>1, TypeFacts DEF Write, Misnamed, Causes, TypeOK
<1>5. WorkOK'
  BY <1>1, TypeFacts DEF Write, WorkOK
<1>6. /\ UNCHANGED <<sourceVars, queue, msg, recordId, todo, alive, records, link, replies, current,
                     serverVars, fails, applied>>
      /\ built' = None
  BY DEF Write
<1>. QED BY <1>3, <1>4, <1>5, <1>6, TypeFacts, SenderKeeps
         DEF TypeOK, NamedOK, Active, Write

LEMMA Withhold_Types == ASSUME TypeInv, Withhold \/ SenderDies PROVE TypeInv'
<1>1. /\ built # None /\ IsDelete(msg) /\ built' = None /\ lost' = lost \cup {built.id}
      /\ todo' \in {todo, {}} /\ fails' \in {fails, fails + 1} /\ (fails' = fails \/ fails < MaxFails)
      /\ harm' \subseteq Causes /\ alive' \in BOOLEAN
      /\ UNCHANGED <<sourceVars, queue, msg, recordId, records, linkVars, serverVars, applied>>
  BY TypeFacts DEF Withhold, SenderDies, Misnamed, Causes, TypeOK
<1>2. msg \in Message /\ sharedTable \in Tables /\ built.id \in 0..Len(records)
  BY <1>1, TypeFacts DEF TypeOK, WorkOK, NamedOK, Active
<1>3. WorkOK'
  BY <1>1, <1>2, TypeFacts DEF WorkOK
<1>4. lost' \subseteq 0..Len(records) /\ fails' \in 0..MaxFails
  BY <1>1, <1>2, TypeFacts DEF TypeOK
<1>. QED BY <1>1, <1>2, <1>3, <1>4, TypeFacts, SenderKeeps DEF TypeOK, linkVars

-----------------------------------------------------------------------------
\* The steps of the server, of the connections and of the reply handler leave the
\* source, the queue and the sender alone.
LEMMA ServerKeeps ==
  ASSUME TypeInv, UNCHANGED <<sourceVars, queue, senderVars, current>>,
         records' \in Seq(Record), Len(records') = Len(records),
         link' \in [Channels -> {"down", "up", "half"}],
         wire' \in [Channels -> Seq(Json)], replies' \in [Channels -> Seq(ReturnMsg)],
         job' \in [Channels -> Job \cup {None}],
         pool' \in [Channels -> [Maps -> {"new", "con", "null", "dead"}]], tenants' \subseteq Maps,
         dest' \in [Maps -> [Keys -> 0..MaxVersion]], fails' \in 0..MaxFails,
         applied' \subseteq 0..Len(records), lost' \subseteq 0..Len(records),
         harm' \subseteq Causes,
         \A c \in Channels : Elems(wire'[c]) \subseteq Elems(wire[c]),
         \A c \in Channels : \A r \in Elems(replies'[c]) :
            r \in Elems(replies[c]) \/ r.id <= Len(records),
         \A c \in Channels : job'[c] # None => job'[c].json.id <= Len(records)
  PROVE  TypeInv'
<1>1. TypeOK'
  <2>1. /\ rows' = rows /\ version' = version /\ removes' = removes /\ putsDue' = putsDue
        /\ selected' = selected /\ delsDue' = delsDue /\ sharedTable' = sharedTable
        /\ msg' = msg /\ recordId' = recordId /\ todo' = todo /\ built' = built /\ alive' = alive
        /\ queue' = queue /\ current' = current
    BY DEF sourceVars, senderVars
  <2>2. TypeOK
    BY TypeFacts
  <2>. QED BY <2>1, <2>2 DEF TypeOK
<1>2. WorkOK' /\ NamedOK'
  BY TypeFacts DEF WorkOK, NamedOK, Active, sourceVars, senderVars
<1>3. IdsOK'
  <2>. SUFFICES ASSUME NEW c \in Channels
                PROVE  /\ \A j \in Elems(wire[c])' : j.id <= Len(records')
                       /\ \A r \in Elems(replies[c])' : r.id <= Len(records')
                       /\ job[c]' # None => job[c]' \in Job /\ job[c]'.json.id <= Len(records')
    BY TypeFacts DEF IdsOK
  <2>1. Elems(wire[c])' = Elems(wire'[c]) /\ Elems(replies[c])' = Elems(replies'[c])
    BY DEF Elems
  <2>2. /\ \A j \in Elems(wire[c]) : j.id <= Len(records)
        /\ \A r \in Elems(replies[c]) : r.id <= Len(records)
    BY TypeFacts DEF IdsOK
  <2>3. job[c]' # None => job[c]' \in Job
    BY <1>1 DEF TypeOK
  <2>. QED BY <2>1, <2>2, <2>3
<1>. QED BY <1>1, <1>2, <1>3 DEF TypeInv

\* Of a message in a wire, of a reply, of a job.
LEMMA WireFacts ==
  ASSUME TypeInv, NEW c \in Channels
  PROVE  /\ wire[c] \in Seq(Json) /\ Elems(wire[c]) \subseteq Json
         /\ \A j \in Elems(wire[c]) : j.id \in 0..Len(records)
         /\ replies[c] \in Seq(ReturnMsg)
         /\ \A r \in Elems(replies[c]) : r.id \in 0..Len(records)
         /\ job[c] # None => /\ job[c] \in Job /\ job[c].json \in Json
                             /\ job[c].json.id \in 0..Len(records)
<1>1. wire[c] \in Seq(Json) /\ replies[c] \in Seq(ReturnMsg)
  BY TypeFacts DEF TypeOK
<1>2. Elems(wire[c]) \subseteq Json /\ Elems(replies[c]) \subseteq ReturnMsg
  BY <1>1, ElemsAre
<1>3. /\ \A j \in Elems(wire[c]) : j.id <= Len(records)
      /\ \A r \in Elems(replies[c]) : r.id <= Len(records)
      /\ job[c] # None => job[c] \in Job /\ job[c].json.id <= Len(records)
  BY TypeFacts DEF IdsOK
<1>4. \A j \in Json : j.id \in Nat
  BY DEF Json
<1>5. \A r \in ReturnMsg : r.id \in Nat
  BY DEF ReturnMsg
<1>6. \A w \in Job : w.json \in Json
  BY DEF Job
<1>7. Len(records) \in Nat
  BY TypeFacts
<1>. QED BY <1>1, <1>2, <1>3, <1>4, <1>5, <1>6, <1>7

\* The ids of what a wire or a connection loses.
LEMMA LostIds ==
  ASSUME TypeInv, NEW c \in Channels
  PROVE  Ids(wire[c]) \subseteq 0..Len(records) /\ Ids(replies[c]) \subseteq 0..Len(records)
  BY WireFacts, IdsAre

LEMMA Receive_Types == ASSUME TypeInv, NEW c \in Channels, Receive(c) PROVE TypeInv'
<1>. DEFINE j == Head(wire[c])
            w == [json |-> j, todo |-> MapsOf(j.table), resFlag |-> NoResult, whole |-> TRUE]
<1>1. /\ j \in Json /\ j \in Elems(wire[c]) /\ Tail(wire[c]) \in Seq(Json)
      /\ Elems(Tail(wire[c])) \subseteq Elems(wire[c])
  BY WireFacts, TailFacts DEF Receive
<1>2. w \in Job
  BY <1>1, MapsOfFacts DEF Job, NoResult
<1>3. j.id <= Len(records) /\ j.id \in 0..Len(records)
  BY <1>1, WireFacts, TypeFacts
<1>4. wire' \in [Channels -> Seq(Json)] /\ \A o \in Channels : Elems(wire'[o]) \subseteq Elems(wire[o])
  <2>1. wire \in [Channels -> Seq(Json)] /\ wire' = [wire EXCEPT ![c] = Tail(wire[c])]
    BY TypeFacts DEF Receive, TypeOK
  <2>2. \A o \in Channels : wire'[o] = IF o = c THEN Tail(wire[c]) ELSE wire[o]
    BY <2>1
  <2>. QED BY <1>1, <2>1, <2>2
<1>5. /\ job' \in [Channels -> Job \cup {None}]
      /\ \A o \in Channels : job'[o] = IF o = c THEN w ELSE job[o]
  <2>1. job \in [Channels -> Job \cup {None}] /\ job' = [job EXCEPT ![c] = w]
    BY TypeFacts DEF Receive, TypeOK
  <2>. QED BY <1>2, <2>1
<1>6. \A o \in Channels : job'[o] # None => job'[o].json.id <= Len(records)
  BY <1>3, <1>5, TypeFacts DEF IdsOK
<1>7. UNCHANGED <<sourceVars, queue, senderVars, records, link, replies, current, pool, tenants,
                  dest, fails, applied, lost, harm>>
  BY DEF Receive
<1>. QED BY <1>4, <1>5, <1>6, <1>7, ServerKeeps, TypeFacts DEF TypeOK

LEMMA Pooled_Types ==
  ASSUME TypeInv, NEW c \in Channels, NEW g \in Maps, Pooled(c, g)
  PROVE  pool' \in [Channels -> [Maps -> {"new", "con", "null", "dead"}]] /\ fails' \in 0..MaxFails
<1>1. pool \in [Channels -> [Maps -> {"new", "con", "null", "dead"}]] /\ fails \in 0..MaxFails
      /\ MaxFails \in Nat
  BY TypeFacts DEF TypeOK
<1>2. \A v \in {"con", "null"} : [pool EXCEPT ![c][g] = v] \in [Channels -> [Maps -> {"new", "con", "null", "dead"}]]
  BY <1>1
<1>. QED BY <1>1, <1>2 DEF Pooled

\* A step that changes the job of one channel only, and its message not.
LEMMA JobKeeps ==
  ASSUME TypeInv, NEW c \in Channels, job[c] # None, NEW w \in Job, w.json = job[c].json,
         job' = [job EXCEPT ![c] = w], UNCHANGED <<sourceVars, queue, senderVars, records, linkVars,
         tenants, lost>>,
         pool' \in [Channels -> [Maps -> {"new", "con", "null", "dead"}]], fails' \in 0..MaxFails,
         dest' \in [Maps -> [Keys -> 0..MaxVersion]],
         applied' \subseteq 0..Len(records), harm' \subseteq Causes
  PROVE  TypeInv'
<1>1. job \in [Channels -> Job \cup {None}]
  BY TypeFacts DEF TypeOK
<1>2. /\ job' \in [Channels -> Job \cup {None}]
      /\ \A o \in Channels : job'[o] = IF o = c THEN w ELSE job[o]
  BY <1>1
<1>3. \A o \in Channels : job'[o] # None => job'[o].json.id <= Len(records)
  BY <1>2, TypeFacts DEF IdsOK
<1>4. link' = link /\ wire' = wire /\ replies' = replies /\ current' = current
  BY DEF linkVars
<1>. QED BY <1>2, <1>3, <1>4, ServerKeeps, TypeFacts DEF TypeOK

\* What Apply and ApplyThrows make of a job.
AppliedTo(w, g) == [w EXCEPT !.todo = @ \ {g}, !.resFlag = SynStatus(g, w.json)]
RefusedTo(w, g) == [w EXCEPT !.todo = @ \ {g}, !.resFlag = 0, !.whole = FALSE]
ThrownAt(w) == [w EXCEPT !.todo = {}, !.whole = FALSE]

SetTo(w, x, y) == [w EXCEPT !.todo = x, !.resFlag = y]
SetAll(w, x, y, z) == [w EXCEPT !.todo = x, !.resFlag = y, !.whole = z]
SetBut(w, x, z) == [w EXCEPT !.todo = x, !.whole = z]

LEMMA SetToJob ==
  ASSUME NEW w \in Job, NEW x \in SUBSET Maps, NEW y \in 0..3
  PROVE  /\ SetTo(w, x, y) \in Job /\ SetTo(w, x, y).json = w.json
         /\ SetTo(w, x, y).todo = x /\ SetTo(w, x, y).resFlag = y
  BY DEF Job, SetTo

LEMMA SetAllJob ==
  ASSUME NEW w \in Job, NEW x \in SUBSET Maps, NEW y \in 0..3, NEW z \in BOOLEAN
  PROVE  /\ SetAll(w, x, y, z) \in Job /\ SetAll(w, x, y, z).json = w.json
         /\ SetAll(w, x, y, z).todo = x /\ SetAll(w, x, y, z).resFlag = y
  BY DEF Job, SetAll

LEMMA SetButJob ==
  ASSUME NEW w \in Job, NEW x \in SUBSET Maps, NEW z \in BOOLEAN
  PROVE  /\ SetBut(w, x, z) \in Job /\ SetBut(w, x, z).json = w.json
         /\ SetBut(w, x, z).todo = x /\ SetBut(w, x, z).resFlag = w.resFlag
  BY DEF Job, SetBut

LEMMA JobSteps ==
  ASSUME NEW w \in Job, NEW g \in Maps
  PROVE  /\ AppliedTo(w, g) \in Job /\ AppliedTo(w, g).json = w.json
         /\ AppliedTo(w, g).todo = w.todo \ {g}
         /\ AppliedTo(w, g).resFlag = SynStatus(g, w.json)
         /\ RefusedTo(w, g) \in Job /\ RefusedTo(w, g).json = w.json
         /\ RefusedTo(w, g).todo = w.todo \ {g} /\ RefusedTo(w, g).resFlag = 0
         /\ ThrownAt(w) \in Job /\ ThrownAt(w).json = w.json
         /\ ThrownAt(w).todo = {} /\ ThrownAt(w).resFlag = w.resFlag
<1>. DEFINE x == w.todo \ {g}
            y == SynStatus(g, w.json)
<1>1. x \in SUBSET Maps /\ y \in 0..3
  BY DEF Job, SynStatus
<1>2. /\ AppliedTo(w, g) = SetTo(w, x, y)
      /\ RefusedTo(w, g) = SetAll(w, x, 0, FALSE)
      /\ ThrownAt(w) = SetBut(w, {}, FALSE)
  BY Zenon DEF AppliedTo, RefusedTo, ThrownAt, SetTo, SetAll, SetBut
<1>. HIDE DEF x, y
<1>3. /\ SetTo(w, x, y) \in Job /\ SetTo(w, x, y).json = w.json
      /\ SetTo(w, x, y).todo = x /\ SetTo(w, x, y).resFlag = y
  BY <1>1, SetToJob
<1>4. ASSUME NEW z \in BOOLEAN
      PROVE  /\ SetAll(w, x, 0, z) \in Job /\ SetAll(w, x, 0, z).json = w.json
             /\ SetAll(w, x, 0, z).todo = x /\ SetAll(w, x, 0, z).resFlag = 0
  BY <1>1, SetAllJob
<1>5. ASSUME NEW z \in BOOLEAN
      PROVE  /\ SetBut(w, {}, z) \in Job /\ SetBut(w, {}, z).json = w.json
             /\ SetBut(w, {}, z).todo = {} /\ SetBut(w, {}, z).resFlag = w.resFlag
  BY SetButJob
<1>. QED BY <1>2, <1>3, <1>4, <1>5, Zenon DEF x, y

\* The job of a step of the loop, of a refusal, of an exception.
LEMMA ApplyEffect ==
  ASSUME TypeInv, NEW c \in Channels, NEW g \in Maps, Apply(c, g)
  PROVE  /\ g \in job[c].todo
         /\ \/ /\ job' = [job EXCEPT ![c] = AppliedTo(job[c], g)]
               /\ dest' = [dest EXCEPT ![g][job[c].json.key] = job[c].json.version]
               /\ applied' = applied \cup {job[c].json.id}
               /\ harm' = harm
            \/ /\ job' = [job EXCEPT ![c] = RefusedTo(job[c], g)]
               /\ harm' = harm \cup {"refused"}
               /\ dest' = dest /\ applied' = applied
<1>1. job \in [Channels -> Job \cup {None}]
  BY TypeFacts DEF TypeOK
<1>2. /\ [job EXCEPT ![c].todo = @ \ {g}, ![c].resFlag = SynStatus(g, job[c].json)]
           = [job EXCEPT ![c] = [job[c] EXCEPT !.todo = @ \ {g}, !.resFlag = SynStatus(g, job[c].json)]]
      /\ [job EXCEPT ![c].todo = @ \ {g}, ![c].resFlag = 0, ![c].whole = FALSE]
           = [job EXCEPT ![c] = [job[c] EXCEPT !.todo = @ \ {g}, !.resFlag = 0, !.whole = FALSE]]
  BY <1>1
<1>. QED BY <1>2 DEF Apply, Store, InHand, AppliedTo, RefusedTo

LEMMA ThrowsEffect ==
  ASSUME TypeInv, NEW c \in Channels, NEW g \in Maps, ApplyThrows(c, g)
  PROVE  /\ g \in job[c].todo
         /\ job' = [job EXCEPT ![c] = ThrownAt(job[c])]
         /\ dest' = dest \/ dest' = [dest EXCEPT ![g][job[c].json.key] = job[c].json.version]
<1>1. job \in [Channels -> Job \cup {None}]
  BY TypeFacts DEF TypeOK
<1>2. [job EXCEPT ![c].todo = {}, ![c].whole = FALSE]
        = [job EXCEPT ![c] = [job[c] EXCEPT !.todo = {}, !.whole = FALSE]]
  BY <1>1
<1>3. g \in job[c].todo /\ job' = [job EXCEPT ![c] = ThrownAt(job[c])]
  BY <1>2 DEF ApplyThrows, InHand, ThrownAt
<1>4. dest' = dest \/ dest' = [dest EXCEPT ![g][job[c].json.key] = job[c].json.version]
  BY DEF ApplyThrows, Store
<1>. QED BY <1>3, <1>4

LEMMA Apply_Types ==
  ASSUME TypeInv, NEW c \in Channels, NEW g \in Maps, Apply(c, g) PROVE TypeInv'
<1>. DEFINE w == job[c]
            j == w.json
<1>1. w \in Job /\ w # None /\ j \in Json /\ j.id \in 0..Len(records)
  BY WireFacts DEF Apply, InHand
<1>2. /\ AppliedTo(w, g) \in Job /\ AppliedTo(w, g).json = w.json
      /\ RefusedTo(w, g) \in Job /\ RefusedTo(w, g).json = w.json
  BY <1>1, JobSteps
<1>3. dest \in [Maps -> [Keys -> 0..MaxVersion]]
      /\ applied \subseteq 0..Len(records) /\ harm \subseteq Causes /\ "refused" \in Causes
  BY TypeFacts DEF TypeOK, Causes
<1>4. pool' \in [Channels -> [Maps -> {"new", "con", "null", "dead"}]] /\ fails' \in 0..MaxFails
  BY Pooled_Types DEF Apply
<1>5. UNCHANGED <<sourceVars, queue, senderVars, records, linkVars, tenants, lost>>
  BY DEF Apply
<1>6. [dest EXCEPT ![g][j.key] = j.version] \in [Maps -> [Keys -> 0..MaxVersion]]
  BY <1>1, <1>3 DEF Json
<1>7. /\ dest' \in [Maps -> [Keys -> 0..MaxVersion]] /\ applied' \subseteq 0..Len(records)
      /\ harm' \subseteq Causes
  BY <1>1, <1>3, <1>6, ApplyEffect
<1>8. CASE job' = [job EXCEPT ![c] = AppliedTo(w, g)]
  BY <1>1, <1>2, <1>4, <1>5, <1>7, <1>8, JobKeeps
<1>9. CASE job' = [job EXCEPT ![c] = RefusedTo(w, g)]
  BY <1>1, <1>2, <1>4, <1>5, <1>7, <1>9, JobKeeps
<1>. QED BY <1>8, <1>9, ApplyEffect

LEMMA ApplyThrows_Types ==
  ASSUME TypeInv, NEW c \in Channels, NEW g \in Maps, ApplyThrows(c, g) PROVE TypeInv'
<1>. DEFINE w == job[c]
            j == w.json
<1>1. w \in Job /\ w # None /\ j \in Json
  BY WireFacts DEF ApplyThrows, InHand
<1>2. ThrownAt(w) \in Job /\ ThrownAt(w).json = w.json
  BY <1>1, JobSteps
<1>3. job' = [job EXCEPT ![c] = ThrownAt(w)]
  BY ThrowsEffect
<1>4. dest' \in [Maps -> [Keys -> 0..MaxVersion]]
  <2>1. dest \in [Maps -> [Keys -> 0..MaxVersion]]
    BY TypeFacts DEF TypeOK
  <2>2. [dest EXCEPT ![g][j.key] = j.version] \in [Maps -> [Keys -> 0..MaxVersion]]
    BY <1>1, <2>1 DEF Json
  <2>. QED BY <2>1, <2>2, ThrowsEffect
<1>5. pool' \in [Channels -> [Maps -> {"new", "con", "null", "dead"}]]
  <2>1. pool \in [Channels -> [Maps -> {"new", "con", "null", "dead"}]]
    BY TypeFacts DEF TypeOK
  <2>2. ASSUME NEW s \in {"con", "dead"}
        PROVE  [pool EXCEPT ![c][g] = s] \in [Channels -> [Maps -> {"new", "con", "null", "dead"}]]
    BY <2>1
  <2>3. pool' = pool \/ \E s \in {"con", "dead"} : pool' = [pool EXCEPT ![c][g] = s]
    BY DEF ApplyThrows
  <2>. QED BY <2>1, <2>2, <2>3
<1>6. /\ harm' \subseteq Causes /\ fails' \in 0..MaxFails
      /\ UNCHANGED <<sourceVars, queue, senderVars, records, linkVars, tenants, applied, lost>>
  BY TypeFacts DEF ApplyThrows, TypeOK, Causes
<1>7. applied' \subseteq 0..Len(records)
  BY <1>6, TypeFacts DEF TypeOK
<1>. HIDE DEF w, j
<1>. QED BY <1>1, <1>2, <1>3, <1>4, <1>5, <1>6, <1>7, JobKeeps DEF w

LEMMA NoTenant_Types ==
  ASSUME TypeInv, NEW c \in Channels, NEW g \in Maps, NoTenant(c, g) PROVE TypeInv'
<1>1. job' \in [Channels -> Job \cup {None}] /\ \A o \in Channels : job'[o] = IF o = c THEN None ELSE job[o]
  BY TypeFacts DEF NoTenant, TypeOK
<1>2. wire' \in [Channels -> Seq(Json)] /\ \A o \in Channels : Elems(wire'[o]) \subseteq Elems(wire[o])
  <2>1. wire \in [Channels -> Seq(Json)] /\ wire' = [wire EXCEPT ![c] = <<>>]
    BY TypeFacts DEF NoTenant, TypeOK
  <2>2. \A o \in Channels : wire'[o] = IF o = c THEN <<>> ELSE wire[o]
    BY <2>1
  <2>. QED BY <2>1, <2>2, EmptyFacts
<1>3. link' \in [Channels -> {"down", "up", "half"}]
  BY TypeFacts DEF NoTenant, TypeOK
<1>4. lost' \subseteq 0..Len(records)
  <2>1. job[c] # None /\ job[c].json.id \in 0..Len(records)
    BY WireFacts DEF NoTenant, InHand
  <2>. QED BY <2>1, LostIds, TypeFacts DEF NoTenant, TypeOK
<1>5. harm' \subseteq Causes
  BY TypeFacts DEF NoTenant, TypeOK, Causes
<1>6. UNCHANGED <<sourceVars, queue, senderVars, records, replies, current, pool, tenants, dest,
                  fails, applied>>
  BY DEF NoTenant
<1>7. \A o \in Channels : job'[o] # None => job'[o].json.id <= Len(records)
  BY <1>1, TypeFacts DEF IdsOK
<1>. QED BY <1>1, <1>2, <1>3, <1>4, <1>5, <1>6, <1>7, ServerKeeps, TypeFacts DEF TypeOK

LEMMA Reply_Types == ASSUME TypeInv, NEW c \in Channels, Reply(c) PROVE TypeInv'
<1>. DEFINE a == [id |-> job[c].json.id, status |-> job[c].resFlag, whole |-> job[c].whole]
<1>1. job[c] # None /\ job[c] \in Job /\ job[c].json \in Json /\ job[c].json.id \in 0..Len(records)
  BY WireFacts DEF Reply
<1>2. a \in ReturnMsg /\ a.id \in 0..Len(records)
  BY <1>1 DEF Job, Json, ReturnMsg
<1>3. job' \in [Channels -> Job \cup {None}] /\ \A o \in Channels : job'[o] = IF o = c THEN None ELSE job[o]
  BY TypeFacts DEF Reply, TypeOK
<1>4. /\ replies' \in [Channels -> Seq(ReturnMsg)]
      /\ \A o \in Channels : \A r \in Elems(replies'[o]) : r \in Elems(replies[o]) \/ r = a
  <2>1. replies \in [Channels -> Seq(ReturnMsg)]
    BY TypeFacts DEF TypeOK
  <2>2. replies' = replies \/ replies' = [replies EXCEPT ![c] = Append(replies[c], a)]
    BY <2>1 DEF Reply
  <2>3. Append(replies[c], a) \in Seq(ReturnMsg) /\ Elems(Append(replies[c], a)) = Elems(replies[c]) \cup {a}
    BY <1>2, <2>1, AppendFacts
  <2>. HIDE DEF a
  <2>4. CASE replies' = [replies EXCEPT ![c] = Append(replies[c], a)]
    <3>1. \A o \in Channels : replies'[o] = IF o = c THEN Append(replies[c], a) ELSE replies[o]
      BY <2>1, <2>4
    <3>. QED BY <2>1, <2>3, <2>4, <3>1
  <2>. QED BY <2>1, <2>2, <2>4
<1>5. lost' \subseteq 0..Len(records)
  BY <1>1, TypeFacts DEF Reply, TypeOK
<1>6. UNCHANGED <<sourceVars, queue, senderVars, records, link, wire, current, pool, tenants,
                  dest, fails, applied, harm>>
  BY DEF Reply
<1>7. \A o \in Channels : job'[o] # None => job'[o].json.id <= Len(records)
  BY <1>3, TypeFacts DEF IdsOK
<1>8. \A o \in Channels : \A r \in Elems(replies'[o]) : r \in Elems(replies[o]) \/ r.id <= Len(records)
  BY <1>2, <1>4, TypeFacts
<1>. QED BY <1>3, <1>4, <1>5, <1>6, <1>7, <1>8, ServerKeeps, TypeFacts DEF TypeOK

LEMMA AddTenant_Types == ASSUME TypeInv, NEW g \in Maps, AddTenant(g) PROVE TypeInv'
<1>1. /\ tenants' \subseteq Maps
      /\ UNCHANGED <<sourceVars, queue, senderVars, records, linkVars, job, pool, dest, fails,
                     applied, lost, harm>>
  BY TypeFacts DEF AddTenant, TypeOK
<1>2. \A o \in Channels : job'[o] # None => job'[o].json.id <= Len(records)
  BY <1>1, TypeFacts DEF IdsOK
<1>. QED BY <1>1, <1>2, ServerKeeps, TypeFacts DEF TypeOK, linkVars

-----------------------------------------------------------------------------
\* What an answer makes of a Record, of a failure and of a success.
FailedAs(rec, x, y) == [rec EXCEPT !.returned = x, !.status = y]
DoneAs(rec, x, y, z) == [rec EXCEPT !.returned = x, !.status = y, !.type = z]

LEMMA FailedRecord ==
  ASSUME NEW rec \in Record, NEW x \in BOOLEAN, NEW y \in 0..1
  PROVE  /\ FailedAs(rec, x, y) \in Record /\ FailedAs(rec, x, y).msg = rec.msg
         /\ FailedAs(rec, x, y).status = y
  BY DEF Record, FailedAs

LEMMA DoneRecord ==
  ASSUME NEW rec \in Record, NEW z \in 0..2
  PROVE  /\ DoneAs(rec, TRUE, 1, z) \in Record /\ DoneAs(rec, TRUE, 1, z).msg = rec.msg
         /\ DoneAs(rec, TRUE, 1, z).status = 1 /\ DoneAs(rec, TRUE, 1, z).type = z
<1>1. ASSUME NEW x \in BOOLEAN, NEW y \in 0..1
      PROVE  /\ DoneAs(rec, x, y, z) \in Record /\ DoneAs(rec, x, y, z).msg = rec.msg
             /\ DoneAs(rec, x, y, z).status = y /\ DoneAs(rec, x, y, z).type = z
  BY DEF Record, DoneAs
<1>2. 1 \in 0..1
  OBVIOUS
<1>3. ASSUME NEW x \in BOOLEAN
      PROVE  /\ DoneAs(rec, x, 1, z) \in Record /\ DoneAs(rec, x, 1, z).msg = rec.msg
             /\ DoneAs(rec, x, 1, z).status = 1 /\ DoneAs(rec, x, 1, z).type = z
  BY <1>1, <1>2
<1>. QED BY <1>3, Zenon

LEMMA Answered_Types ==
  ASSUME NEW rec \in Record, NEW status \in 0..3
  PROVE  /\ Answered(rec, status) \in Record /\ Answered(rec, status).msg = rec.msg
         /\ status = 0 => Answered(rec, status).status = 0
         /\ status # 0 => Answered(rec, status).status = 1 /\ Answered(rec, status).type = status - 1
<1>1. Answered(rec, status) = IF status = 0 THEN FailedAs(rec, TRUE, 0)
                              ELSE DoneAs(rec, TRUE, 1, status - 1)
  BY Zenon DEF Answered, FailedAs, DoneAs
<1>2. CASE status = 0
  <2>1. ASSUME NEW x \in BOOLEAN
        PROVE  /\ FailedAs(rec, x, 0) \in Record /\ FailedAs(rec, x, 0).msg = rec.msg
               /\ FailedAs(rec, x, 0).status = 0
    BY FailedRecord
  <2>. QED BY <1>1, <1>2, <2>1, Zenon
<1>3. CASE status # 0
  <2>1. status - 1 \in 0..2
    BY <1>3
  <2>2. \A z \in 0..2 : /\ DoneAs(rec, TRUE, 1, z) \in Record /\ DoneAs(rec, TRUE, 1, z).msg = rec.msg
                        /\ DoneAs(rec, TRUE, 1, z).status = 1 /\ DoneAs(rec, TRUE, 1, z).type = z
    BY DoneRecord
  <2>3. Answered(rec, status) = DoneAs(rec, TRUE, 1, status - 1)
    BY <1>1, <1>3, Zenon
  <2>. QED BY <1>3, <2>1, <2>2, <2>3, Zenon
<1>. QED BY <1>2, <1>3

\* What a reply does to the records.
LEMMA AnsweredRecords ==
  ASSUME records \in Seq(Record), NEW id, NEW status \in 0..3,
         records' = [i \in DOMAIN records |->
                       IF i = id THEN Answered(records[i], status) ELSE records[i]]
  PROVE  records' \in Seq(Record) /\ Len(records') = Len(records)
<1>1. Len(records) \in Nat /\ DOMAIN records = 1..Len(records) /\ \A i \in 1..Len(records) : records[i] \in Record
  OBVIOUS
<1>2. \A i \in 1..Len(records) : Answered(records[i], status) \in Record
  BY <1>1, Answered_Types
<1>3. records' \in [1..Len(records) -> Record]
  BY <1>1, <1>2
<1>. QED BY <1>1, <1>3

LEMMA HandleReply_Types == ASSUME TypeInv, NEW c \in Channels, HandleReply(c) PROVE TypeInv'
<1>. DEFINE r == Head(replies[c])
<1>1. /\ r \in ReturnMsg /\ r \in Elems(replies[c]) /\ Tail(replies[c]) \in Seq(ReturnMsg)
      /\ Elems(Tail(replies[c])) \subseteq Elems(replies[c])
  BY WireFacts, TailFacts DEF HandleReply
<1>2. r.id \in 0..Len(records) /\ r.status \in 0..3
  BY <1>1, WireFacts DEF ReturnMsg
<1>3. records' \in Seq(Record) /\ Len(records') = Len(records)
  <2>1. records \in Seq(Record)
    BY TypeFacts DEF TypeOK
  <2>2. CASE records' = [i \in DOMAIN records |->
                          IF i = r.id THEN Answered(records[i], r.status) ELSE records[i]]
    BY <1>2, <2>1, <2>2, AnsweredRecords
  <2>. QED BY <2>1, <2>2 DEF HandleReply
<1>4. lost' \subseteq 0..Len(records) /\ fails' \in 0..MaxFails
  <2>1. lost' = lost \/ lost' = lost \cup {r.id}
    BY DEF HandleReply
  <2>2. fails' = fails \/ (fails < MaxFails /\ fails' = fails + 1)
    BY DEF HandleReply
  <2>3. fails \in 0..MaxFails /\ MaxFails \in Nat /\ lost \subseteq 0..Len(records)
    BY TypeFacts DEF TypeOK
  <2>4. fails' \in 0..MaxFails
    BY <2>2, <2>3
  <2>5. lost' \subseteq 0..Len(records)
    BY <1>2, <2>1, <2>3
  <2>. QED BY <2>4, <2>5
<1>5. /\ replies' \in [Channels -> Seq(ReturnMsg)]
      /\ \A o \in Channels : \A a \in Elems(replies'[o]) : a \in Elems(replies[o])
  <2>1. replies \in [Channels -> Seq(ReturnMsg)] /\ replies' = [replies EXCEPT ![c] = Tail(replies[c])]
    BY TypeFacts DEF HandleReply, TypeOK
  <2>2. \A o \in Channels : replies'[o] = IF o = c THEN Tail(replies[c]) ELSE replies[o]
    BY <2>1
  <2>. QED BY <1>1, <2>1, <2>2
<1>6. UNCHANGED <<sourceVars, queue, senderVars, link, wire, current, serverVars, applied, harm>>
  BY DEF HandleReply
<1>7. job' = job /\ pool' = pool /\ tenants' = tenants /\ dest' = dest
  BY <1>6 DEF serverVars
<1>8. \A o \in Channels : job'[o] # None => job'[o].json.id <= Len(records)
  BY <1>7, TypeFacts DEF IdsOK
<1>. QED BY <1>3, <1>4, <1>5, <1>6, <1>7, <1>8, ServerKeeps, TypeFacts DEF TypeOK

LEMMA Network_Types ==
  ASSUME TypeInv, NEW c \in Channels, Closed(c) \/ Drop(c) \/ Notice(c) PROVE TypeInv'
<1>1. link' \in [Channels -> {"down", "up", "half"}] /\ fails' \in 0..MaxFails /\ harm' \subseteq Causes
  <2>1. /\ link \in [Channels -> {"down", "up", "half"}]
        /\ link' = link \/ link' = [link EXCEPT ![c] = "down"]
    <3>1. Closed(c) \/ Notice(c) => link' = [link EXCEPT ![c] = "down"]
      BY Zenon DEF Closed, Notice
    <3>2. Drop(c) => link' = link
      BY Zenon DEF Drop
    <3>. QED BY <3>1, <3>2, TypeFacts DEF TypeOK
  <2>2. fails \in 0..MaxFails /\ MaxFails \in Nat /\ (fails' = fails \/ (fails < MaxFails /\ fails' = fails + 1))
    BY TypeFacts DEF Closed, Drop, Notice, TypeOK
  <2>3. harm' \subseteq harm \cup {"dropped"} /\ harm \subseteq Causes /\ "dropped" \in Causes
    BY TypeFacts DEF Closed, Drop, Notice, TypeOK, Causes
  <2>4. fails' \in 0..MaxFails
    BY <2>2
  <2>5. link' \in [Channels -> {"down", "up", "half"}]
    BY <2>1
  <2>. QED BY <2>3, <2>4, <2>5
<1>2. wire' \in [Channels -> Seq(Json)] /\ \A o \in Channels : Elems(wire'[o]) \subseteq Elems(wire[o])
  <2>1. wire \in [Channels -> Seq(Json)] /\ (wire' = wire \/ wire' = [wire EXCEPT ![c] = <<>>])
    BY TypeFacts DEF Closed, Drop, Notice, TypeOK
  <2>2. \A o \in Channels : wire'[o] = wire[o] \/ wire'[o] = <<>>
    BY <2>1
  <2>. QED BY <2>1, <2>2, EmptyFacts
<1>3. replies' \in [Channels -> Seq(ReturnMsg)] /\ \A o \in Channels : Elems(replies'[o]) \subseteq Elems(replies[o])
  <2>1. replies \in [Channels -> Seq(ReturnMsg)] /\ (replies' = replies \/ replies' = [replies EXCEPT ![c] = <<>>])
    BY TypeFacts DEF Closed, Drop, Notice, TypeOK
  <2>2. \A o \in Channels : replies'[o] = replies[o] \/ replies'[o] = <<>>
    BY <2>1
  <2>. QED BY <2>1, <2>2, EmptyFacts
<1>4. lost' \subseteq 0..Len(records)
  BY LostIds, TypeFacts DEF Closed, Drop, Notice, TypeOK
<1>5. UNCHANGED <<sourceVars, queue, senderVars, records, current, serverVars, applied>>
  BY DEF Closed, Drop, Notice
<1>6. job' = job /\ pool' = pool /\ tenants' = tenants /\ dest' = dest
  BY <1>5 DEF serverVars
<1>7. \A o \in Channels : job'[o] # None => job'[o].json.id <= Len(records)
  BY <1>6, TypeFacts DEF IdsOK
<1>. QED BY <1>1, <1>2, <1>3, <1>4, <1>5, <1>6, <1>7, ServerKeeps, TypeFacts DEF TypeOK

LEMMA Next_Types == TypeInv /\ [Next]_vars => TypeInv'
<1>. SUFFICES ASSUME TypeInv, [Next]_vars PROVE TypeInv'
  OBVIOUS
<1>1. CASE \E r \in Rows : Change(r) \/ Remove(r)
  BY <1>1, Change_Types, Remove_Types
<1>2. CASE \E c \in putsDue : Select(c)
  BY <1>2, Select_Types
<1>3. CASE \E c \in selected : Offer(c)
  BY <1>3, Offer_Types
<1>4. CASE \E r \in delsDue : OfferDelete(r)
  BY <1>4, OfferDelete_Types
<1>5. CASE Sender
  BY <1>5, Poll_Types, Connect_Types, ConnectFails_Types, Build_Types, AddThrows_Types,
     Write_Types, Withhold_Types
     DEF Sender
<1>6. CASE \E g \in Maps : AddTenant(g)
  BY <1>6, AddTenant_Types
<1>7. CASE \E c \in Channels : Server(c)
  BY <1>7, Receive_Types, Apply_Types, ApplyThrows_Types, NoTenant_Types, Reply_Types DEF Server
<1>8. CASE \E c \in Channels : HandleReply(c) \/ ReplyThrows(c) \/ Break(c) \/ Drop(c) \/ Notice(c)
  BY <1>8, HandleReply_Types, Network_Types DEF ReplyThrows, Break
<1>9. CASE UNCHANGED vars
  <2>1. UNCHANGED <<sourceVars, queue, senderVars, records, linkVars, serverVars, fails,
                    applied, lost, harm>>
    BY <1>9 DEF vars
  <2>2. job' = job /\ link' = link /\ wire' = wire /\ replies' = replies /\ current' = current
        /\ pool' = pool /\ tenants' = tenants /\ dest' = dest
    BY <2>1 DEF serverVars, linkVars
  <2>3. \A o \in Channels : job'[o] # None => job'[o].json.id <= Len(records)
    BY <2>2, TypeFacts DEF IdsOK
  <2>. QED BY <2>1, <2>2, <2>3, ServerKeeps, TypeFacts DEF TypeOK
<1>. QED BY <1>1, <1>2, <1>3, <1>4, <1>5, <1>6, <1>7, <1>8, <1>9 DEF Next

\* Every variable keeps its type; a message in hand is one, and no id is past the
\* table record (SynClient.java, SynServerHandler.java, SynClientHandler.java).
THEOREM TypeCorrect == Spec => []TypeOK
<1>1. TypeInv => TypeOK
  BY TypeFacts
<1>. QED BY <1>1, Init_Types, Next_Types, PTL DEF Spec

-----------------------------------------------------------------------------
(***************************************************************************)
(* What a message, a job, a reply and a record say is true.                *)
(***************************************************************************)
TrueJson(j, recs) == j.id # 0 => j.version = recs[j.id].msg.version

TrueJob(w, recs, app) ==
  /\ TrueJson(w.json, recs)
  /\ w.resFlag # 0 => w.json.id \in app
  /\ w.resFlag = 1 => w.json.version = 0
  /\ w.resFlag \in {2, 3} => w.json.version # 0

TrueReply(r, recs, app) ==
  /\ r.status # 0 => r.id \in app
  /\ r.status = 1 /\ r.id # 0 => recs[r.id].msg.version = 0
  /\ r.status \in {2, 3} /\ r.id # 0 => recs[r.id].msg.version # 0

TrueRecord(i, rec, app) ==
  rec.status = 1 => /\ i \in app
                    /\ rec.type = 0 => rec.msg.version = 0
                    /\ rec.msg.version = 0 => rec.type = 0

RecInv ==
  /\ recordId # 0 => records[recordId].msg = msg
  /\ \A c \in Channels :
       /\ \A j \in Elems(wire[c]) : TrueJson(j, records)
       /\ job[c] # None => TrueJob(job[c], records, applied)
       /\ \A r \in Elems(replies[c]) : TrueReply(r, records, applied)
  /\ \A i \in 1..Len(records) : TrueRecord(i, records[i], applied)

LEMMA RecKeeps ==
  ASSUME TypeInv, RecInv,
         \A i \in 1..Len(records) : records'[i].msg = records[i].msg,
         applied \subseteq applied',
         recordId' # 0 => records'[recordId'].msg = msg',
         \A c \in Channels : \A j \in Elems(wire'[c]) :
            j \in Elems(wire[c]) \/ TrueJson(j, records'),
         \A c \in Channels :
            job'[c] = job[c] \/ job'[c] = None \/ TrueJob(job'[c], records', applied'),
         \A c \in Channels : \A r \in Elems(replies'[c]) :
            r \in Elems(replies[c]) \/ TrueReply(r, records', applied'),
         \A i \in 1..Len(records') :
            (i \in 1..Len(records) /\ records'[i] = records[i]) \/ TrueRecord(i, records'[i], applied')
  PROVE  RecInv'
<1>1. ASSUME NEW c \in Channels
      PROVE  /\ \A j \in Elems(wire'[c]) : TrueJson(j, records')
             /\ job'[c] # None => TrueJob(job'[c], records', applied')
             /\ \A r \in Elems(replies'[c]) : TrueReply(r, records', applied')
  <2>1. ASSUME NEW j \in Elems(wire'[c]) PROVE TrueJson(j, records')
    <3>1. CASE j \in Elems(wire[c])
      <4>1. TrueJson(j, records) /\ j.id \in 0..Len(records)
        BY <3>1, WireFacts DEF RecInv
      <4>. QED BY <4>1, TypeFacts DEF TrueJson
    <3>. QED BY <3>1
  <2>2. ASSUME job[c] # None PROVE TrueJob(job[c], records', applied')
    <3>1. TrueJob(job[c], records, applied) /\ job[c].json.id \in 0..Len(records)
      BY <2>2, WireFacts DEF RecInv
    <3>. QED BY <3>1, TypeFacts DEF TrueJob, TrueJson
  <2>3. ASSUME NEW r \in Elems(replies'[c]) PROVE TrueReply(r, records', applied')
    <3>1. CASE r \in Elems(replies[c])
      <4>1. TrueReply(r, records, applied) /\ r.id \in 0..Len(records)
        BY <3>1, WireFacts DEF RecInv
      <4>. QED BY <4>1, TypeFacts DEF TrueReply
    <3>. QED BY <3>1
  <2>. QED BY <2>1, <2>2, <2>3
<1>2. ASSUME NEW i \in 1..Len(records') PROVE TrueRecord(i, records'[i], applied')
  <2>1. CASE i \in 1..Len(records) /\ records'[i] = records[i]
    <3>1. TrueRecord(i, records[i], applied)
      BY <2>1 DEF RecInv
    <3>. QED BY <2>1, <3>1 DEF TrueRecord
  <2>. QED BY <2>1
<1>. QED BY <1>1, <1>2 DEF RecInv, Elems, TrueJson, TrueJob, TrueReply, TrueRecord

LEMMA Init_Rec == Init => RecInv
<1>. SUFFICES ASSUME Init PROVE RecInv
  OBVIOUS
<1>1. recordId = 0 /\ records = <<>>
  BY DEF Init
<1>2. \A c \in Channels : wire[c] = <<>> /\ job[c] = None /\ replies[c] = <<>>
  BY DEF Init
<1>3. 1..Len(records) = {}
  BY <1>1
<1>. QED BY <1>1, <1>2, <1>3, EmptyFacts DEF RecInv

\* Steps that leave what has been recorded, written and answered alone.
LEMMA Idle_Rec ==
  ASSUME TypeInv, RecInv, UNCHANGED <<records, applied>>,
         recordId' = 0 \/ (recordId' = recordId /\ msg' = msg),
         \A c \in Channels : Elems(wire'[c]) \subseteq Elems(wire[c]),
         \A c \in Channels : job'[c] = job[c] \/ job'[c] = None,
         \A c \in Channels : Elems(replies'[c]) \subseteq Elems(replies[c])
  PROVE  RecInv'
<1>1. recordId' # 0 => records'[recordId'].msg = msg'
  BY DEF RecInv
<1>. QED BY <1>1, RecKeeps

LEMMA Source_Rec ==
  ASSUME TypeInv, RecInv, UNCHANGED <<recordId, msg, records, applied, wire, job, replies>>
  PROVE  RecInv'
  BY Idle_Rec

\* A Record that is added has no status yet.
LEMMA Append_Rec ==
  ASSUME TypeInv, RecInv, Active, records' = Append(records, NewRecord(msg)),
         recordId' = recordId \/ recordId' = Len(records) + 1,
         UNCHANGED <<msg, applied, wire, job, replies>>
  PROVE  RecInv'
<1>1. records \in Seq(Record) /\ Len(records) \in Nat /\ recordId \in 0..Len(records) /\ msg \in Message
  BY TypeFacts DEF TypeOK, WorkOK
<1>2. NewRecord(msg) \in Record /\ NewRecord(msg).msg = msg /\ NewRecord(msg).status = 0
  BY <1>1 DEF NewRecord, Record
<1>3. /\ Len(records') = Len(records) + 1 /\ records'[Len(records) + 1] = NewRecord(msg)
      /\ \A i \in 1..Len(records) : records'[i] = records[i]
  BY <1>1, <1>2
<1>4. \A i \in 1..Len(records') : i \in 1..Len(records) \/ i = Len(records) + 1
  BY <1>1, <1>3
<1>5. \A i \in 1..Len(records') :
         (i \in 1..Len(records) /\ records'[i] = records[i]) \/ TrueRecord(i, records'[i], applied')
  BY <1>2, <1>3, <1>4 DEF TrueRecord
<1>6. recordId' # 0 => records'[recordId'].msg = msg'
  BY <1>1, <1>2, <1>3 DEF RecInv
<1>. QED BY <1>3, <1>5, <1>6, RecKeeps

LEMMA Build_Rec ==
  ASSUME TypeInv, RecInv, NEW g \in todo, Build(g) \/ AddThrows(g) PROVE RecInv'
<1>1. Active /\ UNCHANGED <<msg, applied, wire, job, replies>>
  BY DEF Build, AddThrows, Active, linkVars, serverVars
<1>2. CASE records' = records /\ recordId' = recordId
  BY <1>1, <1>2, Source_Rec
<1>3. CASE /\ records' = Append(records, NewRecord(msg))
           /\ recordId' = recordId \/ recordId' = Len(records) + 1
  BY <1>1, <1>3, Append_Rec
<1>. QED BY <1>2, <1>3 DEF Build, AddThrows, Orphan

LEMMA Write_Rec == ASSUME TypeInv, RecInv, Write PROVE RecInv'
<1>. DEFINE j == JsonOf(built)
<1>1. built \in Delivery /\ built.id = recordId /\ built.channel \in Channels /\ msg \in Message
  BY TypeFacts DEF Write, TypeOK, WorkOK, Active, Delivery
<1>2. j \in Json /\ j.id = recordId /\ j.version = msg.version
  BY <1>1 DEF JsonOf, Json, Delivery, Message, KeyOf, Rows
<1>3. TrueJson(j, records)
  BY <1>2 DEF RecInv, TrueJson
<1>4. \A c \in Channels : \A o \in Elems(wire'[c]) : o \in Elems(wire[c]) \/ o = j
  <2>1. wire \in [Channels -> Seq(Json)]
    BY TypeFacts DEF TypeOK
  <2>2. CASE wire' = [wire EXCEPT ![built.channel] = Append(@, j)]
    <3>1. Elems(Append(wire[built.channel], j)) = Elems(wire[built.channel]) \cup {j}
      BY <1>1, <1>2, <2>1, AppendFacts
    <3>. HIDE DEF j
    <3>2. \A c \in Channels : wire'[c] = IF c = built.channel THEN Append(wire[c], j) ELSE wire[c]
      BY <2>1, <2>2
    <3>. QED BY <3>1, <3>2
  <2>. QED BY <2>2 DEF Write
<1>5. records' = records /\ applied' = applied /\ recordId' = recordId /\ msg' = msg
      /\ job' = job /\ replies' = replies
  BY DEF Write, serverVars
<1>6. recordId' # 0 => records'[recordId'].msg = msg'
  BY <1>5 DEF RecInv
<1>7. \A c \in Channels : \A o \in Elems(wire'[c]) : o \in Elems(wire[c]) \/ TrueJson(o, records')
  BY <1>3, <1>4, <1>5
<1>. HIDE DEF j
<1>. QED BY <1>5, <1>6, <1>7, RecKeeps

LEMMA Receive_Rec == ASSUME TypeInv, RecInv, NEW c \in Channels, Receive(c) PROVE RecInv'
<1>. DEFINE j == Head(wire[c])
            w == [json |-> j, todo |-> MapsOf(j.table), resFlag |-> NoResult, whole |-> TRUE]
<1>1. j \in Elems(wire[c]) /\ Elems(Tail(wire[c])) \subseteq Elems(wire[c])
  BY WireFacts, TailFacts DEF Receive
<1>2. TrueJson(j, records)
  BY <1>1 DEF RecInv
<1>3. w.json = j /\ w.resFlag = 0
  BY DEF NoResult
<1>4. TrueJob(w, records, applied)
  <2>. HIDE DEF j, w
  <2>. QED BY <1>2, <1>3 DEF TrueJob
<1>5. \A o \in Channels : Elems(wire'[o]) \subseteq Elems(wire[o])
  <2>1. wire \in [Channels -> Seq(Json)] /\ wire' = [wire EXCEPT ![c] = Tail(wire[c])]
    BY TypeFacts DEF Receive, TypeOK
  <2>2. \A o \in Channels : wire'[o] = IF o = c THEN Tail(wire[c]) ELSE wire[o]
    BY <2>1
  <2>. QED BY <1>1, <2>2
<1>6. \A o \in Channels : job'[o] = job[o] \/ job'[o] = w
  BY TypeFacts DEF Receive, TypeOK
<1>7. records' = records /\ applied' = applied /\ recordId' = recordId /\ msg' = msg /\ replies' = replies
  BY DEF Receive, senderVars
<1>8. recordId' # 0 => records'[recordId'].msg = msg'
  BY <1>7 DEF RecInv
<1>. HIDE DEF w
<1>9. \A o \in Channels : job'[o] = job[o] \/ job'[o] = None \/ TrueJob(job'[o], records', applied')
  BY <1>4, <1>6, <1>7
<1>. QED BY <1>5, <1>7, <1>8, <1>9, RecKeeps

\* A step that changes one job.
LEMMA Job_Rec ==
  ASSUME TypeInv, RecInv, NEW c \in Channels, NEW w, TrueJob(w, records, applied'),
         job' = [job EXCEPT ![c] = w], applied \subseteq applied',
         UNCHANGED <<recordId, msg, records, wire, replies>>
  PROVE  RecInv'
<1>1. recordId' # 0 => records'[recordId'].msg = msg'
  BY DEF RecInv
<1>2. \A o \in Channels : job'[o] = job[o] \/ job'[o] = w
  BY TypeFacts DEF TypeOK
<1>3. \A o \in Channels : job'[o] = job[o] \/ job'[o] = None \/ TrueJob(job'[o], records', applied')
  BY <1>2
<1>. QED BY <1>1, <1>3, RecKeeps

LEMMA Apply_Rec ==
  ASSUME TypeInv, RecInv, NEW c \in Channels, NEW g \in Maps, Apply(c, g) PROVE RecInv'
<1>. DEFINE w == job[c]
            j == w.json
<1>1. w \in Job /\ w # None /\ j \in Json
  BY WireFacts DEF Apply, InHand
<1>2. TrueJob(w, records, applied)
  BY <1>1 DEF RecInv
<1>3. /\ AppliedTo(w, g).json = j /\ AppliedTo(w, g).resFlag = SynStatus(g, j)
      /\ RefusedTo(w, g).json = j /\ RefusedTo(w, g).resFlag = 0
  BY <1>1, JobSteps
<1>4. UNCHANGED <<recordId, msg, records, wire, replies>>
  BY DEF Apply, senderVars, linkVars
<1>5. CASE job' = [job EXCEPT ![c] = AppliedTo(w, g)] /\ applied' = applied \cup {j.id}
  <2>1. /\ j.version = 0 => SynStatus(g, j) = 1
        /\ j.version # 0 => SynStatus(g, j) \in {2, 3}
    BY DEF SynStatus, IsDelete
  <2>2. TrueJob(AppliedTo(w, g), records, applied')
    <3>. HIDE DEF w, j
    <3>1. j.id \in applied' /\ TrueJson(j, records)
      BY <1>2, <1>5 DEF TrueJob, j
    <3>. QED BY <1>3, <2>1, <3>1 DEF TrueJob
  <2>. QED BY <1>4, <1>5, <2>2, Job_Rec
<1>6. CASE job' = [job EXCEPT ![c] = RefusedTo(w, g)] /\ applied' = applied
  <2>1. TrueJob(RefusedTo(w, g), records, applied')
    BY <1>2, <1>3 DEF TrueJob
  <2>. QED BY <1>4, <1>6, <2>1, Job_Rec
<1>. QED BY <1>5, <1>6, ApplyEffect

LEMMA ApplyThrows_Rec ==
  ASSUME TypeInv, RecInv, NEW c \in Channels, NEW g \in Maps, ApplyThrows(c, g) PROVE RecInv'
<1>1. job[c] \in Job /\ job[c] # None
  BY WireFacts DEF ApplyThrows, InHand
<1>2. ThrownAt(job[c]).json = job[c].json /\ ThrownAt(job[c]).resFlag = job[c].resFlag
  BY <1>1, JobSteps
<1>3. TrueJob(job[c], records, applied)
  BY <1>1 DEF RecInv
<1>4. UNCHANGED <<recordId, msg, records, wire, replies, applied>>
  BY DEF ApplyThrows, senderVars, linkVars
<1>5. TrueJob(ThrownAt(job[c]), records, applied')
  BY <1>2, <1>3, <1>4 DEF TrueJob
<1>. QED BY <1>4, <1>5, ThrowsEffect, Job_Rec

LEMMA Reply_Rec == ASSUME TypeInv, RecInv, NEW c \in Channels, Reply(c) PROVE RecInv'
<1>. DEFINE w == job[c]
            a == [id |-> w.json.id, status |-> w.resFlag, whole |-> w.whole]
<1>1. w # None /\ w \in Job /\ w.json \in Json /\ w.resFlag \in 0..3 /\ w.json.id \in 0..Len(records)
  BY WireFacts DEF Reply, Job
<1>2. TrueJob(w, records, applied)
  BY <1>1 DEF RecInv
<1>3. a.id = w.json.id /\ a.status = w.resFlag /\ a \in ReturnMsg
  BY <1>1 DEF Job, Json, ReturnMsg
<1>4. TrueReply(a, records, applied)
  <2>. HIDE DEF a, w
  <2>. QED BY <1>1, <1>2, <1>3 DEF TrueReply, TrueJob, TrueJson
<1>5. \A o \in Channels : \A r \in Elems(replies'[o]) : r \in Elems(replies[o]) \/ r = a
  <2>1. replies \in [Channels -> Seq(ReturnMsg)]
    BY TypeFacts DEF TypeOK
  <2>2. replies' = replies \/ replies' = [replies EXCEPT ![c] = Append(replies[c], a)]
    BY <2>1 DEF Reply
  <2>3. Elems(Append(replies[c], a)) = Elems(replies[c]) \cup {a}
    BY <1>3, <2>1, AppendFacts
  <2>. HIDE DEF a
  <2>4. CASE replies' = [replies EXCEPT ![c] = Append(replies[c], a)]
    <3>1. \A o \in Channels : replies'[o] = IF o = c THEN Append(replies[c], a) ELSE replies[o]
      BY <2>1, <2>4
    <3>. QED BY <2>1, <2>3, <2>4, <3>1
  <2>. QED BY <2>1, <2>2, <2>4
<1>6. \A o \in Channels : job'[o] = job[o] \/ job'[o] = None
  BY TypeFacts DEF Reply, TypeOK
<1>7. records' = records /\ applied' = applied /\ recordId' = recordId /\ msg' = msg /\ wire' = wire
  BY DEF Reply, senderVars
<1>8. recordId' # 0 => records'[recordId'].msg = msg'
  BY <1>7 DEF RecInv
<1>. HIDE DEF a
<1>9. \A o \in Channels : \A r \in Elems(replies'[o]) :
         r \in Elems(replies[o]) \/ TrueReply(r, records', applied')
  BY <1>4, <1>5, <1>7
<1>. QED BY <1>6, <1>7, <1>8, <1>9, RecKeeps

\* The wires and the replies after a step of the connections or a closed channel.
LEMMA Network_Rec ==
  ASSUME TypeInv, RecInv, NEW c \in Channels,
         Closed(c) \/ Drop(c) \/ Notice(c) \/ (\E g \in Maps : NoTenant(c, g))
  PROVE  RecInv'
<1>1. \A o \in Channels : wire'[o] = wire[o] \/ wire'[o] = <<>>
  BY TypeFacts DEF Closed, Drop, Notice, NoTenant, TypeOK
<1>2. \A o \in Channels : replies'[o] = replies[o] \/ replies'[o] = <<>>
  BY TypeFacts DEF Closed, Drop, Notice, NoTenant, TypeOK
<1>3. \A o \in Channels : job'[o] = job[o] \/ job'[o] = None
  BY TypeFacts DEF Closed, Drop, Notice, NoTenant, TypeOK, serverVars
<1>4. records' = records /\ applied' = applied /\ recordId' = recordId /\ msg' = msg
  BY DEF Closed, Drop, Notice, NoTenant, senderVars
<1>. QED BY <1>1, <1>2, <1>3, <1>4, EmptyFacts, Idle_Rec

LEMMA HandleReply_Rec == ASSUME TypeInv, RecInv, NEW c \in Channels, HandleReply(c) PROVE RecInv'
<1>. DEFINE r == Head(replies[c])
<1>1. /\ r \in ReturnMsg /\ r \in Elems(replies[c])
      /\ Elems(Tail(replies[c])) \subseteq Elems(replies[c])
  BY WireFacts, TailFacts DEF HandleReply
<1>2. r.id \in 0..Len(records) /\ r.status \in 0..3
  BY <1>1, WireFacts DEF ReturnMsg
<1>3. TrueReply(r, records, applied)
  BY <1>1 DEF RecInv
<1>4. \A o \in Channels : Elems(replies'[o]) \subseteq Elems(replies[o])
  <2>1. replies \in [Channels -> Seq(ReturnMsg)] /\ replies' = [replies EXCEPT ![c] = Tail(replies[c])]
    BY TypeFacts DEF HandleReply, TypeOK
  <2>2. \A o \in Channels : replies'[o] = IF o = c THEN Tail(replies[c]) ELSE replies[o]
    BY <2>1
  <2>. QED BY <1>1, <2>2
<1>5. applied' = applied /\ recordId' = recordId /\ msg' = msg /\ wire' = wire /\ job' = job
  BY DEF HandleReply, senderVars, serverVars
<1>6. CASE records' = records
  BY <1>4, <1>5, <1>6, Idle_Rec
<1>7. CASE records' = [i \in DOMAIN records |->
                        IF i = r.id THEN Answered(records[i], r.status) ELSE records[i]]
  <2>. HIDE DEF r
  <2>1. records \in Seq(Record) /\ Len(records) \in Nat /\ DOMAIN records = 1..Len(records)
    BY TypeFacts DEF TypeOK
  <2>2. Len(records') = Len(records)
    BY <1>2, <1>7, <2>1, AnsweredRecords
  <2>3. ASSUME NEW i \in 1..Len(records)
        PROVE  /\ records'[i].msg = records[i].msg
               /\ records'[i] = records[i] \/ TrueRecord(i, records'[i], applied')
    <3>1. records[i] \in Record
      BY <2>1
    <3>2. CASE i # r.id
      BY <1>7, <2>1, <3>2
    <3>3. CASE i = r.id
      <4>1. records'[i] = Answered(records[i], r.status)
        BY <1>7, <2>1, <3>3
      <4>2. /\ Answered(records[i], r.status).msg = records[i].msg
            /\ r.status = 0 => Answered(records[i], r.status).status = 0
            /\ r.status # 0 => Answered(records[i], r.status).type = r.status - 1
        BY <1>2, <3>1, Answered_Types
      <4>3. i # 0
        BY <2>1
      <4>. QED BY <1>2, <1>3, <1>5, <3>3, <4>1, <4>2, <4>3 DEF TrueRecord, TrueReply
    <3>. QED BY <3>2, <3>3
  <2>4. recordId' # 0 => records'[recordId'].msg = msg'
    <3>1. recordId \in 0..Len(records)
      BY TypeFacts DEF TypeOK
    <3>. QED BY <1>5, <2>1, <2>3, <3>1 DEF RecInv
  <2>5. \A i \in 1..Len(records') :
           (i \in 1..Len(records) /\ records'[i] = records[i]) \/ TrueRecord(i, records'[i], applied')
    BY <2>2, <2>3
  <2>6. \A i \in 1..Len(records) : records'[i].msg = records[i].msg
    BY <2>3
  <2>. QED BY <1>4, <1>5, <2>4, <2>5, <2>6, RecKeeps
<1>. QED BY <1>6, <1>7 DEF HandleReply

LEMMA Next_Rec == TypeInv /\ RecInv /\ [Next]_vars => RecInv'
<1>. SUFFICES ASSUME TypeInv, RecInv, [Next]_vars PROVE RecInv'
  OBVIOUS
<1>1. CASE \E r \in Rows : Change(r) \/ Remove(r)
  BY <1>1, Source_Rec DEF Change, Remove, senderVars, linkVars, serverVars
<1>2. CASE (\E c \in putsDue : Select(c)) \/ (\E c \in selected : Offer(c)) \/ (\E r \in delsDue : OfferDelete(r))
  BY <1>2, Source_Rec DEF Select, Offer, OfferDelete, senderVars, linkVars, serverVars
<1>3. CASE Poll
  <2>1. /\ recordId' = 0 /\ records' = records /\ applied' = applied /\ wire' = wire /\ job' = job
        /\ replies' = replies
    BY <1>3 DEF Poll, linkVars, serverVars
  <2>. QED BY <2>1, Idle_Rec
<1>4. CASE Connect \/ (\E g \in todo : ConnectFails(g)) \/ Withhold \/ SenderDies
  BY <1>4, Source_Rec DEF Connect, ConnectFails, Withhold, SenderDies, senderVars, linkVars, serverVars
<1>5. CASE \E g \in todo : Build(g) \/ AddThrows(g)
  BY <1>5, Build_Rec
<1>6. CASE Write
  BY <1>6, Write_Rec
<1>7. CASE \E g \in Maps : AddTenant(g)
  BY <1>7, Source_Rec DEF AddTenant, senderVars, linkVars
<1>8. CASE \E c \in Channels : Server(c)
  BY <1>8, Receive_Rec, Apply_Rec, ApplyThrows_Rec, Reply_Rec, Network_Rec DEF Server
<1>9. CASE \E c \in Channels : HandleReply(c) \/ ReplyThrows(c) \/ Break(c) \/ Drop(c) \/ Notice(c)
  BY <1>9, HandleReply_Rec, Network_Rec DEF ReplyThrows, Break
<1>10. CASE UNCHANGED vars
  BY <1>10, Source_Rec DEF vars, senderVars, linkVars, serverVars
<1>. QED BY <1>1, <1>2, <1>3, <1>4, <1>5, <1>6, <1>7, <1>8, <1>9, <1>10 DEF Next, Sender

LEMMA RecImplies == TypeInv /\ RecInv => RecordsAreTrue
<1>. SUFFICES ASSUME TypeInv, RecInv, NEW i \in DOMAIN records, records[i].status = 1
              PROVE  /\ i \in applied
                     /\ records[i].type = 0 <=> IsDelete(records[i].msg)
  BY DEF RecordsAreTrue
<1>1. DOMAIN records = 1..Len(records)
  BY TypeFacts DEF TypeOK
<1>2. TrueRecord(i, records[i], applied)
  BY <1>1 DEF RecInv
<1>. QED BY <1>2 DEF TrueRecord, IsDelete

\* The Record an answer with a status is entered into is that of a message which has
\* been applied, and tells whether it was a delete, however many deliveries have
\* shared its id (SynClient.java, SynServerHandler.java, SynClientHandler.java).
THEOREM RecordsAlwaysTrue == Spec => []RecordsAreTrue
<1>1. Init => TypeInv /\ RecInv
  BY Init_Types, Init_Rec
<1>2. (TypeInv /\ RecInv) /\ [Next]_vars => (TypeInv /\ RecInv)'
  BY Next_Types, Next_Rec
<1>. QED BY <1>1, <1>2, RecImplies, PTL DEF Spec

-----------------------------------------------------------------------------
(***************************************************************************)
(* The versions of a row are in order all the way: those a target has come  *)
(* before the one being applied, this one before those in the connection,   *)
(* these before the one in the sender's hand, and so on to the monitor.     *)
(***************************************************************************)
\* Of two puts of one row, a comes first.
Leq(a, b) == a.row = b.row /\ a.version # 0 /\ b.version # 0 => a.version <= b.version
Order(S, T) == \A a \in S, b \in T : Leq(a, b)
InOrder(s) == \A i, j \in DOMAIN s : i < j => Leq(s[i], s[j])

Item(j) == [row |-> <<j.table, j.key>>, version |-> j.version]
ItemsInOrder(s) == \A i, j \in DOMAIN s : i < j => Leq(Item(s[i]), Item(s[j]))

Hand == IF Active THEN {msg} ELSE {}
Queued == Elems(queue)
Upstream == Hand \cup Queued \cup selected \cup putsDue

Sent(c) == {Item(j) : j \in Elems(wire[c])}
Working(c) == IF job[c] = None THEN {} ELSE {Item(job[c].json)}
Cell(g, k) == [row |-> <<FromTable[g], k>>, version |-> dest[g][k]]
Stored == {Cell(g, k) : g \in Maps, k \in Keys}

UpInv ==
  /\ Order(selected, putsDue)
  /\ Order(Queued, selected \cup putsDue)
  /\ Order(Hand, Queued \cup selected \cup putsDue)
  /\ InOrder(queue)
  /\ \A a \in Upstream : a.version <= version

\* Of the connections, whatever has happened.
ChannelInv ==
  /\ \A a \in Stored : a.version <= version
  /\ \A c \in Channels :
       /\ \A a \in Sent(c) \cup Working(c) : a.version <= version
       /\ c > current => wire[c] = <<>> /\ job[c] = None
       /\ job[c] # None => \A g \in job[c].todo : FromTable[g] = job[c].json.table

Busy(c) == wire[c] # <<>> \/ job[c] # None

DownInv ==
  /\ \A o, c \in Channels : o # c => ~Busy(o) \/ ~Busy(c)
  /\ Order(Stored, Upstream)
  /\ \A c \in Channels :
       /\ Order(Sent(c) \cup Working(c), Upstream)
       /\ Order(Working(c), Sent(c))
       /\ Order(Stored, Sent(c) \cup Working(c))
       /\ ItemsInOrder(wire[c])

ChainInv == UpInv /\ ChannelInv /\ ("crossed" \notin harm => DownInv)

-----------------------------------------------------------------------------
LEMMA AppendInOrder ==
  ASSUME NEW S, NEW s \in Seq(S), NEW x \in S, InOrder(s), \A a \in Elems(s) : Leq(a, x)
  PROVE  InOrder(Append(s, x))
<1>1. /\ Len(s) \in Nat /\ DOMAIN s = 1..Len(s) /\ DOMAIN Append(s, x) = 1..(Len(s) + 1)
      /\ \A i \in 1..Len(s) : Append(s, x)[i] = s[i]
      /\ Append(s, x)[Len(s) + 1] = x
  OBVIOUS
<1>2. SUFFICES ASSUME NEW i \in 1..(Len(s) + 1), NEW j \in 1..(Len(s) + 1), i < j
               PROVE  Leq(Append(s, x)[i], Append(s, x)[j])
  BY <1>1 DEF InOrder
<1>3. i \in 1..Len(s) /\ (j \in 1..Len(s) \/ j = Len(s) + 1)
  BY <1>1, <1>2
<1>4. s[i] \in Elems(s)
  BY <1>1, <1>3 DEF Elems
<1>. QED BY <1>1, <1>2, <1>3, <1>4 DEF InOrder

LEMMA TailInOrder ==
  ASSUME NEW S, NEW s \in Seq(S), s # <<>>, InOrder(s)
  PROVE  InOrder(Tail(s)) /\ \A a \in Elems(Tail(s)) : Leq(Head(s), a)
<1>1. /\ Len(s) \in Nat /\ Len(s) > 0 /\ DOMAIN s = 1..Len(s) /\ Head(s) = s[1]
      /\ DOMAIN Tail(s) = 1..(Len(s) - 1)
      /\ \A i \in 1..(Len(s) - 1) : Tail(s)[i] = s[i + 1]
  OBVIOUS
<1>2. ASSUME NEW i \in 1..(Len(s) - 1), NEW j \in 1..(Len(s) - 1), i < j
      PROVE  Leq(Tail(s)[i], Tail(s)[j])
  BY <1>1, <1>2 DEF InOrder
<1>3. ASSUME NEW i \in 1..(Len(s) - 1) PROVE Leq(Head(s), Tail(s)[i])
  <2>1. 1 \in DOMAIN s /\ i + 1 \in DOMAIN s /\ 1 < i + 1
    BY <1>1
  <2>. QED BY <1>1, <2>1 DEF InOrder
<1>. QED BY <1>1, <1>2, <1>3 DEF InOrder, Elems

LEMMA AppendItems ==
  ASSUME NEW S, NEW s \in Seq(S), NEW x \in S, ItemsInOrder(s),
         \A a \in Elems(s) : Leq(Item(a), Item(x))
  PROVE  ItemsInOrder(Append(s, x))
<1>1. /\ Len(s) \in Nat /\ DOMAIN s = 1..Len(s) /\ DOMAIN Append(s, x) = 1..(Len(s) + 1)
      /\ \A i \in 1..Len(s) : Append(s, x)[i] = s[i]
      /\ Append(s, x)[Len(s) + 1] = x
  OBVIOUS
<1>2. SUFFICES ASSUME NEW i \in 1..(Len(s) + 1), NEW j \in 1..(Len(s) + 1), i < j
               PROVE  Leq(Item(Append(s, x)[i]), Item(Append(s, x)[j]))
  BY <1>1 DEF ItemsInOrder
<1>3. i \in 1..Len(s) /\ (j \in 1..Len(s) \/ j = Len(s) + 1)
  BY <1>1, <1>2
<1>4. s[i] \in Elems(s)
  BY <1>1, <1>3 DEF Elems
<1>. QED BY <1>1, <1>2, <1>3, <1>4 DEF ItemsInOrder

LEMMA TailItems ==
  ASSUME NEW S, NEW s \in Seq(S), s # <<>>, ItemsInOrder(s)
  PROVE  ItemsInOrder(Tail(s)) /\ \A a \in Elems(Tail(s)) : Leq(Item(Head(s)), Item(a))
<1>1. /\ Len(s) \in Nat /\ Len(s) > 0 /\ DOMAIN s = 1..Len(s) /\ Head(s) = s[1]
      /\ DOMAIN Tail(s) = 1..(Len(s) - 1)
      /\ \A i \in 1..(Len(s) - 1) : Tail(s)[i] = s[i + 1]
  OBVIOUS
<1>2. ASSUME NEW i \in 1..(Len(s) - 1), NEW j \in 1..(Len(s) - 1), i < j
      PROVE  Leq(Item(Tail(s)[i]), Item(Tail(s)[j]))
  BY <1>1, <1>2 DEF ItemsInOrder
<1>3. ASSUME NEW i \in 1..(Len(s) - 1) PROVE Leq(Item(Head(s)), Item(Tail(s)[i]))
  <2>1. 1 \in DOMAIN s /\ i + 1 \in DOMAIN s /\ 1 < i + 1
    BY <1>1
  <2>. QED BY <1>1, <2>1 DEF ItemsInOrder
<1>. QED BY <1>1, <1>2, <1>3 DEF ItemsInOrder, Elems

LEMMA LeqFacts ==
  ASSUME NEW a
  PROVE  /\ a.version \in Nat => Leq(a, a)
         /\ \A b : a.version = 0 => Leq(a, b) /\ Leq(b, a)
  BY DEF Leq

\* Every version in the chain is a number.
LEMMA UpstreamFacts ==
  ASSUME TypeInv
  PROVE  Upstream \subseteq Message /\ \A a \in Message : a.version \in Nat
<1>1. putsDue \subseteq Message /\ selected \subseteq Message /\ queue \in Seq(Message)
  BY TypeFacts DEF TypeOK
<1>2. Queued \subseteq Message
  BY <1>1, ElemsAre DEF Queued
<1>3. Hand \subseteq Message
  BY TypeFacts DEF Hand, WorkOK
<1>4. 0..MaxVersion \subseteq Nat
  BY TypeFacts
<1>. QED BY <1>1, <1>2, <1>3, <1>4 DEF Upstream, Message

LEMMA NextUpstream == TypeInv' => \A a \in Upstream' : a.version \in Nat
<1>1. TypeInv => \A a \in Upstream : a.version \in Nat
  BY UpstreamFacts
<1>2. (TypeInv => \A a \in Upstream : a.version \in Nat)'
  BY <1>1, PTL
<1>. QED BY <1>2

LEMMA NextCurrent == TypeInv' => current' \in Nat
<1>1. TypeInv => current \in Nat
  BY TypeFacts DEF TypeOK
<1>2. (TypeInv => current \in Nat)'
  BY <1>1, PTL
<1>. QED BY <1>2

LEMMA StoredFacts == ASSUME TypeInv PROVE \A a \in Stored : a.version \in Nat
<1>1. \A g \in Maps, k \in Keys : dest[g][k] \in Nat
  BY TypeFacts DEF TypeOK
<1>. QED BY <1>1 DEF Stored, Cell

LEMMA DownFacts ==
  ASSUME TypeInv, NEW c \in Channels
  PROVE  \A a \in Sent(c) \cup Working(c) : a.version \in Nat
<1>1. \A j \in Json : Item(j).version \in Nat
  BY TypeFacts DEF Item, Json
<1>2. \A a \in Sent(c) : a.version \in Nat
  BY <1>1, WireFacts DEF Sent
<1>3. \A a \in Working(c) : a.version \in Nat
  BY <1>1, WireFacts DEF Working
<1>. QED BY <1>2, <1>3

LEMMA Init_Chain == Init => ChainInv
<1>. SUFFICES ASSUME Init PROVE ChainInv
  OBVIOUS
<1>1. Upstream = {} /\ Hand = {} /\ Queued = {} /\ selected = {} /\ putsDue = {} /\ queue = <<>>
  BY EmptyFacts DEF Init, Upstream, Hand, Active, Queued
<1>2. UpInv
  BY <1>1 DEF UpInv, Order, InOrder
<1>3. \A a \in Stored : a.version = 0
  BY DEF Init, Stored, Cell
<1>4. \A c \in Channels : wire[c] = <<>> /\ job[c] = None /\ Sent(c) = {} /\ Working(c) = {}
  BY EmptyFacts DEF Init, Sent, Working
<1>5. version = 0
  BY DEF Init
<1>6. ChannelInv
  BY <1>3, <1>4, <1>5 DEF ChannelInv
<1>7. DownInv
  BY <1>1, <1>3, <1>4, LeqFacts DEF DownInv, Busy, Order, ItemsInOrder
<1>. QED BY <1>2, <1>6, <1>7 DEF ChainInv

-----------------------------------------------------------------------------
\* The steps of the source and of the sender before a message is written.
LEMMA ChainStays ==
  ASSUME TypeInv, TypeInv', ChainInv, UNCHANGED <<wire, job, dest>>, version' >= version,
         version' \in Nat, current' >= current, current' \in Nat, harm \subseteq harm', UpInv',
         \A a \in Upstream' : a \in Upstream \/ a.version = 0 \/ a.version > version
  PROVE  ChainInv'
<1>1. version \in Nat /\ current \in Nat /\ Channels \subseteq Nat
  BY TypeFacts DEF TypeOK
<1>2. \A c \in Channels : Sent(c)' = Sent(c) /\ Working(c)' = Working(c) /\ Busy(c)' = Busy(c)
  BY DEF Sent, Working, Busy, Elems
<1>3. Stored' = Stored
  BY DEF Stored, Cell
<1>4. /\ \A a \in Stored : a.version \in Nat /\ a.version <= version
      /\ \A c \in Channels : \A a \in Sent(c) \cup Working(c) : a.version \in Nat /\ a.version <= version
  BY DownFacts, StoredFacts DEF ChainInv, ChannelInv
<1>5. ChannelInv'
  <2>1. \A a \in Stored' : a.version <= version'
    BY <1>1, <1>3, <1>4
  <2>2. ASSUME NEW c \in Channels
        PROVE  /\ \A a \in Sent(c)' \cup Working(c)' : a.version <= version'
               /\ c > current' => wire'[c] = <<>> /\ job'[c] = None
               /\ job'[c] # None => \A g \in job'[c].todo : FromTable[g] = job'[c].json.table
    <3>1. \A a \in Sent(c)' \cup Working(c)' : a.version <= version'
      BY <1>1, <1>2, <1>4
    <3>2. c > current' => c > current
      BY <1>1
    <3>. QED BY <3>1, <3>2 DEF ChainInv, ChannelInv
  <2>. QED BY <2>1, <2>2 DEF ChannelInv
<1>6. ASSUME DownInv PROVE DownInv'
  <2>1. ASSUME NEW a, a.version \in Nat, a.version <= version, \A b \in Upstream : Leq(a, b),
               NEW b \in Upstream'
        PROVE  Leq(a, b)
    <3>1. CASE b \in Upstream
      BY <2>1, <3>1
    <3>2. CASE b.version = 0
      BY <3>2 DEF Leq
    <3>3. CASE b.version > version
      <4>1. b.version \in Nat
        BY NextUpstream
      <4>. QED BY <1>1, <2>1, <3>3, <4>1 DEF Leq
    <3>. QED BY <3>1, <3>2, <3>3
  <2>2. Order(Stored', Upstream')
    BY <1>3, <1>4, <1>6, <2>1 DEF Order, DownInv
  <2>3. \A c \in Channels : Order(Sent(c)' \cup Working(c)', Upstream')
    BY <1>2, <1>4, <1>6, <2>1 DEF Order, DownInv
  <2>4. \A c \in Channels : ItemsInOrder(wire[c]) => ItemsInOrder(wire[c])'
    BY DEF ItemsInOrder
  <2>. QED BY <1>2, <1>3, <1>6, <2>2, <2>3, <2>4 DEF DownInv, Order
<1>. QED BY <1>5, <1>6 DEF ChainInv

\* The steps that only take from the sender's hand.
LEMMA Hand_Chain ==
  ASSUME TypeInv, TypeInv', ChainInv,
         UNCHANGED <<queue, selected, putsDue, version, msg, wire, job, dest>>,
         Active' => Active, current' >= current, harm \subseteq harm'
  PROVE  ChainInv'
<1>1. Hand' \subseteq Hand /\ Queued' = Queued
  BY DEF Hand, Queued, Elems
<1>2. Upstream' \subseteq Upstream
  BY <1>1 DEF Upstream
<1>3. UpInv'
  BY <1>1, <1>2 DEF ChainInv, UpInv, Order, InOrder
<1>4. version \in Nat /\ current \in Nat
  BY TypeFacts DEF TypeOK
<1>5. current' \in Nat
  BY NextCurrent
<1>. QED BY <1>2, <1>3, <1>4, <1>5, ChainStays

LEMMA Change_Chain ==
  ASSUME TypeInv, TypeInv', ChainInv, NEW r \in Rows, Change(r) PROVE ChainInv'
<1>. DEFINE m == [row |-> r, version |-> version + 1]
<1>1. /\ putsDue' = putsDue \cup {m} /\ version' = version + 1 /\ selected' = selected
      /\ queue' = queue /\ msg' = msg /\ todo' = todo /\ built' = built
      /\ wire' = wire /\ job' = job /\ dest' = dest /\ current' = current /\ harm' = harm
  BY DEF Change, senderVars, linkVars, serverVars
<1>2. version \in Nat /\ current \in Nat /\ \A a \in Upstream : a.version \in Nat /\ a.version <= version
  BY UpstreamFacts, TypeFacts DEF TypeOK, ChainInv, UpInv
<1>3. Hand' = Hand /\ Queued' = Queued
  BY <1>1 DEF Hand, Active, Queued, Elems
<1>4. m.version = version + 1
  OBVIOUS
<1>. HIDE DEF m
<1>5. Upstream' = Upstream \cup {m}
  BY <1>1, <1>3 DEF Upstream
<1>6. \A a \in Upstream : Leq(a, m)
  BY <1>2, <1>4 DEF Leq
<1>7. /\ Hand \subseteq Upstream /\ Queued \subseteq Upstream /\ selected \subseteq Upstream
  BY DEF Upstream
<1>8. UpInv'
  <2>1. \A a \in Upstream' : a.version <= version'
    BY <1>1, <1>2, <1>4, <1>5
  <2>2. Order(selected, putsDue') /\ Order(Queued, selected \cup putsDue')
        /\ Order(Hand, Queued \cup selected \cup putsDue')
    BY <1>1, <1>6, <1>7 DEF ChainInv, UpInv, Order
  <2>3. InOrder(queue)'
    BY <1>1 DEF ChainInv, UpInv, InOrder
  <2>. QED BY <1>1, <1>3, <2>1, <2>2, <2>3 DEF UpInv, Order
<1>. QED BY <1>1, <1>2, <1>4, <1>5, <1>8, ChainStays

LEMMA Remove_Chain ==
  ASSUME TypeInv, TypeInv', ChainInv, NEW r \in Rows, Remove(r) PROVE ChainInv'
<1>1. current \in Nat
  BY TypeFacts DEF TypeOK
<1>. QED BY <1>1, Hand_Chain DEF Remove, senderVars, linkVars, serverVars, Active

LEMMA Select_Chain ==
  ASSUME TypeInv, TypeInv', ChainInv, NEW m \in putsDue, Select(m) PROVE ChainInv'
<1>1. /\ selected = {} /\ putsDue' = putsDue \ {m} /\ selected' \subseteq {m} /\ version' = version
      /\ queue' = queue /\ msg' = msg /\ todo' = todo /\ built' = built
      /\ wire' = wire /\ job' = job /\ dest' = dest /\ current' = current /\ harm' = harm
      /\ \A d \in putsDue : d.row = m.row => m.version <= d.version
  BY DEF Select, senderVars, linkVars, serverVars
<1>2. version \in Nat /\ current \in Nat
  BY TypeFacts DEF TypeOK
<1>3. Hand' = Hand /\ Queued' = Queued
  BY <1>1 DEF Hand, Active, Queued, Elems
<1>4. Upstream' \subseteq Upstream
  BY <1>1, <1>3 DEF Upstream
<1>5. UpInv'
  <2>1. \A a \in Upstream' : a.version <= version'
    BY <1>1, <1>4 DEF ChainInv, UpInv
  <2>2. Order(selected', putsDue')
    BY <1>1 DEF Order, Leq
  <2>3. selected' \cup putsDue' \subseteq selected \cup putsDue
    BY <1>1
  <2>4. Order(Queued, selected' \cup putsDue') /\ Order(Hand, Queued \cup selected' \cup putsDue')
    BY <2>3 DEF ChainInv, UpInv, Order
  <2>5. InOrder(queue)'
    BY <1>1 DEF ChainInv, UpInv, InOrder
  <2>. QED BY <1>1, <1>3, <2>1, <2>2, <2>4, <2>5 DEF UpInv, Order
<1>. QED BY <1>1, <1>2, <1>4, <1>5, ChainStays

LEMMA Offer_Chain ==
  ASSUME TypeInv, TypeInv', ChainInv, NEW m \in selected, Offer(m) PROVE ChainInv'
<1>1. /\ selected' = {} /\ queue' = Append(queue, m) /\ putsDue' = putsDue /\ version' = version
      /\ msg' = msg /\ todo' = todo /\ built' = built
      /\ wire' = wire /\ job' = job /\ dest' = dest /\ current' = current /\ harm \subseteq harm'
  BY DEF Offer, Enqueue, senderVars, linkVars, serverVars
<1>2. version \in Nat /\ current \in Nat /\ queue \in Seq(Message) /\ m \in Message
  BY TypeFacts DEF TypeOK
<1>3. Hand' = Hand /\ Queued' = Queued \cup {m}
  <2>1. Hand' = Hand
    BY <1>1 DEF Hand, Active
  <2>2. Queued' = Elems(queue')
    BY DEF Queued, Elems
  <2>. QED BY <1>1, <1>2, <2>1, <2>2, AppendFacts DEF Queued
<1>4. Upstream' \subseteq Upstream
  BY <1>1, <1>3 DEF Upstream
<1>5. UpInv'
  <2>1. \A a \in Upstream' : a.version <= version'
    BY <1>1, <1>4 DEF ChainInv, UpInv
  <2>2. /\ Order(selected', putsDue') /\ Order(Queued \cup {m}, selected' \cup putsDue')
        /\ Order(Hand, Queued \cup {m} \cup selected' \cup putsDue')
    BY <1>1 DEF ChainInv, UpInv, Order
  <2>3. InOrder(queue')
    <3>1. InOrder(queue) /\ \A a \in Elems(queue) : Leq(a, m)
      BY DEF ChainInv, UpInv, Order, Queued
    <3>. QED BY <1>1, <1>2, <3>1, AppendInOrder
  <2>. QED BY <1>1, <1>3, <2>1, <2>2, <2>3 DEF UpInv, Order, InOrder
<1>. QED BY <1>1, <1>2, <1>4, <1>5, ChainStays

LEMMA OfferDelete_Chain ==
  ASSUME TypeInv, TypeInv', ChainInv, NEW r \in delsDue, OfferDelete(r) PROVE ChainInv'
<1>. DEFINE m == [row |-> r, version |-> 0]
<1>1. /\ selected' = selected /\ queue' = Append(queue, m) /\ putsDue' = putsDue /\ version' = version
      /\ msg' = msg /\ todo' = todo /\ built' = built
      /\ wire' = wire /\ job' = job /\ dest' = dest /\ current' = current /\ harm' = harm
  BY DEF OfferDelete, Enqueue, senderVars, linkVars, serverVars
<1>2. version \in Nat /\ current \in Nat /\ queue \in Seq(Message) /\ m \in Message /\ m.version = 0
  BY TypeFacts DEF TypeOK, Message
<1>. HIDE DEF m
<1>3. Hand' = Hand /\ Queued' = Queued \cup {m}
  <2>1. Hand' = Hand
    BY <1>1 DEF Hand, Active
  <2>2. Queued' = Elems(queue')
    BY DEF Queued, Elems
  <2>. QED BY <1>1, <1>2, <2>1, <2>2, AppendFacts DEF Queued
<1>4. Upstream' = Upstream \cup {m}
  BY <1>1, <1>3 DEF Upstream
<1>5. UpInv'
  <2>1. \A a \in Upstream' : a.version <= version'
    BY <1>1, <1>2, <1>4 DEF ChainInv, UpInv
  <2>2. \A a : Leq(a, m) /\ Leq(m, a)
    BY <1>2, LeqFacts
  <2>3. /\ Order(selected', putsDue') /\ Order(Queued \cup {m}, selected' \cup putsDue')
        /\ Order(Hand, Queued \cup {m} \cup selected' \cup putsDue')
    BY <1>1, <2>2 DEF ChainInv, UpInv, Order
  <2>4. InOrder(queue')
    BY <1>1, <1>2, <2>2, AppendInOrder DEF ChainInv, UpInv
  <2>. QED BY <1>1, <1>3, <2>1, <2>3, <2>4 DEF UpInv, Order, InOrder
<1>. QED BY <1>1, <1>2, <1>4, <1>5, ChainStays

LEMMA Poll_Chain == ASSUME TypeInv, TypeInv', ChainInv, Poll PROVE ChainInv'
<1>1. /\ selected' = selected /\ queue # <<>> /\ queue' = Tail(queue) /\ msg' = Head(queue)
      /\ putsDue' = putsDue /\ version' = version
      /\ wire' = wire /\ job' = job /\ dest' = dest /\ current' = current /\ harm \subseteq harm'
  BY DEF Poll, sourceVars, linkVars, serverVars
<1>2. version \in Nat /\ current \in Nat /\ queue \in Seq(Message)
  BY TypeFacts DEF TypeOK
<1>3. Head(queue) \in Queued /\ Elems(Tail(queue)) \subseteq Queued
  BY <1>1, <1>2, TailFacts DEF Queued
<1>4. Hand' \subseteq {Head(queue)} /\ Queued' = Elems(Tail(queue))
  BY <1>1 DEF Hand, Queued, Elems
<1>5. Upstream' \subseteq Upstream
  BY <1>1, <1>3, <1>4 DEF Upstream
<1>6. UpInv'
  <2>1. \A a \in Upstream' : a.version <= version'
    BY <1>1, <1>5 DEF ChainInv, UpInv
  <2>2. InOrder(Tail(queue)) /\ \A a \in Elems(Tail(queue)) : Leq(Head(queue), a)
    BY <1>1, <1>2, TailInOrder DEF ChainInv, UpInv
  <2>3. /\ Order(selected', putsDue') /\ Order(Queued', selected' \cup putsDue')
    BY <1>1, <1>3, <1>4 DEF ChainInv, UpInv, Order
  <2>4. \A a \in Queued \cup selected \cup putsDue : a \in Elems(Tail(queue)) \cup selected \cup putsDue
           => Leq(Head(queue), a)
    BY <1>3, <2>2 DEF ChainInv, UpInv, Order
  <2>5. Order(Hand', Queued' \cup selected' \cup putsDue')
    BY <1>1, <1>3, <1>4, <2>4 DEF Order
  <2>. QED BY <1>1, <2>1, <2>2, <2>3, <2>5 DEF UpInv, Order, InOrder
<1>. QED BY <1>1, <1>2, <1>5, <1>6, ChainStays

LEMMA Sender_Chain ==
  ASSUME TypeInv, TypeInv', ChainInv,
         \/ Connect \/ Withhold \/ SenderDies
         \/ \E g \in todo : ConnectFails(g) \/ Build(g) \/ AddThrows(g)
  PROVE  ChainInv'
<1>1. current \in Nat
  BY TypeFacts DEF TypeOK
<1>2. /\ UNCHANGED <<queue, selected, putsDue, version, msg, wire, job, dest>>
      /\ current' >= current /\ harm \subseteq harm'
  BY <1>1 DEF Connect, ConnectFails, Build, AddThrows, Withhold, SenderDies, sourceVars,
              senderVars, linkVars, serverVars
<1>3. Active
  BY DEF Connect, ConnectFails, Build, AddThrows, Withhold, SenderDies, Sending, Active
<1>. QED BY <1>2, <1>3, Hand_Chain

\* A message goes into the connection behind those that are there; on another
\* connection there is none, or the messages are crossed.
LEMMA Write_Chain == ASSUME TypeInv, TypeInv', ChainInv, Write PROVE ChainInv'
<1>. PICK c \in Channels : c = built.channel
  <2>1. built \in Delivery
    BY TypeFacts DEF Write, WorkOK
  <2>. QED BY <2>1 DEF Delivery
<1>. DEFINE j == JsonOf(built)
            x == Item(j)
<1>1. /\ built # None /\ built \in Delivery /\ c = current /\ c \in Channels /\ msg \in Message
      /\ ~IsDelete(msg) => built.table = TableOf(msg.row)
      /\ version \in Nat /\ current \in Nat /\ wire \in [Channels -> Seq(Json)]
      /\ Channels \subseteq Nat
  BY TypeFacts DEF Write, TypeOK, WorkOK, Active, Delivery
<1>2. /\ j \in Json /\ j.version = msg.version /\ j.table = built.table /\ j.key = KeyOf(msg.row)
  BY <1>1 DEF JsonOf, Json, Delivery, Message, KeyOf, Rows
<1>3. x.version = msg.version /\ (x.version # 0 => x.row = msg.row)
  <2>1. msg.row = <<TableOf(msg.row), KeyOf(msg.row)>>
    BY <1>1 DEF Message, Rows, TableOf, KeyOf
  <2>2. x.version = j.version /\ x.row = <<j.table, j.key>>
    BY DEF Item
  <2>. HIDE DEF x, j
  <2>. QED BY <1>1, <1>2, <2>1, <2>2 DEF IsDelete
<1>4. /\ UNCHANGED <<queue, selected, putsDue, version, msg, todo, current, job, dest>>
      /\ built' = None /\ harm \subseteq harm'
  BY DEF Write, sourceVars, serverVars
<1>5. /\ Hand = {msg} /\ Hand' \subseteq Hand /\ Queued' = Queued /\ msg \in Upstream
      /\ Upstream' \subseteq Upstream
  <2>1. Hand = {msg} /\ Hand' \subseteq {msg}
    BY <1>1, <1>4 DEF Hand, Active
  <2>2. Queued' = Queued
    BY <1>4 DEF Queued, Elems
  <2>. QED BY <1>4, <2>1, <2>2 DEF Upstream
<1>6. UpInv'
  BY <1>4, <1>5 DEF ChainInv, UpInv, Order, InOrder
<1>7. CASE wire' = wire
  BY <1>4, <1>5, <1>6, <1>7, <1>1, ChainStays
<1>8. CASE /\ wire' = [wire EXCEPT ![c] = Append(@, j)]
           /\ harm' = harm \cup Misnamed(msg) \cup (IF Crossed(c) THEN {"crossed"} ELSE {})
  <2>1. Elems(Append(wire[c], j)) = Elems(wire[c]) \cup {j}
    <3>1. wire[c] \in Seq(Json)
      BY <1>1
    <3>. HIDE DEF j
    <3>. QED BY <1>2, <3>1, AppendFacts
  <2>2. \A o \in Channels : /\ o # c => wire'[o] = wire[o]
                            /\ o = c => wire'[o] = Append(wire[c], j)
    BY <1>1, <1>8
  <2>. HIDE DEF j
  <2>3. /\ \A o \in Channels : Working(o)' = Working(o)
        /\ \A o \in Channels : o # c => Sent(o)' = Sent(o) /\ Busy(o)' = Busy(o)
        /\ Stored' = Stored
    BY <1>4, <2>2 DEF Working, Sent, Busy, Stored, Cell, Elems
  <2>4. Sent(c)' = Sent(c) \cup {x}
    <3>1. Sent(c)' = {Item(i) : i \in Elems(Append(wire[c], j))}
      BY <1>1, <2>2 DEF Sent, Elems
    <3>. QED BY <2>1, <3>1 DEF Sent
  <2>. HIDE DEF x
  <2>5. x.version \in Nat /\ x.version <= version
    <3>1. msg.version <= version /\ msg.version \in Nat
      BY <1>5, UpstreamFacts DEF ChainInv, UpInv
    <3>. QED BY <1>3, <3>1
  <2>6. ChannelInv'
    <3>1. \A o \in Channels : \A a \in Sent(o)' \cup Working(o)' : a.version <= version
      BY <2>3, <2>4, <2>5 DEF ChainInv, ChannelInv
    <3>2. \A o \in Channels : o > current => wire'[o] = <<>> /\ job'[o] = None
      BY <1>1, <1>4, <2>2 DEF ChainInv, ChannelInv
    <3>. QED BY <1>4, <2>3, <3>1, <3>2 DEF ChainInv, ChannelInv
  <2>7. ASSUME DownInv, "crossed" \notin harm' PROVE DownInv'
    <3>1. \A o \in Channels : o # c => ~Busy(o)
      <4>1. ~Crossed(c)
        BY <1>8, <2>7
      <4>2. \A o \in Channels : o < c => ~Busy(o)
        BY <4>1 DEF Crossed, Busy
      <4>3. \A o \in Channels : o > c => ~Busy(o)
        BY <1>1 DEF ChainInv, ChannelInv, Busy
      <4>4. \A o \in Channels : o # c => o < c \/ o > c
        BY <1>1
      <4>. QED BY <4>2, <4>3, <4>4
    <3>2. \A a : Leq(a, msg) => Leq(a, x)
      BY <1>3 DEF Leq
    <3>3. \A b : Leq(msg, b) => Leq(x, b)
      BY <1>3 DEF Leq
    <3>4. \A b \in Upstream : Leq(msg, b)
      <4>1. Leq(msg, msg)
        BY <1>5, UpstreamFacts, LeqFacts
      <4>. QED BY <1>5, <4>1 DEF Upstream, ChainInv, UpInv, Order
    <3>5. Order(Stored, Upstream') /\ \A o \in Channels : Order(Sent(o)' \cup Working(o)', Upstream')
      BY <1>5, <2>3, <2>4, <2>7, <3>3, <3>4 DEF DownInv, Order
    <3>6. \A o \in Channels : Order(Working(o)', Sent(o)') /\ Order(Stored, Sent(o)' \cup Working(o)')
      BY <1>5, <2>3, <2>4, <2>7, <3>2 DEF DownInv, Order
    <3>7. \A o \in Channels : ItemsInOrder(wire'[o])
      <4>1. ASSUME NEW i \in Elems(wire[c]) PROVE Leq(Item(i), Item(j))
        <5>1. Item(i) \in Sent(c)
          BY DEF Sent
        <5>. QED BY <1>1, <1>5, <2>7, <3>2, <5>1 DEF DownInv, Order, x
      <4>2. ItemsInOrder(Append(wire[c], j))
        BY <1>1, <1>2, <2>7, <4>1, AppendItems DEF DownInv
      <4>. QED BY <2>2, <2>7, <4>2 DEF DownInv
    <3>8. \A o, i \in Channels : o # i => ~Busy(o)' \/ ~Busy(i)'
      BY <2>3, <3>1
    <3>. QED BY <2>3, <3>5, <3>6, <3>7, <3>8 DEF DownInv, ItemsInOrder
  <2>. QED BY <1>4, <1>6, <2>6, <2>7 DEF ChainInv
<1>. QED BY <1>7, <1>8 DEF Write

-----------------------------------------------------------------------------
\* The steps of the server leave what is upstream alone.
LEMMA UpStays ==
  ASSUME UpInv, UNCHANGED <<queue, selected, putsDue, version, msg, todo, built>>
  PROVE  UpInv' /\ Upstream' = Upstream
<1>1. Hand' = Hand /\ Queued' = Queued
  BY DEF Hand, Active, Queued, Elems
<1>2. Upstream' = Upstream
  BY <1>1 DEF Upstream
<1>. QED BY <1>1, <1>2 DEF UpInv, Order, InOrder

\* A step that loses messages, ends jobs or goes on with one, and changes no table.
LEMMA Loss_Chain ==
  ASSUME TypeInv, ChainInv,
         UNCHANGED <<queue, selected, putsDue, version, msg, todo, built, current, dest>>,
         harm \subseteq harm',
         \A c \in Channels : wire'[c] = wire[c] \/ wire'[c] = <<>>,
         \A c \in Channels :
            \/ job'[c] = job[c] \/ job'[c] = None
            \/ job[c] # None /\ job'[c].json = job[c].json /\ job'[c].todo \subseteq job[c].todo
  PROVE  ChainInv'
<1>1. UpInv' /\ Upstream' = Upstream
  BY UpStays DEF ChainInv
<1>2. Stored' = Stored
  BY DEF Stored, Cell
<1>3. \A c \in Channels : Sent(c)' \subseteq Sent(c)
  <2>1. \A c \in Channels : Sent(c)' = {Item(j) : j \in Elems(wire'[c])}
    BY DEF Sent, Elems
  <2>. QED BY <2>1, EmptyFacts DEF Sent
<1>4. \A c \in Channels : Working(c)' \subseteq Working(c) /\ (Busy(c)' => Busy(c))
  BY DEF Working, Busy
<1>5. ChannelInv'
  <2>1. ASSUME NEW c \in Channels
        PROVE  /\ \A a \in Sent(c)' \cup Working(c)' : a.version <= version
               /\ c > current => wire'[c] = <<>> /\ job'[c] = None
               /\ job'[c] # None => \A g \in job'[c].todo : FromTable[g] = job'[c].json.table
    BY <1>3, <1>4 DEF ChainInv, ChannelInv
  <2>. QED BY <1>2, <2>1 DEF ChainInv, ChannelInv
<1>6. ASSUME DownInv PROVE DownInv'
  <2>1. \A c \in Channels : ItemsInOrder(wire'[c])
    <3>1. ItemsInOrder(<<>>)
      BY DEF ItemsInOrder
    <3>. QED BY <1>6, <3>1 DEF DownInv
  <2>. QED BY <1>1, <1>2, <1>3, <1>4, <1>6, <2>1 DEF DownInv, Order, ItemsInOrder
<1>. QED BY <1>1, <1>5, <1>6 DEF ChainInv

LEMMA Receive_Chain ==
  ASSUME TypeInv, ChainInv, NEW c \in Channels, Receive(c) PROVE ChainInv'
<1>. DEFINE j == Head(wire[c])
            w == [json |-> j, todo |-> MapsOf(j.table), resFlag |-> NoResult, whole |-> TRUE]
<1>1. /\ UNCHANGED <<queue, selected, putsDue, version, msg, todo, built, current, dest, harm>>
      /\ wire' = [wire EXCEPT ![c] = Tail(wire[c])] /\ job' = [job EXCEPT ![c] = w]
      /\ wire[c] # <<>> /\ job[c] = None
      /\ wire \in [Channels -> Seq(Json)] /\ job \in [Channels -> Job \cup {None}]
      /\ Channels \subseteq Nat
  BY TypeFacts DEF Receive, sourceVars, senderVars, TypeOK
<1>2. /\ j \in Json /\ j \in Elems(wire[c]) /\ Elems(Tail(wire[c])) \subseteq Elems(wire[c])
  BY <1>1, WireFacts, TailFacts
<1>3. w.json = j /\ \A g \in w.todo : FromTable[g] = w.json.table
  BY DEF MapsOf
<1>4. \A o \in Channels : /\ o # c => wire'[o] = wire[o] /\ job'[o] = job[o]
                          /\ o = c => wire'[o] = Tail(wire[c]) /\ job'[o] = w
  BY <1>1
<1>5. UpInv' /\ Upstream' = Upstream
  BY <1>1, UpStays DEF ChainInv
<1>6. Stored' = Stored
  BY <1>1 DEF Stored, Cell
<1>7. Busy(c) /\ \A o \in Channels : Busy(o)' => Busy(o)
  BY <1>1, <1>4 DEF Busy
<1>. HIDE DEF w, j
<1>8. /\ Item(j) \in Sent(c) /\ Working(c)' \subseteq {Item(j)}
      /\ Sent(c)' = {Item(i) : i \in Elems(Tail(wire[c]))} /\ Sent(c)' \subseteq Sent(c)
  BY <1>2, <1>3, <1>4 DEF Sent, Working, Elems
<1>9. \A o \in Channels : o # c => Sent(o)' = Sent(o) /\ Working(o)' = Working(o)
  BY <1>4 DEF Sent, Working, Elems
<1>10. ChannelInv'
  <2>1. ASSUME NEW o \in Channels
        PROVE  /\ \A a \in Sent(o)' \cup Working(o)' : a.version <= version
               /\ o > current => wire'[o] = <<>> /\ job'[o] = None
               /\ job'[o] # None => \A g \in job'[o].todo : FromTable[g] = job'[o].json.table
    <3>1. CASE o = c
      BY <1>1, <1>3, <1>4, <1>8, <3>1 DEF ChainInv, ChannelInv
    <3>2. CASE o # c
      BY <1>4, <1>9, <3>2 DEF ChainInv, ChannelInv
    <3>. QED BY <3>1, <3>2
  <2>. QED BY <1>1, <1>6, <2>1 DEF ChainInv, ChannelInv
<1>11. ASSUME DownInv PROVE DownInv'
  <2>1. ItemsInOrder(Tail(wire[c])) /\ \A i \in Elems(Tail(wire[c])) : Leq(Item(j), Item(i))
    BY <1>1, <1>11, TailItems DEF DownInv, j
  <2>2. \A o \in Channels : ItemsInOrder(wire'[o])
    BY <1>4, <1>11, <2>1 DEF DownInv
  <2>3. Order(Working(c)', Sent(c)')
    BY <1>8, <2>1 DEF Order
  <2>4. /\ Order(Sent(c)' \cup Working(c)', Upstream)
        /\ Order(Stored, Sent(c)' \cup Working(c)')
    BY <1>8, <1>11 DEF DownInv, Order
  <2>. QED BY <1>5, <1>6, <1>7, <1>9, <1>11, <2>2, <2>3, <2>4 DEF DownInv, Order, ItemsInOrder
<1>. QED BY <1>1, <1>5, <1>10, <1>11 DEF ChainInv

\* A target comes to the version that is being applied, whatever becomes of the job.
LEMMA Store_Chain ==
  ASSUME TypeInv, ChainInv, NEW c \in Channels, NEW g \in Maps, NEW v,
         UNCHANGED <<queue, selected, putsDue, version, msg, todo, built, current, wire>>,
         job[c] # None, g \in job[c].todo, harm \subseteq harm',
         job' = [job EXCEPT ![c] = v], v.json = job[c].json, v.todo \subseteq job[c].todo,
         dest' = [dest EXCEPT ![g][job[c].json.key] = job[c].json.version]
  PROVE  ChainInv'
<1>. DEFINE w == job[c]
            j == w.json
            x == Item(j)
<1>0. /\ w \in Job /\ j \in Json
      /\ job \in [Channels -> Job \cup {None}] /\ dest \in [Maps -> [Keys -> 0..MaxVersion]]
  BY WireFacts, TypeFacts DEF TypeOK
<1>1. \A o \in Channels : /\ o # c => job'[o] = job[o]
                          /\ o = c => job'[o] = v
  BY <1>0
<1>2. FromTable[g] = j.table /\ Busy(c) /\ x \in Working(c)
  BY <1>0 DEF ChainInv, ChannelInv, Busy, Working
<1>3. UpInv' /\ Upstream' = Upstream
  BY UpStays DEF ChainInv
<1>4. \A o \in Channels : Sent(o)' = Sent(o) /\ Working(o)' \subseteq Working(o) /\ (Busy(o)' => Busy(o))
  <2>1. \A o \in Channels : Sent(o)' = Sent(o)
    BY DEF Sent, Elems
  <2>2. Working(c)' \subseteq {Item(v.json)}
    BY <1>1 DEF Working
  <2>3. \A o \in Channels : Working(o)' \subseteq Working(o)
    BY <1>1, <1>2, <2>2 DEF Working
  <2>4. \A o \in Channels : Busy(o)' => Busy(o)
    BY <1>1 DEF Busy
  <2>. QED BY <2>1, <2>3, <2>4
<1>5. Stored' \subseteq Stored \cup {x}
  <2>1. ASSUME NEW h \in Maps, NEW k \in Keys PROVE Cell(h, k)' \in Stored \cup {x}
    <3>1. CASE h = g /\ k = j.key
      BY <1>0, <1>2, <3>1 DEF Cell, Item, Json
    <3>2. CASE ~(h = g /\ k = j.key)
      <4>1. dest'[h][k] = dest[h][k]
        BY <1>0, <3>2
      <4>. QED BY <4>1 DEF Cell, Stored
    <3>. QED BY <3>1, <3>2
  <2>. QED BY <2>1 DEF Stored
<1>. HIDE DEF x, w, j
<1>6. x.version <= version
  BY <1>2 DEF ChainInv, ChannelInv
<1>7. ChannelInv'
  <2>1. ASSUME NEW o \in Channels
        PROVE  /\ \A a \in Sent(o)' \cup Working(o)' : a.version <= version
               /\ o > current => wire'[o] = <<>> /\ job'[o] = None
               /\ job'[o] # None => \A h \in job'[o].todo : FromTable[h] = job'[o].json.table
    <3>1. \A a \in Sent(o)' \cup Working(o)' : a.version <= version
      BY <1>4 DEF ChainInv, ChannelInv
    <3>2. CASE o = c
      <4>1. job[c] # None /\ wire' = wire
        BY DEF w
      <4>. QED BY <1>1, <3>1, <3>2, <4>1 DEF ChainInv, ChannelInv, w, j
    <3>3. CASE o # c
      BY <1>1, <3>1, <3>3 DEF ChainInv, ChannelInv
    <3>. QED BY <3>2, <3>3
  <2>. QED BY <1>5, <1>6, <2>1 DEF ChainInv, ChannelInv
<1>8. ASSUME DownInv PROVE DownInv'
  <2>1. \A o \in Channels : ItemsInOrder(wire'[o])
    BY <1>8 DEF DownInv
  <2>2. Order(Stored', Upstream)
    BY <1>2, <1>5, <1>8 DEF DownInv, Order
  <2>3. ASSUME NEW o \in Channels PROVE Order(Stored', Sent(o)' \cup Working(o)')
    <3>1. CASE o = c
      <4>1. \A b \in Working(c) : b = x
        BY DEF Working, x, w, j
      <4>2. Leq(x, x)
        BY <1>2, DownFacts, LeqFacts
      <4>. QED BY <1>2, <1>4, <1>5, <1>8, <3>1, <4>1, <4>2 DEF DownInv, Order
    <3>2. CASE o # c
      <4>1. wire[o] = <<>> /\ job[o] = None
        BY <1>2, <1>8, <3>2 DEF DownInv, Busy
      <4>2. Sent(o) = {} /\ Working(o) = {}
        BY <4>1, EmptyFacts DEF Sent, Working
      <4>. QED BY <1>4, <4>2 DEF Order
    <3>. QED BY <3>1, <3>2
  <2>4. \A o \in Channels : Order(Sent(o)' \cup Working(o)', Upstream) /\ Order(Working(o)', Sent(o)')
    BY <1>4, <1>8 DEF DownInv, Order
  <2>5. \A o, i \in Channels : o # i => ~Busy(o)' \/ ~Busy(i)'
    BY <1>4, <1>8 DEF DownInv
  <2>. QED BY <1>3, <2>1, <2>2, <2>3, <2>4, <2>5 DEF DownInv, ItemsInOrder
<1>. QED BY <1>3, <1>7, <1>8 DEF ChainInv

LEMMA Apply_Chain ==
  ASSUME TypeInv, ChainInv, NEW c \in Channels, NEW g \in Maps, Apply(c, g) PROVE ChainInv'
<1>. DEFINE w == job[c]
            j == w.json
            x == Item(j)
<1>1. /\ UNCHANGED <<queue, selected, putsDue, version, msg, todo, built, current, wire>>
      /\ w # None /\ w \in Job /\ j \in Json /\ g \in w.todo /\ harm \subseteq harm'
      /\ job \in [Channels -> Job \cup {None}] /\ dest \in [Maps -> [Keys -> 0..MaxVersion]]
  <2>1. w # None /\ UNCHANGED <<sourceVars, queue, senderVars, records, linkVars, tenants, lost>>
    BY Zenon DEF Apply, InHand
  <2>2. UNCHANGED <<queue, selected, putsDue, version, msg, todo, built, current, wire>>
    BY <2>1 DEF sourceVars, senderVars, linkVars
  <2>3. g \in w.todo /\ harm \subseteq harm'
    BY ApplyEffect
  <2>4. w \in Job /\ j \in Json
    BY <2>1, WireFacts
  <2>. QED BY <2>1, <2>2, <2>3, <2>4, TypeFacts DEF TypeOK
<1>2. /\ AppliedTo(w, g).json = j /\ AppliedTo(w, g).todo \subseteq w.todo
      /\ RefusedTo(w, g).json = j /\ RefusedTo(w, g).todo \subseteq w.todo
      /\ AppliedTo(w, g) \in Job
  <2>1. w \in Job
    BY <1>1
  <2>. HIDE DEF w
  <2>2. /\ AppliedTo(w, g).json = w.json /\ AppliedTo(w, g).todo = w.todo \ {g}
        /\ RefusedTo(w, g).json = w.json /\ RefusedTo(w, g).todo = w.todo \ {g}
        /\ AppliedTo(w, g) \in Job
    BY <2>1, JobSteps
  <2>. QED BY <2>2
<1>3. CASE job' = [job EXCEPT ![c] = RefusedTo(w, g)] /\ dest' = dest
  <2>1. \A o \in Channels :
           \/ job'[o] = job[o] \/ job'[o] = None
           \/ job[o] # None /\ job'[o].json = job[o].json /\ job'[o].todo \subseteq job[o].todo
    BY <1>1, <1>2, <1>3
  <2>. QED BY <1>1, <1>3, <2>1, Loss_Chain
<1>4. CASE /\ job' = [job EXCEPT ![c] = AppliedTo(w, g)]
           /\ dest' = [dest EXCEPT ![g][j.key] = j.version]
  BY <1>1, <1>2, <1>4, Store_Chain
<1>. QED BY <1>3, <1>4, ApplyEffect

LEMMA ApplyThrows_Chain ==
  ASSUME TypeInv, ChainInv, NEW c \in Channels, NEW g \in Maps, ApplyThrows(c, g) PROVE ChainInv'
<1>. DEFINE w == job[c]
            v == ThrownAt(w)
<1>1. /\ UNCHANGED <<queue, selected, putsDue, version, msg, todo, built, current, wire>>
      /\ w # None /\ w \in Job /\ g \in w.todo /\ harm \subseteq harm' /\ job' = [job EXCEPT ![c] = v]
  <2>1. w # None /\ UNCHANGED <<sourceVars, queue, senderVars, records, linkVars, tenants, lost>>
    BY Zenon DEF ApplyThrows, InHand
  <2>2. UNCHANGED <<queue, selected, putsDue, version, msg, todo, built, current, wire>>
    BY <2>1 DEF sourceVars, senderVars, linkVars
  <2>3. harm \subseteq harm'
    BY DEF ApplyThrows
  <2>. QED BY <2>1, <2>2, <2>3, WireFacts, ThrowsEffect
<1>2. v.json = w.json /\ v.todo = {}
  BY <1>1, JobSteps
<1>. HIDE DEF v
<1>3. CASE dest' = dest
  <2>1. \A o \in Channels :
           \/ job'[o] = job[o] \/ job'[o] = None
           \/ job[o] # None /\ job'[o].json = job[o].json /\ job'[o].todo \subseteq job[o].todo
    BY <1>1, <1>2, TypeFacts DEF TypeOK
  <2>. QED BY <1>1, <1>3, <2>1, Loss_Chain
<1>4. CASE dest' = [dest EXCEPT ![g][w.json.key] = w.json.version]
  BY <1>1, <1>2, <1>4, Store_Chain
<1>. QED BY <1>3, <1>4, ThrowsEffect

LEMMA Other_Chain ==
  ASSUME TypeInv, ChainInv, NEW c \in Channels,
         \/ Reply(c) \/ HandleReply(c) \/ Closed(c) \/ Drop(c) \/ Notice(c)
         \/ \E g \in Maps : NoTenant(c, g)
  PROVE  ChainInv'
<1>1. /\ UNCHANGED <<queue, selected, putsDue, version, msg, todo, built, current, dest>>
      /\ harm \subseteq harm'
  BY DEF Reply, HandleReply, Closed, Drop, Notice, NoTenant, sourceVars, senderVars, linkVars,
         serverVars
<1>2. \A o \in Channels : wire'[o] = wire[o] \/ wire'[o] = <<>>
  BY TypeFacts DEF Reply, HandleReply, Closed, Drop, Notice, NoTenant, linkVars, TypeOK
<1>3. \A o \in Channels : job'[o] = job[o] \/ job'[o] = None
  <2>1. CASE Reply(c) \/ \E g \in Maps : NoTenant(c, g)
    BY <2>1, TypeFacts DEF Reply, NoTenant, TypeOK
  <2>2. CASE HandleReply(c) \/ Closed(c) \/ Drop(c) \/ Notice(c)
    BY <2>2 DEF HandleReply, Closed, Drop, Notice, serverVars
  <2>. QED BY <2>1, <2>2
<1>. QED BY <1>1, <1>2, <1>3, Loss_Chain

LEMMA AddTenant_Chain == ASSUME TypeInv, ChainInv, NEW g \in Maps, AddTenant(g) PROVE ChainInv'
<1>1. UNCHANGED <<queue, selected, putsDue, version, msg, todo, built, current, dest, wire, job, harm>>
  BY DEF AddTenant, sourceVars, senderVars, linkVars
<1>. QED BY <1>1, Loss_Chain

LEMMA Next_Chain == TypeInv /\ TypeInv' /\ ChainInv /\ [Next]_vars => ChainInv'
<1>. SUFFICES ASSUME TypeInv, TypeInv', ChainInv, [Next]_vars PROVE ChainInv'
  OBVIOUS
<1>1. CASE \E r \in Rows : Change(r) \/ Remove(r)
  BY <1>1, Change_Chain, Remove_Chain
<1>2. CASE \E c \in putsDue : Select(c)
  BY <1>2, Select_Chain
<1>3. CASE \E c \in selected : Offer(c)
  BY <1>3, Offer_Chain
<1>4. CASE \E r \in delsDue : OfferDelete(r)
  BY <1>4, OfferDelete_Chain
<1>5. CASE Sender
  BY <1>5, Poll_Chain, Sender_Chain, Write_Chain DEF Sender
<1>6. CASE \E g \in Maps : AddTenant(g)
  BY <1>6, AddTenant_Chain
<1>7. CASE \E c \in Channels : Server(c)
  BY <1>7, Receive_Chain, Apply_Chain, ApplyThrows_Chain, Other_Chain DEF Server
<1>8. CASE \E c \in Channels : HandleReply(c) \/ ReplyThrows(c) \/ Break(c) \/ Drop(c) \/ Notice(c)
  BY <1>8, Other_Chain DEF ReplyThrows, Break
<1>9. CASE UNCHANGED vars
  BY <1>9, Loss_Chain DEF vars, sourceVars, senderVars, linkVars, serverVars
<1>. QED BY <1>1, <1>2, <1>3, <1>4, <1>5, <1>6, <1>7, <1>8, <1>9 DEF Next

\* Only a map that is applied changes a target, and its message is not before it.
NoneBack ==
  \A g \in Maps, k \in Keys :
    "crossed" \in harm' \/ dest'[g][k] = 0 \/ dest'[g][k] >= dest[g][k]

LEMMA Apply_NotBack ==
  ASSUME TypeInv, ChainInv, NEW c \in Channels, NEW g \in Maps, Apply(c, g) \/ ApplyThrows(c, g)
  PROVE  NoneBack
<1>. DEFINE j == job[c].json
<1>1. /\ job[c] # None /\ j \in Json /\ g \in job[c].todo
      /\ dest \in [Maps -> [Keys -> 0..MaxVersion]] /\ MaxVersion \in Nat
  BY TypeFacts, WireFacts, ApplyEffect, ThrowsEffect DEF Apply, ApplyThrows, InHand, TypeOK
<1>2. SUFFICES ASSUME NEW h \in Maps, NEW k \in Keys, "crossed" \notin harm', dest'[h][k] # 0
               PROVE  dest'[h][k] >= dest[h][k]
  BY DEF NoneBack
<1>3. dest[h][k] \in Nat /\ j.version \in Nat
  BY <1>1 DEF Json
<1>4. CASE dest' = dest
  BY <1>3, <1>4
<1>5. CASE dest' = [dest EXCEPT ![g][j.key] = j.version] /\ harm \subseteq harm'
  <2>1. CASE h = g /\ k = j.key
    <3>1. dest'[h][k] = j.version
      BY <1>1, <1>5, <2>1
    <3>2. Cell(h, k) \in Stored /\ Item(j) \in Working(c)
      BY <1>1 DEF Stored, Working
    <3>3. Leq(Cell(h, k), Item(j))
      BY <1>2, <1>5, <3>2 DEF ChainInv, DownInv, Order
    <3>4. FromTable[h] = j.table
      BY <1>1, <2>1 DEF ChainInv, ChannelInv
    <3>5. Cell(h, k).row = Item(j).row /\ Cell(h, k).version = dest[h][k] /\ Item(j).version = j.version
      BY <2>1, <3>4 DEF Cell, Item
    <3>. HIDE DEF j
    <3>. QED BY <1>2, <1>3, <3>1, <3>3, <3>5 DEF Leq
  <2>2. CASE ~(h = g /\ k = j.key)
    <3>1. dest'[h][k] = dest[h][k]
      BY <1>1, <1>5, <2>2
    <3>. QED BY <1>3, <3>1
  <2>. QED BY <2>1, <2>2
<1>. QED BY <1>4, <1>5, ApplyEffect, ThrowsEffect DEF ApplyThrows

LEMMA Next_NotBack == TypeInv /\ ChainInv /\ [Next]_vars => NoneBack
<1>. SUFFICES ASSUME TypeInv, ChainInv, [Next]_vars PROVE NoneBack
  OBVIOUS
<1>1. \A g \in Maps, k \in Keys : dest[g][k] \in Nat
  BY TypeFacts DEF TypeOK
<1>2. CASE dest' = dest
  BY <1>1, <1>2 DEF NoneBack
<1>3. CASE \E c \in Channels, g \in Maps : Apply(c, g) \/ ApplyThrows(c, g)
  BY <1>3, Apply_NotBack
<1>4. dest' = dest \/ \E c \in Channels, g \in Maps : Apply(c, g) \/ ApplyThrows(c, g)
  <2>1. CASE (\E r \in Rows : Change(r) \/ Remove(r)) \/ (\E c \in putsDue : Select(c))
             \/ (\E c \in selected : Offer(c)) \/ (\E r \in delsDue : OfferDelete(r))
    BY <2>1 DEF Change, Remove, Select, Offer, OfferDelete, serverVars
  <2>2. CASE Sender
    BY <2>2 DEF Sender, Poll, Connect, ConnectFails, Build, AddThrows, Write, Withhold, SenderDies,
               serverVars
  <2>3. CASE \E c \in Channels : Server(c)
    BY <2>3 DEF Server, Receive, NoTenant, Reply
  <2>4. CASE (\E g \in Maps : AddTenant(g))
             \/ \E c \in Channels : HandleReply(c) \/ Closed(c) \/ Drop(c) \/ Notice(c)
    BY <2>4 DEF AddTenant, HandleReply, Closed, Drop, Notice, serverVars
  <2>5. CASE UNCHANGED vars
    BY <2>5 DEF vars, serverVars
  <2>. QED BY <2>1, <2>2, <2>3, <2>4, <2>5 DEF Next, ReplyThrows, Break
<1>. QED BY <1>2, <1>3, <1>4

\* While messages of one connection are applied at a time no target row goes back
\* to an older version, whatever is deleted, lost, refused or misnamed meanwhile
\* (SynClient.java, ChannelManager.java, SynServerHandler.java, OperateDB.java).
THEOREM NoTargetStepsBack == Spec => NoStepBack
<1>1. Init => TypeInv /\ ChainInv
  BY Init_Types, Init_Chain
<1>2. (TypeInv /\ ChainInv) /\ [Next]_vars => (TypeInv /\ ChainInv)'
  BY Next_Types, Next_Chain
<1>3. Spec => [](TypeInv /\ ChainInv)
  BY <1>1, <1>2, PTL DEF Spec
<1>4. (TypeInv /\ ChainInv) /\ [Next]_vars
        => [\A g \in Maps, k \in Keys :
              "crossed" \in harm' \/ dest'[g][k] = 0 \/ dest'[g][k] >= dest[g][k]]_vars
  BY Next_NotBack DEF NoneBack
<1>. QED BY <1>3, <1>4, PTL DEF Spec, NoStepBack

-----------------------------------------------------------------------------
(***************************************************************************)
(* As long as nothing has done harm, what a target is still to get ends     *)
(* with what its source row is: the last message of the row that a map is   *)
(* to come to tells the row's version, or 0 when the row is deleted; a      *)
(* delete that the sender has not sent is withheld while the row is there.  *)
(***************************************************************************)
RowOf(g, k) == <<FromTable[g], k>>

\* The source has yet to queue what r is.
IsDue(r) ==
  \/ \E m \in putsDue \cup selected : m.row = r /\ m.version = rows[r] /\ rows[r] # 0
  \/ rows[r] = 0 /\ r \in delsDue

Agrees(m, r) == m.row = r => m.version = 0 \/ m.version = rows[r]
Tells(m, r) == m.row = r /\ m.version = rows[r]

QueueTells(r) ==
  \E i \in DOMAIN queue : /\ Tells(queue[i], r)
                          /\ \A j \in DOMAIN queue : i < j => Agrees(queue[j], r)
QueueAgrees(r) == \A m \in Queued : Agrees(m, r)
HandTells(r) == \E m \in Hand : Tells(m, r)
HandAgrees(r) == \A m \in Hand : Agrees(m, r)

\* On the wire and in a job a delete counts.
Means(j, r) == Item(j).row = r => Item(j).version = rows[r]
WireTells(c, r) ==
  \E i \in DOMAIN wire[c] : /\ Tells(Item(wire[c][i]), r)
                            /\ \A j \in DOMAIN wire[c] : i < j => Means(wire[c][j], r)
WiresMean(r) == \A c \in Channels : \A j \in Elems(wire[c]) : Means(j, r)
JobTells(c, g, r) == job[c] # None /\ g \in job[c].todo /\ Tells(Item(job[c].json), r)
JobsMean(g, r) == \A c \in Channels : job[c] # None /\ g \in job[c].todo => Means(job[c].json, r)

SentAll(r) == QueueAgrees(r) /\ HandAgrees(r)

Coming(g, k) ==
  LET r == RowOf(g, k) IN
  \/ IsDue(r)
  \/ QueueTells(r)
  \/ QueueAgrees(r) /\ HandTells(r)
  \/ SentAll(r) /\ \E c \in Channels : WireTells(c, r)
  \/ SentAll(r) /\ WiresMean(r) /\ \E c \in Channels : JobTells(c, g, r)
  \/ SentAll(r) /\ WiresMean(r) /\ JobsMean(g, r) /\ dest[g][k] = rows[r]

HarmlessInv ==
  harm = {} =>
    /\ built # None => built.table = TableOf(msg.row)
    /\ \A g \in Maps, k \in Keys : Coming(g, k)

\* Of a row that is there no newer version is due.
NewestInv ==
  /\ \A m \in selected \cup putsDue : rows[m.row] # 0 => m.version <= rows[m.row]
  /\ \A a, b \in selected : a = b
  /\ \A r \in Rows : rows[r] <= version

LEMMA Init_Harmless == Init => HarmlessInv /\ NewestInv
<1>. SUFFICES ASSUME Init PROVE HarmlessInv /\ NewestInv
  OBVIOUS
<1>1. /\ queue = <<>> /\ selected = {} /\ putsDue = {} /\ version = 0 /\ built = None
      /\ Hand = {} /\ Queued = {}
  BY EmptyFacts DEF Init, Hand, Active, Queued
<1>2. NewestInv
  BY <1>1, TransferAssumption DEF NewestInv, Init
<1>3. ASSUME NEW g \in Maps, NEW k \in Keys PROVE Coming(g, k)
  <2>1. RowOf(g, k) \in Rows /\ rows[RowOf(g, k)] = 0 /\ dest[g][k] = 0
    BY TransferAssumption DEF RowOf, Rows, Init
  <2>2. SentAll(RowOf(g, k))
    BY <1>1 DEF SentAll, QueueAgrees, HandAgrees
  <2>3. WiresMean(RowOf(g, k)) /\ JobsMean(g, RowOf(g, k))
    BY EmptyFacts DEF Init, WiresMean, JobsMean
  <2>. QED BY <2>1, <2>2, <2>3 DEF Coming
<1>. QED BY <1>1, <1>2, <1>3 DEF HarmlessInv

-----------------------------------------------------------------------------
\* A message goes to the end of the queue, or leaves it.
LEMMA QueueAppend ==
  ASSUME queue \in Seq(Message), NEW x \in Message, queue' = Append(queue, x), rows' = rows, NEW r
  PROVE  /\ Agrees(x, r) /\ QueueTells(r) => QueueTells(r)'
         /\ Agrees(x, r) /\ QueueAgrees(r) => QueueAgrees(r)'
         /\ Tells(x, r) => QueueTells(r)'
<1>1. /\ Len(queue) \in Nat /\ DOMAIN queue = 1..Len(queue) /\ DOMAIN queue' = 1..(Len(queue) + 1)
      /\ \A i \in 1..Len(queue) : queue'[i] = queue[i]
      /\ queue'[Len(queue) + 1] = x
  OBVIOUS
<1>2. \A i \in 1..(Len(queue) + 1) : i \in 1..Len(queue) \/ i = Len(queue) + 1
  BY <1>1
<1>3. ASSUME Agrees(x, r), QueueTells(r) PROVE QueueTells(r)'
  <2>1. PICK i \in DOMAIN queue : /\ Tells(queue[i], r)
                                  /\ \A j \in DOMAIN queue : i < j => Agrees(queue[j], r)
    BY <1>3 DEF QueueTells
  <2>2. i \in DOMAIN queue' /\ queue'[i] = queue[i]
    BY <1>1, <2>1
  <2>3. \A j \in DOMAIN queue' : i < j => Agrees(queue'[j], r)
    BY <1>1, <1>2, <1>3, <2>1
  <2>. QED BY <2>1, <2>2, <2>3 DEF QueueTells, Tells, Agrees
<1>4. ASSUME Agrees(x, r), QueueAgrees(r) PROVE QueueAgrees(r)'
  <2>1. Queued' = Queued \cup {x}
    <3>1. Queued' = Elems(queue')
      BY DEF Queued, Elems
    <3>. QED BY <3>1, AppendFacts DEF Queued
  <2>. QED BY <1>4, <2>1 DEF QueueAgrees, Agrees
<1>5. ASSUME Tells(x, r) PROVE QueueTells(r)'
  <2>1. Len(queue) + 1 \in DOMAIN queue' /\ \A j \in DOMAIN queue' : ~(Len(queue) + 1 < j)
    BY <1>1
  <2>. QED BY <1>1, <1>5, <2>1 DEF QueueTells, Tells
<1>. QED BY <1>3, <1>4, <1>5

LEMMA QueueTail ==
  ASSUME queue \in Seq(Message), queue # <<>>, queue' = Tail(queue), rows' = rows, NEW r
  PROVE  /\ QueueTells(r) => QueueTells(r)' \/ (Tells(Head(queue), r) /\ QueueAgrees(r)')
         /\ QueueAgrees(r) => QueueAgrees(r)' /\ Agrees(Head(queue), r)
<1>1. /\ Len(queue) \in Nat /\ Len(queue) > 0 /\ DOMAIN queue = 1..Len(queue) /\ Head(queue) = queue[1]
      /\ DOMAIN queue' = 1..(Len(queue) - 1)
      /\ \A i \in 1..(Len(queue) - 1) : queue'[i] = queue[i + 1]
  OBVIOUS
<1>2. ASSUME QueueTells(r) PROVE QueueTells(r)' \/ (Tells(Head(queue), r) /\ QueueAgrees(r)')
  <2>1. PICK i \in DOMAIN queue : /\ Tells(queue[i], r)
                                  /\ \A j \in DOMAIN queue : i < j => Agrees(queue[j], r)
    BY <1>2 DEF QueueTells
  <2>2. \A j \in DOMAIN queue' : i < j + 1 => Agrees(queue'[j], r)
    <3>1. ASSUME NEW j \in DOMAIN queue', i < j + 1 PROVE Agrees(queue'[j], r)
      <4>1. j + 1 \in DOMAIN queue /\ queue'[j] = queue[j + 1]
        BY <1>1, <3>1
      <4>. QED BY <2>1, <3>1, <4>1
    <3>. QED BY <3>1
  <2>3. CASE i = 1
    <3>1. \A j \in DOMAIN queue' : Agrees(queue'[j], r)
      BY <1>1, <2>2, <2>3
    <3>. QED BY <1>1, <2>1, <2>3, <3>1 DEF QueueAgrees, Queued, Elems, Agrees
  <2>4. CASE i # 1
    <3>1. i - 1 \in DOMAIN queue' /\ queue'[i - 1] = queue[i]
      BY <1>1, <2>1, <2>4
    <3>2. \A j \in DOMAIN queue' : i - 1 < j => Agrees(queue'[j], r)
      BY <1>1, <2>1, <2>2
    <3>. QED BY <2>1, <3>1, <3>2 DEF QueueTells, Tells, Agrees
  <2>. QED BY <2>3, <2>4
<1>3. ASSUME QueueAgrees(r) PROVE QueueAgrees(r)' /\ Agrees(Head(queue), r)
  <2>1. Queued' \subseteq Queued /\ Head(queue) \in Queued
    <3>1. Queued' = Elems(Tail(queue))
      BY DEF Queued, Elems
    <3>. QED BY <3>1, TailFacts DEF Queued
  <2>. QED BY <1>3, <2>1 DEF QueueAgrees, Agrees
<1>. QED BY <1>2, <1>3

\* A message goes into a connection, or is received.
LEMMA WireAppend ==
  ASSUME NEW c \in Channels, wire[c] \in Seq(Json), NEW j \in Json, wire'[c] = Append(wire[c], j),
         rows' = rows, NEW r
  PROVE  /\ Means(j, r) /\ WireTells(c, r) => WireTells(c, r)'
         /\ Tells(Item(j), r) => WireTells(c, r)'
<1>. DEFINE s == wire[c]
            t == wire'[c]
<1>1. /\ Len(s) \in Nat /\ DOMAIN s = 1..Len(s) /\ DOMAIN t = 1..(Len(s) + 1)
      /\ \A i \in 1..Len(s) : t[i] = s[i]
      /\ t[Len(s) + 1] = j
  OBVIOUS
<1>2. \A i \in 1..(Len(s) + 1) : i \in 1..Len(s) \/ i = Len(s) + 1
  BY <1>1
<1>3. ASSUME Means(j, r), WireTells(c, r) PROVE WireTells(c, r)'
  <2>1. PICK i \in DOMAIN s : /\ Tells(Item(s[i]), r)
                              /\ \A n \in DOMAIN s : i < n => Means(s[n], r)
    BY <1>3 DEF WireTells
  <2>2. i \in DOMAIN t /\ t[i] = s[i]
    BY <1>1, <2>1
  <2>3. \A n \in DOMAIN t : i < n => Means(t[n], r)
    BY <1>1, <1>2, <1>3, <2>1
  <2>. QED BY <2>1, <2>2, <2>3 DEF WireTells, Tells, Means
<1>4. ASSUME Tells(Item(j), r) PROVE WireTells(c, r)'
  <2>1. Len(s) + 1 \in DOMAIN t /\ \A n \in DOMAIN t : ~(Len(s) + 1 < n)
    BY <1>1
  <2>. QED BY <1>1, <1>4, <2>1 DEF WireTells, Tells
<1>. QED BY <1>3, <1>4

LEMMA WireTail ==
  ASSUME NEW c \in Channels, wire[c] \in Seq(Json), wire[c] # <<>>, wire'[c] = Tail(wire[c]),
         rows' = rows, NEW r
  PROVE  WireTells(c, r) =>
           \/ WireTells(c, r)'
           \/ Tells(Item(Head(wire[c])), r) /\ \A j \in Elems(Tail(wire[c])) : Means(j, r)
<1>. DEFINE s == wire[c]
            t == wire'[c]
<1>1. /\ Len(s) \in Nat /\ Len(s) > 0 /\ DOMAIN s = 1..Len(s) /\ Head(s) = s[1]
      /\ DOMAIN t = 1..(Len(s) - 1)
      /\ \A i \in 1..(Len(s) - 1) : t[i] = s[i + 1]
  OBVIOUS
<1>2. SUFFICES ASSUME WireTells(c, r)
               PROVE  \/ WireTells(c, r)'
                      \/ Tells(Item(Head(s)), r) /\ \A j \in Elems(t) : Means(j, r)
  OBVIOUS
<1>3. PICK i \in DOMAIN s : /\ Tells(Item(s[i]), r)
                            /\ \A n \in DOMAIN s : i < n => Means(s[n], r)
  BY <1>2 DEF WireTells
<1>4. ASSUME NEW n \in DOMAIN t, i < n + 1 PROVE Means(t[n], r)
  <2>1. n + 1 \in DOMAIN s /\ t[n] = s[n + 1]
    BY <1>1
  <2>. QED BY <1>3, <1>4, <2>1
<1>5. CASE i = 1
  <2>1. \A n \in DOMAIN t : Means(t[n], r)
    BY <1>1, <1>4, <1>5
  <2>. QED BY <1>1, <1>3, <1>5, <2>1 DEF Elems
<1>6. CASE i # 1
  <2>1. i - 1 \in DOMAIN t /\ t[i - 1] = s[i]
    BY <1>1, <1>3, <1>6
  <2>2. \A n \in DOMAIN t : i - 1 < n => Means(t[n], r)
    BY <1>1, <1>3, <1>4
  <2>. QED BY <1>3, <2>1, <2>2 DEF WireTells, Tells, Means
<1>. QED BY <1>5, <1>6

-----------------------------------------------------------------------------
\* The steps of the source, and those that move no message.
LEMMA RowKeeps ==
  ASSUME NEW g, NEW k, Coming(g, k), UNCHANGED <<queue, todo, built, msg, wire, job, dest>>,
         rows'[RowOf(g, k)] = rows[RowOf(g, k)], IsDue(RowOf(g, k)) => IsDue(RowOf(g, k))'
  PROVE  Coming(g, k)'
<1>. PICK r : r = RowOf(g, k)
  OBVIOUS
<1>1. \A m : /\ Agrees(m, r) => (m.row = r => m.version = 0 \/ m.version = rows'[r])
             /\ Tells(m, r) => m.row = r /\ m.version = rows'[r]
  BY DEF Agrees, Tells
<1>2. (QueueTells(r) => QueueTells(r)') /\ (QueueAgrees(r) => QueueAgrees(r)')
  BY <1>1 DEF QueueTells, QueueAgrees, Queued, Elems, Agrees, Tells
<1>3. (HandTells(r) => HandTells(r)') /\ (HandAgrees(r) => HandAgrees(r)')
  <2>1. Hand' = Hand
    BY DEF Hand, Active
  <2>. QED BY <1>1, <2>1 DEF HandTells, HandAgrees, Agrees, Tells
<1>4. /\ \A c \in Channels : WireTells(c, r) => WireTells(c, r)'
      /\ WiresMean(r) => WiresMean(r)'
  BY DEF WireTells, WiresMean, Means, Tells, Elems
<1>5. /\ \A c \in Channels : JobTells(c, g, r) => JobTells(c, g, r)'
      /\ JobsMean(g, r) => JobsMean(g, r)'
  BY DEF JobTells, JobsMean, Means, Tells
<1>. QED BY <1>2, <1>3, <1>4, <1>5 DEF Coming, SentAll

LEMMA RowFacts ==
  ASSUME TypeInv, NEW g \in Maps, NEW k \in Keys
  PROVE  /\ RowOf(g, k) \in Rows /\ RowOf(g, k)[1] = FromTable[g] /\ RowOf(g, k)[2] = k
         /\ rows \in [Rows -> 0..MaxVersion] /\ rows[RowOf(g, k)] \in Nat /\ dest[g][k] \in Nat
  BY TypeFacts DEF RowOf, Rows, TypeOK

LEMMA Idle_Harmless ==
  ASSUME HarmlessInv, NewestInv, harm' = harm,
         UNCHANGED <<rows, version, putsDue, selected, delsDue, queue, todo, built, msg, wire, job, dest>>
  PROVE  HarmlessInv' /\ NewestInv'
<1>1. NewestInv'
  BY DEF NewestInv
<1>2. \A r : IsDue(r) => IsDue(r)'
  BY DEF IsDue
<1>. QED BY <1>1, <1>2, RowKeeps DEF HarmlessInv

\* What has harmed, the invariant says nothing of.
LEMMA Harm_Harmless ==
  ASSUME NewestInv, UNCHANGED <<rows, version, putsDue, selected>>, harm' # {}
  PROVE  HarmlessInv' /\ NewestInv'
  BY DEF NewestInv, HarmlessInv

LEMMA Change_Harmless ==
  ASSUME TypeInv, ChainInv, HarmlessInv, NewestInv, NEW r0 \in Rows, Change(r0)
  PROVE  HarmlessInv' /\ NewestInv'
<1>1. /\ version' = version + 1 /\ rows' = [rows EXCEPT ![r0] = version + 1]
      /\ putsDue' = putsDue \cup {[row |-> r0, version |-> version + 1]}
      /\ UNCHANGED <<selected, delsDue, queue, todo, built, msg, wire, job, dest, harm>>
      /\ version \in Nat /\ rows \in [Rows -> 0..MaxVersion] /\ 0..MaxVersion \subseteq Nat
      /\ putsDue \cup selected \subseteq Message
  BY TypeFacts DEF Change, senderVars, linkVars, serverVars, TypeOK
<1>2. NewestInv'
  <2>1. ASSUME NEW m \in selected' \cup putsDue', rows'[m.row] # 0 PROVE m.version <= rows'[m.row]
    <3>1. CASE m = [row |-> r0, version |-> version + 1]
      BY <1>1, <3>1
    <3>2. CASE m \in selected \cup putsDue
      <4>1. m.version <= version /\ m.version \in Nat /\ m.row \in Rows
        BY <1>1, <3>2, UpstreamFacts DEF ChainInv, UpInv, Upstream, Message
      <4>2. CASE m.row = r0
        BY <1>1, <4>1, <4>2
      <4>3. CASE m.row # r0
        BY <1>1, <2>1, <3>2, <4>1, <4>3 DEF NewestInv
      <4>. QED BY <4>2, <4>3
    <3>. QED BY <1>1, <2>1, <3>1, <3>2
  <2>2. ASSUME NEW r \in Rows PROVE rows'[r] <= version'
    <3>1. rows[r] <= version /\ rows[r] \in Nat
      BY <1>1 DEF NewestInv
    <3>. QED BY <1>1, <3>1
  <2>. QED BY <1>1, <2>1, <2>2 DEF NewestInv
<1>3. ASSUME harm = {}, NEW g \in Maps, NEW k \in Keys PROVE Coming(g, k)'
  <2>1. Coming(g, k) /\ RowOf(g, k) \in Rows
    BY <1>3, RowFacts DEF HarmlessInv
  <2>2. CASE RowOf(g, k) = r0
    <3>1. IsDue(r0)'
      <4>. DEFINE m == [row |-> r0, version |-> version + 1]
      <4>1. m \in putsDue' /\ m.row = r0 /\ m.version = rows'[r0] /\ rows'[r0] # 0
        BY <1>1
      <4>. QED BY <4>1 DEF IsDue
    <3>. QED BY <2>2, <3>1 DEF Coming
  <2>3. CASE RowOf(g, k) # r0
    <3>1. rows'[RowOf(g, k)] = rows[RowOf(g, k)]
      BY <1>1, <2>1, <2>3
    <3>2. IsDue(RowOf(g, k)) => IsDue(RowOf(g, k))'
      BY <1>1, <3>1 DEF IsDue
    <3>. QED BY <1>1, <2>1, <3>1, <3>2, RowKeeps
  <2>. QED BY <2>2, <2>3
<1>. QED BY <1>1, <1>2, <1>3 DEF HarmlessInv

LEMMA Remove_Harmless ==
  ASSUME TypeInv, ChainInv, HarmlessInv, NewestInv, NEW r0 \in Rows, Remove(r0)
  PROVE  HarmlessInv' /\ NewestInv'
<1>1. /\ rows' = [rows EXCEPT ![r0] = 0] /\ delsDue' = delsDue \cup {r0}
      /\ UNCHANGED <<version, putsDue, selected, queue, todo, built, msg, wire, job, dest, harm>>
      /\ version \in Nat /\ rows \in [Rows -> 0..MaxVersion]
      /\ putsDue \cup selected \subseteq Message
  BY TypeFacts DEF Remove, senderVars, linkVars, serverVars, TypeOK
<1>2. NewestInv'
  <2>1. \A r \in Rows : rows'[r] = 0 \/ rows'[r] = rows[r]
    BY <1>1
  <2>2. \A m \in selected \cup putsDue : m.row \in Rows
    BY <1>1 DEF Message
  <2>3. \A r \in Rows : rows'[r] <= version
    BY <1>1, <2>1 DEF NewestInv
  <2>. QED BY <1>1, <2>1, <2>2, <2>3 DEF NewestInv
<1>3. ASSUME harm = {}, NEW g \in Maps, NEW k \in Keys PROVE Coming(g, k)'
  <2>1. Coming(g, k) /\ RowOf(g, k) \in Rows
    BY <1>3, RowFacts DEF HarmlessInv
  <2>2. CASE RowOf(g, k) = r0
    <3>1. IsDue(r0)'
      BY <1>1 DEF IsDue
    <3>. QED BY <2>2, <3>1 DEF Coming
  <2>3. CASE RowOf(g, k) # r0
    <3>1. rows'[RowOf(g, k)] = rows[RowOf(g, k)]
      BY <1>1, <2>1, <2>3
    <3>2. IsDue(RowOf(g, k)) => IsDue(RowOf(g, k))'
      BY <1>1, <3>1 DEF IsDue
    <3>. QED BY <1>1, <2>1, <3>1, <3>2, RowKeeps
  <2>. QED BY <2>2, <2>3
<1>. QED BY <1>1, <1>2, <1>3 DEF HarmlessInv

LEMMA Select_Harmless ==
  ASSUME HarmlessInv, NewestInv, NEW c \in putsDue, Select(c)
  PROVE  HarmlessInv' /\ NewestInv'
<1>1. /\ selected = {} /\ putsDue' = putsDue \ {c}
      /\ selected' = IF rows[c.row] = c.version THEN {c} ELSE {}
      /\ UNCHANGED <<rows, version, delsDue, queue, todo, built, msg, wire, job, dest, harm>>
  BY DEF Select, senderVars, linkVars, serverVars
<1>2. NewestInv'
  BY <1>1 DEF NewestInv
<1>3. ASSUME NEW r, IsDue(r) PROVE IsDue(r)'
  <2>1. \A m \in putsDue : m \in putsDue' \/ m = c
    BY <1>1
  <2>2. \A m \in putsDue : m.row = r /\ m.version = rows[r] => m \in putsDue' \cup selected'
    BY <1>1, <2>1
  <2>. QED BY <1>1, <1>3, <2>2 DEF IsDue
<1>. QED BY <1>1, <1>2, <1>3, RowKeeps DEF HarmlessInv

\* A message that agrees with the row, or is followed by one that does.
LEMMA QueuePut ==
  ASSUME queue \in Seq(Message), NEW x \in Message, queue' = Append(queue, x),
         UNCHANGED <<rows, todo, built, msg, wire, job, dest>>, NEW g, NEW k, Coming(g, k),
         \/ Tells(x, RowOf(g, k))
         \/ IsDue(RowOf(g, k))'
         \/ Agrees(x, RowOf(g, k)) /\ (IsDue(RowOf(g, k)) => IsDue(RowOf(g, k))')
  PROVE  Coming(g, k)'
<1>. PICK r : r = RowOf(g, k)
  OBVIOUS
<1>1. CASE Tells(x, r) \/ IsDue(r)'
  BY <1>1, QueueAppend DEF Coming
<1>2. CASE Agrees(x, r) /\ (IsDue(r) => IsDue(r)')
  <2>1. (QueueTells(r) => QueueTells(r)') /\ (QueueAgrees(r) => QueueAgrees(r)')
    BY <1>2, QueueAppend
  <2>2. (HandTells(r) => HandTells(r)') /\ (HandAgrees(r) => HandAgrees(r)')
    BY DEF HandTells, HandAgrees, Hand, Active, Agrees, Tells
  <2>3. /\ \A c \in Channels : WireTells(c, r) => WireTells(c, r)'
        /\ WiresMean(r) => WiresMean(r)'
    BY DEF WireTells, WiresMean, Means, Tells, Elems
  <2>4. /\ \A c \in Channels : JobTells(c, g, r) => JobTells(c, g, r)'
        /\ JobsMean(g, r) => JobsMean(g, r)'
    BY DEF JobTells, JobsMean, Means, Tells
  <2>. QED BY <1>2, <2>1, <2>2, <2>3, <2>4 DEF Coming, SentAll
<1>. QED BY <1>1, <1>2

\* Everything below the monitor is older than what it has selected.
LEMMA SelectedIsNewest ==
  ASSUME TypeInv, ChainInv, DownInv, NewestInv, NEW g \in Maps, NEW k \in Keys, Coming(g, k),
         NEW m \in selected, m.row = RowOf(g, k), rows[RowOf(g, k)] # 0
  PROVE  m.version = rows[RowOf(g, k)] \/ \E d \in putsDue : Tells(d, RowOf(g, k))
<1>. PICK r : r = RowOf(g, k)
  OBVIOUS
<1>1. /\ rows[r] \in Nat /\ m.version \in Nat /\ m.version # 0 /\ m.version <= rows[r]
      /\ m \in Upstream /\ dest[g][k] \in Nat
  BY RowFacts, TypeFacts, UpstreamFacts DEF Upstream, NamedOK, IsDelete, NewestInv
<1>2. ASSUME NEW a, a.row = r, a.version = rows[r], Leq(a, m) PROVE m.version = rows[r]
  BY <1>1, <1>2 DEF Leq
<1>3. CASE IsDue(r)
  BY <1>3 DEF IsDue, Tells, NewestInv
<1>4. CASE QueueTells(r)
  <2>1. PICK a \in Queued : Tells(a, r)
    BY <1>4 DEF QueueTells, Queued, Elems
  <2>2. Leq(a, m)
    BY <2>1 DEF ChainInv, UpInv, Order
  <2>. QED BY <1>2, <2>1, <2>2 DEF Tells
<1>5. CASE HandTells(r)
  <2>1. PICK a \in Hand : Tells(a, r)
    BY <1>5 DEF HandTells
  <2>2. Leq(a, m)
    BY <2>1 DEF ChainInv, UpInv, Order
  <2>. QED BY <1>2, <2>1, <2>2 DEF Tells
<1>6. CASE \E c \in Channels : WireTells(c, r)
  <2>1. PICK c \in Channels : \E a \in Sent(c) : Tells(a, r)
    BY <1>6 DEF WireTells, Sent, Elems
  <2>2. PICK a \in Sent(c) : Tells(a, r)
    BY <2>1
  <2>3. Leq(a, m)
    BY <1>1, <2>2 DEF DownInv, Order
  <2>. QED BY <1>2, <2>2, <2>3 DEF Tells
<1>7. CASE \E c \in Channels : JobTells(c, g, r)
  <2>1. PICK c \in Channels : JobTells(c, g, r)
    BY <1>7
  <2>2. Item(job[c].json) \in Working(c)
    BY <2>1 DEF JobTells, Working
  <2>3. Leq(Item(job[c].json), m)
    BY <1>1, <2>2 DEF DownInv, Order
  <2>. QED BY <1>2, <2>1, <2>3 DEF JobTells, Tells
<1>8. CASE dest[g][k] = rows[r]
  <2>1. Cell(g, k) \in Stored /\ Cell(g, k).row = r /\ Cell(g, k).version = rows[r]
    BY <1>8 DEF Stored, Cell, RowOf
  <2>2. Leq(Cell(g, k), m)
    BY <1>1, <2>1 DEF DownInv, Order
  <2>. QED BY <1>2, <2>1, <2>2
<1>. QED BY <1>3, <1>4, <1>5, <1>6, <1>7, <1>8 DEF Coming

LEMMA Offer_Harmless ==
  ASSUME TypeInv, ChainInv, HarmlessInv, NewestInv, NEW m \in selected, Offer(m)
  PROVE  HarmlessInv' /\ NewestInv'
<1>1. /\ selected' = {} /\ queue' = Append(queue, m) /\ queue \in Seq(Message) /\ m \in Message
      /\ harm' = IF rows[m.row] = 0 /\ m.row \notin delsDue THEN harm \cup {"stale"} ELSE harm
      /\ UNCHANGED <<rows, version, putsDue, delsDue, todo, built, msg, wire, job, dest>>
  BY TypeFacts DEF Offer, Enqueue, senderVars, linkVars, serverVars, TypeOK
<1>2. NewestInv'
  BY <1>1 DEF NewestInv
<1>3. CASE harm' = {}
  <2>1. harm = {} /\ (rows[m.row] = 0 => m.row \in delsDue)
    BY <1>1, <1>3
  <2>2. DownInv
    BY <2>1 DEF ChainInv
  <2>3. ASSUME NEW g \in Maps, NEW k \in Keys PROVE Coming(g, k)'
    <3>. PICK r : r = RowOf(g, k)
      OBVIOUS
    <3>1. Coming(g, k)
      BY <2>1 DEF HarmlessInv
    <3>2. CASE m.row # r
      <4>1. Agrees(m, r)
        BY <3>2 DEF Agrees
      <4>2. IsDue(r) => IsDue(r)'
        <5>1. \A d \in putsDue \cup selected : d.row = r => d \in putsDue'
          BY <1>1, <3>2 DEF NewestInv
        <5>. QED BY <1>1, <5>1 DEF IsDue
      <4>. QED BY <1>1, <3>1, <4>1, <4>2, QueuePut
    <3>3. CASE m.row = r /\ rows[r] = 0
      <4>1. IsDue(r)'
        BY <1>1, <2>1, <3>3 DEF IsDue
      <4>. QED BY <1>1, <3>1, <4>1, QueuePut
    <3>4. CASE m.row = r /\ rows[r] # 0
      <4>1. m.version = rows[r] \/ \E d \in putsDue : Tells(d, r)
        BY <2>2, <3>1, <3>4, SelectedIsNewest
      <4>2. Tells(m, r) \/ IsDue(r)'
        BY <1>1, <3>4, <4>1 DEF Tells, IsDue
      <4>. QED BY <1>1, <3>1, <4>2, QueuePut
    <3>. QED BY <3>2, <3>3, <3>4
  <2>. QED BY <1>1, <1>2, <2>1, <2>3 DEF HarmlessInv
<1>. QED BY <1>2, <1>3 DEF HarmlessInv

LEMMA OfferDelete_Harmless ==
  ASSUME TypeInv, HarmlessInv, NewestInv, NEW r0 \in delsDue, OfferDelete(r0)
  PROVE  HarmlessInv' /\ NewestInv'
<1>. DEFINE m == [row |-> r0, version |-> 0]
<1>1. /\ delsDue' = delsDue \ {r0} /\ queue' = Append(queue, m)
      /\ queue \in Seq(Message) /\ m \in Message /\ m.row = r0 /\ m.version = 0
      /\ UNCHANGED <<rows, version, putsDue, selected, todo, built, msg, wire, job, dest, harm>>
  BY TypeFacts DEF OfferDelete, Enqueue, senderVars, linkVars, serverVars, TypeOK, Message
<1>. HIDE DEF m
<1>2. NewestInv'
  BY <1>1 DEF NewestInv
<1>3. ASSUME harm = {}, NEW g \in Maps, NEW k \in Keys PROVE Coming(g, k)'
  <2>. PICK r : r = RowOf(g, k)
    OBVIOUS
  <2>1. Coming(g, k)
    BY <1>3 DEF HarmlessInv
  <2>2. Agrees(m, r)
    BY <1>1 DEF Agrees
  <2>3. Tells(m, r) \/ (IsDue(r) => IsDue(r)')
    <3>1. CASE rows[r] = 0 /\ r = r0
      BY <1>1, <3>1 DEF Tells
    <3>2. CASE ~(rows[r] = 0 /\ r = r0)
      BY <1>1, <3>2 DEF IsDue
    <3>. QED BY <3>1, <3>2
  <2>. QED BY <1>1, <2>1, <2>2, <2>3, QueuePut
<1>. QED BY <1>1, <1>2, <1>3 DEF HarmlessInv

-----------------------------------------------------------------------------
\* The steps of the sender.
LEMMA HandKeeps ==
  ASSUME UNCHANGED <<rows, putsDue, selected, delsDue, queue, wire, job, dest>>,
         NEW g, NEW k, Coming(g, k),
         HandTells(RowOf(g, k)) => HandTells(RowOf(g, k))',
         HandAgrees(RowOf(g, k)) => HandAgrees(RowOf(g, k))'
  PROVE  Coming(g, k)'
<1>. PICK r : r = RowOf(g, k)
  OBVIOUS
<1>1. /\ IsDue(r) => IsDue(r)'
      /\ QueueTells(r) => QueueTells(r)'
      /\ QueueAgrees(r) => QueueAgrees(r)'
  BY DEF IsDue, QueueTells, QueueAgrees, Queued, Elems, Agrees, Tells
<1>2. /\ \A c \in Channels : WireTells(c, r) => WireTells(c, r)'
      /\ WiresMean(r) => WiresMean(r)'
  BY DEF WireTells, WiresMean, Means, Tells, Elems
<1>3. /\ \A c \in Channels : JobTells(c, g, r) => JobTells(c, g, r)'
      /\ JobsMean(g, r) => JobsMean(g, r)'
  BY DEF JobTells, JobsMean, Means, Tells
<1>. QED BY <1>1, <1>2, <1>3 DEF Coming, SentAll

LEMMA Poll_Harmless ==
  ASSUME TypeInv, HarmlessInv, NewestInv, Poll PROVE HarmlessInv' /\ NewestInv'
<1>. DEFINE h == Head(queue)
<1>1. /\ todo = {} /\ built = None /\ built' = None /\ queue # <<>> /\ msg' = h
      /\ queue' = Tail(queue) /\ todo' = MapsOf(NameIn(h)) /\ harm' = harm \cup Misnamed(h)
      /\ UNCHANGED <<rows, version, putsDue, selected, delsDue, wire, job, dest>>
      /\ queue \in Seq(Message)
  BY TypeFacts DEF Poll, sourceVars, linkVars, serverVars, TypeOK
<1>. HIDE DEF h
<1>2. NewestInv'
  BY <1>1 DEF NewestInv
<1>3. ASSUME harm' = {}, NEW g \in Maps, NEW k \in Keys PROVE Coming(g, k)'
  <2>. PICK r : r = RowOf(g, k)
    OBVIOUS
  <2>1. Coming(g, k)
    BY <1>1, <1>3 DEF HarmlessInv
  <2>2. NameIn(h) = TableOf(h.row)
    BY <1>1, <1>3 DEF Misnamed
  <2>3. Hand = {} /\ Hand' \subseteq {h}
    BY <1>1 DEF Hand, Active
  <2>4. /\ QueueTells(r) => QueueTells(r)' \/ (Tells(h, r) /\ QueueAgrees(r)')
        /\ QueueAgrees(r) => QueueAgrees(r)' /\ Agrees(h, r)
    BY <1>1, QueueTail DEF h
  <2>5. Tells(h, r) => HandTells(r)'
    <3>1. SUFFICES ASSUME Tells(h, r) PROVE HandTells(r)'
      OBVIOUS
    <3>2. g \in todo'
      BY <1>1, <2>2, <3>1, RowFacts DEF Tells, MapsOf, TableOf
    <3>3. Hand' = {msg'}
      BY <3>2 DEF Hand, Active
    <3>. QED BY <1>1, <3>1, <3>3 DEF HandTells, Tells
  <2>6. Agrees(h, r) => HandAgrees(r)'
    BY <1>1, <2>3 DEF HandAgrees, Agrees
  <2>7. IsDue(r) => IsDue(r)'
    BY <1>1 DEF IsDue
  <2>8. ~HandTells(r)
    BY <2>3 DEF HandTells
  <2>9. /\ \A c \in Channels : WireTells(c, r) => WireTells(c, r)'
        /\ WiresMean(r) => WiresMean(r)'
    BY <1>1 DEF WireTells, WiresMean, Means, Tells, Elems
  <2>10. /\ \A c \in Channels : JobTells(c, g, r) => JobTells(c, g, r)'
         /\ JobsMean(g, r) => JobsMean(g, r)'
    BY <1>1 DEF JobTells, JobsMean, Means, Tells
  <2>11. dest' = dest /\ rows' = rows
    BY <1>1
  <2>. QED BY <2>1, <2>4, <2>5, <2>6, <2>7, <2>8, <2>9, <2>10, <2>11 DEF Coming, SentAll
<1>. QED BY <1>1, <1>2, <1>3 DEF HarmlessInv

LEMMA Build_Harmless ==
  ASSUME TypeInv, TypeInv', HarmlessInv, NewestInv, NEW g0 \in todo, Build(g0)
  PROVE  HarmlessInv' /\ NewestInv'
<1>1. /\ built'.table = NameIn(msg) /\ harm' = harm \cup Misnamed(msg) /\ msg' = msg
      /\ UNCHANGED <<rows, version, putsDue, selected, delsDue, queue, wire, job, dest>>
  BY DEF Build, sourceVars, linkVars, serverVars
<1>2. built' \in Delivery
  <2>1. NameIn(msg) \in Tables
    BY NameIsTable, TypeFacts DEF WorkOK, NamedOK, Active
  <2>2. recordId' \in Nat /\ current \in Channels /\ g0 \in Maps
    BY TypeFacts DEF Build, Connected, TypeOK
  <2>. QED BY <2>1, <2>2 DEF Build, Delivery
<1>3. Hand' = Hand
  BY <1>1, <1>2, NoneAssumption DEF Hand, Active
<1>4. NewestInv'
  BY <1>1 DEF NewestInv
<1>5. CASE harm' = {}
  <2>1. harm = {} /\ built'.table = TableOf(msg'.row)
    BY <1>1, <1>5 DEF Misnamed
  <2>2. ASSUME NEW g \in Maps, NEW k \in Keys PROVE Coming(g, k)'
    <3>. PICK r : r = RowOf(g, k)
      OBVIOUS
    <3>1. Coming(g, k)
      BY <2>1 DEF HarmlessInv
    <3>2. (HandTells(r) => HandTells(r)') /\ (HandAgrees(r) => HandAgrees(r)')
      BY <1>1, <1>3 DEF HandTells, HandAgrees, Tells, Agrees
    <3>. QED BY <1>1, <3>1, <3>2, HandKeeps
  <2>. QED BY <1>4, <2>1, <2>2 DEF HarmlessInv
<1>. QED BY <1>4, <1>5 DEF HarmlessInv

\* The row of the sender's message, when it is not misnamed.
LEMMA CheckedFacts ==
  ASSUME msg \in Message, Misnamed(msg) = {}
  PROVE  CheckedRow = msg.row /\ NameIn(msg) = TableOf(msg.row)
<1>1. msg.row = <<TableOf(msg.row), KeyOf(msg.row)>>
  BY DEF Message, Rows, TableOf, KeyOf
<1>. QED BY <1>1 DEF CheckedRow, Misnamed

LEMMA Withhold_Harmless ==
  ASSUME TypeInv, HarmlessInv, NewestInv, Withhold PROVE HarmlessInv' /\ NewestInv'
<1>1. /\ built # None /\ built' = None /\ IsDelete(msg) /\ msg' = msg /\ todo' = todo
      /\ \/ rows[CheckedRow] # 0 /\ harm' = harm \cup Misnamed(msg)
         \/ harm' = harm \cup {"dropped"}
      /\ UNCHANGED <<rows, version, putsDue, selected, delsDue, queue, wire, job, dest>>
      /\ msg \in Message
  BY TypeFacts DEF Withhold, sourceVars, linkVars, serverVars, WorkOK, Active
<1>2. NewestInv'
  BY <1>1 DEF NewestInv
<1>3. CASE harm' = {}
  <2>1. harm = {} /\ rows[msg.row] # 0
    BY <1>1, <1>3, CheckedFacts
  <2>2. Hand = {msg} /\ Hand' \subseteq {msg}
    BY <1>1 DEF Hand, Active
  <2>3. ASSUME NEW g \in Maps, NEW k \in Keys PROVE Coming(g, k)'
    <3>. PICK r : r = RowOf(g, k)
      OBVIOUS
    <3>1. Coming(g, k)
      BY <2>1 DEF HarmlessInv
    <3>2. ~HandTells(r)
      BY <1>1, <2>1, <2>2 DEF HandTells, Tells, IsDelete
    <3>3. HandAgrees(r) => HandAgrees(r)'
      BY <1>1, <2>2 DEF HandAgrees, Agrees
    <3>. QED BY <1>1, <3>1, <3>2, <3>3, HandKeeps
  <2>. QED BY <1>1, <1>2, <2>1, <2>3 DEF HarmlessInv
<1>. QED BY <1>2, <1>3 DEF HarmlessInv

LEMMA Write_Harmless ==
  ASSUME TypeInv, HarmlessInv, NewestInv, Write PROVE HarmlessInv' /\ NewestInv'
<1>. PICK c \in Channels : c = built.channel
  <2>1. built \in Delivery
    BY TypeFacts DEF Write, WorkOK
  <2>. QED BY <2>1 DEF Delivery
<1>. DEFINE j == JsonOf(built)
<1>1. /\ built # None /\ built \in Delivery /\ msg \in Message /\ wire \in [Channels -> Seq(Json)]
      /\ built' = None /\ msg' = msg /\ todo' = todo /\ MaySend
      /\ UNCHANGED <<rows, version, putsDue, selected, delsDue, queue, job, dest>>
  BY TypeFacts DEF Write, sourceVars, serverVars, WorkOK, Active, TypeOK
<1>2. NewestInv'
  BY <1>1 DEF NewestInv
<1>3. /\ j \in Json /\ j.version = msg.version /\ j.table = built.table /\ j.key = KeyOf(msg.row)
  BY <1>1 DEF JsonOf, Json, Delivery, Message, KeyOf, Rows
<1>. HIDE DEF j
<1>4. CASE harm' = {}
  <2>1. /\ harm = {} /\ Misnamed(msg) = {} /\ wire' = [wire EXCEPT ![c] = Append(@, j)]
    BY <1>4 DEF Write, j
  <2>2. /\ built.table = TableOf(msg.row)
        /\ CheckedRow = msg.row /\ msg.row = <<TableOf(msg.row), KeyOf(msg.row)>>
    BY <1>1, <2>1, CheckedFacts DEF HarmlessInv, Message, Rows, TableOf, KeyOf
  <2>3. Item(j).row = msg.row /\ Item(j).version = msg.version
    BY <1>3, <2>2 DEF Item
  <2>4. msg.version = 0 => rows[msg.row] = 0
    BY <1>1, <2>2 DEF MaySend, IsDelete
  <2>5. Hand = {msg} /\ Hand' \subseteq {msg}
    BY <1>1 DEF Hand, Active
  <2>6. /\ wire'[c] = Append(wire[c], j) /\ wire[c] \in Seq(Json)
        /\ \A o \in Channels : o # c => wire'[o] = wire[o]
    BY <1>1, <2>1
  <2>7. ASSUME NEW g \in Maps, NEW k \in Keys PROVE Coming(g, k)'
    <3>. PICK r : r = RowOf(g, k)
      OBVIOUS
    <3>1. Coming(g, k)
      BY <2>1 DEF HarmlessInv
    <3>2. HandAgrees(r) => Means(j, r)
      BY <2>3, <2>4, <2>5 DEF HandAgrees, Agrees, Means
    <3>3. HandTells(r) => Tells(Item(j), r)
      BY <2>3, <2>5 DEF HandTells, Tells
    <3>4. HandTells(r) \/ HandAgrees(r) => HandAgrees(r)'
      BY <1>1, <2>5 DEF HandTells, HandAgrees, Tells, Agrees
    <3>5. /\ Means(j, r) /\ WireTells(c, r) => WireTells(c, r)'
          /\ Tells(Item(j), r) => WireTells(c, r)'
      BY <1>1, <1>3, <2>6, WireAppend
    <3>6. \A o \in Channels : o # c /\ WireTells(o, r) => WireTells(o, r)'
      BY <1>1, <2>6 DEF WireTells, Means, Tells
    <3>7. Means(j, r) /\ WiresMean(r) => WiresMean(r)'
      <4>1. \A o \in Channels : Elems(wire'[o]) \subseteq Elems(wire[o]) \cup {j}
        <5>1. Elems(Append(wire[c], j)) = Elems(wire[c]) \cup {j}
          BY <1>3, <2>6, AppendFacts
        <5>. QED BY <2>6, <5>1
      <4>2. \A o \in Channels : Elems(wire[o])' = Elems(wire'[o])
        BY DEF Elems
      <4>. QED BY <1>1, <4>1, <4>2 DEF WiresMean, Means
    <3>8. /\ IsDue(r) => IsDue(r)'
          /\ QueueTells(r) => QueueTells(r)'
          /\ QueueAgrees(r) => QueueAgrees(r)'
      BY <1>1 DEF IsDue, QueueTells, QueueAgrees, Queued, Elems, Agrees, Tells
    <3>9. /\ \A o \in Channels : JobTells(o, g, r) => JobTells(o, g, r)'
          /\ JobsMean(g, r) => JobsMean(g, r)'
      BY <1>1 DEF JobTells, JobsMean, Means, Tells
    <3>10. dest' = dest /\ rows' = rows
      BY <1>1
    <3>11. WireTells(c, r)' => \E o \in Channels : WireTells(o, r)'
      OBVIOUS
    <3>12. SentAll(r) /\ (\E o \in Channels : WireTells(o, r))
             => SentAll(r)' /\ \E o \in Channels : WireTells(o, r)'
      BY <3>2, <3>4, <3>5, <3>6, <3>8 DEF SentAll
    <3>13. QueueAgrees(r) /\ HandTells(r) => SentAll(r)' /\ \E o \in Channels : WireTells(o, r)'
      BY <3>3, <3>4, <3>5, <3>8 DEF SentAll
    <3>14. SentAll(r) /\ WiresMean(r) => SentAll(r)' /\ WiresMean(r)'
      BY <3>2, <3>4, <3>7, <3>8 DEF SentAll
    <3>. QED BY <3>1, <3>8, <3>9, <3>10, <3>12, <3>13, <3>14 DEF Coming
  <2>. QED BY <1>1, <1>2, <2>1, <2>7 DEF HarmlessInv
<1>. QED BY <1>2, <1>4 DEF HarmlessInv

-----------------------------------------------------------------------------
\* The steps of the server.
LEMMA ServerKeeps_Coming ==
  ASSUME UNCHANGED <<rows, putsDue, selected, delsDue, queue, todo, built, msg>>, NEW r
  PROVE  /\ IsDue(r) => IsDue(r)'
         /\ QueueTells(r) => QueueTells(r)'
         /\ QueueAgrees(r) /\ HandTells(r) => QueueAgrees(r)' /\ HandTells(r)'
         /\ SentAll(r) => SentAll(r)'
<1>1. /\ IsDue(r) => IsDue(r)'
      /\ QueueTells(r) => QueueTells(r)'
      /\ QueueAgrees(r) => QueueAgrees(r)'
  BY DEF IsDue, QueueTells, QueueAgrees, Queued, Elems, Agrees, Tells
<1>2. (HandTells(r) => HandTells(r)') /\ (HandAgrees(r) => HandAgrees(r)')
  BY DEF HandTells, HandAgrees, Hand, Active, Tells, Agrees
<1>. QED BY <1>1, <1>2 DEF SentAll

LEMMA Receive_Harmless ==
  ASSUME TypeInv, ChainInv, HarmlessInv, NewestInv, NEW c \in Channels, Receive(c)
  PROVE  HarmlessInv' /\ NewestInv'
<1>. DEFINE h == Head(wire[c])
            w == [json |-> h, todo |-> MapsOf(h.table), resFlag |-> NoResult, whole |-> TRUE]
<1>1. /\ UNCHANGED <<rows, version, putsDue, selected, delsDue, queue, todo, built, msg, dest, harm>>
      /\ wire' = [wire EXCEPT ![c] = Tail(wire[c])] /\ job' = [job EXCEPT ![c] = w]
      /\ wire[c] # <<>> /\ job[c] = None
      /\ wire \in [Channels -> Seq(Json)] /\ job \in [Channels -> Job \cup {None}]
  BY TypeFacts DEF Receive, sourceVars, senderVars, TypeOK
<1>2. /\ h \in Json /\ h \in Elems(wire[c]) /\ Elems(Tail(wire[c])) \subseteq Elems(wire[c])
      /\ wire[c] \in Seq(Json)
  BY <1>1, WireFacts, TailFacts
<1>3. w.json = h /\ w.todo = MapsOf(h.table) /\ w # None
  <2>1. MapsOf(h.table) \subseteq Maps /\ NoResult \in 0..3
    BY MapsOfFacts DEF NoResult
  <2>2. w \in Job
    BY <1>2, <2>1 DEF Job
  <2>. QED BY <2>2, NoneAssumption
<1>4. /\ job'[c] = w /\ wire'[c] = Tail(wire[c])
      /\ \A o \in Channels : o # c => wire'[o] = wire[o] /\ job'[o] = job[o]
  BY <1>1
<1>. HIDE DEF w, h
<1>5. NewestInv'
  BY <1>1 DEF NewestInv
<1>6. ASSUME harm = {}, NEW g \in Maps, NEW k \in Keys PROVE Coming(g, k)'
  <2>. PICK r : r = RowOf(g, k)
    OBVIOUS
  <2>1. Coming(g, k)
    BY <1>6 DEF HarmlessInv
  <2>2. \A o \in Channels : o # c => wire[o] = <<>>
    BY <1>1, <1>6 DEF ChainInv, DownInv, Busy
  <2>3. /\ IsDue(r) => IsDue(r)'
        /\ QueueTells(r) => QueueTells(r)'
        /\ QueueAgrees(r) /\ HandTells(r) => QueueAgrees(r)' /\ HandTells(r)'
        /\ SentAll(r) => SentAll(r)'
    BY <1>1, ServerKeeps_Coming
  <2>4. \A o \in Channels : Elems(wire[o])' = Elems(wire'[o])
    BY DEF Elems
  <2>5. ASSUME NEW o \in Channels, WireTells(o, r)
        PROVE  WireTells(o, r)' \/ (WiresMean(r)' /\ JobTells(c, g, r)')
    <3>1. o = c
      BY <2>2, <2>5 DEF WireTells
    <3>2. WireTells(c, r)' \/ (Tells(Item(h), r) /\ \A j \in Elems(Tail(wire[c])) : Means(j, r))
      BY <1>1, <1>2, <1>4, <2>5, <3>1, WireTail DEF h
    <3>3. ASSUME Tells(Item(h), r), \A j \in Elems(Tail(wire[c])) : Means(j, r)
          PROVE  WiresMean(r)' /\ JobTells(c, g, r)'
      <4>1. \A i \in Channels : \A j \in Elems(wire'[i]) : Means(j, r)
        BY <1>4, <2>2, <3>3, EmptyFacts
      <4>2. WiresMean(r)'
        BY <1>1, <2>4, <4>1 DEF WiresMean, Means
      <4>3. h.table = FromTable[g]
        BY <3>3 DEF Tells, Item, RowOf
      <4>4. g \in job'[c].todo /\ job'[c] # None /\ job'[c].json = h
        BY <1>3, <1>4, <4>3 DEF MapsOf
      <4>. QED BY <1>1, <3>3, <4>2, <4>4 DEF JobTells, Tells
    <3>. QED BY <3>1, <3>2, <3>3
  <2>6. WiresMean(r) => WiresMean(r)' /\ Means(h, r)
    <3>1. \A o \in Channels : Elems(wire'[o]) \subseteq Elems(wire[o])
      BY <1>2, <1>4
    <3>. QED BY <1>1, <1>2, <2>4, <3>1 DEF WiresMean, Means
  <2>7. \A o \in Channels : JobTells(o, g, r) => JobTells(o, g, r)'
    BY <1>1, <1>4 DEF JobTells, Tells
  <2>8. JobsMean(g, r) /\ Means(h, r) => JobsMean(g, r)'
    BY <1>1, <1>3, <1>4 DEF JobsMean, Means
  <2>9. dest' = dest /\ rows' = rows
    BY <1>1
  <2>. QED BY <2>1, <2>3, <2>5, <2>6, <2>7, <2>8, <2>9 DEF Coming
<1>. QED BY <1>1, <1>5, <1>6 DEF HarmlessInv

LEMMA Apply_Harmless ==
  ASSUME TypeInv, ChainInv, HarmlessInv, NewestInv, NEW c \in Channels, NEW g0 \in Maps, Apply(c, g0)
  PROVE  HarmlessInv' /\ NewestInv'
<1>. DEFINE w == job[c]
            j == w.json
<1>1. /\ UNCHANGED <<rows, version, putsDue, selected, delsDue, queue, todo, built, msg, wire>>
      /\ w # None /\ w \in Job /\ j \in Json /\ g0 \in w.todo /\ harm \subseteq harm'
      /\ job \in [Channels -> Job \cup {None}] /\ dest \in [Maps -> [Keys -> 0..MaxVersion]]
  <2>1. w # None /\ UNCHANGED <<sourceVars, queue, senderVars, records, linkVars, tenants, lost>>
    BY Zenon DEF Apply, InHand
  <2>2. UNCHANGED <<rows, version, putsDue, selected, delsDue, queue, todo, built, msg, wire>>
    BY <2>1 DEF sourceVars, senderVars, linkVars
  <2>3. g0 \in w.todo /\ harm \subseteq harm'
    BY ApplyEffect
  <2>4. w \in Job /\ j \in Json
    BY <2>1, WireFacts
  <2>. QED BY <2>1, <2>2, <2>3, <2>4, TypeFacts DEF TypeOK
<1>2. NewestInv'
  BY <1>1 DEF NewestInv
<1>3. AppliedTo(w, g0).json = j /\ AppliedTo(w, g0).todo = w.todo \ {g0} /\ AppliedTo(w, g0) \in Job
  <2>1. w \in Job
    BY <1>1
  <2>. HIDE DEF w
  <2>2. AppliedTo(w, g0).json = w.json /\ AppliedTo(w, g0).todo = w.todo \ {g0} /\ AppliedTo(w, g0) \in Job
    BY <2>1, JobSteps
  <2>. QED BY <2>2
<1>4. CASE harm' = {}
  <2>1. /\ job' = [job EXCEPT ![c] = AppliedTo(w, g0)]
        /\ dest' = [dest EXCEPT ![g0][j.key] = j.version]
    BY <1>4, ApplyEffect
  <2>2. /\ job'[c] = AppliedTo(w, g0)
        /\ \A o \in Channels : o # c => job'[o] = job[o]
    BY <1>1, <2>1
  <2>3. harm = {} /\ \A o \in Channels : o # c => job[o] = None
    BY <1>1, <1>4 DEF ChainInv, DownInv, Busy
  <2>4. FromTable[g0] = j.table
    BY <1>1 DEF ChainInv, ChannelInv
  <2>5. job'[c] # None /\ job'[c].json = j /\ job'[c].todo = w.todo \ {g0}
    BY <1>3, <2>2, NoneAssumption
  <2>6. ASSUME NEW g \in Maps, NEW k \in Keys PROVE Coming(g, k)'
    <3>. PICK r : r = RowOf(g, k)
      OBVIOUS
    <3>1. Coming(g, k)
      BY <2>3 DEF HarmlessInv
    <3>2. /\ IsDue(r) => IsDue(r)'
          /\ QueueTells(r) => QueueTells(r)'
          /\ QueueAgrees(r) /\ HandTells(r) => QueueAgrees(r)' /\ HandTells(r)'
          /\ SentAll(r) => SentAll(r)'
      BY <1>1, ServerKeeps_Coming
    <3>3. /\ \A o \in Channels : WireTells(o, r) => WireTells(o, r)'
          /\ WiresMean(r) => WiresMean(r)'
      BY <1>1 DEF WireTells, WiresMean, Means, Tells, Elems
    <3>4. /\ g = g0 /\ k = j.key => dest'[g][k] = j.version
          /\ ~(g = g0 /\ k = j.key) => dest'[g][k] = dest[g][k]
      BY <1>1, <2>1
    <3>5. g = g0 /\ k = j.key => Item(j).row = r
      BY <2>4 DEF Item, RowOf
    <3>. HIDE DEF w, j
    <3>6. ASSUME NEW o \in Channels, JobTells(o, g, r)
          PROVE  JobTells(c, g, r)' \/ (JobsMean(g, r)' /\ dest'[g][k] = rows'[r])
      <4>1. o = c /\ g \in w.todo /\ Tells(Item(j), r)
        BY <2>3, <3>6 DEF JobTells, w, j
      <4>2. CASE g = g0
        <5>1. k = j.key
          BY <4>1 DEF Tells, Item, RowOf
        <5>2. dest'[g][k] = rows'[r]
          BY <1>1, <3>4, <4>1, <4>2, <5>1 DEF Tells, Item
        <5>3. JobsMean(g, r)'
          BY <2>2, <2>3, <2>5, <4>2 DEF JobsMean
        <5>. QED BY <5>2, <5>3
      <4>3. CASE g # g0
        <5>1. g \in job'[c].todo /\ job'[c] # None /\ job'[c].json = j
          BY <2>5, <4>1, <4>3
        <5>. QED BY <1>1, <4>1, <5>1 DEF JobTells, Tells
      <4>. QED BY <4>2, <4>3
    <3>7. ASSUME JobsMean(g, r), dest[g][k] = rows[r]
          PROVE  JobsMean(g, r)' /\ dest'[g][k] = rows'[r]
      <4>1. JobsMean(g, r)'
        BY <1>1, <2>2, <2>3, <2>5, <3>7 DEF JobsMean, Means, w, j
      <4>2. CASE g = g0 /\ k = j.key
        <5>1. Means(j, r)
          BY <1>1, <3>7, <4>2 DEF JobsMean, w, j
        <5>2. j.version = rows[r]
          BY <3>5, <4>2, <5>1 DEF Means, Item
        <5>. QED BY <1>1, <3>4, <4>1, <4>2, <5>2
      <4>3. CASE ~(g = g0 /\ k = j.key)
        BY <1>1, <3>4, <3>7, <4>1, <4>3
      <4>. QED BY <4>2, <4>3
    <3>. QED BY <3>1, <3>2, <3>3, <3>6, <3>7 DEF Coming
  <2>. QED BY <1>1, <1>2, <2>3, <2>6 DEF HarmlessInv
<1>. QED BY <1>2, <1>4 DEF HarmlessInv

LEMMA Reply_Harmless ==
  ASSUME TypeInv, HarmlessInv, NewestInv, NEW c \in Channels, Reply(c)
  PROVE  HarmlessInv' /\ NewestInv'
<1>1. /\ UNCHANGED <<rows, version, putsDue, selected, delsDue, queue, todo, built, msg, wire, dest, harm>>
      /\ job' = [job EXCEPT ![c] = None] /\ job[c] # None /\ job[c].todo = {}
      /\ job \in [Channels -> Job \cup {None}]
  BY TypeFacts DEF Reply, sourceVars, senderVars, TypeOK
<1>2. job'[c] = None /\ \A o \in Channels : o # c => job'[o] = job[o]
  BY <1>1
<1>3. NewestInv'
  BY <1>1 DEF NewestInv
<1>4. ASSUME harm = {}, NEW g \in Maps, NEW k \in Keys PROVE Coming(g, k)'
  <2>. PICK r : r = RowOf(g, k)
    OBVIOUS
  <2>1. Coming(g, k)
    BY <1>4 DEF HarmlessInv
  <2>2. /\ IsDue(r) => IsDue(r)'
        /\ QueueTells(r) => QueueTells(r)'
        /\ QueueAgrees(r) /\ HandTells(r) => QueueAgrees(r)' /\ HandTells(r)'
        /\ SentAll(r) => SentAll(r)'
    BY <1>1, ServerKeeps_Coming
  <2>3. /\ \A o \in Channels : WireTells(o, r) => WireTells(o, r)'
        /\ WiresMean(r) => WiresMean(r)'
    BY <1>1 DEF WireTells, WiresMean, Means, Tells, Elems
  <2>4. \A o \in Channels : JobTells(o, g, r) => JobTells(o, g, r)'
    BY <1>1, <1>2 DEF JobTells, Tells
  <2>5. JobsMean(g, r) => JobsMean(g, r)'
    BY <1>1, <1>2 DEF JobsMean, Means
  <2>6. dest' = dest /\ rows' = rows
    BY <1>1
  <2>. QED BY <2>1, <2>2, <2>3, <2>4, <2>5, <2>6 DEF Coming
<1>. QED BY <1>1, <1>3, <1>4 DEF HarmlessInv

LEMMA Failed_Harmless ==
  ASSUME NewestInv, NEW c \in Channels, NEW g \in Maps, ApplyThrows(c, g) \/ NoTenant(c, g)
  PROVE  HarmlessInv' /\ NewestInv'
<1>1. UNCHANGED <<rows, version, putsDue, selected>> /\ harm' # {}
  BY DEF ApplyThrows, NoTenant, sourceVars
<1>. QED BY <1>1, Harm_Harmless

LEMMA AddTenant_Harmless ==
  ASSUME HarmlessInv, NewestInv, NEW g \in Maps, AddTenant(g) PROVE HarmlessInv' /\ NewestInv'
<1>1. /\ UNCHANGED <<rows, version, putsDue, selected, delsDue>>
      /\ UNCHANGED <<queue, todo, built, msg, wire, job, dest>> /\ harm' = harm
  BY DEF AddTenant, sourceVars, senderVars, linkVars
<1>. QED BY <1>1, Idle_Harmless

LEMMA Network_Harmless ==
  ASSUME HarmlessInv, NewestInv, NEW c \in Channels, HandleReply(c) \/ Closed(c) \/ Drop(c) \/ Notice(c)
  PROVE  HarmlessInv' /\ NewestInv'
<1>1. CASE Drop(c)
  <2>1. UNCHANGED <<rows, version, putsDue, selected>> /\ harm' # {}
    BY <1>1 DEF Drop, sourceVars
  <2>. QED BY <2>1, Harm_Harmless
<1>2. CASE HandleReply(c) \/ Closed(c) \/ Notice(c)
  <2>1. /\ UNCHANGED <<rows, version, putsDue, selected, delsDue>>
        /\ UNCHANGED <<queue, todo, built, msg, wire, job, dest>> /\ harm' = harm
    BY <1>2 DEF HandleReply, Closed, Notice, sourceVars, senderVars, serverVars
  <2>. QED BY <2>1, Idle_Harmless
<1>. QED BY <1>1, <1>2

LEMMA Next_Harmless ==
  TypeInv /\ TypeInv' /\ ChainInv /\ HarmlessInv /\ NewestInv /\ [Next]_vars => HarmlessInv' /\ NewestInv'
<1>. SUFFICES ASSUME TypeInv, TypeInv', ChainInv, HarmlessInv, NewestInv, [Next]_vars
              PROVE  HarmlessInv' /\ NewestInv'
  OBVIOUS
<1>1. CASE \E r \in Rows : Change(r) \/ Remove(r)
  BY <1>1, Change_Harmless, Remove_Harmless
<1>2. CASE \E c \in putsDue : Select(c)
  BY <1>2, Select_Harmless
<1>3. CASE \E c \in selected : Offer(c)
  BY <1>3, Offer_Harmless
<1>4. CASE \E r \in delsDue : OfferDelete(r)
  BY <1>4, OfferDelete_Harmless
<1>5. CASE Sender
  <2>1. CASE Poll \/ (\E g \in todo : Build(g)) \/ Write \/ Withhold
    BY <2>1, Poll_Harmless, Build_Harmless, Write_Harmless, Withhold_Harmless
  <2>2. CASE Connect
    <3>1. /\ UNCHANGED <<rows, version, putsDue, selected, delsDue>>
          /\ UNCHANGED <<queue, todo, built, msg, wire, job, dest>> /\ harm' = harm
      BY <2>2 DEF Connect, sourceVars, senderVars, serverVars
    <3>. QED BY <3>1, Idle_Harmless
  <2>3. CASE (\E g \in todo : ConnectFails(g) \/ AddThrows(g)) \/ SenderDies
    <3>1. UNCHANGED <<rows, version, putsDue, selected>> /\ harm' # {}
      BY <2>3 DEF ConnectFails, AddThrows, SenderDies, sourceVars
    <3>. QED BY <3>1, Harm_Harmless
  <2>. QED BY <1>5, <2>1, <2>2, <2>3 DEF Sender
<1>6. CASE \E g \in Maps : AddTenant(g)
  BY <1>6, AddTenant_Harmless
<1>7. CASE \E c \in Channels : Server(c)
  <2>. PICK c \in Channels : Server(c)
    BY <1>7
  <2>. QED BY Receive_Harmless, Apply_Harmless, Reply_Harmless, Failed_Harmless DEF Server
<1>8. CASE \E c \in Channels : HandleReply(c) \/ ReplyThrows(c) \/ Break(c) \/ Drop(c) \/ Notice(c)
  BY <1>8, Network_Harmless DEF ReplyThrows, Break
<1>9. CASE UNCHANGED vars
  <2>1. /\ UNCHANGED <<rows, version, putsDue, selected, delsDue>>
        /\ UNCHANGED <<queue, todo, built, msg, wire, job, dest>> /\ harm' = harm
    BY <1>9 DEF vars, sourceVars, senderVars, linkVars, serverVars
  <2>. QED BY <2>1, Idle_Harmless
<1>. QED BY <1>1, <1>2, <1>3, <1>4, <1>5, <1>6, <1>7, <1>8, <1>9 DEF Next

\* When nothing is on its way, only the table itself is left.
LEMMA HarmlessImplies == HarmlessInv => Converged
<1>. SUFFICES ASSUME HarmlessInv, Quiet, harm = {}, NEW g \in Maps, NEW k \in Keys
              PROVE  dest[g][k] = rows[RowOf(g, k)]
  BY DEF Converged, RowOf
<1>. PICK r : r = RowOf(g, k)
  OBVIOUS
<1>1. ~IsDue(r) /\ ~QueueTells(r)
  BY DEF Quiet, IsDue, QueueTells
<1>2. ~HandTells(r)
  BY DEF Quiet, HandTells, Hand, Active
<1>3. \A c \in Channels : ~WireTells(c, r) /\ ~JobTells(c, g, r)
  BY DEF Quiet, WireTells, JobTells
<1>. QED BY <1>1, <1>2, <1>3 DEF HarmlessInv, Coming

\* When all messages have been applied, every target table has the versions of its
\* source table, unless one of the five causes of harm has been met: those are all
\* the ways in which the sender, the connections and the server can leave a target
\* behind (SynClient.java, ChannelManager.java, SynServerHandler.java, OperateDB.java).
THEOREM TargetsConverge == Spec => []Converged
<1>. DEFINE AllInv == TypeInv /\ ChainInv /\ HarmlessInv /\ NewestInv
<1>1. Init => AllInv
  BY Init_Types, Init_Chain, Init_Harmless
<1>2. AllInv /\ [Next]_vars => AllInv'
  <2>1. TypeInv /\ [Next]_vars => TypeInv'
    BY Next_Types
  <2>2. TypeInv /\ TypeInv' /\ ChainInv /\ [Next]_vars => ChainInv'
    BY Next_Chain
  <2>. QED BY <2>1, <2>2, Next_Harmless
<1>3. AllInv => Converged
  BY HarmlessImplies
<1>. QED BY <1>1, <1>2, <1>3, PTL DEF Spec
===============================================================================
