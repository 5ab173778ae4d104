---------------------------- MODULE TableMapsProofs ----------------------------
(***************************************************************************)
(* Configuration of the nodes: every safety property of the component, for  *)
(* any number of nodes, maps, requests, restarts and failures.  One         *)
(* inductive invariant carries them all; its parts say what a request has   *)
(* found out by the time it is at a stage, and what of that still holds     *)
(* after others, a crash or a start have gone between.                      *)
(***************************************************************************)
EXTENDS TableMaps, FiniteSetTheorems, WellFoundedInduction, TLAPS

InProgress == SourceStages \cup TargetStages
Stages == InProgress \cup {"idle", "reply", "done"}

\* Where the source's node has been through the tenants, and the target's through the maps.
PastTenant == {"map", "mapAdd", "start"} \cup TargetStages
PastTargetMap == {"dStart", "dClients", "dTenant", "dTenantAdd"}

\* A command never leaves the monitor's part of the source's node.
CommandStages == {"idle", "getThread", "newThread", "checkThread", "startThread", "isExist",
                  "watch", "done"}

\* The maps a node has in memory, those that are recorded, and the tenants that are.
Held(n) == {maps[n][i].map : i \in DOMAIN maps[n]}
Recorded == {mapRows[i].map : i \in DOMAIN mapRows}
RecordedTenants == {tenantRows[i][1] : i \in DOMAIN tenantRows}

\* No map is lost: whatever was to be recorded or loaded has been.
MapsKept == lost \cap {"mapRow", "load"} = {}

\* The map m of node n is with a running monitor thread there, and has its client.
Served(n, m) ==
  /\ n \in clients[n]
  /\ \/ \E b \in Makers : <<n, b, m>> \in watch /\ <<n, n, b>> \in started
     \/ "unstarted" \in raced
     \/ <<n, m>> \in skipped

-----------------------------------------------------------------------------
\* A node that does not run, or has not gone through its maps yet, has nothing in memory
\* but tenants.
EmptyOK == \A n \in Nodes :
  /\ mode[n] \in {"down", "loading"} =>
       maps[n] = << >> /\ clients[n] = {} /\ \A x \in started \cup watch : x[1] # n
  /\ mode[n] = "down" => tenants[n] = {}

\* Maps are kept and recorded with the tenant of their source.
EntriesOK ==
  /\ \A n \in Nodes : \A i \in DOMAIN maps[n] : maps[n][i].to = Source[maps[n][i].map]
  /\ \A i \in DOMAIN mapRows : mapRows[i].to = Source[mapRows[i].map]

\* What a node has is what it has had, and is recorded.
KeptOK ==
  /\ \A n \in Nodes : Held(n) \subseteq had[n]
  /\ "mapRow" \notin lost => \A n \in Nodes : had[n] \subseteq Recorded

\* A tenant that a node knows is recorded.
TenantsOK ==
  "tenantRow" \notin lost => \A n, db \in Nodes : Known(n, db) => db \in RecordedTenants

\* A map at its source's node is at work, started or not.
ServedOK == \A n \in Nodes : mode[n] = "up" => \A m \in Held(n) :
  Source[m] = n /\ (Target[m] = n => MapsKept) => Served(n, m)

NodesOK ==
  /\ EmptyOK /\ EntriesOK /\ KeptOK /\ TenantsOK /\ ServedOK
  /\ MapsDistinct /\ WatchedOnce /\ WatchedAtSource /\ NothingForgotten /\ PasswordsAreRight

-----------------------------------------------------------------------------
\* A request is handled by a process that runs.
Runs(r) ==
  /\ req[r].stage \in InProgress => mode[Where(r)] = "up"
  /\ req[r].command => req[r].stage \in CommandStages

\* A map that is about to be added is not there.
AddsNew(r) ==
  "map" \notin raced /\ req[r].stage \in {"mapAdd", "dMapAdd"} =>
    ~IsExistTableMap(Where(r), Wanted(r))

\* A thread that is about to be started is r's own, and the tenant has none.
StartsFirst(r) ==
  /\ req[r].stage \in {"checkThread", "startThread"} => req[r].thread = r
  /\ "started twice" \notin raced /\ req[r].stage = "startThread" => ~HasThread(Where(r), Where(r))

\* The thread that r goes on with is started, or is going to be.
ThreadFits(r) ==
  "unstarted" \notin raced =>
    /\ req[r].stage \in {"newThread", "checkThread"} => ~HasThread(Where(r), Where(r))
    /\ req[r].stage \in {"isExist", "watch"} => <<Where(r), Where(r), req[r].thread>> \in started

\* On its way to the map a request has made everything ready for it.
MadeReady(r) ==
  /\ req[r].stage \in SourceStages \ {"client"} /\ ~req[r].command =>
       Where(r) \in clients[Where(r)]
  /\ req[r].stage \in {"tenant", "tenantAdd", "map", "mapAdd", "start"} =>
       Served(Where(r), Wanted(r))

\* The source's node has answered r with the map.
Mapped(r) == req[r].stage = "reply" /\ req[r].reply = "map"

\* What both nodes have got by the time r is at its stage.
Got(r) ==
  /\ req[r].stage \in {"start"} \cup TargetStages \/ Mapped(r) => Wanted(r) \in had[Source[Wanted(r)]]
  /\ req[r].stage \in PastTargetMap => Wanted(r) \in had[Target[Wanted(r)]]
  /\ result[r] = "true" /\ r \notin unanswered =>
       Wanted(r) \in had[Source[Wanted(r)]] \cap had[Target[Wanted(r)]]

\* The target's node meets a tenant that is recorded.
TenantMet(r) ==
  "tenantRow" \notin lost /\ (req[r].stage \in PastTenant \/ Mapped(r)) =>
    Source[Wanted(r)] \in RecordedTenants

RequestOK(r) ==
  Runs(r) /\ AddsNew(r) /\ StartsFirst(r) /\ ThreadFits(r) /\ MadeReady(r) /\ Got(r) /\ TenantMet(r)

IInv == TypeOK /\ NodesOK /\ \A r \in Requests : RequestOK(r)

-----------------------------------------------------------------------------
LEMMA SeqFacts ==
  ASSUME NEW S, NEW s \in Seq(S)
  PROVE  /\ Len(s) \in Nat /\ DOMAIN s = 1..Len(s) /\ \A i \in DOMAIN s : s[i] \in S
         /\ \A x \in S : /\ Append(s, x) \in Seq(S) /\ Len(Append(s, x)) = Len(s) + 1
                         /\ DOMAIN Append(s, x) = 1..(Len(s) + 1)
                         /\ \A i \in DOMAIN s : Append(s, x)[i] = s[i]
                         /\ Append(s, x)[Len(s) + 1] = x
  OBVIOUS

LEMMA RequestFields ==
  ASSUME TypeOK, NEW r \in Requests
  PROVE  /\ req[r] \in Request /\ req[r].map \in Maps /\ req[r].stage \in Stages
         /\ req[r].thread \in Makers /\ req[r].command \in BOOLEAN
         /\ req[r].reply \in {"none", "error", "garbage", "map"}
         /\ Wanted(r) \in Maps /\ Where(r) \in Nodes
         /\ Source[Wanted(r)] \in Nodes /\ Target[Wanted(r)] \in Nodes
<1>1. req[r] \in Request
  BY DEF TypeOK
<1>2. /\ req[r].map \in Maps /\ req[r].stage \in Stages
      /\ req[r].thread \in Makers /\ req[r].command \in BOOLEAN
      /\ req[r].reply \in {"none", "error", "garbage", "map"}
  BY <1>1 DEF Request, Stages, InProgress
<1>. QED BY <1>1, <1>2, MapsAssumption DEF Wanted, Where

\* Only request r moves, and it stays about the same map.
Moves(r) ==
  /\ req' \in [Requests -> Request]
  /\ \A q \in Requests : req'[q].map = req[q].map /\ req'[q].command = req[q].command
  /\ \A q \in Requests \ {r} : req'[q] = req[q]

LEMMA SetStage ==
  ASSUME NEW r \in Requests, TypeOK, NEW s \in Stages, Go(r, s)
  PROVE  /\ Moves(r) /\ req'[r].stage = s
         /\ req'[r].thread = req[r].thread /\ req'[r].reply = req[r].reply
<1>1. req \in [Requests -> Request] /\ req[r] \in Request
  BY RequestFields DEF TypeOK
<1>2. req' = [req EXCEPT ![r] = [req[r] EXCEPT !.stage = s]]
  BY DEF Go
<1>3. /\ [req[r] EXCEPT !.stage = s] \in Request
      /\ [req[r] EXCEPT !.stage = s].map = req[r].map
      /\ [req[r] EXCEPT !.stage = s].command = req[r].command
      /\ [req[r] EXCEPT !.stage = s].stage = s
      /\ [req[r] EXCEPT !.stage = s].thread = req[r].thread
      /\ [req[r] EXCEPT !.stage = s].reply = req[r].reply
  BY <1>1 DEF Request, Stages, InProgress
<1>. QED BY <1>1, <1>2, <1>3 DEF Moves

LEMMA SetStageThread ==
  ASSUME NEW r \in Requests, TypeOK, NEW s \in Stages, NEW b \in Makers,
         req' = [req EXCEPT ![r].stage = s, ![r].thread = b]
  PROVE  Moves(r) /\ req'[r].stage = s /\ req'[r].thread = b /\ req'[r].reply = req[r].reply
<1>1. req \in [Requests -> Request] /\ req[r] \in Request
  BY RequestFields DEF TypeOK
<1>2. req' = [req EXCEPT ![r] = [req[r] EXCEPT !.stage = s, !.thread = b]]
  BY <1>1
<1> DEFINE new == [req[r] EXCEPT !.stage = s, !.thread = b]
<1>3. /\ new \in Request /\ new.map = req[r].map /\ new.command = req[r].command
      /\ new.stage = s /\ new.thread = b /\ new.reply = req[r].reply
  BY <1>1 DEF Request, Stages, InProgress
<1>. QED BY <1>1, <1>2, <1>3 DEF Moves

LEMMA SetAnswer ==
  ASSUME NEW r \in Requests, TypeOK, NEW a \in {"none", "error", "garbage", "map"}, Answer(r, a)
  PROVE  /\ Moves(r) /\ req'[r].reply = a /\ req'[r].thread = req[r].thread
         /\ req'[r].stage \in {"done", "reply"}
         /\ req[r].command => req'[r].stage = "done"
<1> DEFINE s == IF req[r].command THEN "done" ELSE "reply"
<1>1. req \in [Requests -> Request] /\ req[r] \in Request
  BY RequestFields DEF TypeOK
<1>2. req' = [req EXCEPT ![r] = [req[r] EXCEPT !.stage = s, !.reply = a]]
  BY <1>1 DEF Answer
<1>3. s \in {"done", "reply"} /\ (req[r].command => s = "done")
  OBVIOUS
<1> HIDE DEF s
<1> DEFINE new == [req[r] EXCEPT !.stage = s, !.reply = a]
<1>4. /\ new \in Request /\ new.map = req[r].map /\ new.command = req[r].command
      /\ new.stage = s /\ new.thread = req[r].thread /\ new.reply = a
  BY <1>1, <1>3 DEF Request, Stages, InProgress
<1>. QED BY <1>1, <1>2, <1>3, <1>4 DEF Moves

-----------------------------------------------------------------------------
\* Threads of the nodes, running or not.
Threads == Nodes \X Nodes \X Makers

\* A step of request r that changes nothing outside it but counters, installed tables and
\* which threads are deaf, on which nothing else depends.
Quiet ==
  /\ deaf \subseteq Threads => deaf' \subseteq Threads
  /\ mode' = mode /\ maps' = maps /\ tenants' = tenants /\ clients' = clients
  /\ started' = started /\ watch' = watch /\ mapRows' = mapRows /\ tenantRows' = tenantRows
  /\ had' = had /\ raced' = raced /\ lost' = lost /\ skipped' = skipped

\* What the console has returned for other requests stays.
Returns(r) ==
  /\ \A q \in Requests \ {r} : result'[q] = result[q]
  /\ unanswered \subseteq unanswered'

LEMMA QuietNodes == ASSUME NodesOK, Quiet PROVE NodesOK'
<1>1. EmptyOK' /\ EntriesOK'
  BY DEF NodesOK, Quiet, EmptyOK, EntriesOK
<1>2. KeptOK' /\ TenantsOK'
  BY DEF NodesOK, Quiet, KeptOK, TenantsOK, Held, Recorded, RecordedTenants, Known
<1>3. ServedOK'
  BY DEF NodesOK, Quiet, ServedOK, Held, Served, MapsKept
<1>4. MapsDistinct' /\ WatchedOnce' /\ WatchedAtSource'
  BY DEF NodesOK, Quiet, MapsDistinct, WatchedOnce, WatchedAtSource
<1>5. NothingForgotten' /\ PasswordsAreRight'
  BY DEF NodesOK, Quiet, NothingForgotten, PasswordsAreRight
<1>. QED BY <1>1, <1>2, <1>3, <1>4, <1>5 DEF NodesOK

\* A request that does not move keeps what it has as long as nothing is taken away.
Grows(q) ==
  /\ req'[q] = req[q] /\ result'[q] = result[q] /\ (q \in unanswered => q \in unanswered')
  /\ req[q].stage \in InProgress => mode'[Where(q)] = mode[Where(q)]
  /\ started \subseteq started' /\ watch \subseteq watch' /\ raced \subseteq raced'
  /\ \A n \in Nodes : clients[n] \subseteq clients'[n] /\ had[n] \subseteq had'[n]
  /\ lost \subseteq lost' /\ RecordedTenants \subseteq RecordedTenants'

LEMMA SamePlace ==
  ASSUME NEW q \in Requests, req'[q] = req[q]
  PROVE  Where(q)' = Where(q) /\ Wanted(q)' = Wanted(q) /\ Mapped(q)' = Mapped(q)
  BY DEF Where, Wanted, Mapped

LEMMA StillRuns ==
  ASSUME NEW q \in Requests, Grows(q), Runs(q)
  PROVE  Runs(q)'
  BY SamePlace DEF Grows, Runs

LEMMA StillGot ==
  ASSUME TypeOK, NEW q \in Requests, Grows(q), Got(q)
  PROVE  Got(q)'
<1>1. Wanted(q)' = Wanted(q) /\ Mapped(q)' = Mapped(q) /\ req'[q] = req[q]
  BY SamePlace DEF Grows
<1>2. Source[Wanted(q)] \in Nodes /\ Target[Wanted(q)] \in Nodes
  BY RequestFields
<1>. QED BY <1>1, <1>2 DEF Grows, Got

LEMMA StillMet ==
  ASSUME NEW q \in Requests, Grows(q), TenantMet(q)
  PROVE  TenantMet(q)'
<1>1. Wanted(q)' = Wanted(q) /\ Mapped(q)' = Mapped(q) /\ req'[q] = req[q]
  BY SamePlace DEF Grows
<1>. QED BY <1>1 DEF Grows, TenantMet

LEMMA StillServed ==
  ASSUME NEW n \in Nodes, NEW m, Served(n, m),
         \A k \in Nodes : clients[k] \subseteq clients'[k],
         started \subseteq started', watch \subseteq watch', raced \subseteq raced',
         <<n, m>> \in skipped => <<n, m>> \in skipped'
  PROVE  Served(n, m)'
  BY DEF Served

LEMMA StillReady ==
  ASSUME TypeOK, NEW q \in Requests, Grows(q), MadeReady(q),
         req[q].stage \in SourceStages =>
           (<<Where(q), Wanted(q)>> \in skipped => <<Where(q), Wanted(q)>> \in skipped')
  PROVE  MadeReady(q)'
<1>1. Where(q)' = Where(q) /\ Wanted(q)' = Wanted(q) /\ req'[q] = req[q] /\ Where(q) \in Nodes
  BY SamePlace, RequestFields DEF Grows
<1>2. req[q].stage \in SourceStages \ {"client"} /\ ~req[q].command => Where(q) \in clients'[Where(q)]
  BY <1>1 DEF Grows, MadeReady
<1>3. ASSUME req[q].stage \in {"tenant", "tenantAdd", "map", "mapAdd", "start"}
      PROVE  Served(Where(q), Wanted(q))'
  <2>1. Served(Where(q), Wanted(q)) /\ req[q].stage \in SourceStages
    BY <1>3 DEF MadeReady, SourceStages
  <2>2. PICK n \in Nodes : n = Where(q) /\ n = Where(q)'
    BY <1>1
  <2>3. PICK m : m = Wanted(q) /\ m = Wanted(q)'
    BY <1>1
  <2>4. Served(n, m)'
    BY <2>1, <2>2, <2>3, StillServed DEF Grows
  <2>. QED BY <2>2, <2>3, <2>4 DEF Served
<1>. QED BY <1>1, <1>2, <1>3 DEF MadeReady

LEMMA QuietRequest ==
  ASSUME TypeOK, NEW q \in Requests, RequestOK(q), Quiet, req'[q] = req[q],
         result'[q] = result[q], q \in unanswered => q \in unanswered'
  PROVE  RequestOK(q)'
<1>1. /\ Where(q)' = Where(q) /\ Wanted(q)' = Wanted(q) /\ Mapped(q)' = Mapped(q)
      /\ Where(q) \in Nodes
  BY SamePlace, RequestFields
<1>2. Grows(q)
  BY DEF Grows, Quiet, RecordedTenants
<1>3. Runs(q)' /\ Got(q)' /\ TenantMet(q)' /\ MadeReady(q)'
  BY <1>2, StillRuns, StillGot, StillMet, StillReady DEF RequestOK, Quiet
<1>4. AddsNew(q)'
  BY <1>1 DEF RequestOK, AddsNew, Quiet, IsExistTableMap, Same, DTanent
<1>5. StartsFirst(q)' /\ ThreadFits(q)'
  BY <1>1 DEF RequestOK, StartsFirst, ThreadFits, Quiet, HasThread
<1>. QED BY <1>3, <1>4, <1>5 DEF RequestOK

LEMMA QuietStep ==
  ASSUME IInv, TypeOK', NEW r \in Requests, Moves(r), Quiet, Returns(r), RequestOK(r)'
  PROVE  IInv'
<1>1. ASSUME NEW q \in Requests, q # r PROVE RequestOK(q)'
  BY <1>1, QuietRequest DEF IInv, Moves, Returns
<1>2. \A q \in Requests : RequestOK(q)'
  BY <1>1
<1>. QED BY <1>2, QuietNodes DEF IInv

\* A request that has ended, or failed at the source's node; a crash may end several.
LEMMA Stopped ==
  ASSUME TypeOK, NEW r \in Requests, req'[r].map = req[r].map, req'[r].command = req[r].command,
         req'[r].stage \in {"done", "reply"}, req[r].command => req'[r].stage = "done",
         req'[r].stage = "reply" => req'[r].reply # "map",
         result'[r] = "true" /\ r \notin unanswered' =>
           Wanted(r) \in had'[Source[Wanted(r)]] \cap had'[Target[Wanted(r)]]
  PROVE  RequestOK(r)'
<1>1. req'[r].stage \notin InProgress /\ Wanted(r)' = Wanted(r)
  BY DEF InProgress, SourceStages, TargetStages, Wanted
<1>2. ~Mapped(r)' /\ req'[r].stage \notin PastTenant \cup PastTargetMap \cup TargetStages
  BY DEF Mapped, PastTenant, PastTargetMap, TargetStages
<1>3. Runs(r)'
  BY <1>1 DEF Runs, CommandStages
<1>4. AddsNew(r)' /\ StartsFirst(r)' /\ ThreadFits(r)' /\ MadeReady(r)'
  BY <1>1 DEF AddsNew, StartsFirst, ThreadFits, MadeReady, SourceStages
<1>5. Got(r)' /\ TenantMet(r)'
  BY <1>1, <1>2 DEF Got, TenantMet
<1>. QED BY <1>3, <1>4, <1>5 DEF RequestOK

LEMMA Ended ==
  ASSUME TypeOK, NEW r \in Requests, Moves(r), req'[r].stage \in {"done", "reply"},
         req[r].command => req'[r].stage = "done",
         req'[r].stage = "reply" => req'[r].reply # "map",
         result'[r] = "true" /\ r \notin unanswered' =>
           Wanted(r) \in had'[Source[Wanted(r)]] \cap had'[Target[Wanted(r)]]
  PROVE  RequestOK(r)'
<1>1. req'[r].map = req[r].map /\ req'[r].command = req[r].command
  BY DEF Moves
<1>. QED BY <1>1, Stopped

\* The return of a request that has not moved so far that the console returns.
LEMMA SameReturn ==
  ASSUME TypeOK, NEW r \in Requests, RequestOK(r), Moves(r), result' = result,
         unanswered' = unanswered, \A n \in Nodes : had[n] \subseteq had'[n],
         result'[r] = "true", r \notin unanswered'
  PROVE  Wanted(r) \in had'[Source[Wanted(r)]] \cap had'[Target[Wanted(r)]]
  BY RequestFields DEF RequestOK, Got

LEMMA Place ==
  ASSUME NEW r \in Requests, Moves(r)
  PROVE  /\ Wanted(r)' = Wanted(r)
         /\ req[r].stage \notin TargetStages => Where(r) = Source[Wanted(r)]
         /\ req[r].stage \in TargetStages => Where(r) = Target[Wanted(r)]
         /\ req'[r].stage \notin TargetStages => Where(r)' = Source[Wanted(r)]
         /\ req'[r].stage \in TargetStages => Where(r)' = Target[Wanted(r)]
<1>1. Wanted(r)' = Wanted(r)
  BY DEF Moves, Wanted
<1>. QED BY <1>1 DEF Where

-----------------------------------------------------------------------------
LEMMA FailedFacts ==
  ASSUME TypeOK, Failed \/ UNCHANGED fails
  PROVE  fails' \in 0..MaxFails
<1>1. fails \in 0..MaxFails
  BY DEF TypeOK
<1>2. MaxFails \in Nat
  BY MapsAssumption
<1>3. Failed => fails < MaxFails /\ fails' = fails + 1
  BY DEF Failed, MayFail
<1>. QED BY <1>1, <1>2, <1>3

LEMMA QuietTypes ==
  ASSUME TypeOK, NEW r \in Requests, Moves(r), Quiet, installed' \subseteq Maps,
         result' \in [Requests -> {"none", "true", "false"}], unanswered' \subseteq Requests,
         restarts' = restarts, fails' \in 0..MaxFails
  PROVE  TypeOK'
<1>1. /\ mode' \in [Nodes -> {"up", "down", "loading", "half"}]
      /\ maps' \in [Nodes -> Seq(Entry)] /\ tenants' \in [Nodes -> SUBSET (Nodes \X Nodes)]
      /\ clients' \in [Nodes -> SUBSET Nodes]
      /\ started' \subseteq Nodes \X Nodes \X Makers /\ deaf' \subseteq Nodes \X Nodes \X Makers
      /\ watch' \subseteq Nodes \X Makers \X Maps
      /\ mapRows' \in Seq([map: Maps, to: Nodes]) /\ tenantRows' \in Seq(Nodes \X Nodes)
      /\ had' \in [Nodes -> SUBSET Maps]
      /\ raced' \subseteq {"map", "unstarted", "started twice"}
      /\ lost' \subseteq {"mapRow", "tenantRow", "load"} /\ skipped' \subseteq Nodes \X Maps
      /\ restarts' \in 0..MaxRestarts
  BY DEF TypeOK, Quiet, Threads
<1>2. req' \in [Requests -> Request]
  BY DEF Moves
<1>. QED BY <1>1, <1>2 DEF TypeOK

\* A quiet step of a handler that the console does not hear of.
LEMMA QuietHandler ==
  ASSUME IInv, NEW r \in Requests, Moves(r), Quiet, installed' \subseteq Maps,
         result' = result, unanswered' = unanswered, restarts' = restarts,
         Failed \/ UNCHANGED fails, RequestOK(r)'
  PROVE  IInv'
<1>1. TypeOK' /\ Returns(r)
  BY QuietTypes, FailedFacts DEF IInv, TypeOK, Returns
<1>. QED BY <1>1, QuietStep

\* A handler that ends without the map.
LEMMA QuietEnd ==
  ASSUME IInv, NEW r \in Requests, NEW a \in {"none", "error", "garbage"}, Answer(r, a), Quiet,
         installed' = installed, result' = result, unanswered' = unanswered, restarts' = restarts,
         Failed \/ UNCHANGED fails
  PROVE  IInv'
<1>1. /\ Moves(r) /\ req'[r].reply = a /\ req'[r].stage \in {"done", "reply"}
      /\ req[r].command => req'[r].stage = "done"
  BY SetAnswer DEF IInv
<1>2. TypeOK /\ RequestOK(r) /\ installed' \subseteq Maps /\ \A n \in Nodes : had[n] \subseteq had'[n]
  BY DEF IInv, TypeOK, Quiet
<1>3. result'[r] = "true" /\ r \notin unanswered' =>
        Wanted(r) \in had'[Source[Wanted(r)]] \cap had'[Target[Wanted(r)]]
  BY <1>1, <1>2, SameReturn
<1>4. RequestOK(r)'
  BY <1>1, <1>2, <1>3, Ended
<1>. QED BY <1>1, <1>2, <1>4, QuietHandler

\* A handler at the source's node that goes on before it has got to the maps.
LEMMA QuietOn ==
  ASSUME IInv, NEW r \in Requests, Moves(r), Quiet, installed' \subseteq Maps,
         result' = result, unanswered' = unanswered, restarts' = restarts,
         Failed \/ UNCHANGED fails,
         req[r].stage \notin TargetStages, mode[Source[Wanted(r)]] = "up",
         req'[r].stage \in SourceStages \ {"tenant", "tenantAdd", "map", "mapAdd", "start"},
         req[r].command => req'[r].stage \in CommandStages,
         StartsFirst(r)', ThreadFits(r)', 
         req'[r].stage # "client" /\ ~req[r].command => Source[Wanted(r)] \in clients[Source[Wanted(r)]]
  PROVE  IInv'
<1>1. /\ TypeOK /\ RequestOK(r) /\ \A n \in Nodes : had[n] \subseteq had'[n]
      /\ req'[r].command = req[r].command
  BY DEF IInv, Quiet, Moves
<1>2. /\ req'[r].stage \notin TargetStages \cup PastTenant \cup PastTargetMap
      /\ req'[r].stage \in SourceStages
      /\ req'[r].stage \notin {"start", "mapAdd", "dMapAdd", "reply"}
  BY DEF SourceStages, TargetStages, PastTenant, PastTargetMap
<1>3. Wanted(r)' = Wanted(r) /\ Where(r)' = Source[Wanted(r)] /\ ~Mapped(r)'
  BY <1>2, Place DEF Mapped
<1>4. Runs(r)' /\ AddsNew(r)'
  BY <1>1, <1>2, <1>3 DEF Runs, AddsNew, Quiet
<1>5. MadeReady(r)'
  BY <1>1, <1>2, <1>3 DEF MadeReady, Quiet
<1>6. result'[r] = "true" /\ r \notin unanswered' =>
        Wanted(r) \in had'[Source[Wanted(r)]] \cap had'[Target[Wanted(r)]]
  BY <1>1, SameReturn
<1>7. Got(r)' /\ TenantMet(r)'
  BY <1>2, <1>3, <1>6 DEF Got, TenantMet
<1>8. RequestOK(r)'
  BY <1>4, <1>5, <1>7 DEF RequestOK
<1>. QED BY <1>8, QuietHandler

-----------------------------------------------------------------------------
LEMMA StageFacts ==
  ASSUME NEW s
  PROVE  /\ s \in SourceStages => s \in Stages /\ s \in InProgress /\ s \notin TargetStages
         /\ s \in TargetStages => s \in Stages /\ s \in InProgress /\ s \notin SourceStages
         /\ s \in {"idle", "reply", "done"} => s \in Stages /\ s \notin InProgress
         /\ s \in CommandStages => s \notin TargetStages
  BY DEF Stages, InProgress, SourceStages, TargetStages, CommandStages

\* What a request in hand at the source's node has.
LEMMA AtSource ==
  ASSUME IInv, NEW r \in Requests, Handled(r, req[r].stage), req[r].stage \in SourceStages
  PROVE  /\ Where(r) = Source[Wanted(r)] /\ mode[Source[Wanted(r)]] = "up"
         /\ Source[Wanted(r)] \in Nodes
         /\ req[r].stage # "client" /\ ~req[r].command =>
              Source[Wanted(r)] \in clients[Source[Wanted(r)]]
<1>1. req[r].stage \notin TargetStages
  BY StageFacts
<1>2. Where(r) = Source[Wanted(r)] /\ MadeReady(r)
  BY <1>1 DEF Where, IInv, RequestOK
<1>. QED BY <1>2, RequestFields DEF Handled, MadeReady, IInv

LEMMA QuietFrames ==
  ASSUME UNCHANGED <<memory, mysql, had, raced, lost, skipped>>
  PROVE  Quiet
  BY DEF Quiet, memory, mysql

\* The handler at the source's node that only goes to stage s.
LEMMA QuietGo ==
  ASSUME IInv, NEW r \in Requests, NEW s, Go(r, s),
         UNCHANGED <<memory, mysql, result, restarts, history>>, installed' \subseteq Maps,
         Failed \/ UNCHANGED fails,
         req[r].stage \notin TargetStages, mode[Source[Wanted(r)]] = "up",
         s \in SourceStages \ {"checkThread", "tenant", "tenantAdd", "map", "mapAdd", "start"},
         req[r].command => s \in CommandStages,
         s \in {"newThread", "startThread"} => ~HasThread(Source[Wanted(r)], Source[Wanted(r)]),
         s = "startThread" => req[r].thread = r,
         s \in {"isExist", "watch"} => "unstarted" \in raced
                   \/ <<Source[Wanted(r)], Source[Wanted(r)], req[r].thread>> \in started,
         s # "client" /\ ~req[r].command => Source[Wanted(r)] \in clients[Source[Wanted(r)]]
  PROVE  IInv'
<1>1. s \in Stages /\ s \notin TargetStages /\ TypeOK
  BY StageFacts DEF IInv
<1>2. Moves(r) /\ req'[r].stage = s /\ req'[r].thread = req[r].thread
  BY <1>1, SetStage
<1>3. Quiet /\ unanswered' = unanswered /\ result' = result /\ restarts' = restarts
  BY QuietFrames DEF history
<1>4. /\ Wanted(r)' = Wanted(r) /\ Where(r)' = Source[Wanted(r)] /\ Where(r) = Source[Wanted(r)]
  BY <1>1, <1>2, Place
<1>5. StartsFirst(r)'
  BY <1>2, <1>3, <1>4 DEF StartsFirst, HasThread, Quiet
<1>6. ThreadFits(r)'
  BY <1>2, <1>3, <1>4 DEF ThreadFits, HasThread, Quiet
<1>. QED BY <1>1, <1>2, <1>3, <1>5, <1>6, QuietOn

LEMMA AskKeeps == ASSUME IInv, NEW r \in Requests, Ask(r) PROVE IInv'
<1>1. /\ req[r].stage = "idle" /\ ~req[r].command /\ TypeOK
      /\ UNCHANGED <<memory, installed, mysql, result, bounds, history>>
  BY DEF Ask, At, IInv
<1>2. /\ UNCHANGED <<memory, mysql, result, restarts, history>> /\ UNCHANGED fails
      /\ installed' = installed /\ installed' \subseteq Maps /\ Quiet
  BY <1>1, QuietFrames DEF bounds, history, TypeOK
<1>3. CASE mode[Source[Wanted(r)]] = "up"
  <2>1. Go(r, "client")
    BY <1>3 DEF Ask
  <2>. QED BY <1>1, <1>2, <1>3, <2>1, QuietGo DEF SourceStages, TargetStages
<1>4. CASE mode[Source[Wanted(r)]] # "up"
  <2>1. Answer(r, "garbage")
    BY <1>4 DEF Ask
  <2>. QED BY <1>2, <2>1, QuietEnd DEF history
<1>. QED BY <1>3, <1>4

LEMMA TakeCommandKeeps == ASSUME IInv, NEW r \in Requests, TakeCommand(r) PROVE IInv'
<1>1. /\ req[r].stage = "idle" /\ req[r].command /\ TypeOK /\ Go(r, "getThread")
      /\ mode[Source[Wanted(r)]] = "up"
      /\ UNCHANGED <<memory, installed, mysql, result, bounds, history>>
  BY DEF TakeCommand, At, IInv
<1>2. /\ UNCHANGED <<memory, mysql, result, restarts, history>> /\ UNCHANGED fails
      /\ installed' \subseteq Maps
  BY <1>1 DEF bounds, TypeOK
<1>. QED BY <1>1, <1>2, QuietGo DEF SourceStages, TargetStages, CommandStages

LEMMA GetSchemaKeeps == ASSUME IInv, NEW r \in Requests, GetSchema(r) PROVE IInv'
<1>1. /\ req[r].stage = "schema" /\ Handled(r, req[r].stage) /\ TypeOK /\ RequestOK(r)
      /\ UNCHANGED <<memory, installed, mysql, result, restarts, history>>
  BY DEF GetSchema, Handled, At, IInv
<1>2. Quiet /\ installed' = installed /\ installed' \subseteq Maps /\ unanswered' = unanswered
  BY <1>1, QuietFrames DEF TypeOK, history
<1>3. ~req[r].command
  BY <1>1 DEF RequestOK, Runs, CommandStages
<1>4. req[r].stage \in SourceStages /\ req[r].stage \notin TargetStages
  BY <1>1 DEF SourceStages, TargetStages
<1>5. CASE Go(r, "config") /\ UNCHANGED fails
  BY <1>1, <1>2, <1>3, <1>4, <1>5, AtSource, QuietGo DEF SourceStages
<1>6. CASE Failed /\ Answer(r, "error")
  BY <1>1, <1>2, <1>6, QuietEnd
<1>. QED BY <1>5, <1>6 DEF GetSchema

LEMMA ConfigKeeps == ASSUME IInv, NEW r \in Requests, Config(r) PROVE IInv'
<1>1. /\ req[r].stage = "config" /\ Handled(r, req[r].stage) /\ TypeOK /\ RequestOK(r)
      /\ UNCHANGED <<memory, mysql, result, restarts, history>>
  BY DEF Config, Handled, At, IInv
<1>2. Quiet /\ unanswered' = unanswered
  BY <1>1, QuietFrames DEF history
<1>3. ~req[r].command
  BY <1>1 DEF RequestOK, Runs, CommandStages
<1>4. req[r].stage \in SourceStages /\ req[r].stage \notin TargetStages
  BY <1>1 DEF SourceStages, TargetStages
<1>5. CASE installed' = installed \cup {Wanted(r)} /\ Go(r, "getThread") /\ UNCHANGED fails
  <2>1. installed' \subseteq Maps
    BY <1>1, <1>5, RequestFields DEF TypeOK
  <2>. QED BY <1>1, <1>3, <1>4, <1>5, <2>1, AtSource, QuietGo DEF SourceStages
<1>6. CASE Failed /\ Answer(r, "garbage") /\ UNCHANGED installed
  BY <1>1, <1>2, <1>6, QuietEnd
<1>. QED BY <1>5, <1>6 DEF Config

LEMMA GetThreadKeeps == ASSUME IInv, NEW r \in Requests, GetThread(r) PROVE IInv'
<1>1. /\ req[r].stage = "getThread" /\ Handled(r, req[r].stage) /\ TypeOK
      /\ UNCHANGED <<memory, installed, mysql, result, bounds, history>>
  BY DEF GetThread, Handled, At, IInv
<1>2. /\ Quiet /\ installed' \subseteq Maps /\ result' = result /\ unanswered' = unanswered
      /\ restarts' = restarts /\ UNCHANGED fails
      /\ UNCHANGED <<memory, mysql, result, restarts, history>>
  BY <1>1, QuietFrames DEF TypeOK, history, bounds
<1>3. req[r].stage \in SourceStages /\ req[r].stage \notin TargetStages
  BY <1>1 DEF SourceStages, TargetStages
<1>4. /\ Where(r) = Source[Wanted(r)] /\ mode[Source[Wanted(r)]] = "up"
      /\ ~req[r].command => Source[Wanted(r)] \in clients[Source[Wanted(r)]]
  BY <1>1, <1>3, AtSource
<1>5. ASSUME NEW b \in Makers, <<Where(r), Where(r), b>> \in started,
             req' = [req EXCEPT ![r].stage = "isExist", ![r].thread = b]
      PROVE  IInv'
  <2>1. Moves(r) /\ req'[r].stage = "isExist" /\ req'[r].thread = b
    BY <1>1, <1>5, SetStageThread DEF Stages, InProgress, SourceStages
  <2>2. Where(r)' = Source[Wanted(r)]
    BY <2>1, Place DEF TargetStages
  <2>3. StartsFirst(r)'
    BY <2>1 DEF StartsFirst
  <2>4. <<Where(r), Where(r), req[r].thread>>' \in started
    BY <1>4, <1>5, <2>1, <2>2
  <2>5. ThreadFits(r)'
    BY <1>2, <2>1, <2>4 DEF ThreadFits, Quiet
  <2>. QED BY <1>2, <1>3, <1>4, <2>1, <2>3, <2>5, QuietOn DEF SourceStages, CommandStages
<1>6. CASE ~HasThread(Where(r), Where(r)) /\ Go(r, "newThread")
  BY <1>2, <1>3, <1>4, <1>6, QuietGo DEF SourceStages, CommandStages
<1>. QED BY <1>5, <1>6 DEF GetThread

LEMMA NewThreadKeeps == ASSUME IInv, NEW r \in Requests, NewThread(r) PROVE IInv'
<1>1. /\ req[r].stage = "newThread" /\ Handled(r, req[r].stage) /\ TypeOK /\ RequestOK(r)
      /\ UNCHANGED <<mode, maps, tenants, clients, started, watch, installed, mysql, result,
                    restarts, history>>
      /\ deaf' = deaf \/ deaf' = deaf \cup {<<Where(r), Where(r), r>>}
  BY DEF NewThread, Handled, At, IInv
<1>2. Quiet /\ installed' = installed /\ installed' \subseteq Maps /\ unanswered' = unanswered
  <2>1. <<Where(r), Where(r), r>> \in Threads
    BY <1>1, RequestFields DEF Threads, Makers
  <2>2. deaf \subseteq Threads => deaf' \subseteq Threads
    BY <1>1, <2>1
  <2>. QED BY <1>1, <2>2 DEF Quiet, TypeOK, mysql, history
<1>3. req[r].stage \in SourceStages /\ req[r].stage \notin TargetStages
  BY <1>1 DEF SourceStages, TargetStages
<1>4. /\ Where(r) = Source[Wanted(r)] /\ mode[Source[Wanted(r)]] = "up"
      /\ ~req[r].command => Source[Wanted(r)] \in clients[Source[Wanted(r)]]
  BY <1>1, <1>3, AtSource
<1>5. ASSUME req' = [req EXCEPT ![r].stage = "checkThread", ![r].thread = r],
             Failed \/ UNCHANGED fails
      PROVE  IInv'
  <2>1. Moves(r) /\ req'[r].stage = "checkThread" /\ req'[r].thread = r
    BY <1>1, <1>5, SetStageThread DEF Stages, InProgress, SourceStages, Makers
  <2>2. Where(r)' = Where(r)
    BY <1>4, <2>1, Place DEF TargetStages
  <2>3. StartsFirst(r)' /\ ThreadFits(r)'
    BY <1>1, <1>2, <2>1, <2>2 DEF RequestOK, StartsFirst, ThreadFits, Quiet, HasThread
  <2>. QED BY <1>1, <1>2, <1>3, <1>4, <1>5, <2>1, <2>3, QuietOn DEF SourceStages, CommandStages
<1>6. ASSUME Failed, NEW a \in {"error", "garbage"}, Answer(r, a) PROVE IInv'
  BY <1>1, <1>2, <1>6, QuietEnd
<1>7. \/ /\ req' = [req EXCEPT ![r].stage = "checkThread", ![r].thread = r]
         /\ Failed \/ UNCHANGED fails
      \/ Failed /\ \E a \in {"error", "garbage"} : Answer(r, a)
  BY DEF NewThread
<1>. QED BY <1>5, <1>6, <1>7

LEMMA CheckThreadKeeps == ASSUME IInv, NEW r \in Requests, CheckThread(r) PROVE IInv'
<1>1. /\ req[r].stage = "checkThread" /\ Handled(r, req[r].stage) /\ TypeOK /\ RequestOK(r)
      /\ UNCHANGED <<memory, installed, mysql, result, bounds, history>>
  BY DEF CheckThread, Handled, At, IInv
<1>2. /\ installed' \subseteq Maps /\ UNCHANGED fails
      /\ UNCHANGED <<memory, mysql, result, restarts, history>>
  BY <1>1 DEF TypeOK, bounds
<1>3. req[r].stage \in SourceStages /\ req[r].stage \notin TargetStages
  BY <1>1 DEF SourceStages, TargetStages
<1>4. /\ Where(r) = Source[Wanted(r)] /\ mode[Source[Wanted(r)]] = "up"
      /\ ~req[r].command => Source[Wanted(r)] \in clients[Source[Wanted(r)]]
  BY <1>1, <1>3, AtSource
<1>5. CASE HasThread(Where(r), Where(r)) /\ Go(r, "isExist")
  <2>1. "unstarted" \in raced
    BY <1>1, <1>5 DEF RequestOK, ThreadFits
  <2>. QED BY <1>2, <1>3, <1>4, <1>5, <2>1, QuietGo DEF SourceStages, CommandStages
<1>6. CASE ~HasThread(Where(r), Where(r)) /\ Go(r, "startThread")
  <2>1. req[r].thread = r
    BY <1>1 DEF RequestOK, StartsFirst
  <2>. QED BY <1>2, <1>3, <1>4, <1>6, <2>1, QuietGo DEF SourceStages, CommandStages
<1>. QED BY <1>5, <1>6 DEF CheckThread

LEMMA IsExistSourceTablesKeeps ==
  ASSUME IInv, NEW r \in Requests, IsExistSourceTables(r) PROVE IInv'
<1>1. /\ req[r].stage = "isExist" /\ Handled(r, req[r].stage) /\ TypeOK /\ RequestOK(r)
      /\ UNCHANGED <<memory, installed, mysql, result, restarts, history>>
  BY DEF IsExistSourceTables, Handled, At, IInv
<1>2. Quiet /\ installed' = installed /\ installed' \subseteq Maps /\ unanswered' = unanswered
  BY <1>1, QuietFrames DEF TypeOK, history
<1>3. req[r].stage \in SourceStages /\ req[r].stage \notin TargetStages
  BY <1>1 DEF SourceStages, TargetStages
<1>4. /\ Where(r) = Source[Wanted(r)] /\ mode[Source[Wanted(r)]] = "up"
      /\ ~req[r].command => Source[Wanted(r)] \in clients[Source[Wanted(r)]]
  BY <1>1, <1>3, AtSource
<1>5. CASE Go(r, "watch") /\ UNCHANGED fails
  <2>1. "unstarted" \in raced \/ <<Where(r), Where(r), req[r].thread>> \in started
    BY <1>1 DEF RequestOK, ThreadFits
  <2>. QED BY <1>1, <1>2, <1>3, <1>4, <1>5, <2>1, QuietGo DEF SourceStages, CommandStages
<1>6. ASSUME Failed \/ UNCHANGED fails, NEW a \in {"error", "garbage"}, Answer(r, a) PROVE IInv'
  BY <1>1, <1>2, <1>6, QuietEnd
<1>7. \/ Go(r, "watch") /\ UNCHANGED fails
      \/ UNCHANGED fails /\ Answer(r, "error")
      \/ Failed /\ \E a \in {"error", "garbage"} : Answer(r, a)
  BY DEF IsExistSourceTables
<1>. QED BY <1>5, <1>6, <1>7

\* The end of a request as the console sees it: it returns a.
LEMMA QuietReturn ==
  ASSUME IInv, NEW r \in Requests, NEW a \in {"true", "false"}, Go(r, "done"),
         Quiet, UNCHANGED <<installed, bounds>>, result' = [result EXCEPT ![r] = a],
         unanswered' = unanswered \/ unanswered' = unanswered \cup {r},
         a = "true" /\ r \notin unanswered' =>
           Wanted(r) \in had[Source[Wanted(r)]] \cap had[Target[Wanted(r)]]
  PROVE  IInv'
<1>1. /\ TypeOK /\ Moves(r) /\ req'[r].stage = "done"
  BY SetStage, StageFacts DEF IInv
<1>2. result \in [Requests -> {"none", "true", "false"}] /\ unanswered \subseteq Requests
  BY <1>1 DEF TypeOK
<1>3. /\ result' \in [Requests -> {"none", "true", "false"}] /\ unanswered' \subseteq Requests
      /\ Returns(r) /\ result'[r] = a
  BY <1>2 DEF Returns
<1>4. restarts' = restarts /\ UNCHANGED fails /\ installed' \subseteq Maps
  BY <1>1 DEF bounds, TypeOK
<1>5. TypeOK'
  BY <1>1, <1>3, <1>4, QuietTypes, FailedFacts
<1>6. RequestOK(r)'
  BY <1>1, <1>3, Ended DEF Quiet
<1>. QED BY <1>1, <1>3, <1>5, <1>6, QuietStep

LEMMA AskTargetKeeps == ASSUME IInv, NEW r \in Requests, AskTarget(r) PROVE IInv'
<1>1. /\ req[r].stage = "reply" /\ TypeOK /\ RequestOK(r)
      /\ UNCHANGED <<memory, installed, mysql, bounds, had, raced, lost, skipped>>
  BY DEF AskTarget, At, IInv
<1>2. Quiet /\ UNCHANGED <<installed, bounds>>
  BY <1>1, QuietFrames
<1>3. CASE /\ Go(r, "done") /\ result' = [result EXCEPT ![r] = "false"] /\ UNCHANGED unanswered
  BY <1>2, <1>3, QuietReturn
<1>4. CASE /\ Go(r, "done") /\ result' = [result EXCEPT ![r] = "true"]
           /\ unanswered' = unanswered \cup {r}
  BY <1>2, <1>4, QuietReturn
<1>5. ASSUME mode[Target[Wanted(r)]] = "up", req[r].reply = "map", Go(r, "dMap"),
             UNCHANGED <<result, unanswered>>
      PROVE  IInv'
  <2>1. Moves(r) /\ req'[r].stage = "dMap"
    BY <1>1, <1>5, SetStage DEF Stages, InProgress, TargetStages
  <2>2. Wanted(r)' = Wanted(r) /\ Where(r)' = Target[Wanted(r)] /\ ~Mapped(r)' /\ Mapped(r)
    BY <1>1, <1>5, <2>1, Place DEF TargetStages, Mapped
  <2>3. Runs(r)'
    <3>1. ~req[r].command /\ ~req'[r].command
      BY <1>1, <2>1 DEF RequestOK, Runs, CommandStages, Moves
    <3>. QED BY <1>2, <1>5, <2>1, <2>2, <3>1 DEF Runs, Quiet
  <2>4. AddsNew(r)' /\ StartsFirst(r)' /\ ThreadFits(r)' /\ MadeReady(r)'
    BY <2>1 DEF AddsNew, StartsFirst, ThreadFits, MadeReady, SourceStages
  <2>5. Got(r)'
    BY <1>1, <1>2, <1>5, <2>1, <2>2 DEF RequestOK, Got, Quiet, PastTargetMap
  <2>6. TenantMet(r)'
    BY <1>1, <1>2, <2>1, <2>2 DEF RequestOK, TenantMet, Quiet, RecordedTenants
  <2>7. RequestOK(r)'
    BY <2>3, <2>4, <2>5, <2>6 DEF RequestOK
  <2>8. restarts' = restarts /\ UNCHANGED fails /\ installed' \subseteq Maps
    BY <1>1 DEF bounds, TypeOK
  <2>. QED BY <1>2, <1>5, <2>1, <2>7, <2>8, QuietHandler
<1>. QED BY <1>3, <1>4, <1>5 DEF AskTarget

-----------------------------------------------------------------------------
LateStages == {"tenant", "tenantAdd", "map", "mapAdd", "start"}

\* A step within the maps and tenants of one node, to stage s.
LEMMA QuietLate ==
  ASSUME IInv, NEW r \in Requests, NEW s, Go(r, s),
         UNCHANGED <<memory, installed, mysql, bounds, history>>, result' = result,
         Handled(r, req[r].stage),
         (req[r].stage \in LateStages /\ s \in LateStages)
           \/ (req[r].stage \in TargetStages /\ s \in TargetStages),
         s \in {"mapAdd", "dMapAdd"} => ~IsExistTableMap(Where(r), Wanted(r)),
         "tenantRow" \notin lost /\ s \in LateStages /\ s \in PastTenant =>
           Source[Wanted(r)] \in RecordedTenants,
         s = "start" => Wanted(r) \in had[Source[Wanted(r)]],
         s \in PastTargetMap => Wanted(r) \in had[Target[Wanted(r)]]
  PROVE  IInv'
<1>1. /\ TypeOK /\ RequestOK(r) /\ s \in Stages /\ s \in InProgress /\ req[r].stage \in InProgress
      /\ mode[Where(r)] = "up"
  BY DEF IInv, LateStages, Stages, InProgress, SourceStages, Handled
<1>2. Moves(r) /\ req'[r].stage = s /\ req'[r].thread = req[r].thread
  BY <1>1, SetStage
<1>3. /\ Quiet /\ unanswered' = unanswered /\ restarts' = restarts /\ UNCHANGED fails
      /\ installed' \subseteq Maps
  BY <1>1, QuietFrames DEF bounds, history, TypeOK
<1>4. Wanted(r)' = Wanted(r) /\ Where(r)' = Where(r) /\ ~Mapped(r)'
  <2>1. LateStages \cap TargetStages = {} /\ s # "reply"
    BY DEF LateStages, TargetStages
  <2>. QED BY <1>2, <2>1, Place DEF Mapped
<1>5. Runs(r)'
  <2>1. ~req[r].command /\ ~req'[r].command
    BY <1>1, <1>2 DEF RequestOK, Runs, CommandStages, Moves, LateStages, TargetStages
  <2>. QED BY <1>1, <1>2, <1>3, <1>4, <2>1 DEF Runs, Quiet
<1>6. AddsNew(r)'
  BY <1>2, <1>3, <1>4 DEF AddsNew, IsExistTableMap, Same, DTanent, Quiet
<1>7. StartsFirst(r)' /\ ThreadFits(r)'
  BY <1>2 DEF StartsFirst, ThreadFits, LateStages, TargetStages
<1>8. MadeReady(r)'
  <2>1. CASE s \in TargetStages
    BY <1>2, <2>1 DEF MadeReady, SourceStages, TargetStages
  <2>2. CASE s \in LateStages /\ req[r].stage \in LateStages
    <3>1. Served(Where(r), Wanted(r)) /\ Where(r) \in clients[Where(r)]
      BY <1>1, <2>2 DEF RequestOK, MadeReady, LateStages, Served
    <3>2. Served(Where(r), Wanted(r))'
      BY <1>3, <1>4, <3>1 DEF Served, Quiet
    <3>. QED BY <1>3, <1>4, <3>1, <3>2 DEF MadeReady, Quiet
  <2>. QED BY <2>1, <2>2
<1>9. Got(r)'
  BY <1>1, <1>2, <1>3, <1>4 DEF RequestOK, Got, Quiet, LateStages, TargetStages
<1>10. TenantMet(r)'
  BY <1>1, <1>2, <1>3, <1>4 DEF RequestOK, TenantMet, Quiet, RecordedTenants, LateStages, PastTenant
<1>11. RequestOK(r)'
  BY <1>5, <1>6, <1>7, <1>8, <1>9, <1>10 DEF RequestOK
<1>. QED BY <1>2, <1>3, <1>11, QuietHandler

LEMMA IsExistTanentKeeps == ASSUME IInv, NEW r \in Requests, IsExistTanent(r) PROVE IInv'
<1>1. /\ req[r].stage \in {"tenant", "dTenant"} /\ Handled(r, req[r].stage)
      /\ TypeOK /\ RequestOK(r) /\ NodesOK
      /\ UNCHANGED <<memory, installed, mysql, bounds, history>>
  BY DEF IsExistTanent, Handled, At, IInv
<1>2. CASE At(r, "tenant")
  <2>1. /\ req[r].stage = "tenant" /\ result' = result
        /\ \/ Known(Where(r), DTanent(Wanted(r))) /\ Go(r, "map")
           \/ Go(r, "tenantAdd")
    BY <1>2 DEF IsExistTanent, At
  <2>2. CASE Known(Where(r), DTanent(Wanted(r))) /\ Go(r, "map")
    <3>1. "tenantRow" \notin lost => Source[Wanted(r)] \in RecordedTenants
      BY <1>1, <2>2, RequestFields DEF NodesOK, TenantsOK, DTanent
    <3>. QED BY <1>1, <2>1, <2>2, <3>1, QuietLate DEF LateStages, PastTargetMap
  <2>3. CASE Go(r, "tenantAdd")
    BY <1>1, <2>1, <2>3, QuietLate DEF LateStages, PastTargetMap, PastTenant, TargetStages
  <2>. QED BY <2>1, <2>2, <2>3
<1>3. CASE ~At(r, "tenant")
  <2>1. /\ req[r].stage = "dTenant"
        /\ \/ Go(r, "done") /\ result' = [result EXCEPT ![r] = "true"]
           \/ Go(r, "dTenantAdd") /\ UNCHANGED result
    BY <1>1, <1>3 DEF IsExistTanent, At
  <2>2. /\ Wanted(r) \in had[Source[Wanted(r)]] /\ Wanted(r) \in had[Target[Wanted(r)]]
        /\ req[r].stage \in TargetStages
    BY <1>1, <2>1 DEF RequestOK, Got, TargetStages, PastTargetMap
  <2>3. CASE Go(r, "done") /\ result' = [result EXCEPT ![r] = "true"]
    BY <1>1, <2>2, <2>3, QuietReturn, QuietFrames DEF history
  <2>4. CASE Go(r, "dTenantAdd") /\ UNCHANGED result
    BY <1>1, <2>2, <2>4, QuietLate DEF LateStages, TargetStages
  <2>. QED BY <2>1, <2>3, <2>4
<1>. QED BY <1>2, <1>3

LEMMA HeldExists ==
  ASSUME NEW n \in Nodes, NEW m, IsExistTableMap(n, m)
  PROVE  m \in Held(n)
  BY DEF IsExistTableMap, Same, Held

LEMMA IsExistMapKeeps == ASSUME IInv, NEW r \in Requests, IsExistMap(r) PROVE IInv'
<1>1. /\ req[r].stage \in {"map", "dMap"} /\ Handled(r, req[r].stage)
      /\ TypeOK /\ RequestOK(r) /\ NodesOK
      /\ UNCHANGED <<memory, installed, mysql, bounds, history>> /\ result' = result
  BY DEF IsExistMap, Handled, At, IInv
<1>2. IsExistTableMap(Where(r), Wanted(r)) => Wanted(r) \in had[Where(r)]
  BY <1>1, HeldExists, RequestFields DEF NodesOK, KeptOK
<1>3. CASE At(r, "map")
  <2>1. req[r].stage = "map" /\ Where(r) = Source[Wanted(r)]
    BY <1>3 DEF At, Where, TargetStages
  <2>2. \/ IsExistTableMap(Where(r), Wanted(r)) /\ Go(r, "start")
        \/ ~IsExistTableMap(Where(r), Wanted(r)) /\ Go(r, "mapAdd")
    BY <1>3 DEF IsExistMap
  <2>3. "tenantRow" \notin lost => Source[Wanted(r)] \in RecordedTenants
    BY <1>1, <2>1 DEF RequestOK, TenantMet, PastTenant
  <2>4. "start" \notin PastTargetMap /\ "mapAdd" \notin PastTargetMap
    BY DEF PastTargetMap
  <2>5. CASE IsExistTableMap(Where(r), Wanted(r)) /\ Go(r, "start")
    BY <1>1, <1>2, <2>1, <2>3, <2>4, <2>5, QuietLate DEF LateStages
  <2>6. CASE ~IsExistTableMap(Where(r), Wanted(r)) /\ Go(r, "mapAdd")
    BY <1>1, <2>1, <2>3, <2>4, <2>6, QuietLate DEF LateStages
  <2>. QED BY <2>2, <2>5, <2>6
<1>4. CASE ~At(r, "map")
  <2>1. req[r].stage = "dMap" /\ Where(r) = Target[Wanted(r)] /\ req[r].stage \in TargetStages
    BY <1>1, <1>4 DEF At, Where, TargetStages
  <2>2. \/ IsExistTableMap(Where(r), Wanted(r)) /\ Go(r, "dStart")
        \/ ~IsExistTableMap(Where(r), Wanted(r)) /\ Go(r, "dMapAdd")
    BY <1>4 DEF IsExistMap
  <2>3. CASE IsExistTableMap(Where(r), Wanted(r)) /\ Go(r, "dStart")
    BY <1>1, <1>2, <2>1, <2>3, QuietLate DEF LateStages, TargetStages
  <2>4. CASE ~IsExistTableMap(Where(r), Wanted(r)) /\ Go(r, "dMapAdd")
    BY <1>1, <2>1, <2>4, QuietLate DEF LateStages, TargetStages, PastTargetMap
  <2>. QED BY <2>2, <2>3, <2>4
<1>. QED BY <1>3, <1>4

-----------------------------------------------------------------------------
\* Frames: the parts of NodesOK that a step leaves alone.
\* The lists of maps stay the same but for their status.
SameLists == \A n \in Nodes :
  /\ DOMAIN maps'[n] = DOMAIN maps[n]
  /\ \A i \in DOMAIN maps[n] : maps'[n][i].map = maps[n][i].map /\ maps'[n][i].to = maps[n][i].to

LEMMA SameHeld ==
  ASSUME SameLists, NEW n \in Nodes
  PROVE  /\ Held(n)' = Held(n)
         /\ \A m : IsExistTableMap(n, m)' = IsExistTableMap(n, m)
<1>1. /\ DOMAIN maps'[n] = DOMAIN maps[n]
      /\ \A i \in DOMAIN maps[n] : maps'[n][i].map = maps[n][i].map /\ maps'[n][i].to = maps[n][i].to
  BY DEF SameLists
<1>2. Held(n)' = Held(n)
  BY <1>1 DEF Held
<1>3. ASSUME NEW m PROVE IsExistTableMap(n, m)' = IsExistTableMap(n, m)
  BY <1>1 DEF IsExistTableMap, Same, DTanent
<1>. QED BY <1>2, <1>3

LEMMA SameMaps ==
  ASSUME NodesOK, mode' = mode, SameLists, Recorded \subseteq Recorded',
         \A i \in DOMAIN mapRows' : mapRows'[i].to = Source[mapRows'[i].map],
         had' = had, lost \subseteq lost', raced \subseteq raced'
  PROVE  EntriesOK' /\ KeptOK' /\ MapsDistinct' /\ NothingForgotten'
<1>1. EntriesOK'
  BY DEF NodesOK, EntriesOK, SameLists
<1>2. KeptOK'
  BY SameHeld DEF NodesOK, KeptOK
<1>3. MapsDistinct'
  BY DEF NodesOK, MapsDistinct, SameLists
<1>4. NothingForgotten'
  <2> SUFFICES ASSUME lost' \cap {"mapRow", "load"} = {}, NEW n \in Nodes, mode'[n] = "up"
               PROVE  had'[n] \subseteq Held(n)'
    BY DEF NothingForgotten, Held
  <2>1. had[n] \subseteq Held(n)
    BY DEF NodesOK, NothingForgotten, Held
  <2>. QED BY <2>1, SameHeld
<1>. QED BY <1>1, <1>2, <1>3, <1>4

LEMMA SameTenants ==
  ASSUME NodesOK, lost' = lost, tenants' = tenants, tenantRows' = tenantRows
  PROVE  TenantsOK' /\ PasswordsAreRight'
  BY DEF NodesOK, TenantsOK, PasswordsAreRight, Known, RecordedTenants

LEMMA SameThreads ==
  ASSUME NodesOK, raced \subseteq raced', started' = started
  PROVE  WatchedOnce'
  BY DEF NodesOK, WatchedOnce

LEMMA SameWatch == ASSUME NodesOK, watch' = watch PROVE WatchedAtSource'
  BY DEF NodesOK, WatchedAtSource

LEMMA MoreServed ==
  ASSUME NodesOK, mode' = mode, SameLists, lost \subseteq lost',
         \A n \in Nodes : clients[n] \subseteq clients'[n],
         started \subseteq started', watch \subseteq watch', raced \subseteq raced',
         skipped' = skipped
  PROVE  ServedOK'
<1> SUFFICES ASSUME NEW n \in Nodes, mode'[n] = "up", NEW m \in Held(n)', Source[m] = n,
                    Target[m] = n => MapsKept'
             PROVE  Served(n, m)'
  BY DEF ServedOK
<1>1. mode[n] = "up" /\ m \in Held(n) /\ (Target[m] = n => MapsKept)
  BY SameHeld DEF MapsKept
<1>2. Served(n, m)
  BY <1>1 DEF NodesOK, ServedOK
<1>. QED BY <1>2, StillServed

\* Frames for a request that does not move.
LEMMA StillAdds ==
  ASSUME NEW q \in Requests, AddsNew(q), Grows(q),
         req[q].stage \in {"mapAdd", "dMapAdd"} /\ "map" \notin raced' =>
           (IsExistTableMap(Where(q), Wanted(q))' => IsExistTableMap(Where(q), Wanted(q)))
  PROVE  AddsNew(q)'
<1>1. Where(q)' = Where(q) /\ Wanted(q)' = Wanted(q) /\ req'[q] = req[q] /\ raced \subseteq raced'
  BY SamePlace DEF Grows
<1>. QED BY <1>1 DEF AddsNew

LEMMA StillStarts ==
  ASSUME NEW q \in Requests, StartsFirst(q), ThreadFits(q), Grows(q),
         req[q].stage \in InProgress => (HasThread(Where(q), Where(q))' => HasThread(Where(q), Where(q)))
  PROVE  StartsFirst(q)' /\ ThreadFits(q)'
<1>1. Where(q)' = Where(q) /\ req'[q] = req[q] /\ raced \subseteq raced' /\ started \subseteq started'
  BY SamePlace DEF Grows
<1>2. {"newThread", "checkThread", "startThread"} \subseteq InProgress
  BY DEF InProgress, SourceStages
<1>3. StartsFirst(q)'
  BY <1>1, <1>2 DEF StartsFirst
<1>4. ThreadFits(q)'
  BY <1>1, <1>2 DEF ThreadFits
<1>. QED BY <1>3, <1>4

LEMMA StillOK ==
  ASSUME TypeOK, NEW q \in Requests, RequestOK(q), Grows(q), skipped' = skipped,
         AddsNew(q)', StartsFirst(q)', ThreadFits(q)'
  PROVE  RequestOK(q)'
  BY StillRuns, StillGot, StillMet, StillReady DEF RequestOK

\* A handler that gives a node clients.
AllButClients ==
  /\ deaf' = deaf /\ mode' = mode /\ maps' = maps /\ tenants' = tenants /\ started' = started /\ watch' = watch
  /\ mapRows' = mapRows /\ tenantRows' = tenantRows /\ installed' = installed
  /\ had' = had /\ raced' = raced /\ lost' = lost /\ unanswered' = unanswered
  /\ skipped' = skipped /\ result' = result /\ restarts' = restarts /\ fails' = fails

LEMMA MoreClients ==
  ASSUME IInv, NEW r \in Requests, Moves(r), AllButClients, Handled(r, req[r].stage),
         NEW S \in SUBSET Nodes, clients' = [clients EXCEPT ![Where(r)] = @ \cup S],
         RequestOK(r)'
  PROVE  IInv'
<1>1. TypeOK /\ NodesOK /\ clients \in [Nodes -> SUBSET Nodes] /\ mode[Where(r)] = "up"
  BY DEF IInv, TypeOK, Handled
<1>2. PICK n \in Nodes : n = Where(r)
  BY <1>1, RequestFields
<1>3. /\ clients' \in [Nodes -> SUBSET Nodes] /\ \A k \in Nodes : clients[k] \subseteq clients'[k]
      /\ \A k \in Nodes \ {n} : clients'[k] = clients[k]
  BY <1>1, <1>2
<1>4. TypeOK'
  BY <1>1, <1>3 DEF TypeOK, AllButClients, Moves
<1>5. EmptyOK'
  BY <1>1, <1>2, <1>3 DEF NodesOK, EmptyOK, AllButClients
<1>6. NodesOK'
  <2>1. EntriesOK' /\ KeptOK' /\ MapsDistinct' /\ NothingForgotten'
    <3>1. SameLists /\ Recorded \subseteq Recorded'
      BY DEF SameLists, AllButClients, Recorded
    <3>. QED BY <1>1, <3>1, SameMaps DEF AllButClients, NodesOK, EntriesOK
  <2>2. TenantsOK' /\ PasswordsAreRight' /\ WatchedOnce' /\ WatchedAtSource'
    BY <1>1, SameTenants, SameThreads, SameWatch DEF AllButClients
  <2>3. ServedOK'
    BY <1>1, <1>3, MoreServed DEF AllButClients, SameLists
  <2>. QED BY <1>5, <2>1, <2>2, <2>3 DEF NodesOK
<1>7. ASSUME NEW q \in Requests, q # r PROVE RequestOK(q)'
  <2>1. RequestOK(q) /\ AddsNew(q) /\ StartsFirst(q) /\ ThreadFits(q)
    BY DEF IInv, RequestOK
  <2>2. Grows(q)
    BY <1>3, <1>7 DEF Grows, AllButClients, Moves, RecordedTenants
  <2>3. AddsNew(q)' /\ StartsFirst(q)' /\ ThreadFits(q)'
    <3>1. HasThread(Where(q), Where(q))' => HasThread(Where(q), Where(q))
      BY <2>2, SamePlace DEF HasThread, AllButClients, Grows
    <3>2. IsExistTableMap(Where(q), Wanted(q))' => IsExistTableMap(Where(q), Wanted(q))
      BY <2>2, SamePlace DEF IsExistTableMap, Same, DTanent, AllButClients, Grows
    <3>. QED BY <2>1, <2>2, <3>1, <3>2, StillAdds, StillStarts
  <2>. QED BY <1>1, <2>1, <2>2, <2>3, StillOK DEF AllButClients
<1>. QED BY <1>4, <1>6, <1>7 DEF IInv

LEMMA AddClientKeeps == ASSUME IInv, NEW r \in Requests, AddClient(r) PROVE IInv'
<1>1. /\ req[r].stage = "client" /\ Handled(r, req[r].stage) /\ TypeOK /\ RequestOK(r)
      /\ clients' = [clients EXCEPT ![Where(r)] = @ \cup {DTanent(Wanted(r))}]
      /\ clients \in [Nodes -> SUBSET Nodes] /\ Go(r, "schema")
  BY DEF AddClient, Handled, At, IInv, TypeOK
<1>2. AllButClients
  BY DEF AddClient, AllButClients, mysql, bounds, history
<1>3. Moves(r) /\ req'[r].stage = "schema"
  BY <1>1, SetStage DEF Stages, InProgress, SourceStages
<1>4. Wanted(r)' = Wanted(r) /\ Where(r)' = Where(r) /\ Where(r) = Source[Wanted(r)] /\ ~Mapped(r)'
  BY <1>1, <1>3, Place DEF TargetStages, Mapped
<1>5. /\ Where(r) \in Nodes /\ DTanent(Wanted(r)) = Where(r)
      /\ {DTanent(Wanted(r))} \in SUBSET Nodes
  BY <1>1, <1>4, RequestFields DEF DTanent
<1>6. Where(r) \in clients'[Where(r)]
  BY <1>1, <1>5
<1>7. Runs(r)'
  <2>1. ~req'[r].command /\ mode[Where(r)] = "up"
    BY <1>1, <1>3 DEF RequestOK, Runs, CommandStages, Moves, Handled
  <2>. QED BY <1>2, <1>4, <2>1 DEF Runs, AllButClients
<1>8. AddsNew(r)' /\ StartsFirst(r)' /\ ThreadFits(r)' /\ MadeReady(r)'
  <2>1. MadeReady(r)'
    BY <1>3, <1>4, <1>6 DEF MadeReady
  <2>. QED BY <1>3, <2>1 DEF AddsNew, StartsFirst, ThreadFits
<1>9. Got(r)' /\ TenantMet(r)'
  <2>1. Got(r)'
    BY <1>1, <1>2, <1>3, <1>4 DEF RequestOK, Got, AllButClients, TargetStages, PastTargetMap
  <2>2. req'[r].stage \notin PastTenant
    BY <1>3 DEF PastTenant, TargetStages
  <2>3. TenantMet(r)'
    BY <1>4, <2>2 DEF TenantMet
  <2>. QED BY <2>1, <2>3
<1>10. RequestOK(r)'
  BY <1>7, <1>8, <1>9 DEF RequestOK
<1>. QED BY <1>1, <1>2, <1>3, <1>5, <1>10, MoreClients

LEMMA AddClientsKeeps == ASSUME IInv, NEW r \in Requests, AddClients(r) PROVE IInv'
<1>1. /\ req[r].stage = "dClients" /\ Handled(r, req[r].stage) /\ TypeOK /\ RequestOK(r)
      /\ clients' = [clients EXCEPT ![Where(r)] = @ \cup {Source[Wanted(r)], DTanent(Wanted(r))}]
      /\ Go(r, "dTenant")
  BY DEF AddClients, Handled, At, IInv
<1>2. AllButClients
  BY DEF AddClients, AllButClients, mysql, bounds, history
<1>3. Moves(r) /\ req'[r].stage = "dTenant"
  BY <1>1, SetStage DEF Stages, InProgress, TargetStages
<1>4. Wanted(r)' = Wanted(r) /\ Where(r)' = Where(r) /\ ~Mapped(r)'
  BY <1>1, <1>3, Place DEF TargetStages, Mapped
<1>5. {Source[Wanted(r)], DTanent(Wanted(r))} \in SUBSET Nodes
  BY <1>1, RequestFields DEF DTanent
<1>6. Runs(r)'
  <2>1. ~req'[r].command /\ mode[Where(r)] = "up"
    BY <1>1, <1>3 DEF RequestOK, Runs, CommandStages, Moves, Handled
  <2>. QED BY <1>2, <1>4, <2>1 DEF Runs, AllButClients
<1>7. AddsNew(r)' /\ StartsFirst(r)' /\ ThreadFits(r)' /\ MadeReady(r)'
  BY <1>3 DEF AddsNew, StartsFirst, ThreadFits, MadeReady, SourceStages
<1>8. Got(r)'
  BY <1>1, <1>2, <1>3, <1>4 DEF RequestOK, Got, AllButClients, TargetStages, PastTargetMap
<1>9. TenantMet(r)'
  BY <1>1, <1>2, <1>3, <1>4 DEF RequestOK, TenantMet, AllButClients, TargetStages, PastTenant, RecordedTenants
<1>10. RequestOK(r)'
  BY <1>6, <1>7, <1>8, <1>9 DEF RequestOK
<1>. QED BY <1>1, <1>2, <1>3, <1>5, <1>10, MoreClients

LEMMA StartThreadKeeps == ASSUME IInv, NEW r \in Requests, StartThread(r) PROVE IInv'
<1>1. /\ req[r].stage = "startThread" /\ Handled(r, req[r].stage) /\ TypeOK /\ RequestOK(r)
      /\ NodesOK /\ mode[Where(r)] = "up" /\ Go(r, "isExist")
      /\ started' = started \cup {<<Where(r), Where(r), r>>}
      /\ Meets(r, {"newThread", "checkThread"}) => "unstarted" \in raced'
      /\ Meets(r, {"startThread"}) => "started twice" \in raced'
      /\ raced \subseteq raced' /\ raced' \subseteq raced \cup {"unstarted", "started twice"}
  BY DEF StartThread, Handled, At, IInv
<1>2. /\ deaf' = deaf /\ mode' = mode /\ maps' = maps /\ tenants' = tenants /\ clients' = clients /\ watch' = watch
      /\ mapRows' = mapRows /\ tenantRows' = tenantRows /\ installed' = installed
      /\ had' = had /\ lost' = lost /\ unanswered' = unanswered /\ skipped' = skipped
      /\ result' = result /\ restarts' = restarts /\ fails' = fails
  BY DEF StartThread, mysql, bounds
<1>3. Moves(r) /\ req'[r].stage = "isExist" /\ req'[r].thread = req[r].thread /\ req[r].thread = r
  BY <1>1, SetStage DEF Stages, InProgress, SourceStages, RequestOK, StartsFirst
<1>4. /\ Wanted(r)' = Wanted(r) /\ Where(r)' = Where(r) /\ Where(r) = Source[Wanted(r)]
      /\ ~Mapped(r)'
  BY <1>1, <1>3, Place DEF TargetStages, Mapped
<1>5. PICK n \in Nodes : n = Where(r)
  BY <1>1, RequestFields
<1>6. started' = started \cup {<<n, n, r>>} /\ mode[n] = "up"
  BY <1>1, <1>5
<1>7. TypeOK'
  <2>1. started' \subseteq Nodes \X Nodes \X Makers
    <3>1. <<n, n, r>> \in Nodes \X Nodes \X Makers
      BY DEF Makers
    <3>2. started \subseteq Nodes \X Nodes \X Makers
      BY <1>1 DEF TypeOK
    <3>. QED BY <1>6, <3>1, <3>2
  <2>2. raced' \subseteq {"map", "unstarted", "started twice"}
    BY <1>1 DEF TypeOK
  <2>. QED BY <1>1, <1>2, <1>3, <2>1, <2>2 DEF TypeOK, Moves
<1>8. NodesOK'
  <2>1. EmptyOK'
    <3>1. \A x \in started' : x \in started \/ x[1] = n
      BY <1>6
    <3>. QED BY <1>1, <1>2, <1>6, <3>1 DEF NodesOK, EmptyOK
  <2>2. SameLists /\ Recorded \subseteq Recorded'
    BY <1>2 DEF SameLists, Recorded
  <2>3. EntriesOK' /\ KeptOK' /\ MapsDistinct' /\ NothingForgotten'
    BY <1>1, <1>2, <2>2, SameMaps DEF NodesOK, EntriesOK
  <2>4. TenantsOK' /\ PasswordsAreRight' /\ WatchedAtSource'
    BY <1>1, <1>2, SameTenants, SameWatch
  <2>5. ServedOK'
    BY <1>1, <1>2, <1>6, <2>2, MoreServed
  <2>6. WatchedOnce'
    <3> SUFFICES ASSUME "started twice" \notin raced', NEW k \in Nodes, NEW db \in Nodes,
                        NEW b \in Makers, NEW c \in Makers,
                        <<k, db, b>> \in started', <<k, db, c>> \in started'
                 PROVE  b = c
      BY DEF WatchedOnce
    <3>1. "started twice" \notin raced
      BY <1>1
    <3>2. ~HasThread(n, n)
      BY <1>1, <1>5, <3>1 DEF RequestOK, StartsFirst
    <3>3. CASE k = n /\ db = n
      BY <1>6, <3>2, <3>3 DEF HasThread
    <3>4. CASE ~(k = n /\ db = n)
      BY <1>1, <1>6, <3>1, <3>4 DEF NodesOK, WatchedOnce
    <3>. QED BY <3>3, <3>4
  <2>. QED BY <2>1, <2>3, <2>4, <2>5, <2>6 DEF NodesOK
<1>9. ASSUME NEW q \in Requests, q # r PROVE RequestOK(q)'
  <2>1. RequestOK(q) /\ AddsNew(q) /\ StartsFirst(q) /\ ThreadFits(q)
    BY DEF IInv, RequestOK
  <2>2. Grows(q) /\ Where(q)' = Where(q) /\ Wanted(q)' = Wanted(q) /\ req'[q] = req[q]
    BY <1>1, <1>2, <1>3, <1>6, <1>9, SamePlace DEF Grows, Moves, RecordedTenants
  <2>3. AddsNew(q)'
    <3>1. IsExistTableMap(Where(q), Wanted(q))' => IsExistTableMap(Where(q), Wanted(q))
      BY <1>2, <2>2 DEF IsExistTableMap, Same, DTanent
    <3>. QED BY <2>1, <2>2, <3>1, StillAdds
  <2>4. StartsFirst(q)' /\ ThreadFits(q)'
    <3>1. CASE Where(q) # n
      <4>1. HasThread(Where(q), Where(q))' => HasThread(Where(q), Where(q))
        BY <1>6, <2>2, <3>1 DEF HasThread
      <4>. QED BY <2>1, <2>2, <4>1, StillStarts
    <3>2. CASE Where(q) = n
      <4>1. /\ req[q].stage = "startThread" => "started twice" \in raced'
            /\ req[q].stage \in {"newThread", "checkThread"} => "unstarted" \in raced'
        BY <1>1, <1>5, <1>9, <3>2 DEF Meets
      <4>2. StartsFirst(q)'
        BY <2>1, <2>2, <4>1 DEF StartsFirst
      <4>3. ThreadFits(q)'
        BY <1>1, <1>6, <2>1, <2>2, <4>1 DEF ThreadFits
      <4>. QED BY <4>2, <4>3
    <3>. QED BY <3>1, <3>2
  <2>. QED BY <1>1, <1>2, <2>1, <2>2, <2>3, <2>4, StillOK
<1>10. RequestOK(r)'
  <2>1. Runs(r)'
    BY <1>1, <1>2, <1>3, <1>4 DEF Runs, CommandStages
  <2>2. AddsNew(r)' /\ StartsFirst(r)'
    BY <1>3 DEF AddsNew, StartsFirst
  <2>3. ThreadFits(r)'
    <3>1. <<Where(r), Where(r), req[r].thread>>' \in started'
      BY <1>3, <1>4, <1>5, <1>6
    <3>. QED BY <1>3, <3>1 DEF ThreadFits
  <2>4. MadeReady(r)'
    BY <1>1, <1>2, <1>3, <1>4 DEF RequestOK, MadeReady, SourceStages, Moves
  <2>5. Got(r)'
    BY <1>1, <1>2, <1>3, <1>4 DEF RequestOK, Got, TargetStages, PastTargetMap
  <2>6. TenantMet(r)'
    <3>1. req'[r].stage \notin PastTenant
      BY <1>3 DEF PastTenant, TargetStages
    <3>. QED BY <1>4, <3>1 DEF TenantMet
  <2>. QED BY <2>1, <2>2, <2>3, <2>4, <2>5, <2>6 DEF RequestOK
<1>. QED BY <1>7, <1>8, <1>9, <1>10 DEF IInv

\* The tables are given to the thread.
LEMMA GivenKeeps ==
  ASSUME IInv, NEW r \in Requests, Handled(r, "watch"),
         watch' = watch \cup {<<Where(r), req[r].thread, Wanted(r)>>},
         IF req[r].command THEN Answer(r, "none") ELSE Go(r, "tenant"),
         UNCHANGED <<mode, maps, tenants, clients, started, deaf, installed, mysql, result, bounds,
                     history>>
  PROVE  IInv'
<1>1. /\ req[r].stage = "watch" /\ Handled(r, req[r].stage) /\ TypeOK /\ RequestOK(r)
      /\ NodesOK /\ mode[Where(r)] = "up"
      /\ watch' = watch \cup {<<Where(r), req[r].thread, Wanted(r)>>}
  BY DEF Handled, At, IInv
<1>2. /\ deaf' = deaf /\ mode' = mode /\ maps' = maps /\ tenants' = tenants /\ clients' = clients
      /\ started' = started /\ raced' = raced
      /\ mapRows' = mapRows /\ tenantRows' = tenantRows /\ installed' = installed
      /\ had' = had /\ lost' = lost /\ unanswered' = unanswered /\ skipped' = skipped
      /\ result' = result /\ restarts' = restarts /\ fails' = fails
  BY DEF mysql, bounds, history
<1>3. /\ Moves(r)
      /\ \/ req[r].command /\ req'[r].stage = "done"
         \/ ~req[r].command /\ req'[r].stage = "tenant"
  <2>1. CASE req[r].command
    <3>1. Answer(r, "none")
      BY <2>1
    <3>. QED BY <1>1, <2>1, <3>1, SetAnswer
  <2>2. CASE ~req[r].command
    <3>1. Go(r, "tenant")
      BY <2>2
    <3>. QED BY <1>1, <2>2, <3>1, SetStage DEF Stages, InProgress, SourceStages
  <2>. QED BY <2>1, <2>2
<1>4. /\ Wanted(r)' = Wanted(r) /\ Where(r)' = Where(r) /\ Where(r) = Source[Wanted(r)]
      /\ ~Mapped(r)'
  BY <1>1, <1>3, Place DEF TargetStages, Mapped
<1>5. PICK n \in Nodes, m \in Maps, b \in Makers : n = Where(r) /\ m = Wanted(r) /\ b = req[r].thread
  BY <1>1, RequestFields
<1>6. watch' = watch \cup {<<n, b, m>>} /\ mode[n] = "up" /\ n = Source[m]
  BY <1>1, <1>4, <1>5
<1>7. TypeOK'
  <2>1. watch' \subseteq Nodes \X Makers \X Maps
    <3>1. <<n, b, m>> \in Nodes \X Makers \X Maps
      OBVIOUS
    <3>2. watch \subseteq Nodes \X Makers \X Maps
      BY <1>1 DEF TypeOK
    <3>. QED BY <1>6, <3>1, <3>2
  <2>. QED BY <1>1, <1>2, <1>3, <2>1 DEF TypeOK, Moves
<1>8. NodesOK'
  <2>1. EmptyOK'
    BY <1>1, <1>2, <1>6 DEF NodesOK, EmptyOK
  <2>2. SameLists /\ Recorded \subseteq Recorded'
    BY <1>2 DEF SameLists, Recorded
  <2>3. EntriesOK' /\ KeptOK' /\ MapsDistinct' /\ NothingForgotten'
    BY <1>1, <1>2, <2>2, SameMaps DEF NodesOK, EntriesOK
  <2>4. TenantsOK' /\ PasswordsAreRight' /\ WatchedOnce'
    BY <1>1, <1>2, SameTenants, SameThreads
  <2>5. ServedOK'
    BY <1>1, <1>2, <1>6, <2>2, MoreServed
  <2>6. WatchedAtSource'
    BY <1>1, <1>6 DEF NodesOK, WatchedAtSource
  <2>. QED BY <2>1, <2>3, <2>4, <2>5, <2>6 DEF NodesOK
<1>9. ASSUME NEW q \in Requests, q # r PROVE RequestOK(q)'
  <2>1. RequestOK(q) /\ AddsNew(q) /\ StartsFirst(q) /\ ThreadFits(q)
    BY DEF IInv, RequestOK
  <2>2. Grows(q) /\ Where(q)' = Where(q) /\ Wanted(q)' = Wanted(q) /\ req'[q] = req[q]
    BY <1>1, <1>2, <1>6, <1>3, <1>9, SamePlace DEF Grows, Moves, RecordedTenants
  <2>3. /\ IsExistTableMap(Where(q), Wanted(q))' => IsExistTableMap(Where(q), Wanted(q))
        /\ HasThread(Where(q), Where(q))' => HasThread(Where(q), Where(q))
    BY <1>2, <2>2 DEF IsExistTableMap, Same, DTanent, HasThread
  <2>4. AddsNew(q)' /\ StartsFirst(q)' /\ ThreadFits(q)'
    BY <2>1, <2>2, <2>3, StillAdds, StillStarts
  <2>. QED BY <1>1, <1>2, <2>1, <2>2, <2>4, StillOK
<1>10. RequestOK(r)'
  <2>1. CASE req[r].command /\ req'[r].stage = "done"
    <3>1. result'[r] = "true" /\ r \notin unanswered' =>
            Wanted(r) \in had'[Source[Wanted(r)]] \cap had'[Target[Wanted(r)]]
      BY <1>1, <1>2, <1>3, SameReturn
    <3>. QED BY <1>1, <1>3, <2>1, <3>1, Ended
  <2>2. CASE ~req[r].command /\ req'[r].stage = "tenant"
    <3>1. ~req'[r].command
      BY <1>3, <2>2 DEF Moves
    <3>2. Runs(r)'
      BY <1>1, <1>2, <1>4, <2>2, <3>1 DEF Runs
    <3>3. AddsNew(r)' /\ StartsFirst(r)' /\ ThreadFits(r)'
      BY <2>2 DEF AddsNew, StartsFirst, ThreadFits
    <3>4. n \in clients[n]
      BY <1>1, <1>5, <2>2 DEF RequestOK, MadeReady, SourceStages
    <3>5. "unstarted" \in raced \/ <<n, n, b>> \in started
      BY <1>1, <1>5 DEF RequestOK, ThreadFits
    <3>6. Served(n, m)'
      BY <1>2, <1>6, <3>4, <3>5 DEF Served
    <3>7. Served(Where(r), Wanted(r))' /\ Where(r)' \in clients'[Where(r)']
      BY <1>2, <1>4, <1>5, <3>4, <3>6 DEF Served
    <3>8. MadeReady(r)'
      BY <2>2, <3>7 DEF MadeReady
    <3>9. Got(r)'
      BY <1>1, <1>2, <1>4, <2>2 DEF RequestOK, Got, TargetStages, PastTargetMap
    <3>10. TenantMet(r)'
      <4>1. req'[r].stage \notin PastTenant
        BY <2>2 DEF PastTenant, TargetStages
      <4>. QED BY <1>4, <4>1 DEF TenantMet
    <3>. QED BY <3>2, <3>3, <3>8, <3>9, <3>10 DEF RequestOK
  <2>. QED BY <1>3, <2>1, <2>2
<1>. QED BY <1>7, <1>8, <1>9, <1>10 DEF IInv

LEMMA WatchKeeps == ASSUME IInv, NEW r \in Requests, Watch(r) PROVE IInv'
<1>1. /\ Handled(r, "watch")
      /\ UNCHANGED <<mode, maps, tenants, clients, started, deaf, installed, mysql, result, restarts,
                    history>>
  BY DEF Watch
<1>2. ASSUME watch' = watch \cup {<<Where(r), req[r].thread, Wanted(r)>>},
             IF req[r].command THEN Answer(r, "none") ELSE Go(r, "tenant"), UNCHANGED fails
      PROVE  IInv'
  BY <1>1, <1>2, GivenKeeps DEF bounds
<1>3. ASSUME Failed, UNCHANGED watch, NEW a \in {"error", "garbage"}, Answer(r, a) PROVE IInv'
  <2>1. Quiet
    BY <1>1, <1>3 DEF Quiet, mysql, history
  <2>. QED BY <1>1, <1>3, <2>1, QuietEnd DEF history
<1>. QED BY <1>2, <1>3 DEF Watch

LEMMA AppendTenant ==
  ASSUME TypeOK, NEW t \in Nodes \X Nodes, tenantRows' = Append(tenantRows, t)
  PROVE  /\ tenantRows' \in Seq(Nodes \X Nodes)
         /\ RecordedTenants' = RecordedTenants \cup {t[1]}
         /\ PasswordsAreRight /\ "tenantRow" \notin lost
              /\ (t[1] = t[2] \/ t[1] \in RecordedTenants) => PasswordsAreRight'
<1>1. tenantRows \in Seq(Nodes \X Nodes)
  BY DEF TypeOK
<1> DEFINE l == Len(tenantRows)
<1>2. /\ l \in Nat /\ DOMAIN tenantRows = 1..l /\ DOMAIN tenantRows' = 1..(l + 1)
      /\ tenantRows' \in Seq(Nodes \X Nodes)
      /\ \A i \in 1..l : tenantRows'[i] = tenantRows[i]
      /\ tenantRows'[l + 1] = t
  BY <1>1, SeqFacts
<1> HIDE DEF l
<1>3. \A i \in 1..(l + 1) : i \in 1..l \/ i = l + 1
  BY <1>2
<1>4. 1..l \subseteq 1..(l + 1) /\ l + 1 \in 1..(l + 1)
  BY <1>2
<1>5. RecordedTenants' = RecordedTenants \cup {t[1]}
  BY <1>2, <1>3, <1>4 DEF RecordedTenants
<1>6. ASSUME PasswordsAreRight, "tenantRow" \notin lost, t[1] = t[2] \/ t[1] \in RecordedTenants,
             NEW i \in 1..(l + 1),
             \A j \in 1..(i - 1) : tenantRows'[j][1] # tenantRows'[i][1]
      PROVE  tenantRows'[i][1] = tenantRows'[i][2]
  <2>1. CASE i \in 1..l
    <3>1. \A j \in 1..(i - 1) : j \in 1..l
      BY <1>2, <2>1
    <3>2. \A j \in 1..(i - 1) : tenantRows[j][1] # tenantRows[i][1]
      BY <1>2, <1>6, <2>1, <3>1
    <3>. QED BY <1>2, <1>6, <2>1, <3>2 DEF PasswordsAreRight
  <2>2. CASE i = l + 1
    <3>1. \A j \in 1..l : tenantRows[j][1] # t[1]
      <4>1. \A j \in 1..l : j \in 1..(i - 1)
        BY <1>2, <2>2
      <4>. QED BY <1>2, <1>6, <2>2, <4>1
    <3>2. t[1] \notin RecordedTenants
      BY <1>2, <3>1 DEF RecordedTenants
    <3>. QED BY <1>2, <1>6, <2>2, <3>2
  <2>. QED BY <1>3, <2>1, <2>2
<1>7. PasswordsAreRight /\ "tenantRow" \notin lost
        /\ (t[1] = t[2] \/ t[1] \in RecordedTenants) => PasswordsAreRight'
  BY <1>2, <1>6 DEF PasswordsAreRight
<1>. QED BY <1>2, <1>5, <1>7

LEMMA AddTanentKeeps == ASSUME IInv, NEW r \in Requests, AddTanent(r) PROVE IInv'
<1>1. /\ req[r].stage \in {"tenantAdd", "dTenantAdd"} /\ Handled(r, req[r].stage)
      /\ TypeOK /\ RequestOK(r) /\ NodesOK /\ mode[Where(r)] = "up"
  BY DEF AddTanent, Handled, At, IInv
<1>2. /\ deaf' = deaf /\ mode' = mode /\ maps' = maps /\ clients' = clients /\ started' = started
      /\ watch' = watch /\ raced' = raced /\ mapRows' = mapRows /\ installed' = installed
      /\ had' = had /\ unanswered' = unanswered /\ skipped' = skipped /\ restarts' = restarts
  BY DEF AddTanent
<1>3. /\ Moves(r)
      /\ \/ req[r].stage = "tenantAdd" /\ req'[r].stage = "map" /\ result' = result
         \/ /\ req[r].stage = "dTenantAdd" /\ req'[r].stage = "done"
            /\ result' = [result EXCEPT ![r] = "true"]
  <2>1. \/ req[r].stage = "tenantAdd" /\ Go(r, "map") /\ result' = result
        \/ /\ req[r].stage = "dTenantAdd" /\ Go(r, "done")
           /\ result' = [result EXCEPT ![r] = "true"]
    BY <1>1 DEF AddTanent, At
  <2>2. "map" \in Stages /\ "done" \in Stages
    BY DEF Stages, InProgress, SourceStages
  <2>. QED BY <1>1, <2>1, <2>2, SetStage
<1>4. PICK n \in Nodes, db \in Nodes : n = Where(r) /\ db = Source[Wanted(r)]
  BY <1>1, RequestFields
<1> DEFINE t == <<db, n>>
<1>5. /\ tenants' = [tenants EXCEPT ![n] = @ \cup {t}] /\ mode[n] = "up"
      /\ \/ tenantRows' = Append(tenantRows, t) /\ UNCHANGED <<fails, lost>>
         \/ Failed /\ lost' = lost \cup {"tenantRow"} /\ UNCHANGED tenantRows
  BY <1>1, <1>4 DEF AddTanent, DTanent
<1>6. req[r].stage = "tenantAdd" => n = db
  BY <1>4 DEF Where, TargetStages
<1>7. "tenantRow" \notin lost /\ req[r].stage = "dTenantAdd" => db \in RecordedTenants
  <2>1. req[r].stage = "dTenantAdd" => req[r].stage \in PastTenant
    BY DEF PastTenant, TargetStages
  <2>. QED BY <1>1, <1>4, <2>1 DEF RequestOK, TenantMet
<1>8. t \in Nodes \X Nodes /\ t[1] = db /\ t[2] = n
  OBVIOUS
<1>9. /\ \A k \in Nodes : tenants'[k] \subseteq tenants[k] \cup {t}
      /\ \A k \in Nodes \ {n} : tenants'[k] = tenants[k]
      /\ tenants' \in [Nodes -> SUBSET (Nodes \X Nodes)]
  BY <1>1, <1>5, <1>8 DEF TypeOK
<1>10. /\ tenantRows' \in Seq(Nodes \X Nodes) /\ RecordedTenants \subseteq RecordedTenants'
       /\ lost \subseteq lost' /\ lost' \subseteq lost \cup {"tenantRow"}
       /\ fails' \in 0..MaxFails
       /\ "tenantRow" \notin lost' => db \in RecordedTenants' /\ "tenantRow" \notin lost
       /\ PasswordsAreRight'
  <2>1. CASE tenantRows' = Append(tenantRows, t) /\ UNCHANGED <<fails, lost>>
    <3>1. /\ tenantRows' \in Seq(Nodes \X Nodes) /\ RecordedTenants' = RecordedTenants \cup {db}
      BY <1>1, <1>8, <2>1, AppendTenant
    <3>2. PasswordsAreRight'
      <4>1. CASE "tenantRow" \in lost
        BY <2>1, <4>1 DEF PasswordsAreRight
      <4>2. CASE "tenantRow" \notin lost
        <5>1. t[1] = t[2] \/ t[1] \in RecordedTenants
          BY <1>1, <1>6, <1>7, <1>8, <4>2
        <5>2. PasswordsAreRight
          BY <1>1 DEF NodesOK
        <5>. QED BY <1>1, <1>8, <2>1, <4>2, <5>1, <5>2, AppendTenant
      <4>. QED BY <4>1, <4>2
    <3>3. fails' \in 0..MaxFails
      BY <1>1, <2>1 DEF TypeOK
    <3>. QED BY <2>1, <3>1, <3>2, <3>3
  <2>2. CASE Failed /\ lost' = lost \cup {"tenantRow"} /\ UNCHANGED tenantRows
    <3>1. tenantRows' \in Seq(Nodes \X Nodes)
      BY <1>1, <2>2 DEF TypeOK
    <3>2. PasswordsAreRight' /\ RecordedTenants \subseteq RecordedTenants'
      BY <2>2 DEF PasswordsAreRight, RecordedTenants
    <3>. QED BY <1>1, <2>2, <3>1, <3>2, FailedFacts
  <2>. QED BY <1>5, <2>1, <2>2
<1> HIDE DEF t
<1>11. TypeOK'
  <2>1. result' \in [Requests -> {"none", "true", "false"}]
    BY <1>1, <1>3 DEF TypeOK
  <2>2. lost' \subseteq {"mapRow", "tenantRow", "load"}
    BY <1>1, <1>10 DEF TypeOK
  <2>. QED BY <1>1, <1>2, <1>3, <1>9, <1>10, <2>1, <2>2 DEF TypeOK, Moves
<1>12. NodesOK'
  <2>1. EmptyOK'
    BY <1>1, <1>2, <1>5, <1>9 DEF NodesOK, EmptyOK
  <2>2. SameLists /\ Recorded \subseteq Recorded'
    BY <1>2 DEF SameLists, Recorded
  <2>3. EntriesOK' /\ KeptOK' /\ MapsDistinct' /\ NothingForgotten'
    BY <1>1, <1>2, <1>10, <2>2, SameMaps DEF NodesOK, EntriesOK
  <2>4. WatchedAtSource' /\ WatchedOnce'
    BY <1>1, <1>2, SameWatch, SameThreads
  <2>5. ServedOK'
    BY <1>1, <1>2, <1>10, <2>2, MoreServed
  <2>6. TenantsOK'
    <3> SUFFICES ASSUME "tenantRow" \notin lost', NEW k \in Nodes, NEW d \in Nodes, Known(k, d)'
                 PROVE  d \in RecordedTenants'
      BY DEF TenantsOK
    <3>1. PICK p \in Nodes : <<d, p>> \in tenants'[k]
      BY DEF Known
    <3>2. <<d, p>> \in tenants[k] \/ <<d, p>> = t
      BY <1>9, <3>1
    <3>3. CASE <<d, p>> \in tenants[k]
      BY <1>1, <1>10, <3>3 DEF NodesOK, TenantsOK, Known
    <3>4. CASE <<d, p>> = t
      BY <1>10, <3>4 DEF t
    <3>. QED BY <3>2, <3>3, <3>4
  <2>. QED BY <1>10, <2>1, <2>3, <2>4, <2>5, <2>6 DEF NodesOK
<1>13. ASSUME NEW q \in Requests, q # r PROVE RequestOK(q)'
  <2>1. RequestOK(q) /\ AddsNew(q) /\ StartsFirst(q) /\ ThreadFits(q) /\ result'[q] = result[q]
    BY <1>1, <1>3, <1>13 DEF IInv, RequestOK, TypeOK
  <2>2. Grows(q) /\ Where(q)' = Where(q) /\ Wanted(q)' = Wanted(q) /\ req'[q] = req[q]
    BY <1>1, <1>2, <1>3, <1>10, <1>13, <2>1, SamePlace DEF Grows, Moves
  <2>3. /\ IsExistTableMap(Where(q), Wanted(q))' => IsExistTableMap(Where(q), Wanted(q))
        /\ HasThread(Where(q), Where(q))' => HasThread(Where(q), Where(q))
    BY <1>2, <2>2 DEF IsExistTableMap, Same, DTanent, HasThread
  <2>4. AddsNew(q)' /\ StartsFirst(q)' /\ ThreadFits(q)'
    BY <2>1, <2>2, <2>3, StillAdds, StillStarts
  <2>. QED BY <1>1, <1>2, <2>1, <2>2, <2>4, StillOK
<1>14. RequestOK(r)'
  <2>1. CASE req[r].stage = "dTenantAdd" /\ req'[r].stage = "done"
    <3>1. Wanted(r) \in had[Source[Wanted(r)]] \cap had[Target[Wanted(r)]]
      BY <1>1, <2>1 DEF RequestOK, Got, TargetStages, PastTargetMap
    <3>. QED BY <1>1, <1>2, <1>3, <2>1, <3>1, Ended
  <2>2. CASE req[r].stage = "tenantAdd" /\ req'[r].stage = "map" /\ result' = result
    <3>1. /\ Wanted(r)' = Wanted(r) /\ Where(r)' = Where(r) /\ ~Mapped(r)'
          /\ req'[r].command = req[r].command
      BY <1>3, <2>2, Place DEF TargetStages, Mapped, Moves
    <3>2. Runs(r)'
      BY <1>1, <1>2, <2>2, <3>1 DEF Runs, RequestOK, CommandStages
    <3>3. AddsNew(r)' /\ StartsFirst(r)' /\ ThreadFits(r)'
      BY <2>2 DEF AddsNew, StartsFirst, ThreadFits
    <3>4. MadeReady(r)'
      <4>1. Served(Where(r), Wanted(r)) /\ Where(r) \in clients[Where(r)]
        BY <1>1, <2>2 DEF RequestOK, MadeReady, Served
      <4>2. Served(Where(r), Wanted(r))'
        BY <1>2, <3>1, <4>1 DEF Served
      <4>. QED BY <1>2, <3>1, <4>1, <4>2 DEF MadeReady
    <3>5. Got(r)'
      BY <1>1, <1>2, <2>2, <3>1 DEF RequestOK, Got, TargetStages, PastTargetMap
    <3>6. TenantMet(r)'
      BY <1>4, <1>10, <3>1 DEF TenantMet
    <3>. QED BY <3>2, <3>3, <3>4, <3>5, <3>6 DEF RequestOK
  <2>. QED BY <1>3, <2>1, <2>2
<1>. QED BY <1>11, <1>12, <1>13, <1>14 DEF IInv

-----------------------------------------------------------------------------
LEMMA AppendRow ==
  ASSUME TypeOK, EntriesOK, NEW m \in Maps,
         mapRows' = Append(mapRows, [map |-> m, to |-> DTanent(m)])
  PROVE  /\ mapRows' \in Seq([map: Maps, to: Nodes])
         /\ Recorded' = Recorded \cup {m}
         /\ \A i \in DOMAIN mapRows' : mapRows'[i].to = Source[mapRows'[i].map]
<1> DEFINE e == [map |-> m, to |-> DTanent(m)]
<1>1. mapRows \in Seq([map: Maps, to: Nodes])
  BY DEF TypeOK
<1>2. e \in [map: Maps, to: Nodes] /\ e.map = m /\ e.to = Source[m]
  BY MapsAssumption DEF DTanent
<1> HIDE DEF e
<1> DEFINE l == Len(mapRows)
<1>3. mapRows' = Append(mapRows, e)
  BY DEF e
<1>4. /\ l \in Nat /\ DOMAIN mapRows = 1..l /\ DOMAIN mapRows' = 1..(l + 1)
      /\ mapRows' \in Seq([map: Maps, to: Nodes])
      /\ \A i \in 1..l : mapRows'[i] = mapRows[i]
      /\ mapRows'[l + 1] = e
  BY <1>1, <1>2, <1>3, SeqFacts
<1> HIDE DEF l
<1>5. /\ \A i \in 1..(l + 1) : i \in 1..l \/ i = l + 1
      /\ 1..l \subseteq 1..(l + 1) /\ l + 1 \in 1..(l + 1)
  BY <1>4
<1>6. Recorded' = Recorded \cup {m}
  BY <1>2, <1>4, <1>5 DEF Recorded
<1>7. ASSUME NEW i \in DOMAIN mapRows' PROVE mapRows'[i].to = Source[mapRows'[i].map]
  BY <1>2, <1>4, <1>5 DEF EntriesOK
<1>. QED BY <1>4, <1>6, <1>7

\* A handler ends with an exception, before or after it has recorded a map or a tenant.
LEMMA ThrowsKeeps ==
  ASSUME IInv, NEW r \in Requests, req[r].stage \in InProgress, HandlerThrows(r), Failed,
         UNCHANGED <<memory, installed, restarts, had, raced, lost, skipped>>,
         mapRows' \in Seq([map: Maps, to: Nodes]), Recorded \subseteq Recorded',
         \A i \in DOMAIN mapRows' : mapRows'[i].to = Source[mapRows'[i].map],
         tenantRows' \in Seq(Nodes \X Nodes), RecordedTenants \subseteq RecordedTenants',
         PasswordsAreRight'
  PROVE  IInv'
<1>1. TypeOK /\ RequestOK(r) /\ NodesOK
  BY DEF IInv
<1>2. /\ deaf' = deaf /\ mode' = mode /\ maps' = maps /\ tenants' = tenants /\ clients' = clients
      /\ started' = started /\ watch' = watch /\ raced' = raced
      /\ installed' = installed /\ had' = had /\ lost' = lost /\ skipped' = skipped
      /\ restarts' = restarts
  BY DEF memory
<1>3. fails' \in 0..MaxFails
  BY <1>1, FailedFacts
<1>4. /\ Moves(r) /\ Returns(r) /\ unanswered' \subseteq Requests
      /\ result' \in [Requests -> {"none", "true", "false"}]
      /\ RequestOK(r)'
  <2>1. CASE req[r].stage \in SourceStages
    <3>1. Answer(r, "garbage") /\ result' = result /\ unanswered' = unanswered
      BY <2>1 DEF HandlerThrows
    <3>2. /\ Moves(r) /\ req'[r].reply = "garbage" /\ req'[r].stage \in {"done", "reply"}
          /\ req[r].command => req'[r].stage = "done"
      BY <1>1, <3>1, SetAnswer
    <3>3. result'[r] = "true" /\ r \notin unanswered' =>
            Wanted(r) \in had'[Source[Wanted(r)]] \cap had'[Target[Wanted(r)]]
      BY <1>1, <1>2, <3>1, <3>2, SameReturn
    <3>4. RequestOK(r)'
      BY <1>1, <3>2, <3>3, Ended
    <3>. QED BY <1>1, <3>1, <3>2, <3>4 DEF Returns, TypeOK
  <2>2. CASE req[r].stage \notin SourceStages
    <3>1. /\ Go(r, "done") /\ result' = [result EXCEPT ![r] = "true"]
          /\ unanswered' = unanswered \cup {r}
      BY <2>2 DEF HandlerThrows
    <3>2. Moves(r) /\ req'[r].stage = "done"
      BY <1>1, <3>1, SetStage, StageFacts
    <3>3. RequestOK(r)'
      BY <1>1, <3>1, <3>2, Ended
    <3>4. Returns(r) /\ unanswered' \subseteq Requests
          /\ result' \in [Requests -> {"none", "true", "false"}]
      BY <1>1, <3>1 DEF Returns, TypeOK
    <3>. QED BY <3>2, <3>3, <3>4
  <2>. QED BY <2>1, <2>2
<1>5. TypeOK'
  BY <1>1, <1>2, <1>3, <1>4 DEF TypeOK, Moves
<1>6. NodesOK'
  <2>1. EmptyOK'
    BY <1>1, <1>2 DEF NodesOK, EmptyOK
  <2>2. SameLists
    BY <1>2 DEF SameLists
  <2>3. EntriesOK' /\ KeptOK' /\ MapsDistinct' /\ NothingForgotten'
    BY <1>1, <1>2, <2>2, SameMaps
  <2>4. WatchedAtSource' /\ WatchedOnce'
    BY <1>1, <1>2, SameWatch, SameThreads
  <2>5. ServedOK'
    BY <1>1, <1>2, <2>2, MoreServed
  <2>6. TenantsOK'
    BY <1>1, <1>2 DEF NodesOK, TenantsOK, Known
  <2>. QED BY <2>1, <2>3, <2>4, <2>5, <2>6 DEF NodesOK
<1>7. ASSUME NEW q \in Requests, q # r PROVE RequestOK(q)'
  <2>1. RequestOK(q) /\ AddsNew(q) /\ StartsFirst(q) /\ ThreadFits(q)
    BY DEF IInv, RequestOK
  <2>2. Grows(q) /\ Where(q)' = Where(q) /\ Wanted(q)' = Wanted(q) /\ req'[q] = req[q]
    BY <1>2, <1>4, <1>7, SamePlace DEF Grows, Moves, Returns
  <2>3. /\ IsExistTableMap(Where(q), Wanted(q))' => IsExistTableMap(Where(q), Wanted(q))
        /\ HasThread(Where(q), Where(q))' => HasThread(Where(q), Where(q))
    BY <1>2, <2>2 DEF IsExistTableMap, Same, DTanent, HasThread
  <2>4. AddsNew(q)' /\ StartsFirst(q)' /\ ThreadFits(q)'
    BY <2>1, <2>2, <2>3, StillAdds, StillStarts
  <2>. QED BY <1>1, <1>2, <2>1, <2>2, <2>4, StillOK
<1>. QED BY <1>4, <1>5, <1>6, <1>7 DEF IInv

LEMMA AddMapThrowsKeeps == ASSUME IInv, NEW r \in Requests, AddMapThrows(r) PROVE IInv'
<1>1. /\ req[r].stage \in {"mapAdd", "dMapAdd"} /\ HandlerThrows(r) /\ Failed
      /\ TypeOK /\ EntriesOK /\ PasswordsAreRight
      /\ UNCHANGED <<memory, installed, tenantRows, restarts, had, raced, lost, skipped>>
      /\ \/ mapRows' = mapRows
         \/ mapRows' = Append(mapRows, [map |-> Wanted(r), to |-> DTanent(Wanted(r))])
  BY DEF AddMapThrows, Handled, At, IInv, NodesOK
<1>2. req[r].stage \in InProgress /\ Wanted(r) \in Maps
  BY <1>1, RequestFields DEF InProgress, SourceStages, TargetStages
<1>3. /\ mapRows' \in Seq([map: Maps, to: Nodes]) /\ Recorded \subseteq Recorded'
      /\ \A i \in DOMAIN mapRows' : mapRows'[i].to = Source[mapRows'[i].map]
  <2>1. CASE mapRows' = mapRows
    <3>1. mapRows' \in Seq([map: Maps, to: Nodes])
      BY <1>1, <2>1 DEF TypeOK
    <3>2. Recorded' = Recorded
      BY <2>1 DEF Recorded
    <3>3. \A i \in DOMAIN mapRows' : mapRows'[i].to = Source[mapRows'[i].map]
      BY <1>1, <2>1 DEF EntriesOK
    <3>. QED BY <3>1, <3>2, <3>3
  <2>2. CASE mapRows' = Append(mapRows, [map |-> Wanted(r), to |-> DTanent(Wanted(r))])
    BY <1>1, <1>2, <2>2, AppendRow
  <2>. QED BY <1>1, <2>1, <2>2
<1>4. tenantRows' \in Seq(Nodes \X Nodes) /\ RecordedTenants \subseteq RecordedTenants'
  BY <1>1 DEF TypeOK, RecordedTenants
<1>5. PasswordsAreRight'
  BY <1>1 DEF PasswordsAreRight
<1>. QED BY <1>1, <1>2, <1>3, <1>4, <1>5, ThrowsKeeps

\* Whatever is recorded for a database has its password, or comes after one that has.
LEMMA AddTanentThrowsKeeps == ASSUME IInv, NEW r \in Requests, AddTanentThrows(r) PROVE IInv'
<1>1. /\ req[r].stage \in {"tenantAdd", "dTenantAdd"} /\ HandlerThrows(r) /\ Failed
      /\ TypeOK /\ RequestOK(r) /\ EntriesOK /\ PasswordsAreRight
      /\ UNCHANGED <<memory, installed, mapRows, restarts, had, raced, lost, skipped>>
      /\ \/ tenantRows' = tenantRows
         \/ tenantRows' = Append(tenantRows, <<DTanent(Wanted(r)), Where(r)>>)
  BY DEF AddTanentThrows, Handled, At, IInv, NodesOK
<1>2. req[r].stage \in InProgress
  BY <1>1 DEF InProgress, SourceStages, TargetStages
<1>3. PICK db \in Nodes, n \in Nodes : db = DTanent(Wanted(r)) /\ n = Where(r)
  BY <1>1, RequestFields DEF DTanent
<1>4. "tenantRow" \in lost \/ db = n \/ db \in RecordedTenants
  <2>1. CASE req[r].stage = "tenantAdd"
    BY <1>3, <2>1 DEF Where, DTanent, TargetStages
  <2>2. CASE req[r].stage = "dTenantAdd"
    <3>1. req[r].stage \in PastTenant
      BY <2>2 DEF PastTenant, TargetStages
    <3>. QED BY <1>1, <1>3, <3>1 DEF RequestOK, TenantMet, DTanent
  <2>. QED BY <1>1, <2>1, <2>2
<1>5. /\ tenantRows' \in Seq(Nodes \X Nodes) /\ RecordedTenants \subseteq RecordedTenants'
      /\ PasswordsAreRight'
  <2>1. CASE tenantRows' = tenantRows
    BY <1>1, <2>1 DEF TypeOK, RecordedTenants, PasswordsAreRight
  <2>2. CASE tenantRows' = Append(tenantRows, <<DTanent(Wanted(r)), Where(r)>>)
    <3> DEFINE t == <<db, n>>
    <3>1. t \in Nodes \X Nodes /\ t[1] = db /\ t[2] = n /\ tenantRows' = Append(tenantRows, t)
      BY <1>3, <2>2
    <3> HIDE DEF t
    <3>2. tenantRows' \in Seq(Nodes \X Nodes) /\ RecordedTenants' = RecordedTenants \cup {t[1]}
      BY <1>1, <3>1, AppendTenant
    <3>3. CASE "tenantRow" \in lost
      BY <1>1, <3>2, <3>3 DEF PasswordsAreRight
    <3>4. CASE "tenantRow" \notin lost
      BY <1>1, <1>4, <3>1, <3>2, <3>4, AppendTenant
    <3>. QED BY <3>2, <3>3, <3>4
  <2>. QED BY <1>1, <2>1, <2>2
<1>6. /\ mapRows' \in Seq([map: Maps, to: Nodes]) /\ Recorded \subseteq Recorded'
      /\ \A i \in DOMAIN mapRows' : mapRows'[i].to = Source[mapRows'[i].map]
  <2>1. mapRows' = mapRows
    BY <1>1
  <2>2. mapRows' \in Seq([map: Maps, to: Nodes])
    BY <1>1, <2>1 DEF TypeOK
  <2>3. Recorded' = Recorded
    BY <2>1 DEF Recorded
  <2>4. \A i \in DOMAIN mapRows' : mapRows'[i].to = Source[mapRows'[i].map]
    BY <1>1, <2>1 DEF EntriesOK
  <2>. QED BY <2>2, <2>3, <2>4
<1>. QED BY <1>1, <1>2, <1>5, <1>6, ThrowsKeeps

\* The status of maps of one running node changes; it matters to no part of the invariant.
AllButMaps ==
  /\ deaf' = deaf /\ mode' = mode /\ tenants' = tenants /\ clients' = clients /\ started' = started
  /\ watch' = watch /\ mapRows' = mapRows /\ tenantRows' = tenantRows /\ installed' = installed
  /\ had' = had /\ raced' = raced /\ lost' = lost /\ unanswered' = unanswered
  /\ skipped' = skipped /\ result' = result /\ restarts' = restarts /\ fails' = fails

LEMMA OtherStatus ==
  ASSUME IInv, AllButMaps, NEW n \in Nodes, mode[n] = "up", SameLists,
         maps' \in [Nodes -> Seq(Entry)], \A k \in Nodes \ {n} : maps'[k] = maps[k]
  PROVE  /\ NodesOK' /\ (req' \in [Requests -> Request] => TypeOK')
         /\ \A q \in Requests : req'[q] = req[q] => RequestOK(q)'
<1>1. TypeOK /\ NodesOK
  BY DEF IInv
<1>2. req' \in [Requests -> Request] => TypeOK'
  BY <1>1 DEF TypeOK, AllButMaps
<1>3. NodesOK'
  <2>1. EmptyOK'
    BY <1>1 DEF NodesOK, EmptyOK, AllButMaps
  <2>2. Recorded \subseteq Recorded'
    BY DEF AllButMaps, Recorded
  <2>3. EntriesOK' /\ KeptOK' /\ MapsDistinct' /\ NothingForgotten'
    BY <1>1, <2>2, SameMaps DEF AllButMaps, NodesOK, EntriesOK
  <2>4. TenantsOK' /\ PasswordsAreRight' /\ WatchedAtSource' /\ WatchedOnce'
    BY <1>1, SameTenants, SameWatch, SameThreads DEF AllButMaps
  <2>5. ServedOK'
    BY <1>1, MoreServed DEF AllButMaps
  <2>. QED BY <2>1, <2>3, <2>4, <2>5 DEF NodesOK
<1>4. ASSUME NEW q \in Requests, req'[q] = req[q] PROVE RequestOK(q)'
  <2>1. /\ RequestOK(q) /\ AddsNew(q) /\ StartsFirst(q) /\ ThreadFits(q)
        /\ Where(q) \in Nodes
    BY <1>1, RequestFields DEF IInv, RequestOK
  <2>2. Grows(q) /\ Where(q)' = Where(q) /\ Wanted(q)' = Wanted(q)
    BY <1>4, SamePlace DEF AllButMaps, Grows, RecordedTenants
  <2>3. IsExistTableMap(Where(q), Wanted(q))' => IsExistTableMap(Where(q), Wanted(q))
    <3>1. PICK k \in Nodes : k = Where(q)
      BY <2>1
    <3> PICK m : m = Wanted(q)
      OBVIOUS
    <3>2. IsExistTableMap(k, m)' = IsExistTableMap(k, m)
      BY SameHeld
    <3>3. IsExistTableMap(Where(q), Wanted(q))' = IsExistTableMap(k, m)'
      BY <2>2, <3>1 DEF IsExistTableMap
    <3>. QED BY <3>1, <3>2, <3>3
  <2>4. HasThread(Where(q), Where(q))' => HasThread(Where(q), Where(q))
    BY <2>2 DEF AllButMaps, HasThread
  <2>5. AddsNew(q)' /\ StartsFirst(q)' /\ ThreadFits(q)'
    BY <2>1, <2>2, <2>3, <2>4, StillAdds, StillStarts
  <2>. QED BY <1>1, <2>1, <2>2, <2>5, StillOK DEF AllButMaps
<1>. QED BY <1>2, <1>3, <1>4

LEMMA EntryStatus ==
  ASSUME NEW e \in Entry, NEW s \in {0, 1}
  PROVE  LET f == [e EXCEPT !.status = s]
         IN f \in Entry /\ f.map = e.map /\ f.to = e.to
  BY DEF Entry

LEMMA OneNodesMaps ==
  ASSUME TypeOK, NEW n \in Nodes, NEW w \in [DOMAIN maps[n] -> Entry],
         maps' = [maps EXCEPT ![n] = w],
         \A i \in DOMAIN maps[n] : w[i].map = maps[n][i].map /\ w[i].to = maps[n][i].to
  PROVE  /\ SameLists /\ maps' \in [Nodes -> Seq(Entry)]
         /\ \A k \in Nodes \ {n} : maps'[k] = maps[k]
<1>1. maps \in [Nodes -> Seq(Entry)] /\ maps[n] \in Seq(Entry)
  BY DEF TypeOK
<1>2. w \in Seq(Entry)
  BY <1>1
<1>3. maps'[n] = w /\ \A k \in Nodes \ {n} : maps'[k] = maps[k]
  BY <1>1
<1>4. maps' \in [Nodes -> Seq(Entry)]
  BY <1>1, <1>2
<1>5. SameLists
  BY <1>3 DEF SameLists
<1>. QED BY <1>3, <1>4, <1>5

LEMMA StartTableMapKeeps == ASSUME IInv, NEW r \in Requests, StartTableMap(r) PROVE IInv'
<1>1. /\ req[r].stage \in {"start", "dStart"} /\ Handled(r, req[r].stage)
      /\ TypeOK /\ RequestOK(r) /\ mode[Where(r)] = "up"
  BY DEF StartTableMap, Handled, At, IInv
<1>2. AllButMaps
  BY DEF StartTableMap, AllButMaps, mysql, bounds, history
<1>3. PICK n \in Nodes : n = Where(r)
  BY <1>1, RequestFields
<1> DEFINE w == [i \in DOMAIN maps[n] |->
                   IF Same(maps[n][i], Wanted(r)) THEN [maps[n][i] EXCEPT !.status = 1] ELSE maps[n][i]]
<1>4. maps' = [maps EXCEPT ![n] = w] /\ mode[n] = "up"
  BY <1>1, <1>3 DEF StartTableMap
<1>5. /\ w \in [DOMAIN maps[n] -> Entry]
      /\ \A i \in DOMAIN maps[n] : w[i].map = maps[n][i].map /\ w[i].to = maps[n][i].to
  <2>1. maps[n] \in Seq(Entry)
    BY <1>1 DEF TypeOK
  <2>2. \A i \in DOMAIN maps[n] : maps[n][i] \in Entry
    BY <2>1, SeqFacts
  <2>. QED BY <2>2, EntryStatus
<1> HIDE DEF w
<1>6. /\ SameLists /\ maps' \in [Nodes -> Seq(Entry)]
      /\ \A k \in Nodes \ {n} : maps'[k] = maps[k]
  BY <1>1, <1>4, <1>5, OneNodesMaps
<1>7. /\ Moves(r)
      /\ \/ /\ req[r].stage = "start" /\ req'[r].stage \in {"done", "reply"} /\ req'[r].reply = "map"
            /\ req[r].command => req'[r].stage = "done"
         \/ req[r].stage = "dStart" /\ req'[r].stage = "dClients"
  <2>1. \/ req[r].stage = "start" /\ Answer(r, "map")
        \/ req[r].stage = "dStart" /\ Go(r, "dClients")
    BY <1>1 DEF StartTableMap, At
  <2>2. CASE req[r].stage = "start" /\ Answer(r, "map")
    BY <1>1, <2>2, SetAnswer
  <2>3. CASE req[r].stage = "dStart" /\ Go(r, "dClients")
    BY <1>1, <2>3, SetStage DEF Stages, InProgress, TargetStages
  <2>. QED BY <2>1, <2>2, <2>3
<1>8. RequestOK(r)'
  <2>1. Wanted(r)' = Wanted(r) /\ req'[r].command = req[r].command /\ ~req[r].command
    BY <1>1, <1>7, Place DEF RequestOK, Runs, CommandStages, Moves
  <2>2. result'[r] = result[r] /\ had' = had /\ unanswered' = unanswered
    BY <1>2 DEF AllButMaps
  <2>3. CASE req[r].stage = "start" /\ req'[r].stage \in {"done", "reply"}
    <3>1. Wanted(r) \in had[Source[Wanted(r)]]
      BY <1>1, <2>3 DEF RequestOK, Got
    <3>2. Runs(r)' /\ AddsNew(r)' /\ StartsFirst(r)' /\ ThreadFits(r)' /\ MadeReady(r)'
      BY <2>1, <2>3, StageFacts DEF Runs, AddsNew, StartsFirst, ThreadFits, MadeReady, SourceStages
    <3>3. Got(r)'
      <4>1. req'[r].stage \notin {"start"} \cup TargetStages \cup PastTargetMap
        BY <2>3 DEF TargetStages, PastTargetMap
      <4>2. result[r] = "true" /\ r \notin unanswered =>
              Wanted(r) \in had[Source[Wanted(r)]] \cap had[Target[Wanted(r)]]
        BY <1>1 DEF RequestOK, Got
      <4>. QED BY <2>1, <2>2, <3>1, <4>1, <4>2 DEF Got
    <3>4. TenantMet(r)'
      <4>1. "tenantRow" \notin lost => Source[Wanted(r)] \in RecordedTenants
        BY <1>1, <2>3 DEF RequestOK, TenantMet, PastTenant
      <4>. QED BY <1>2, <2>1, <4>1 DEF TenantMet, AllButMaps, RecordedTenants
    <3>. QED BY <3>2, <3>3, <3>4 DEF RequestOK
  <2>4. CASE req[r].stage = "dStart" /\ req'[r].stage = "dClients"
    <3>1. Where(r)' = Where(r) /\ ~Mapped(r)' /\ req[r].stage \in TargetStages
      BY <1>7, <2>4, Place DEF TargetStages, Mapped
    <3>2. Runs(r)'
      BY <1>1, <1>2, <2>1, <3>1 DEF Runs, AllButMaps
    <3>3. AddsNew(r)' /\ StartsFirst(r)' /\ ThreadFits(r)' /\ MadeReady(r)'
      BY <2>4 DEF AddsNew, StartsFirst, ThreadFits, MadeReady, SourceStages
    <3>4. Got(r)'
      BY <1>1, <2>1, <2>2, <2>4, <3>1 DEF RequestOK, Got, PastTargetMap
    <3>5. TenantMet(r)'
      <4>1. "tenantRow" \notin lost => Source[Wanted(r)] \in RecordedTenants
        BY <1>1, <3>1 DEF RequestOK, TenantMet, PastTenant
      <4>. QED BY <1>2, <2>1, <4>1 DEF TenantMet, AllButMaps, RecordedTenants
    <3>. QED BY <3>2, <3>3, <3>4, <3>5 DEF RequestOK
  <2>. QED BY <1>7, <2>3, <2>4
<1>9. NodesOK' /\ TypeOK' /\ \A q \in Requests : req'[q] = req[q] => RequestOK(q)'
  BY <1>2, <1>4, <1>6, <1>7, OtherStatus DEF Moves
<1>10. \A q \in Requests : RequestOK(q)'
  BY <1>7, <1>8, <1>9 DEF Moves
<1>. QED BY <1>9, <1>10 DEF IInv

LEMMA SetStatusKeeps ==
  ASSUME IInv, NEW n \in Nodes, NEW i \in DOMAIN maps[n], NEW s \in {0, 1}, SetStatus(n, i, s)
  PROVE  IInv'
<1>1. /\ TypeOK /\ mode[n] = "up" /\ req' = req
  BY DEF SetStatus, IInv
<1>2. AllButMaps
  BY DEF SetStatus, AllButMaps, mysql, bounds, history
<1> PICK j : j = FirstWithId(n, maps[n][i].id)
  OBVIOUS
<1> DEFINE w == [maps[n] EXCEPT ![j].status = s]
<1>3. maps \in [Nodes -> Seq(Entry)] /\ maps[n] \in Seq(Entry)
  BY <1>1 DEF TypeOK
<1>4. maps' = [maps EXCEPT ![n] = w]
  BY <1>3 DEF SetStatus
<1>5. /\ w \in [DOMAIN maps[n] -> Entry]
      /\ \A k \in DOMAIN maps[n] : w[k].map = maps[n][k].map /\ w[k].to = maps[n][k].to
  <2>1. \A k \in DOMAIN maps[n] : maps[n][k] \in Entry
    BY <1>3, SeqFacts
  <2>2. w = [k \in DOMAIN maps[n] |->
               IF k = j THEN [maps[n][k] EXCEPT !.status = s] ELSE maps[n][k]]
    BY <1>3
  <2> HIDE DEF w
  <2>3. \A k \in DOMAIN maps[n] : w[k] \in Entry
    BY <2>1, <2>2, EntryStatus
  <2>4. \A k \in DOMAIN maps[n] : w[k].map = maps[n][k].map /\ w[k].to = maps[n][k].to
    BY <2>1, <2>2, EntryStatus
  <2>. QED BY <2>2, <2>3, <2>4
<1> HIDE DEF w
<1>6. /\ SameLists /\ maps' \in [Nodes -> Seq(Entry)]
      /\ \A k \in Nodes \ {n} : maps'[k] = maps[k]
  BY <1>1, <1>4, <1>5, OneNodesMaps
<1>7. NodesOK' /\ TypeOK' /\ \A q \in Requests : RequestOK(q)'
  <2>1. req' \in [Requests -> Request]
    BY <1>1 DEF TypeOK
  <2>. QED BY <1>1, <1>2, <1>6, <2>1, OtherStatus
<1>. QED BY <1>7 DEF IInv

-----------------------------------------------------------------------------
\* An entry is added to the maps of n.
LEMMA AppendEntry ==
  ASSUME TypeOK, NEW n \in Nodes, NEW e \in Entry, maps' = [maps EXCEPT ![n] = Append(@, e)]
  PROVE  /\ maps' \in [Nodes -> Seq(Entry)] /\ \A k \in Nodes \ {n} : maps'[k] = maps[k]
         /\ DOMAIN maps'[n] = DOMAIN maps[n] \cup {Len(maps[n]) + 1}
         /\ Len(maps[n]) + 1 \notin DOMAIN maps[n]
         /\ maps'[n][Len(maps[n]) + 1] = e
         /\ \A i \in DOMAIN maps[n] : maps'[n][i] = maps[n][i]
         /\ Held(n)' = Held(n) \cup {e.map}
<1>1. maps \in [Nodes -> Seq(Entry)] /\ maps[n] \in Seq(Entry)
  BY DEF TypeOK
<1>2. PICK s : s = maps[n]
  OBVIOUS
<1>3. s \in Seq(Entry) /\ maps' = [maps EXCEPT ![n] = Append(s, e)]
  BY <1>1, <1>2
<1>4. PICK l \in Nat : l = Len(s)
  BY <1>3, SeqFacts
<1>5. /\ DOMAIN s = 1..l /\ Append(s, e) \in Seq(Entry) /\ DOMAIN Append(s, e) = 1..(l + 1)
      /\ \A i \in 1..l : Append(s, e)[i] = s[i]
      /\ Append(s, e)[l + 1] = e
  BY <1>3, <1>4, SeqFacts
<1>6. 1..(l + 1) = 1..l \cup {l + 1} /\ l + 1 \notin 1..l
  OBVIOUS
<1>7. /\ maps' \in [Nodes -> Seq(Entry)] /\ \A k \in Nodes \ {n} : maps'[k] = maps[k]
      /\ maps'[n] = Append(s, e)
  BY <1>1, <1>3, <1>5
<1>8. Held(n)' = Held(n) \cup {e.map}
  BY <1>2, <1>5, <1>6, <1>7 DEF Held
<1>. QED BY <1>2, <1>4, <1>5, <1>6, <1>7, <1>8

LEMMA AddMapKeeps == ASSUME IInv, NEW r \in Requests, AddMap(r) PROVE IInv'
<1>1. /\ req[r].stage \in {"mapAdd", "dMapAdd"} /\ Handled(r, req[r].stage)
      /\ TypeOK /\ RequestOK(r) /\ NodesOK /\ EntriesOK /\ mode[Where(r)] = "up"
  BY DEF AddMap, Handled, At, IInv, NodesOK
<1>2. /\ deaf' = deaf /\ mode' = mode /\ tenants' = tenants /\ clients' = clients /\ started' = started
      /\ watch' = watch /\ tenantRows' = tenantRows /\ installed' = installed
      /\ skipped' = skipped /\ result' = result /\ restarts' = restarts
      /\ unanswered' = unanswered
  BY DEF AddMap
<1>3. PICK n \in Nodes, m \in Maps : n = Where(r) /\ m = Wanted(r)
  BY <1>1, RequestFields
<1>4. PICK s \in {0, 1} : maps' = [maps EXCEPT ![n] =
        Append(@, [map |-> m, to |-> DTanent(m), id |-> 0, status |-> s])]
  BY <1>3 DEF AddMap, AddedAs
<1> DEFINE e == [map |-> m, to |-> DTanent(m), id |-> 0, status |-> s]
<1>5. e \in Entry /\ e.map = m /\ e.to = Source[m]
  BY MapsAssumption DEF Entry, DTanent
<1>6. maps' = [maps EXCEPT ![n] = Append(@, e)]
  BY <1>4
<1> HIDE DEF e
<1>7. /\ maps' \in [Nodes -> Seq(Entry)] /\ \A k \in Nodes \ {n} : maps'[k] = maps[k]
      /\ DOMAIN maps'[n] = DOMAIN maps[n] \cup {Len(maps[n]) + 1}
      /\ Len(maps[n]) + 1 \notin DOMAIN maps[n]
      /\ maps'[n][Len(maps[n]) + 1] = e
      /\ \A i \in DOMAIN maps[n] : maps'[n][i] = maps[n][i]
      /\ Held(n)' = Held(n) \cup {m}
  BY <1>1, <1>5, <1>6, AppendEntry
<1>8. /\ had' = [had EXCEPT ![n] = @ \cup {m}] /\ mode[n] = "up"
      /\ Go(r, AfterAdd(r))
      /\ raced' = IF MeetsSameMap(r) THEN raced \cup {"map"} ELSE raced
  BY <1>1, <1>3 DEF AddMap
<1>9. \/ mapRows' = Append(mapRows, [map |-> m, to |-> DTanent(m)]) /\ UNCHANGED <<fails, lost>>
      \/ Failed /\ lost' = lost \cup {"mapRow"} /\ UNCHANGED mapRows
  BY <1>3 DEF AddMap
<1>10. /\ mapRows' \in Seq([map: Maps, to: Nodes]) /\ Recorded \subseteq Recorded'
       /\ \A i \in DOMAIN mapRows' : mapRows'[i].to = Source[mapRows'[i].map]
       /\ lost \subseteq lost' /\ lost' \subseteq lost \cup {"mapRow"} /\ fails' \in 0..MaxFails
       /\ "mapRow" \notin lost' => m \in Recorded'
  <2>1. CASE mapRows' = Append(mapRows, [map |-> m, to |-> DTanent(m)]) /\ UNCHANGED <<fails, lost>>
    <3>1. fails' \in 0..MaxFails
      BY <1>1, <2>1 DEF TypeOK
    <3>. QED BY <1>1, <2>1, <3>1, AppendRow
  <2>2. CASE Failed /\ lost' = lost \cup {"mapRow"} /\ UNCHANGED mapRows
    <3>1. mapRows' \in Seq([map: Maps, to: Nodes]) /\ Recorded' = Recorded
      BY <1>1, <2>2 DEF TypeOK, Recorded
    <3>2. \A i \in DOMAIN mapRows' : mapRows'[i].to = Source[mapRows'[i].map]
      BY <1>1, <2>2 DEF EntriesOK
    <3>. QED BY <1>1, <2>2, <3>1, <3>2, FailedFacts
  <2>. QED BY <1>9, <2>1, <2>2
<1>11. /\ had' \in [Nodes -> SUBSET Maps] /\ \A k \in Nodes : had[k] \subseteq had'[k]
       /\ had'[n] = had[n] \cup {m} /\ \A k \in Nodes \ {n} : had'[k] = had[k]
  BY <1>1, <1>8 DEF TypeOK
<1>12. raced \subseteq raced' /\ raced' \subseteq raced \cup {"map"}
  BY <1>8
<1>13. /\ Moves(r)
       /\ \/ req[r].stage = "mapAdd" /\ req'[r].stage = "start"
          \/ req[r].stage = "dMapAdd" /\ req'[r].stage = "dStart"
  <2>1. /\ AfterAdd(r) \in Stages
        /\ \/ req[r].stage = "mapAdd" /\ AfterAdd(r) = "start"
           \/ req[r].stage = "dMapAdd" /\ AfterAdd(r) = "dStart"
    BY <1>1 DEF AfterAdd, At, Stages, InProgress, SourceStages, TargetStages
  <2>. QED BY <1>1, <1>8, <2>1, SetStage
<1>14. /\ Wanted(r)' = Wanted(r) /\ Where(r)' = Where(r) /\ ~Mapped(r)'
       /\ req[r].stage = "mapAdd" => n = Source[m]
       /\ req[r].stage = "dMapAdd" => n = Target[m]
  BY <1>3, <1>13, Place DEF TargetStages, Mapped
<1>15. TypeOK'
  <2>1. raced' \subseteq {"map", "unstarted", "started twice"}
        /\ lost' \subseteq {"mapRow", "tenantRow", "load"}
    BY <1>1, <1>10, <1>12 DEF TypeOK
  <2>. QED BY <1>1, <1>2, <1>7, <1>10, <1>11, <1>13, <2>1 DEF TypeOK, Moves
<1>16. EmptyOK'
  BY <1>1, <1>2, <1>7, <1>8 DEF NodesOK, EmptyOK
<1>17. EntriesOK'
  <2>1. ASSUME NEW k \in Nodes, NEW i \in DOMAIN maps'[k]
        PROVE  maps'[k][i].to = Source[maps'[k][i].map]
    BY <1>1, <1>5, <1>7 DEF EntriesOK
  <2>. QED BY <1>10, <2>1 DEF EntriesOK
<1>18. KeptOK'
  <2>1. \A k \in Nodes \ {n} : Held(k)' = Held(k)
    BY <1>7 DEF Held
  <2>2. \A k \in Nodes : Held(k)' \subseteq had'[k]
    BY <1>1, <1>7, <1>11, <2>1 DEF NodesOK, KeptOK
  <2>3. "mapRow" \notin lost' => \A k \in Nodes : had'[k] \subseteq Recorded'
    BY <1>1, <1>10, <1>11 DEF NodesOK, KeptOK
  <2>. QED BY <2>2, <2>3 DEF KeptOK
<1>19. MapsDistinct'
  <2> SUFFICES ASSUME "map" \notin raced', NEW k \in Nodes, NEW i \in DOMAIN maps'[k],
                      NEW j \in DOMAIN maps'[k], i # j
               PROVE  <<maps'[k][i].map, maps'[k][i].to>> # <<maps'[k][j].map, maps'[k][j].to>>
    BY DEF MapsDistinct
  <2>1. "map" \notin raced
    BY <1>12
  <2>2. CASE k # n
    <3>1. maps'[k] = maps[k]
      BY <1>7, <2>2
    <3>. QED BY <1>1, <2>1, <3>1 DEF NodesOK, MapsDistinct
  <2>3. CASE k = n
    <3>1. \A h \in DOMAIN maps[n] : ~(maps[n][h].map = m /\ maps[n][h].to = Source[m])
      BY <1>1, <1>3, <2>1 DEF RequestOK, AddsNew, IsExistTableMap, Same, DTanent
    <3>2. CASE i \in DOMAIN maps[n] /\ j \in DOMAIN maps[n]
      BY <1>1, <1>7, <2>1, <2>3, <3>2 DEF NodesOK, MapsDistinct
    <3>3. CASE i \in DOMAIN maps[n] /\ j \notin DOMAIN maps[n]
      BY <1>5, <1>7, <2>3, <3>1, <3>3
    <3>4. CASE i \notin DOMAIN maps[n] /\ j \in DOMAIN maps[n]
      BY <1>5, <1>7, <2>3, <3>1, <3>4
    <3>5. CASE i \notin DOMAIN maps[n] /\ j \notin DOMAIN maps[n]
      BY <1>7, <2>3, <3>5
    <3>. QED BY <3>2, <3>3, <3>4, <3>5
  <2>. QED BY <2>2, <2>3
<1>20. NothingForgotten'
  <2> SUFFICES ASSUME lost' \cap {"mapRow", "load"} = {}, NEW k \in Nodes, mode'[k] = "up"
               PROVE  had'[k] \subseteq Held(k)'
    BY DEF NothingForgotten, Held
  <2>1. had[k] \subseteq Held(k)
    BY <1>1, <1>2, <1>10 DEF NodesOK, NothingForgotten, Held
  <2>2. CASE k = n
    BY <1>7, <1>11, <2>1, <2>2
  <2>3. CASE k # n
    BY <1>7, <1>11, <2>1, <2>3 DEF Held
  <2>. QED BY <2>2, <2>3
<1>21. ServedOK'
  <2> SUFFICES ASSUME NEW k \in Nodes, mode'[k] = "up", NEW h \in Held(k)', Source[h] = k,
                      Target[h] = k => MapsKept'
               PROVE  Served(k, h)'
    BY DEF ServedOK
  <2>1. mode[k] = "up" /\ (Target[h] = k => MapsKept)
    BY <1>2, <1>10 DEF MapsKept
  <2>2. Served(k, h) => Served(k, h)'
    BY <1>2, <1>12, StillServed
  <2>3. CASE h \in Held(k)
    BY <1>1, <2>1, <2>2, <2>3 DEF NodesOK, ServedOK
  <2>4. CASE h \notin Held(k)
    <3>1. k = n /\ h = m
      <4>1. k # n => Held(k)' = Held(k)
        BY <1>7 DEF Held
      <4>. QED BY <1>7, <2>4, <4>1
    <3>2. CASE req[r].stage = "mapAdd"
      BY <1>1, <1>3, <2>2, <3>1, <3>2 DEF RequestOK, MadeReady, Served
    <3>3. CASE req[r].stage = "dMapAdd"
      <4>1. MapsKept /\ Target[m] = n /\ Source[m] = n
        BY <1>14, <2>1, <3>1, <3>3
      <4>2. m \in had[n]
        BY <1>1, <1>3, <3>3, <4>1 DEF RequestOK, Got, TargetStages
      <4>3. m \in Held(n)
        BY <1>1, <1>8, <4>1, <4>2 DEF NodesOK, NothingForgotten, MapsKept, Held
      <4>. QED BY <2>4, <3>1, <4>3
    <3>. QED BY <1>1, <3>2, <3>3
  <2>. QED BY <2>3, <2>4
<1>22. NodesOK'
  <2>1. TenantsOK' /\ PasswordsAreRight'
    BY <1>1, <1>2, <1>10 DEF NodesOK, TenantsOK, PasswordsAreRight, Known, RecordedTenants
  <2>2. WatchedAtSource' /\ WatchedOnce'
    BY <1>1, <1>2, <1>12, SameWatch, SameThreads
  <2>. QED BY <1>16, <1>17, <1>18, <1>19, <1>20, <1>21, <2>1, <2>2 DEF NodesOK
<1>23. ASSUME NEW q \in Requests, q # r PROVE RequestOK(q)'
  <2>1. RequestOK(q) /\ AddsNew(q) /\ StartsFirst(q) /\ ThreadFits(q) /\ Where(q) \in Nodes
    BY <1>1, RequestFields DEF IInv, RequestOK
  <2>2. Grows(q) /\ Where(q)' = Where(q) /\ Wanted(q)' = Wanted(q) /\ req'[q] = req[q]
    BY <1>2, <1>10, <1>11, <1>12, <1>13, <1>23, SamePlace DEF Grows, Moves, RecordedTenants
  <2>3. req[q].stage \in {"mapAdd", "dMapAdd"} /\ "map" \notin raced' =>
          (IsExistTableMap(Where(q), Wanted(q))' => IsExistTableMap(Where(q), Wanted(q)))
    <3> SUFFICES ASSUME req[q].stage \in {"mapAdd", "dMapAdd"}, "map" \notin raced',
                        NEW i \in DOMAIN maps'[Where(q)], maps'[Where(q)][i].map = Wanted(q),
                        maps'[Where(q)][i].to = Source[Wanted(q)]
                 PROVE  IsExistTableMap(Where(q), Wanted(q))
      BY <2>2 DEF IsExistTableMap, Same, DTanent
    <3>1. Where(q) # n \/ Wanted(q) # m
      BY <1>3, <1>8, <1>23 DEF MeetsSameMap
    <3>2. i \in DOMAIN maps[Where(q)] /\ maps'[Where(q)][i] = maps[Where(q)][i]
      BY <1>5, <1>7, <2>1, <3>1
    <3>. QED BY <3>2 DEF IsExistTableMap, Same, DTanent
  <2>4. HasThread(Where(q), Where(q))' => HasThread(Where(q), Where(q))
    BY <1>2, <2>2 DEF HasThread
  <2>5. AddsNew(q)' /\ StartsFirst(q)' /\ ThreadFits(q)'
    BY <2>1, <2>2, <2>3, <2>4, StillAdds, StillStarts
  <2>. QED BY <1>1, <1>2, <2>1, <2>2, <2>5, StillOK
<1>24. RequestOK(r)'
  <2>1. Runs(r)'
    <3>1. ~req'[r].command
      BY <1>1, <1>13 DEF RequestOK, Runs, CommandStages, Moves
    <3>. QED BY <1>1, <1>2, <1>14, <3>1 DEF Runs
  <2>2. AddsNew(r)' /\ StartsFirst(r)' /\ ThreadFits(r)'
    BY <1>13 DEF AddsNew, StartsFirst, ThreadFits
  <2>3. MadeReady(r)'
    <3>1. CASE req[r].stage = "mapAdd" /\ req'[r].stage = "start"
      <4>1. Served(n, m)
        BY <1>1, <1>3, <3>1 DEF RequestOK, MadeReady, Served
      <4>2. Served(n, m)'
        BY <1>2, <1>12, <4>1, StillServed
      <4>3. Served(Where(r), Wanted(r))' /\ Where(r)' \in clients'[Where(r)']
        BY <1>3, <1>14, <4>2 DEF Served
      <4>. QED BY <4>3 DEF MadeReady
    <3>2. CASE req'[r].stage = "dStart"
      BY <3>2 DEF MadeReady, SourceStages
    <3>. QED BY <1>13, <3>1, <3>2
  <2>4. m \in had'[n] /\ (req[r].stage = "dMapAdd" => m \in had'[Source[m]])
    <3>1. req[r].stage = "dMapAdd" => m \in had[Source[m]]
      BY <1>1, <1>3 DEF RequestOK, Got, TargetStages
    <3>. QED BY <1>11, <3>1, MapsAssumption
  <2>5. result'[r] = "true" /\ r \notin unanswered' =>
          Wanted(r) \in had'[Source[Wanted(r)]] \cap had'[Target[Wanted(r)]]
    BY <1>1, <1>2, <1>11, <1>13, SameReturn
  <2>6. Got(r)'
    BY <1>3, <1>13, <1>14, <2>4, <2>5 DEF Got, TargetStages, PastTargetMap
  <2>7. TenantMet(r)'
    <3>1. "tenantRow" \notin lost => Source[Wanted(r)] \in RecordedTenants
      BY <1>1 DEF RequestOK, TenantMet, PastTenant, TargetStages
    <3>. QED BY <1>2, <1>10, <1>14, <3>1 DEF TenantMet, RecordedTenants
  <2>. QED BY <2>1, <2>2, <2>3, <2>6, <2>7 DEF RequestOK
<1>. QED BY <1>15, <1>22, <1>23, <1>24 DEF IInv

-----------------------------------------------------------------------------
\* A finite set of numbers has an increasing enumeration: the k-th number is the one with
\* k numbers up to it.
LEMMA Enumeration ==
  ASSUME NEW K \in SUBSET Nat, IsFiniteSet(K)
  PROVE  \E f \in [1..Cardinality(K) -> K] : \A i, j \in DOMAIN f : i < j => f[i] < f[j]
<1> DEFINE c == Cardinality(K)
           UpTo(x) == {y \in K : y <= x}
           rank == [x \in K |-> Cardinality(UpTo(x))]
<1>1. c \in Nat
  BY FS_CardinalityType
<1>2. ASSUME NEW x \in K
      PROVE  IsFiniteSet(UpTo(x)) /\ rank[x] = Cardinality(UpTo(x)) /\ rank[x] \in 1..c
  <2>1. IsFiniteSet(UpTo(x)) /\ Cardinality(UpTo(x)) <= c
    BY FS_Subset
  <2>2. Cardinality(UpTo(x)) \in Nat /\ x \in UpTo(x)
    BY <2>1, FS_CardinalityType
  <2>3. Cardinality(UpTo(x)) # 0
    BY <2>1, <2>2, FS_EmptySet
  <2>. QED BY <1>1, <2>1, <2>2, <2>3
<1>3. ASSUME NEW x \in K, NEW y \in K, x < y
      PROVE  rank[x] < rank[y]
  <2>1. UpTo(x) \in SUBSET UpTo(y) /\ y \in UpTo(y) /\ y \notin UpTo(x)
    <3>1. x \in Nat /\ y \in Nat /\ \A z \in K : z \in Nat
      OBVIOUS
    <3>2. \A z \in K : z <= x => z <= y
      BY <1>3, <3>1
    <3>3. y <= y /\ ~(y <= x)
      BY <1>3, <3>1
    <3>. QED BY <3>2, <3>3
  <2>2. rank[x] <= rank[y] /\ rank[x] # rank[y]
    BY <1>2, <2>1, FS_Subset
  <2>. QED BY <1>1, <1>2, <2>2
<1> HIDE DEF rank, UpTo
<1>4. rank \in Injection(K, 1..c)
  <2>1. rank \in [K -> 1..c]
    BY <1>2 DEF rank
  <2>2. \A x, y \in K : x # y => rank[x] # rank[y]
    <3>1. ASSUME NEW x \in K, NEW y \in K, x # y PROVE rank[x] # rank[y]
      <4>1. x < y \/ y < x
        BY <3>1
      <4>2. rank[x] \in 1..c /\ rank[y] \in 1..c
        BY <1>2
      <4>. QED BY <1>1, <1>3, <4>1, <4>2
    <3>. QED BY <3>1
  <2>. QED BY <2>1, <2>2 DEF Injection, IsInjective
<1>5. IsFiniteSet(1..c) /\ Cardinality(1..c) = c
  BY <1>1, FS_Interval
<1>6. rank \in Surjection(K, 1..c)
  BY <1>4, <1>5, FS_Injection
<1>7. \A k \in 1..c : \E x \in K : rank[x] = k
  BY <1>6 DEF Surjection
<1> DEFINE f == [k \in 1..c |-> CHOOSE x \in K : rank[x] = k]
<1>8. \A k \in 1..c : f[k] \in K /\ rank[f[k]] = k
  BY <1>7
<1>9. f \in [1..c -> K] /\ DOMAIN f = 1..c
  BY <1>8
<1> HIDE DEF f
<1>10. ASSUME NEW i \in 1..c, NEW j \in 1..c, i < j PROVE f[i] < f[j]
  <2>1. f[i] \in K /\ f[j] \in K /\ f[i] \in Nat /\ f[j] \in Nat /\ rank[f[i]] = i /\ rank[f[j]] = j
    BY <1>8
  <2>2. f[j] < f[i] => j < i
    BY <1>3, <2>1
  <2>3. f[i] # f[j]
    BY <1>10, <2>1
  <2>. QED BY <1>10, <2>1, <2>2, <2>3
<1>. QED BY <1>9, <1>10

\* An increasing enumeration reaches the whole set, and nothing twice.
LEMMA Enumerates ==
  ASSUME NEW K \in SUBSET Nat, IsFiniteSet(K), NEW f \in [1..Cardinality(K) -> K],
         \A i, j \in DOMAIN f : i < j => f[i] < f[j]
  PROVE  /\ \A i, j \in DOMAIN f : i # j => f[i] # f[j]
         /\ \A x \in K : \E i \in DOMAIN f : f[i] = x
<1> DEFINE c == Cardinality(K)
<1>1. c \in Nat
  BY FS_CardinalityType
<1>2. ASSUME NEW i \in 1..c, NEW j \in 1..c, i # j PROVE f[i] # f[j]
  <2>1. i < j \/ j < i
    BY <1>2
  <2>2. f[i] \in Nat /\ f[j] \in Nat
    OBVIOUS
  <2>. QED BY <2>1, <2>2
<1>3. f \in Injection(1..c, K)
  BY <1>2 DEF Injection, IsInjective
<1>4. IsFiniteSet(1..c) /\ Cardinality(1..c) = c
  BY <1>1, FS_Interval
<1>5. f \in Surjection(1..c, K)
  BY <1>3, <1>4, FS_Injection
<1>. QED BY <1>2, <1>5 DEF Surjection

\* What a node loads: every recorded map, with its row's place as id, stopped, equal ones once.
LEMMA LoadedFacts ==
  ASSUME TypeOK, EntriesOK
  PROVE  /\ Loaded \in Seq(Entry)
         /\ \A i \in DOMAIN Loaded : Loaded[i].to = Source[Loaded[i].map]
         /\ \A i, j \in DOMAIN Loaded : i # j =>
              <<Loaded[i].map, Loaded[i].to>> # <<Loaded[j].map, Loaded[j].to>>
         /\ {Loaded[i].map : i \in DOMAIN Loaded} = Recorded
<1> DEFINE First(i) == \A j \in 1..(i - 1) : mapRows[j] # mapRows[i]
           K == {i \in DOMAIN mapRows : First(i)}
           c == Cardinality(K)
           index == CHOOSE f \in [1..c -> K] : \A i, j \in DOMAIN f : i < j => f[i] < f[j]
<1>1. /\ mapRows \in Seq([map: Maps, to: Nodes]) /\ Len(mapRows) \in Nat
      /\ DOMAIN mapRows = 1..Len(mapRows)
      /\ \A i \in DOMAIN mapRows : mapRows[i] \in [map: Maps, to: Nodes]
  <2> HIDE DEF index
  <2>1. mapRows \in Seq([map: Maps, to: Nodes])
    BY DEF TypeOK
  <2>. QED BY <2>1, SeqFacts
<1>2. K \in SUBSET Nat /\ IsFiniteSet(K) /\ K \subseteq DOMAIN mapRows
  <2>1. IsFiniteSet(DOMAIN mapRows)
    BY <1>1, FS_Interval
  <2>2. K \in SUBSET DOMAIN mapRows
    OBVIOUS
  <2>3. DOMAIN mapRows \subseteq Nat
    BY <1>1
  <2>. QED BY <2>1, <2>2, <2>3, FS_Subset
<1>3. c \in Nat
  BY <1>2, FS_CardinalityType
<1> HIDE DEF K
<1>4. /\ index \in [1..c -> K] /\ DOMAIN index = 1..c
      /\ \A i, j \in DOMAIN index : i < j => index[i] < index[j]
  BY <1>2, Enumeration
<1> HIDE DEF index
<1>5. /\ \A i, j \in DOMAIN index : i # j => index[i] # index[j]
      /\ \A x \in K : \E i \in DOMAIN index : index[i] = x
  BY <1>2, <1>4, Enumerates
<1>6. Loaded = [k \in DOMAIN index |->
        [map |-> mapRows[index[k]].map, to |-> mapRows[index[k]].to, id |-> index[k], status |-> 0]]
  BY DEF Loaded, index, K
<1>7. ASSUME NEW k \in 1..c
      PROVE  /\ index[k] \in K /\ index[k] \in DOMAIN mapRows /\ index[k] \in Nat
             /\ Loaded[k].map = mapRows[index[k]].map /\ Loaded[k].to = mapRows[index[k]].to
             /\ Loaded[k] \in Entry
  <2>1. index[k] \in K /\ index[k] \in DOMAIN mapRows /\ index[k] \in Nat
    BY <1>2, <1>4
  <2>2. mapRows[index[k]] \in [map: Maps, to: Nodes]
    BY <1>1, <2>1
  <2>. QED BY <1>4, <1>6, <2>1, <2>2 DEF Entry
<1>8. DOMAIN Loaded = 1..c /\ Loaded \in Seq(Entry)
  <2>1. DOMAIN Loaded = 1..c
    BY <1>4, <1>6
  <2>2. Loaded \in [1..c -> Entry]
    BY <1>4, <1>6, <1>7
  <2>. QED BY <1>3, <2>1, <2>2
<1>9. \A i \in DOMAIN Loaded : Loaded[i].to = Source[Loaded[i].map]
  BY <1>7, <1>8 DEF EntriesOK
<1>10. ASSUME NEW x \in DOMAIN mapRows
       PROVE  \E y \in K : mapRows[y] = mapRows[x]
  <2> DEFINE T == {y \in 1..x : mapRows[y] = mapRows[x]}
  <2>1. PICK y \in T : \A z \in T : y <= z
    <3>1. x \in T /\ T \subseteq Nat
      BY <1>1
    <3> HIDE DEF T
    <3>2. PICK y \in T : \A z \in T : <<z, y>> \notin OpToRel(<, Nat)
      BY <3>1, WFMin, NatLessThanWellFounded, Zenon
    <3>3. \A z \in T : ~(z < y)
      BY <3>1, <3>2 DEF OpToRel
    <3>. QED BY <3>1, <3>3
  <2>2. y \in DOMAIN mapRows /\ y \in Nat /\ mapRows[y] = mapRows[x]
    BY <1>1
  <2>3. ASSUME NEW j \in 1..(y - 1) PROVE mapRows[j] # mapRows[y]
    <3>1. j \in 1..x /\ ~(y <= j)
      BY <1>1, <2>1, <2>3
    <3>2. j \notin T
      BY <2>1, <3>1
    <3>. QED BY <2>2, <3>1, <3>2
  <2>4. y \in K
    BY <2>2, <2>3 DEF K
  <2>. QED BY <2>2, <2>4
<1>11. ASSUME NEW x \in K, NEW y \in K, mapRows[x] = mapRows[y]
       PROVE  x = y
  <2>1. x \in Nat /\ y \in Nat /\ First(x) /\ First(y) /\ x \in 1..Len(mapRows) /\ y \in 1..Len(mapRows)
    BY <1>1, <1>2 DEF K
  <2>2. ~(x < y)
    <3>1. x < y => x \in 1..(y - 1)
      BY <2>1
    <3>. QED BY <1>11, <2>1, <3>1
  <2>3. ~(y < x)
    <3>1. y < x => y \in 1..(x - 1)
      BY <2>1
    <3>. QED BY <1>11, <2>1, <3>1
  <2>. QED BY <2>1, <2>2, <2>3
<1>12. ASSUME NEW i \in DOMAIN Loaded, NEW j \in DOMAIN Loaded, i # j
       PROVE  <<Loaded[i].map, Loaded[i].to>> # <<Loaded[j].map, Loaded[j].to>>
  <2>1. index[i] \in K /\ index[j] \in K /\ index[i] # index[j]
    BY <1>4, <1>5, <1>7, <1>8, <1>12
  <2>2. mapRows[index[i]] # mapRows[index[j]]
    BY <1>11, <2>1
  <2>3. /\ mapRows[index[i]] \in [map: Maps, to: Nodes] /\ mapRows[index[j]] \in [map: Maps, to: Nodes]
    BY <1>1, <1>2, <2>1
  <2>4. mapRows[index[i]].map # mapRows[index[j]].map \/ mapRows[index[i]].to # mapRows[index[j]].to
    BY <2>2, <2>3
  <2>. QED BY <1>7, <1>8, <2>4
<1>13. {Loaded[i].map : i \in DOMAIN Loaded} = Recorded
  <2>1. {Loaded[i].map : i \in DOMAIN Loaded} \subseteq Recorded
    BY <1>7, <1>8 DEF Recorded
  <2>2. ASSUME NEW x \in DOMAIN mapRows
        PROVE  \E i \in DOMAIN Loaded : Loaded[i].map = mapRows[x].map
    <3>1. PICK y \in K : mapRows[y] = mapRows[x]
      BY <1>10
    <3>2. PICK i \in DOMAIN index : index[i] = y
      BY <1>5
    <3>. QED BY <1>4, <1>7, <1>8, <3>1, <3>2
  <2>. QED BY <2>1, <2>2 DEF Recorded
<1>. QED BY <1>8, <1>9, <1>12, <1>13

-----------------------------------------------------------------------------
\* A step of the process of node n: other nodes, and MySQL, stay as they are.
OnlyAt(n) ==
  /\ \A k \in Nodes \ {n} :
       /\ mode'[k] = mode[k] /\ maps'[k] = maps[k] /\ tenants'[k] = tenants[k]
       /\ clients'[k] = clients[k] /\ had'[k] = had[k]
       /\ \A db, b : <<k, db, b>> \in started' <=> <<k, db, b>> \in started
       /\ \A b, m : <<k, b, m>> \in watch' <=> <<k, b, m>> \in watch
       /\ \A m : <<k, m>> \in skipped' <=> <<k, m>> \in skipped
  /\ \A k \in Nodes : had[k] \subseteq had'[k]
  /\ mapRows' = mapRows /\ tenantRows' = tenantRows /\ raced' = raced /\ lost \subseteq lost'

LEMMA ServedElsewhere ==
  ASSUME NEW n, OnlyAt(n), NEW k \in Nodes, k # n, NEW m
  PROVE  Served(k, m)' <=> Served(k, m)
<1>1. /\ clients'[k] = clients[k] /\ raced' = raced
      /\ \A b : <<k, k, b>> \in started' <=> <<k, k, b>> \in started
      /\ \A b : <<k, b, m>> \in watch' <=> <<k, b, m>> \in watch
      /\ <<k, m>> \in skipped' <=> <<k, m>> \in skipped
  BY DEF OnlyAt
<1>. QED BY <1>1 DEF Served

\* A request that the process is not handling.
LEMMA Elsewhere ==
  ASSUME TypeOK, NEW n, OnlyAt(n), NEW q \in Requests, RequestOK(q), req'[q] = req[q],
         result'[q] = result[q], unanswered \subseteq unanswered',
         req[q].stage \in InProgress => Where(q) # n
  PROVE  RequestOK(q)'
<1>1. /\ Where(q)' = Where(q) /\ Wanted(q)' = Wanted(q) /\ Mapped(q)' = Mapped(q)
      /\ Where(q) \in Nodes /\ Wanted(q) \in Maps
      /\ Source[Wanted(q)] \in Nodes /\ Target[Wanted(q)] \in Nodes
  BY SamePlace, RequestFields
<1>2. PICK k \in Nodes, m \in Maps : k = Where(q) /\ m = Wanted(q)
  BY <1>1
<1>3. req[q].stage \in InProgress =>
        /\ mode'[k] = mode[k] /\ maps'[k] = maps[k] /\ clients'[k] = clients[k]
        /\ \A b : <<k, k, b>> \in started' <=> <<k, k, b>> \in started
        /\ Served(k, m)' <=> Served(k, m)
  BY <1>2, ServedElsewhere DEF OnlyAt
<1>4. Runs(q)'
  BY <1>1, <1>2, <1>3 DEF RequestOK, Runs
<1>5. AddsNew(q)'
  BY <1>1, <1>2, <1>3 DEF RequestOK, AddsNew, IsExistTableMap, Same, DTanent, InProgress,
    SourceStages, TargetStages, OnlyAt
<1>6. StartsFirst(q)' /\ ThreadFits(q)'
  <2>1. {"newThread", "checkThread", "startThread", "isExist", "watch"} \subseteq InProgress
    BY DEF InProgress, SourceStages
  <2>2. req[q].stage \in InProgress => (HasThread(k, k)' <=> HasThread(k, k))
    BY <1>3 DEF HasThread
  <2>3. HasThread(Where(q), Where(q))' <=> HasThread(k, k)'
    BY <1>1, <1>2 DEF HasThread
  <2>4. raced' = raced
    BY DEF OnlyAt
  <2>5. StartsFirst(q)'
    BY <1>1, <1>2, <2>1, <2>2, <2>3, <2>4 DEF RequestOK, StartsFirst
  <2>6. req[q].stage \in {"isExist", "watch"} /\ "unstarted" \notin raced =>
          <<Where(q), Where(q), req[q].thread>>' \in started'
    BY <1>1, <1>2, <1>3, <2>1 DEF RequestOK, ThreadFits
  <2>7. ThreadFits(q)'
    BY <1>2, <2>1, <2>2, <2>3, <2>4, <2>6 DEF RequestOK, ThreadFits
  <2>. QED BY <2>5, <2>7
<1>7. MadeReady(q)'
  <2>1. SourceStages \subseteq InProgress
        /\ {"tenant", "tenantAdd", "map", "mapAdd", "start"} \subseteq InProgress
    BY DEF InProgress, SourceStages
  <2>2. Served(Where(q), Wanted(q))' <=> Served(k, m)'
    BY <1>1, <1>2 DEF Served
  <2>. QED BY <1>1, <1>2, <1>3, <2>1, <2>2 DEF RequestOK, MadeReady
<1>8. Got(q)' /\ TenantMet(q)'
  BY <1>1 DEF RequestOK, Got, TenantMet, OnlyAt, RecordedTenants
<1>. QED BY <1>4, <1>5, <1>6, <1>7, <1>8 DEF RequestOK

\* What other nodes have stays in order.
LEMMA NodesElsewhere ==
  ASSUME TypeOK, NodesOK, NEW n \in Nodes, OnlyAt(n), NEW k \in Nodes, k # n
  PROVE  /\ mode'[k] \in {"down", "loading"} =>
              /\ maps'[k] = << >> /\ clients'[k] = {}
              /\ \A b, x : <<k, x, b>> \notin started' /\ <<k, b, x>> \notin watch'
         /\ mode'[k] = "down" => tenants'[k] = {}
         /\ \A i \in DOMAIN maps'[k] : maps'[k][i].to = Source[maps'[k][i].map]
         /\ Held(k)' = Held(k)
         /\ mode'[k] = "up" => \A m \in Held(k) :
              Source[m] = k /\ (Target[m] = k => MapsKept') => Served(k, m)'
         /\ mode'[k] = "up" /\ MapsKept' => had'[k] \subseteq Held(k)
<1>1. /\ mode'[k] = mode[k] /\ maps'[k] = maps[k] /\ tenants'[k] = tenants[k]
      /\ clients'[k] = clients[k] /\ had'[k] = had[k] /\ lost \subseteq lost'
      /\ \A b, x : <<k, x, b>> \in started' <=> <<k, x, b>> \in started
      /\ \A b, x : <<k, b, x>> \in watch' <=> <<k, b, x>> \in watch
  BY DEF OnlyAt
<1>2. mode[k] \in {"down", "loading"} =>
        /\ maps[k] = << >> /\ clients[k] = {}
        /\ \A b, x : <<k, x, b>> \notin started /\ <<k, b, x>> \notin watch
  <2>1. \A b, x : <<k, x, b>>[1] = k /\ <<k, b, x>>[1] = k
    OBVIOUS
  <2>. QED BY <2>1 DEF NodesOK, EmptyOK
<1>3. mode[k] = "down" => tenants[k] = {}
  BY DEF NodesOK, EmptyOK
<1>4. Held(k)' = Held(k)
  BY <1>1 DEF Held
<1>5. MapsKept' => MapsKept
  BY <1>1 DEF MapsKept
<1>6. mode'[k] = "up" => \A m \in Held(k) :
        Source[m] = k /\ (Target[m] = k => MapsKept') => Served(k, m)'
  BY <1>1, <1>5, ServedElsewhere DEF NodesOK, ServedOK
<1>7. mode'[k] = "up" /\ MapsKept' => had'[k] \subseteq Held(k)
  BY <1>1, <1>5 DEF NodesOK, NothingForgotten, MapsKept, Held
<1>8. \A i \in DOMAIN maps'[k] : maps'[k][i].to = Source[maps'[k][i].map]
  BY <1>1 DEF NodesOK, EntriesOK
<1>. QED BY <1>1, <1>2, <1>3, <1>4, <1>6, <1>7, <1>8

-----------------------------------------------------------------------------
LEMMA CrashKeeps == ASSUME IInv, NEW n \in Nodes, Crash(n) PROVE IInv'
<1> DEFINE broken == {r \in Requests : Where(r) = n /\ req[r].stage \in InProgress}
           silent == {r \in broken : req[r].stage \in TargetStages}
<1>1. TypeOK /\ NodesOK
  BY DEF IInv
<1>2. /\ restarts < MaxRestarts /\ restarts' = restarts + 1
      /\ mode' = [mode EXCEPT ![n] = "down"] /\ maps' = [maps EXCEPT ![n] = << >>]
      /\ tenants' = [tenants EXCEPT ![n] = {}] /\ clients' = [clients EXCEPT ![n] = {}]
      /\ deaf' = {x \in deaf : x[1] # n}
      /\ started' = {x \in started : x[1] # n} /\ watch' = {x \in watch : x[1] # n}
  BY DEF Crash
<1>3. /\ installed' = installed /\ mapRows' = mapRows /\ tenantRows' = tenantRows
      /\ fails' = fails /\ had' = had /\ raced' = raced /\ lost' = lost /\ skipped' = skipped
  BY DEF Crash, mysql
<1>4. /\ req' = [r \in Requests |->
           IF r \notin broken THEN req[r]
           ELSE IF req[r].stage \in TargetStages THEN [req[r] EXCEPT !.stage = "done"]
           ELSE [req[r] EXCEPT !.reply = IF req[r].command THEN "none" ELSE "garbage",
                               !.stage = IF req[r].command THEN "done" ELSE "reply"]]
      /\ result' = [r \in Requests |-> IF r \in silent THEN "true" ELSE result[r]]
      /\ unanswered' = unanswered \cup silent
  BY DEF Crash, InProgress
<1> HIDE DEF broken
<1>5. ASSUME NEW r \in Requests, r \in broken
      PROVE  /\ req'[r] \in Request /\ req'[r].map = req[r].map
             /\ req'[r].command = req[r].command
             /\ req'[r].stage \in {"done", "reply"}
             /\ req[r].command => req'[r].stage = "done"
             /\ req'[r].stage = "reply" => req'[r].reply # "map"
  <2>1. req[r] \in Request /\ Runs(r)
    BY <1>1, RequestFields DEF IInv, RequestOK
  <2>2. CASE req[r].stage \in TargetStages
    <3>1. req'[r] = [req[r] EXCEPT !.stage = "done"]
      BY <1>4, <1>5, <2>2
    <3>. QED BY <2>1, <3>1 DEF Request
  <2>3. CASE req[r].stage \notin TargetStages
    <3>1. req'[r] = [req[r] EXCEPT !.reply = IF req[r].command THEN "none" ELSE "garbage",
                                   !.stage = IF req[r].command THEN "done" ELSE "reply"]
      BY <1>4, <1>5, <2>3
    <3>. QED BY <2>1, <3>1 DEF Request
  <2>. QED BY <2>2, <2>3
<1>6. ASSUME NEW r \in Requests, r \notin broken
      PROVE  req'[r] = req[r] /\ result'[r] = result[r]
  BY <1>4, <1>6
<1>7. OnlyAt(n)
  <2>1. ASSUME NEW k \in Nodes, k # n
        PROVE  /\ mode'[k] = mode[k] /\ maps'[k] = maps[k] /\ tenants'[k] = tenants[k]
               /\ clients'[k] = clients[k] /\ had'[k] = had[k]
               /\ \A db, b : <<k, db, b>> \in started' <=> <<k, db, b>> \in started
               /\ \A b, m : <<k, b, m>> \in watch' <=> <<k, b, m>> \in watch
    BY <1>1, <1>2, <1>3, <2>1 DEF TypeOK
  <2>. QED BY <1>3, <2>1 DEF OnlyAt
<1>8. /\ mode' \in [Nodes -> {"up", "down", "loading", "half"}] /\ mode'[n] = "down"
      /\ maps' \in [Nodes -> Seq(Entry)] /\ maps'[n] = << >>
      /\ tenants' \in [Nodes -> SUBSET (Nodes \X Nodes)] /\ tenants'[n] = {}
      /\ clients' \in [Nodes -> SUBSET Nodes] /\ clients'[n] = {}
      /\ started' \subseteq started /\ watch' \subseteq watch
      /\ \A x \in started' \cup watch' : x[1] # n
      /\ Held(n)' = {}
  <2>1. << >> \in Seq(Entry) /\ DOMAIN << >> = {}
    OBVIOUS
  <2>2. mode' \in [Nodes -> {"up", "down", "loading", "half"}] /\ mode'[n] = "down"
    BY <1>1, <1>2 DEF TypeOK
  <2>3. maps' \in [Nodes -> Seq(Entry)] /\ maps'[n] = << >>
    BY <1>1, <1>2, <2>1 DEF TypeOK
  <2>4. /\ tenants' \in [Nodes -> SUBSET (Nodes \X Nodes)] /\ tenants'[n] = {}
        /\ clients' \in [Nodes -> SUBSET Nodes] /\ clients'[n] = {}
    BY <1>1, <1>2 DEF TypeOK
  <2>. QED BY <1>2, <2>1, <2>2, <2>3, <2>4 DEF Held
<1>9. TypeOK'
  <2>1. req' \in [Requests -> Request]
    BY <1>1, <1>4, <1>5, <1>6 DEF TypeOK
  <2>2. /\ result' \in [Requests -> {"none", "true", "false"}] /\ unanswered' \subseteq Requests
    BY <1>1, <1>4 DEF TypeOK, broken
  <2>3. restarts' \in 0..MaxRestarts
    <3>1. restarts \in 0..MaxRestarts /\ MaxRestarts \in Nat
      BY <1>1, MapsAssumption DEF TypeOK
    <3>. QED BY <1>2, <3>1
  <2>4. deaf' \subseteq Nodes \X Nodes \X Makers
    BY <1>1, <1>2 DEF TypeOK
  <2>. QED BY <1>1, <1>3, <1>8, <2>1, <2>2, <2>3, <2>4 DEF TypeOK
<1>10. NodesOK'
  <2>1. EmptyOK'
    <3>1. ASSUME NEW k \in Nodes, mode'[k] \in {"down", "loading"}
          PROVE  maps'[k] = << >> /\ clients'[k] = {} /\ \A x \in started' \cup watch' : x[1] # k
      <4>1. CASE k = n
        BY <1>8, <4>1
      <4>2. CASE k # n
        <5>1. mode[k] = mode'[k] /\ maps'[k] = maps[k] /\ clients'[k] = clients[k]
          BY <1>7, <4>2 DEF OnlyAt
        <5>. QED BY <1>1, <1>8, <3>1, <5>1 DEF NodesOK, EmptyOK
      <4>. QED BY <4>1, <4>2
    <3>2. ASSUME NEW k \in Nodes, mode'[k] = "down" PROVE tenants'[k] = {}
      BY <1>1, <1>7, <1>8, <3>2, NodesElsewhere
    <3>. QED BY <3>1, <3>2 DEF EmptyOK
  <2>2. EntriesOK'
    <3>1. \A k \in Nodes : \A i \in DOMAIN maps'[k] : maps'[k][i].to = Source[maps'[k][i].map]
      BY <1>1, <1>7, <1>8, NodesElsewhere
    <3>. QED BY <1>1, <1>3, <3>1 DEF NodesOK, EntriesOK
  <2>3. KeptOK'
    <3>1. \A k \in Nodes : Held(k)' \subseteq Held(k)
      BY <1>1, <1>7, <1>8, NodesElsewhere
    <3>. QED BY <1>1, <1>3, <3>1 DEF NodesOK, KeptOK, Recorded
  <2>4. TenantsOK'
    <3>1. \A k \in Nodes : tenants'[k] \subseteq tenants[k]
      BY <1>7, <1>8 DEF OnlyAt
    <3>. QED BY <1>1, <1>3, <3>1 DEF NodesOK, TenantsOK, Known, RecordedTenants
  <2>5. ServedOK'
    <3>1. ASSUME NEW k \in Nodes, mode'[k] = "up", NEW m \in Held(k)', Source[m] = k,
                 Target[m] = k => MapsKept'
          PROVE  Served(k, m)'
      BY <1>1, <1>7, <1>8, <3>1, NodesElsewhere
    <3>. QED BY <3>1 DEF ServedOK
  <2>6. MapsDistinct' /\ WatchedOnce' /\ WatchedAtSource'
    <3>1. \A k \in Nodes : maps'[k] = maps[k] \/ maps'[k] = << >>
      BY <1>7, <1>8 DEF OnlyAt
    <3>2. DOMAIN << >> = {}
      OBVIOUS
    <3>3. MapsDistinct'
      BY <1>1, <1>3, <3>1, <3>2 DEF NodesOK, MapsDistinct
    <3>. QED BY <1>1, <1>3, <1>8, <3>3 DEF NodesOK, WatchedOnce, WatchedAtSource
  <2>7. NothingForgotten'
    <3>1. ASSUME NEW k \in Nodes, mode'[k] = "up", MapsKept' PROVE had'[k] \subseteq Held(k)'
      BY <1>1, <1>7, <1>8, <3>1, NodesElsewhere
    <3>. QED BY <3>1 DEF NothingForgotten, MapsKept, Held
  <2>8. PasswordsAreRight'
    BY <1>1, <1>3 DEF NodesOK, PasswordsAreRight
  <2>. QED BY <2>1, <2>2, <2>3, <2>4, <2>5, <2>6, <2>7, <2>8 DEF NodesOK
<1>11. ASSUME NEW r \in Requests PROVE RequestOK(r)'
  <2>1. RequestOK(r) /\ unanswered \subseteq unanswered'
    BY <1>4 DEF IInv
  <2>2. CASE r \notin broken
    <3>1. req[r].stage \in InProgress => Where(r) # n
      BY <2>2 DEF broken
    <3>. QED BY <1>1, <1>6, <1>7, <2>1, <2>2, <3>1, Elsewhere
  <2>3. CASE r \in broken
    <3>1. ASSUME result'[r] = "true", r \notin unanswered'
          PROVE  Wanted(r) \in had'[Source[Wanted(r)]] \cap had'[Target[Wanted(r)]]
      <4>1. result[r] = "true" /\ r \notin unanswered
        BY <1>4, <3>1
      <4>. QED BY <1>3, <2>1, <4>1 DEF RequestOK, Got
    <3>. QED BY <1>1, <1>5, <2>3, <3>1, Stopped
  <2>. QED BY <2>2, <2>3
<1>. QED BY <1>9, <1>10, <1>11 DEF IInv

LEMMA LoadTenantsKeeps == ASSUME IInv, NEW n \in Nodes, LoadTenants(n) PROVE IInv'
<1> DEFINE rows == {<<tenantRows[i][1], tenantRows[i][2]>> : i \in
                     {i \in DOMAIN tenantRows :
                        \A j \in 1..(i - 1) : tenantRows[j][1] # tenantRows[i][1]}}
<1>1. TypeOK /\ NodesOK
  BY DEF IInv
<1>2. /\ mode[n] = "down" /\ mode' = [mode EXCEPT ![n] = "loading"]
      /\ \/ tenants' = [tenants EXCEPT ![n] = rows] /\ UNCHANGED <<fails, lost>>
         \/ Failed /\ lost' = lost \cup {"load"} /\ UNCHANGED tenants
  BY DEF LoadTenants
<1>3. /\ deaf' = deaf /\ maps' = maps /\ clients' = clients /\ started' = started /\ watch' = watch
      /\ installed' = installed /\ mapRows' = mapRows /\ tenantRows' = tenantRows
      /\ req' = req /\ result' = result /\ restarts' = restarts /\ had' = had
      /\ raced' = raced /\ unanswered' = unanswered /\ skipped' = skipped
  BY DEF LoadTenants, mysql
<1>4. /\ rows \in SUBSET (Nodes \X Nodes)
      /\ \A t \in rows : t[1] \in RecordedTenants
  <2>1. \A i \in DOMAIN tenantRows : tenantRows[i] \in Nodes \X Nodes
    <3>1. tenantRows \in Seq(Nodes \X Nodes)
      BY <1>1 DEF TypeOK
    <3>. QED BY <3>1, SeqFacts
  <2>2. \A i \in DOMAIN tenantRows :
          <<tenantRows[i][1], tenantRows[i][2]>> \in Nodes \X Nodes
    BY <2>1
  <2>. QED BY <2>2 DEF RecordedTenants
<1> HIDE DEF rows
<1>5. /\ mode' \in [Nodes -> {"up", "down", "loading", "half"}] /\ mode'[n] = "loading"
      /\ tenants' \in [Nodes -> SUBSET (Nodes \X Nodes)]
      /\ \A k \in Nodes \ {n} : mode'[k] = mode[k] /\ tenants'[k] = tenants[k]
      /\ tenants'[n] = rows \/ tenants'[n] = tenants[n]
  BY <1>1, <1>2, <1>4 DEF TypeOK
<1>6. /\ lost \subseteq lost' /\ lost' \subseteq {"mapRow", "tenantRow", "load"}
      /\ "tenantRow" \in lost => "tenantRow" \in lost'
      /\ "mapRow" \in lost => "mapRow" \in lost'
      /\ fails' \in 0..MaxFails
  BY <1>1, <1>2, FailedFacts DEF TypeOK
<1>7. OnlyAt(n)
  BY <1>3, <1>5, <1>6 DEF OnlyAt
<1>8. TypeOK'
  BY <1>1, <1>3, <1>5, <1>6 DEF TypeOK
<1>9. NodesOK'
  <2>1. EmptyOK'
    BY <1>1, <1>2, <1>3, <1>5 DEF NodesOK, EmptyOK
  <2>2. EntriesOK' /\ MapsDistinct' /\ WatchedOnce' /\ WatchedAtSource'
    <3>1. EntriesOK /\ MapsDistinct
      BY <1>1 DEF NodesOK
    <3>2. EntriesOK' /\ MapsDistinct'
      BY <1>3, <3>1 DEF EntriesOK, MapsDistinct
    <3>. QED BY <1>1, <1>3, <3>2, SameThreads, SameWatch
  <2>3. KeptOK'
    BY <1>1, <1>3, <1>6 DEF NodesOK, KeptOK, Held, Recorded
  <2>4. TenantsOK'
    <3> SUFFICES ASSUME "tenantRow" \notin lost', NEW k \in Nodes, NEW db \in Nodes,
                        NEW p \in Nodes, <<db, p>> \in tenants'[k]
                 PROVE  db \in RecordedTenants
      BY <1>3 DEF TenantsOK, Known, RecordedTenants
    <3>1. CASE <<db, p>> \in tenants[k]
      BY <1>1, <1>6, <3>1 DEF NodesOK, TenantsOK, Known
    <3>2. CASE <<db, p>> \notin tenants[k]
      <4>1. <<db, p>> \in rows
        BY <1>5, <3>2
      <4>2. <<db, p>>[1] \in RecordedTenants
        BY <1>4, <4>1
      <4>. QED BY <4>2
    <3>. QED BY <3>1, <3>2
  <2>5. ServedOK'
    <3>1. ASSUME NEW k \in Nodes, mode'[k] = "up", NEW m \in Held(k)', Source[m] = k,
                 Target[m] = k => MapsKept'
          PROVE  Served(k, m)'
      BY <1>1, <1>5, <1>7, <3>1, NodesElsewhere
    <3>. QED BY <3>1 DEF ServedOK
  <2>6. NothingForgotten'
    <3>1. ASSUME NEW k \in Nodes, mode'[k] = "up", MapsKept' PROVE had'[k] \subseteq Held(k)'
      BY <1>1, <1>5, <1>7, <3>1, NodesElsewhere
    <3>. QED BY <3>1 DEF NothingForgotten, MapsKept, Held
  <2>7. PasswordsAreRight'
    BY <1>1, <1>3, <1>6 DEF NodesOK, PasswordsAreRight
  <2>. QED BY <2>1, <2>2, <2>3, <2>4, <2>5, <2>6, <2>7 DEF NodesOK
<1>10. ASSUME NEW q \in Requests PROVE RequestOK(q)'
  <2>1. RequestOK(q) /\ req'[q] = req[q] /\ result'[q] = result[q] /\ unanswered \subseteq unanswered'
    BY <1>3 DEF IInv
  <2>2. req[q].stage \in InProgress => Where(q) # n
    BY <1>2, <2>1 DEF RequestOK, Runs
  <2>. QED BY <1>1, <1>7, <2>1, <2>2, Elsewhere
<1>. QED BY <1>8, <1>9, <1>10 DEF IInv

\* A start that has not read the maps.
LEMMA LoadFailsKeeps ==
  ASSUME IInv, NEW n \in Nodes, mode[n] = "loading", Failed, lost' = lost \cup {"load"},
         mode' = [mode EXCEPT ![n] = "up"],
         UNCHANGED <<maps, clients, started, deaf, watch, installed, had, skipped>>,
         UNCHANGED <<tenants, mysql, req, result, restarts, raced, unanswered>>
  PROVE  IInv'
<1>1. TypeOK /\ NodesOK
  BY DEF IInv
<1>2. /\ deaf' = deaf /\ maps' = maps /\ clients' = clients /\ started' = started /\ watch' = watch
      /\ installed' = installed /\ mapRows' = mapRows /\ tenantRows' = tenantRows
      /\ req' = req /\ result' = result /\ restarts' = restarts /\ had' = had
      /\ raced' = raced /\ unanswered' = unanswered /\ skipped' = skipped /\ tenants' = tenants
  BY DEF mysql
<1>3. /\ mode' \in [Nodes -> {"up", "down", "loading", "half"}] /\ mode'[n] = "up"
      /\ \A k \in Nodes \ {n} : mode'[k] = mode[k]
      /\ lost \subseteq lost' /\ lost' \subseteq {"mapRow", "tenantRow", "load"}
      /\ fails' \in 0..MaxFails /\ ~MapsKept'
  BY <1>1, FailedFacts DEF TypeOK, MapsKept
<1>4. OnlyAt(n)
  BY <1>2, <1>3 DEF OnlyAt
<1>5. Held(n)' = {}
  <2>1. maps[n] = << >>
    BY <1>1 DEF NodesOK, EmptyOK
  <2>. QED BY <1>2, <2>1 DEF Held
<1>6. TypeOK'
  BY <1>1, <1>2, <1>3 DEF TypeOK
<1>7. NodesOK'
  <2>1. EmptyOK'
    BY <1>1, <1>2, <1>3 DEF NodesOK, EmptyOK
  <2>2. EntriesOK' /\ MapsDistinct' /\ WatchedOnce' /\ WatchedAtSource'
    <3>1. EntriesOK /\ MapsDistinct
      BY <1>1 DEF NodesOK
    <3>2. EntriesOK' /\ MapsDistinct'
      BY <1>2, <3>1 DEF EntriesOK, MapsDistinct
    <3>. QED BY <1>1, <1>2, <3>2, SameThreads, SameWatch
  <2>3. KeptOK'
    BY <1>1, <1>2, <1>3 DEF NodesOK, KeptOK, Held, Recorded
  <2>4. TenantsOK' /\ PasswordsAreRight'
    BY <1>1, <1>2, <1>3 DEF NodesOK, TenantsOK, PasswordsAreRight, Known, RecordedTenants
  <2>5. ServedOK'
    <3>1. ASSUME NEW k \in Nodes, mode'[k] = "up", NEW m \in Held(k)', Source[m] = k,
                 Target[m] = k => MapsKept'
          PROVE  Served(k, m)'
      BY <1>1, <1>4, <1>5, <3>1, NodesElsewhere
    <3>. QED BY <3>1 DEF ServedOK
  <2>6. NothingForgotten'
    BY <1>3 DEF NothingForgotten, MapsKept
  <2>. QED BY <2>1, <2>2, <2>3, <2>4, <2>5, <2>6 DEF NodesOK
<1>8. ASSUME NEW q \in Requests PROVE RequestOK(q)'
  <2>1. RequestOK(q) /\ req'[q] = req[q] /\ result'[q] = result[q] /\ unanswered \subseteq unanswered'
    BY <1>2 DEF IInv
  <2>2. req[q].stage \in InProgress => Where(q) # n
    BY <2>1 DEF RequestOK, Runs
  <2>. QED BY <1>1, <1>4, <2>1, <2>2, Elsewhere
<1>. QED BY <1>6, <1>7, <1>8 DEF IInv

\* A start that has, and gone through those at the places good.
LEMMA LoadedKeeps ==
  ASSUME IInv, NEW n \in Nodes, mode[n] = "loading",
         NEW list \in Seq(Entry), \A i \in DOMAIN list : list[i].to = Source[list[i].map],
         \A i, j \in DOMAIN list : i # j => <<list[i].map, list[i].to>> # <<list[j].map, list[j].to>>,
         {list[i].map : i \in DOMAIN list} = Recorded,
         NEW good \in SUBSET DOMAIN list, NEW on \in SUBSET DOMAIN list, good \subseteq on,
         NEW put \in SUBSET DOMAIN list, deaf \subseteq deaf', deaf' \subseteq deaf \cup started',
         NEW w \in {"up", "half"}, Failed \/ UNCHANGED fails,
         mode' = [mode EXCEPT ![n] = w],
         maps' = [maps EXCEPT ![n] = list],
         clients' = [clients EXCEPT ![n] = {list[i].to : i \in DOMAIN list}],
         started' = started \cup {<<n, Source[list[i].map], "init">> : i \in on},
         watch' = watch \cup {<<n, "init", list[i].map>> : i \in good},
         installed' = installed \cup {list[i].map : i \in put},
         had' = [had EXCEPT ![n] = @ \cup {list[i].map : i \in DOMAIN list}],
         skipped' = {x \in skipped : x[1] # n} \cup {<<n, list[i].map>> : i \in DOMAIN list \ good},
         UNCHANGED <<tenants, mysql, req, result, restarts, raced, lost, unanswered>>
  PROVE  IInv'
<1>1. TypeOK /\ NodesOK
  BY DEF IInv
<1>2. /\ mapRows' = mapRows /\ tenantRows' = tenantRows /\ req' = req /\ result' = result
      /\ restarts' = restarts /\ raced' = raced /\ unanswered' = unanswered
      /\ tenants' = tenants /\ lost' = lost
  BY DEF mysql
<1>3. \A i \in DOMAIN list : /\ list[i].map \in Maps /\ list[i].to \in Nodes
                             /\ Source[list[i].map] \in Nodes
  <2>1. \A i \in DOMAIN list : list[i] \in Entry
    BY SeqFacts
  <2>. QED BY <2>1, MapsAssumption DEF Entry
<1>4. /\ mode' \in [Nodes -> {"up", "down", "loading", "half"}] /\ mode'[n] = w
      /\ \A k \in Nodes \ {n} : mode'[k] = mode[k]
  BY <1>1 DEF TypeOK
<1>5. /\ maps' \in [Nodes -> Seq(Entry)] /\ maps'[n] = list
      /\ \A k \in Nodes \ {n} : maps'[k] = maps[k]
  BY <1>1 DEF TypeOK
<1>6. /\ clients' \in [Nodes -> SUBSET Nodes] /\ clients'[n] = {list[i].to : i \in DOMAIN list}
      /\ \A k \in Nodes \ {n} : clients'[k] = clients[k]
  <2>1. {list[i].to : i \in DOMAIN list} \in SUBSET Nodes
    BY <1>3
  <2>. QED BY <1>1, <2>1 DEF TypeOK
<1>7. /\ had' \in [Nodes -> SUBSET Maps] /\ had'[n] = had[n] \cup Recorded
      /\ \A k \in Nodes \ {n} : had'[k] = had[k]
  <2>1. Recorded \in SUBSET Maps
    BY <1>3
  <2>. QED BY <1>1, <2>1 DEF TypeOK
<1>8. /\ started' \subseteq Nodes \X Nodes \X Makers /\ deaf' \subseteq Nodes \X Nodes \X Makers
      /\ watch' \subseteq Nodes \X Makers \X Maps
      /\ installed' \subseteq Maps /\ skipped' \subseteq Nodes \X Maps
  <2>1. \A i \in DOMAIN list : /\ <<n, Source[list[i].map], "init">> \in Nodes \X Nodes \X Makers
                               /\ <<n, "init", list[i].map>> \in Nodes \X Makers \X Maps
                               /\ <<n, list[i].map>> \in Nodes \X Maps
    BY <1>3 DEF Makers
  <2>2. /\ started \subseteq Nodes \X Nodes \X Makers /\ watch \subseteq Nodes \X Makers \X Maps
        /\ deaf \subseteq Nodes \X Nodes \X Makers /\ installed \subseteq Maps /\ skipped \subseteq Nodes \X Maps
    BY <1>1 DEF TypeOK
  <2>3. {<<n, Source[list[i].map], "init">> : i \in on} \subseteq Nodes \X Nodes \X Makers
    BY <2>1
  <2>4. {<<n, "init", list[i].map>> : i \in good} \subseteq Nodes \X Makers \X Maps
    BY <2>1
  <2>5. {list[i].map : i \in put} \subseteq Maps
    BY <1>3
  <2>6. {<<n, list[i].map>> : i \in DOMAIN list \ good} \subseteq Nodes \X Maps
    BY <2>1
  <2>. QED BY <2>2, <2>3, <2>4, <2>5, <2>6
<1>9. TypeOK'
  <2>1. fails' \in 0..MaxFails
    BY <1>1, FailedFacts
  <2>2. /\ tenants' \in [Nodes -> SUBSET (Nodes \X Nodes)]
        /\ mapRows' \in Seq([map: Maps, to: Nodes]) /\ tenantRows' \in Seq(Nodes \X Nodes)
        /\ req' \in [Requests -> Request] /\ result' \in [Requests -> {"none", "true", "false"}]
        /\ restarts' \in 0..MaxRestarts /\ raced' \subseteq {"map", "unstarted", "started twice"}
        /\ lost' \subseteq {"mapRow", "tenantRow", "load"} /\ unanswered' \subseteq Requests
    BY <1>1, <1>2 DEF TypeOK
  <2>. QED BY <1>4, <1>5, <1>6, <1>7, <1>8, <2>1, <2>2, Zenon DEF TypeOK
<1>10. OnlyAt(n)
  <2>1. ASSUME NEW k \in Nodes, k # n
        PROVE  /\ \A db, b : <<k, db, b>> \in started' <=> <<k, db, b>> \in started
               /\ \A b, m : <<k, b, m>> \in watch' <=> <<k, b, m>> \in watch
               /\ \A m : <<k, m>> \in skipped' <=> <<k, m>> \in skipped
    BY <2>1
  <2>. QED BY <1>2, <1>4, <1>5, <1>6, <1>7, <2>1 DEF OnlyAt
<1>11. Held(n)' = Recorded
  BY <1>5 DEF Held
<1>12. \A x \in started \cup watch : x[1] # n
  BY <1>1 DEF NodesOK, EmptyOK
<1>13. EmptyOK'
  <2>1. ASSUME NEW k \in Nodes, mode'[k] \in {"down", "loading"}
        PROVE  maps'[k] = << >> /\ clients'[k] = {} /\ \A x \in started' \cup watch' : x[1] # k
    <3>1. k # n
      BY <1>4, <2>1
    <3>2. /\ maps[k] = << >> /\ clients[k] = {} /\ \A x \in started \cup watch : x[1] # k
      BY <1>1, <1>4, <2>1, <3>1 DEF NodesOK, EmptyOK
    <3>3. \A x \in started' \cup watch' : x \in started \cup watch \/ x[1] = n
      OBVIOUS
    <3>. QED BY <1>5, <1>6, <3>1, <3>2, <3>3
  <2>2. ASSUME NEW k \in Nodes, mode'[k] = "down" PROVE tenants'[k] = {}
    BY <1>1, <1>2, <1>4, <2>2 DEF NodesOK, EmptyOK
  <2>. QED BY <2>1, <2>2 DEF EmptyOK
<1>14. EntriesOK'
  <2>1. \A k \in Nodes : \A i \in DOMAIN maps'[k] : maps'[k][i].to = Source[maps'[k][i].map]
    BY <1>1, <1>5 DEF NodesOK, EntriesOK
  <2>. QED BY <1>1, <1>2, <2>1 DEF NodesOK, EntriesOK
<1>15. KeptOK'
  <2>1. \A k \in Nodes \ {n} : Held(k)' = Held(k)
    BY <1>5 DEF Held
  <2>2. \A k \in Nodes : Held(k)' \subseteq had'[k]
    BY <1>1, <1>7, <1>11, <2>1 DEF NodesOK, KeptOK
  <2>3. "mapRow" \notin lost' => \A k \in Nodes : had'[k] \subseteq Recorded
    BY <1>1, <1>2, <1>7 DEF NodesOK, KeptOK
  <2>4. Recorded' = Recorded
    BY <1>2 DEF Recorded
  <2>. QED BY <2>2, <2>3, <2>4 DEF KeptOK
<1>16. TenantsOK' /\ PasswordsAreRight'
  BY <1>1, <1>2, SameTenants
<1>17. MapsDistinct'
  <2>1. ASSUME "map" \notin raced', NEW k \in Nodes, NEW i \in DOMAIN maps'[k],
               NEW j \in DOMAIN maps'[k], i # j
        PROVE  <<maps'[k][i].map, maps'[k][i].to>> # <<maps'[k][j].map, maps'[k][j].to>>
    <3>1. CASE k = n
      BY <1>5, <2>1, <3>1
    <3>2. CASE k # n
      <4>1. maps'[k] = maps[k]
        BY <1>5, <3>2
      <4>. QED BY <1>1, <1>2, <2>1, <4>1 DEF NodesOK, MapsDistinct
    <3>. QED BY <3>1, <3>2
  <2>. QED BY <2>1 DEF MapsDistinct
<1>18. WatchedOnce'
  <2>1. ASSUME "started twice" \notin raced', NEW k \in Nodes, NEW db \in Nodes,
               NEW b \in Makers, NEW c \in Makers, <<k, db, b>> \in started', <<k, db, c>> \in started'
        PROVE  b = c
    <3>1. CASE k = n
      <4>1. ASSUME NEW d, <<n, db, d>> \in started' PROVE d = "init"
        <5>1. <<n, db, d>>[1] = n
          OBVIOUS
        <5>2. <<n, db, d>> \notin started
          BY <1>12, <5>1
        <5>. QED BY <4>1, <5>2
      <4>. QED BY <2>1, <3>1, <4>1
    <3>2. CASE k # n
      BY <1>1, <1>2, <1>10, <2>1, <3>2 DEF NodesOK, WatchedOnce, OnlyAt
    <3>. QED BY <3>1, <3>2
  <2>. QED BY <2>1 DEF WatchedOnce
<1>19. WatchedAtSource'
  BY <1>1 DEF NodesOK, WatchedAtSource
<1>20. NothingForgotten'
  <2>1. ASSUME NEW k \in Nodes, mode'[k] = "up", MapsKept' PROVE had'[k] \subseteq Held(k)'
    <3>1. CASE k = n
      BY <1>1, <1>2, <1>7, <1>11, <2>1, <3>1 DEF NodesOK, KeptOK, MapsKept
    <3>2. CASE k # n
      BY <1>1, <1>10, <2>1, <3>2, NodesElsewhere
    <3>. QED BY <3>1, <3>2
  <2>. QED BY <2>1 DEF NothingForgotten, MapsKept, Held
<1>21. ServedOK'
  <2>1. ASSUME NEW k \in Nodes, mode'[k] = "up", NEW m \in Held(k)', Source[m] = k,
               Target[m] = k => MapsKept'
        PROVE  Served(k, m)'
    <3>1. CASE k # n
      BY <1>1, <1>10, <2>1, <3>1, NodesElsewhere
    <3>2. CASE k = n
      <4>1. PICK i \in DOMAIN list : list[i].map = m
        BY <1>11, <2>1, <3>2
      <4>2. n \in clients'[n]
        BY <1>6, <2>1, <3>2, <4>1
      <4>3. CASE i \in good
        <5>1. "init" \in Makers /\ <<n, "init", m>> \in watch' /\ <<n, n, "init">> \in started'
          BY <2>1, <3>2, <4>1, <4>3 DEF Makers
        <5>. QED BY <3>2, <4>2, <5>1 DEF Served, Makers
      <4>4. CASE i \notin good
        <5>1. <<n, m>> \in skipped'
          BY <4>1, <4>4
        <5>. QED BY <3>2, <4>2, <5>1 DEF Served
      <4>. QED BY <4>3, <4>4
    <3>. QED BY <3>1, <3>2
  <2>. QED BY <2>1 DEF ServedOK
<1>22. NodesOK'
  BY <1>13, <1>14, <1>15, <1>16, <1>17, <1>18, <1>19, <1>20, <1>21 DEF NodesOK
<1>23. ASSUME NEW q \in Requests PROVE RequestOK(q)'
  <2>1. RequestOK(q) /\ req'[q] = req[q] /\ result'[q] = result[q] /\ unanswered \subseteq unanswered'
    BY <1>2 DEF IInv
  <2>2. req[q].stage \in InProgress => Where(q) # n
    BY <2>1 DEF RequestOK, Runs
  <2>. QED BY <1>1, <1>10, <2>1, <2>2, Elsewhere
<1>. QED BY <1>9, <1>22, <1>23 DEF IInv

LEMMA LoadMapsKeeps == ASSUME IInv, NEW n \in Nodes, LoadMaps(n) PROVE IInv'
<1>1. /\ mode[n] = "loading" /\ TypeOK /\ EntriesOK
      /\ UNCHANGED <<tenants, mysql, req, result, restarts, raced, unanswered>>
  BY DEF LoadMaps, IInv, NodesOK
<1>2. ASSUME Failed, lost' = lost \cup {"load"}, mode' = [mode EXCEPT ![n] = "up"],
             UNCHANGED <<maps, clients, started, deaf, watch, installed, had, skipped>>
      PROVE  IInv'
  BY <1>1, <1>2, LoadFailsKeeps
<1>3. ASSUME LoadMapsFrom(n, Loaded), UNCHANGED lost PROVE IInv'
  <2>1. PICK list : list = Loaded
    OBVIOUS
  <2>2. /\ list \in Seq(Entry) /\ \A i \in DOMAIN list : list[i].to = Source[list[i].map]
        /\ \A i, j \in DOMAIN list : i # j =>
             <<list[i].map, list[i].to>> # <<list[j].map, list[j].to>>
        /\ {list[i].map : i \in DOMAIN list} = Recorded
    BY <1>1, <2>1, LoadedFacts
  <2>3. Len(list) \in Nat /\ DOMAIN list = 1..Len(list)
    BY <2>2, SeqFacts
  <2>4. LoadMapsFrom(n, list)
    BY <1>3, <2>1
  <2> DEFINE Usable(i) == Known(n, Source[list[i].map])
             Wrong(i) == \E p \in Nodes \ {Source[list[i].map]} :
                           <<Source[list[i].map], p>> \in tenants[n]
             Thread(i) == <<n, Source[list[i].map], "init">>
             Passed(stop, out) == {i \in 1..(stop - 1) : Usable(i)} \ out
             Begun(stop, out) == out \cup {i \in DOMAIN list : i = stop /\ ~Wrong(i)}
             Begins(stop, out, good, put, run, still, w) ==
               /\ \A i \in 1..(stop - 1) : ~Wrong(i)
               /\ stop \in DOMAIN list => Usable(stop)
               /\ IF still = {} /\ out = {} /\ (stop \in DOMAIN list => Wrong(stop))
                  THEN UNCHANGED fails ELSE Failed
               /\ mode' = [mode EXCEPT ![n] = w]
               /\ maps' = [maps EXCEPT ![n] = list]
               /\ clients' = [clients EXCEPT ![n] = {list[i].to : i \in DOMAIN list}]
               /\ started' = started \cup {Thread(i) : i \in good \cup run}
               /\ deaf' = deaf \cup still
               /\ watch' = watch \cup {<<n, "init", list[i].map>> : i \in good}
               /\ installed' = installed \cup {list[i].map : i \in good \cup put}
               /\ had' = [had EXCEPT ![n] = @ \cup {list[i].map : i \in DOMAIN list}]
               /\ skipped' = {x \in skipped : x[1] # n}
                               \cup {<<n, list[i].map>> : i \in DOMAIN list \ good}
             Ends(stop) == IF stop \in DOMAIN list THEN "half" ELSE "up"
  <2>5. \E stop \in 1..(Len(list) + 1) : \E out \in SUBSET {i \in 1..(stop - 1) : Usable(i)} :
          \E put \in SUBSET Begun(stop, out), run \in SUBSET Begun(stop, out) :
          \E still \in SUBSET {Thread(i) : i \in Passed(stop, out) \cup run} :
            Begins(stop, out, Passed(stop, out), put, run, still, Ends(stop))
    BY <2>4 DEF LoadMapsFrom
  <2>6. PICK stop \in 1..(Len(list) + 1) : \E out \in SUBSET {i \in 1..(stop - 1) : Usable(i)} :
          \E put \in SUBSET Begun(stop, out), run \in SUBSET Begun(stop, out) :
          \E still \in SUBSET {Thread(i) : i \in Passed(stop, out) \cup run} :
            Begins(stop, out, Passed(stop, out), put, run, still, Ends(stop))
    <3> HIDE DEF Begins, Passed, Begun, Ends
    <3>. QED BY <2>5
  <2>7. PICK out \in SUBSET {i \in 1..(stop - 1) : Usable(i)} :
          \E put \in SUBSET Begun(stop, out), run \in SUBSET Begun(stop, out) :
          \E still \in SUBSET {Thread(i) : i \in Passed(stop, out) \cup run} :
            Begins(stop, out, Passed(stop, out), put, run, still, Ends(stop))
    <3> HIDE DEF Begins, Passed, Begun, Ends
    <3>. QED BY <2>6
  <2>8. PICK good, w, begun : /\ good = Passed(stop, out) /\ begun = Begun(stop, out)
                              /\ w = Ends(stop)
    OBVIOUS
  <2>9. /\ good \in SUBSET DOMAIN list /\ begun \in SUBSET DOMAIN list /\ w \in {"up", "half"}
    <3>1. 1..(stop - 1) \subseteq DOMAIN list
      BY <2>3
    <3>2. Passed(stop, out) \subseteq 1..(stop - 1) /\ out \subseteq 1..(stop - 1)
      OBVIOUS
    <3>3. Begun(stop, out) \subseteq out \cup DOMAIN list
      OBVIOUS
    <3> HIDE DEF Passed, Begun
    <3>. QED BY <2>8, <3>1, <3>2, <3>3
  <2> HIDE DEF Passed, Begun, Ends
  <2>10. PICK put \in SUBSET begun, run \in SUBSET begun : \E still \in SUBSET {Thread(i) : i \in good \cup run} :
            Begins(stop, out, good, put, run, still, w)
    BY <2>7, <2>8
  <2>11. PICK still \in SUBSET {Thread(i) : i \in good \cup run} :
            Begins(stop, out, good, put, run, still, w)
    BY <2>10
  <2>12. PICK on, at : on = good \cup run /\ at = good \cup put
    OBVIOUS
  <2>13. on \in SUBSET DOMAIN list /\ at \in SUBSET DOMAIN list /\ good \subseteq on
    BY <2>9, <2>12
  <2>14. /\ deaf \subseteq deaf' /\ deaf' \subseteq deaf \cup started'
         /\ started' = started \cup {<<n, Source[list[i].map], "init">> : i \in on}
         /\ installed' = installed \cup {list[i].map : i \in at}
         /\ Failed \/ UNCHANGED fails
    BY <2>11, <2>12
  <2>. QED BY <1>1, <1>3, <2>2, <2>9, <2>11, <2>13, <2>14, LoadedKeeps
<1>. QED BY <1>2, <1>3 DEF LoadMaps

-----------------------------------------------------------------------------
LEMMA InitOK == ASSUME Init PROVE IInv
<1>1. /\ mode = [n \in Nodes |-> "up"] /\ maps = [n \in Nodes |-> << >>]
      /\ tenants = [n \in Nodes |-> {}] /\ clients = [n \in Nodes |-> {}]
      /\ started = {} /\ deaf = {} /\ watch = {} /\ installed = {} /\ mapRows = << >> /\ tenantRows = << >>
      /\ result = [r \in Requests |-> "none"] /\ restarts = 0 /\ fails = 0
      /\ had = [n \in Nodes |-> {}] /\ raced = {} /\ lost = {} /\ unanswered = {} /\ skipped = {}
  BY DEF Init
<1>2. \A r \in Requests : /\ req[r] \in Request /\ req[r].stage = "idle"
  <2>1. \A m \in Maps, c \in BOOLEAN :
          [map |-> m, command |-> c, stage |-> "idle", thread |-> "init", reply |-> "none"] \in Request
    BY DEF Request, Makers
  <2>2. req \in [Requests -> {[map |-> m, command |-> c, stage |-> "idle", thread |-> "init",
                               reply |-> "none"] : m \in Maps, c \in BOOLEAN}]
    BY DEF Init
  <2>. QED BY <2>1, <2>2
<1>3. << >> \in Seq(Entry) /\ << >> \in Seq([map: Maps, to: Nodes]) /\ << >> \in Seq(Nodes \X Nodes)
      /\ DOMAIN << >> = {}
  OBVIOUS
<1>4. TypeOK
  <2>1. restarts \in 0..MaxRestarts /\ fails \in 0..MaxFails
    BY <1>1, MapsAssumption
  <2>2. req \in [Requests -> Request]
    BY <1>2 DEF Init
  <2>. QED BY <1>1, <1>3, <2>1, <2>2 DEF TypeOK
<1>5. NodesOK
  <2>1. \A n \in Nodes : maps[n] = << >> /\ Held(n) = {} /\ had[n] = {} /\ mode[n] = "up"
    BY <1>1, <1>3 DEF Held
  <2>2. EmptyOK /\ KeptOK /\ ServedOK
    BY <2>1 DEF EmptyOK, KeptOK, ServedOK
  <2>3. EntriesOK /\ MapsDistinct /\ NothingForgotten
    BY <1>1, <1>3, <2>1 DEF EntriesOK, MapsDistinct, NothingForgotten
  <2>4. TenantsOK
    BY <1>1 DEF TenantsOK, Known
  <2>5. WatchedOnce /\ WatchedAtSource /\ PasswordsAreRight
    BY <1>1, <1>3 DEF WatchedOnce, WatchedAtSource, PasswordsAreRight
  <2>. QED BY <2>2, <2>3, <2>4, <2>5 DEF NodesOK
<1>6. ASSUME NEW r \in Requests PROVE RequestOK(r)
  <2>1. req[r].stage = "idle" /\ result[r] = "none"
    BY <1>1, <1>2
  <2>2. Runs(r) /\ AddsNew(r) /\ StartsFirst(r) /\ ThreadFits(r)
    BY <2>1 DEF Runs, InProgress, SourceStages, TargetStages, CommandStages, AddsNew,
      StartsFirst, ThreadFits
  <2>3. MadeReady(r) /\ Got(r) /\ TenantMet(r)
    BY <2>1 DEF MadeReady, Got, TenantMet, SourceStages, TargetStages, PastTargetMap, PastTenant,
      Mapped
  <2>. QED BY <2>2, <2>3 DEF RequestOK
<1>. QED BY <1>4, <1>5, <1>6 DEF IInv

\* That a thread has become deaf changes nothing that anyone looks at.
LEMMA LoseConnectionKeeps ==
  ASSUME IInv, NEW x \in started, LoseConnection(x)
  PROVE  IInv'
<1>1. TypeOK /\ NodesOK /\ x \in Threads
  BY DEF IInv, TypeOK, Threads
<1>2. /\ Failed /\ deaf' = deaf \cup {x}
      /\ UNCHANGED <<mode, maps, tenants, clients, started, watch, installed, mysql, req, result,
                    restarts, history>>
  BY DEF LoseConnection
<1>3. Quiet /\ req' = req /\ result' = result /\ unanswered' = unanswered
  BY <1>1, <1>2 DEF Quiet, mysql, history
<1>4. TypeOK'
  <2>1. fails' \in 0..MaxFails
    BY <1>1, <1>2, FailedFacts
  <2>2. deaf' \subseteq Nodes \X Nodes \X Makers
    BY <1>1, <1>2 DEF TypeOK, Threads
  <2>. QED BY <1>1, <1>2, <2>1, <2>2 DEF TypeOK, mysql, history
<1>5. \A q \in Requests : RequestOK(q)'
  BY <1>3, QuietRequest DEF IInv
<1>. QED BY <1>1, <1>3, <1>4, <1>5, QuietNodes DEF IInv

LEMMA StepOK == ASSUME IInv, [Next]_vars PROVE IInv'
<1>1. ASSUME NEW r \in Requests, Console(r) PROVE IInv'
  <2>1. CASE Ask(r)
    BY <2>1, AskKeeps
  <2>2. CASE TakeCommand(r)
    BY <2>2, TakeCommandKeeps
  <2>3. CASE AskTarget(r)
    BY <2>3, AskTargetKeeps
  <2>. QED BY <1>1, <2>1, <2>2, <2>3 DEF Console
<1>2. ASSUME NEW r \in Requests, Handler(r) PROVE IInv'
  <2>1. CASE AddClient(r) \/ GetSchema(r) \/ Config(r)
    BY <2>1, AddClientKeeps, GetSchemaKeeps, ConfigKeeps
  <2>2. CASE GetThread(r) \/ NewThread(r) \/ CheckThread(r) \/ StartThread(r)
    BY <2>2, GetThreadKeeps, NewThreadKeeps, CheckThreadKeeps, StartThreadKeeps
  <2>3. CASE IsExistSourceTables(r) \/ Watch(r)
    BY <2>3, IsExistSourceTablesKeeps, WatchKeeps
  <2>4. CASE IsExistTanent(r) \/ AddTanent(r) \/ AddTanentThrows(r)
    BY <2>4, IsExistTanentKeeps, AddTanentKeeps, AddTanentThrowsKeeps
  <2>5. CASE IsExistMap(r) \/ AddMap(r) \/ AddMapThrows(r)
    BY <2>5, IsExistMapKeeps, AddMapKeeps, AddMapThrowsKeeps
  <2>6. CASE StartTableMap(r) \/ AddClients(r)
    BY <2>6, StartTableMapKeeps, AddClientsKeeps
  <2>. QED BY <1>2, <2>1, <2>2, <2>3, <2>4, <2>5, <2>6 DEF Handler
<1>3. ASSUME NEW n \in Nodes, Process(n) PROVE IInv'
  <2>1. CASE \E i \in DOMAIN maps[n] : StartMap(n, i) \/ StopMap(n, i)
    BY <2>1, SetStatusKeeps DEF StartMap, StopMap
  <2>2. CASE Crash(n)
    BY <2>2, CrashKeeps
  <2>3. CASE LoadTenants(n)
    BY <2>3, LoadTenantsKeeps
  <2>4. CASE LoadMaps(n)
    BY <2>4, LoadMapsKeeps
  <2>5. CASE \E x \in started \ deaf : x[1] = n /\ LoseConnection(x)
    BY <2>5, LoseConnectionKeeps
  <2>. QED BY <1>3, <2>1, <2>2, <2>3, <2>4, <2>5 DEF Process
<1>4. CASE UNCHANGED vars
  <2>1. Quiet /\ req' = req /\ result' = result /\ unanswered' = unanswered
    BY <1>4 DEF vars, memory, mysql, history, Quiet
  <2>2. TypeOK' /\ NodesOK'
    <3>1. TypeOK'
      BY <1>4 DEF vars, memory, mysql, bounds, history, IInv, TypeOK
    <3>. QED BY <2>1, <3>1, QuietNodes DEF IInv
  <2>3. \A q \in Requests : RequestOK(q)'
    BY <2>1, QuietRequest DEF IInv
  <2>. QED BY <2>2, <2>3 DEF IInv
<1>. QED BY <1>1, <1>2, <1>3, <1>4 DEF Next

\* What the component relies on at any time, in every state of it.
THEOREM Invariant == Spec => []IInv
<1>1. Init => IInv
  BY InitOK
<1>2. IInv /\ [Next]_vars => IInv'
  BY StepOK
<1>. QED BY <1>1, <1>2, PTL DEF Spec

-----------------------------------------------------------------------------
\* Nodes, MySQL and requests hold what they are meant to, the stages of a request included.
THEOREM TypesOK == Spec => []TypeOK
<1>1. IInv => TypeOK
  BY DEF IInv
<1>. QED BY <1>1, Invariant, PTL

\* A node has a map in its list once, unless two requests for it have both found it absent:
\* additions, starts from MySQL, where a map may be recorded twice, and changes of status
\* keep it so (TableMapManager.add, MapJsonDaoImpl).
THEOREM MapsStayDistinct == Spec => []MapsDistinct
<1>1. IInv => MapsDistinct
  BY DEF IInv, NodesOK
<1>. QED BY <1>1, Invariant, PTL

\* A tenant has one monitor thread at a node, unless two requests have both found none
\* before either started its own (addMonitorThread, MonitorService).
THEOREM TenantsAreWatchedOnce == Spec => []WatchedOnce
<1>1. IInv => WatchedOnce
  BY DEF IInv, NodesOK
<1>. QED BY <1>1, Invariant, PTL

\* No request makes a node monitor the tables of another node's database; a start may.
THEOREM RequestsWatchAtSource == Spec => []WatchedAtSource
<1>1. IInv => WatchedAtSource
  BY DEF IInv, NodesOK
<1>. QED BY <1>1, Invariant, PTL

\* A node that is up has every map it has ever had, through any number of crashes and
\* starts, as long as MySQL has not failed when one was recorded or loaded.
THEOREM MapsAreNotForgotten == Spec => []NothingForgotten
<1>1. IInv => NothingForgotten
  BY DEF IInv, NodesOK
<1>. QED BY <1>1, Invariant, PTL

\* The true of addBothTableMap means that both nodes have got the map, unless the node of
\* the target has not answered.
THEOREM TrueIsTrue == Spec => []TrueMeansBoth
<1>1. IInv => TrueMeansBoth
  BY DEF IInv, RequestOK, Got, TrueMeansBoth
<1>. QED BY <1>1, Invariant, PTL

\* The tenant that a start uses for a database has the password of that database, unless a
\* tenant was not recorded: the source's node has recorded its own before the target's node
\* records it with another.
THEOREM RecordedPasswordsAreRight == Spec => []PasswordsAreRight
<1>1. IInv => PasswordsAreRight
  BY DEF IInv, NodesOK
<1>. QED BY <1>1, Invariant, PTL

\* A started map of a source table is with a running monitor thread that has both its
\* connections (MonitorThread, MonitorDeleteThread), at the source's node, and the sender
\* finds its client, unless the thread of the tenant has not got a connection or lost one, two
\* requests have looked the thread up at once, a start has left the map out, or the node is
\* its own target and the map was lost.
THEOREM StartedMapsAreServed == Spec => []StartedIsServed
<1>1. ASSUME IInv PROVE StartedIsServed
  <2> SUFFICES ASSUME NEW n \in Nodes, mode[n] = "up", NEW i \in DOMAIN maps[n],
                      maps[n][i].status = 1, Source[maps[n][i].map] = n,
                      Target[maps[n][i].map] = n => MapsKept
               PROVE  /\ maps[n][i].to \in clients[n]
                      /\ \/ \E b \in Makers : /\ <<n, b, maps[n][i].map>> \in watch
                                               /\ <<n, n, b>> \in started \ deaf
                         \/ \E b \in Makers : <<n, n, b>> \in started \cap deaf
                         \/ "unstarted" \in raced
                         \/ <<n, maps[n][i].map>> \in skipped
    BY DEF StartedIsServed, MapsKept
  <2>1. maps[n][i].map \in Held(n)
    BY DEF Held
  <2>2. Served(n, maps[n][i].map)
    BY <1>1, <2>1 DEF IInv, NodesOK, ServedOK
  <2>3. maps[n][i].to = n
    BY <1>1 DEF IInv, NodesOK, EntriesOK
  <2>4. ASSUME NEW b \in Makers, <<n, b, maps[n][i].map>> \in watch, <<n, n, b>> \in started
        PROVE  \/ \E c \in Makers : <<n, c, maps[n][i].map>> \in watch /\ <<n, n, c>> \in started \ deaf
               \/ \E c \in Makers : <<n, n, c>> \in started \cap deaf
    BY <2>4
  <2>. QED BY <2>2, <2>3, <2>4 DEF Served
<1>. QED BY <1>1, Invariant, PTL
===============================================================================
