------------------------------- MODULE TableMaps -------------------------------
(***************************************************************************)
(* Configuration of the nodes: the console asks the node of the source      *)
(* database to add a table map, then the node of the target.  A node keeps  *)
(* table maps, tenants, clients and monitor threads in memory, and records  *)
(* maps and tenants in a MySQL database that all nodes share; a node that   *)
(* starts loads everything recorded there.  Requests are handled by HTTP    *)
(* workers without any lock, so each look-up and the act that follows it    *)
(* are separate steps.                                                      *)
(*                                                                          *)
(* Every node has one database, which stands for the tenant of its user;    *)
(* every map has a source table of its own, named by the map.               *)
(***************************************************************************)
EXTENDS Naturals, SequencesExt, FiniteSetsExt

CONSTANTS
  Nodes,       \* nodes, and their databases
  Maps,        \* table maps
  Source,      \* the node of the source table of a map
  Target,      \* the node the console names as the target of a map
  Requests,    \* requests of the console
  MaxRestarts, \* bound: ends of processes
  MaxFails     \* bound: SQL errors and refused connections

ASSUME MapsAssumption ==
  /\ Source \in [Maps -> Nodes] /\ Target \in [Maps -> Nodes]
  /\ MaxRestarts \in Nat /\ MaxFails \in Nat

VARIABLES
  mode,       \* of each node: up, down, loading, or half: started without server and sender
  maps,       \* TableMapManager of each node, in order
  tenants,    \* TenantManager: <<database, whose password>>
  clients,    \* ClientManager: the nodes known with their databases
  started,    \* running monitor threads: <<node, tenant, maker>>
  deaf,       \* monitor threads one of whose connections has failed, as in started
  watch,      \* tables given to a monitor thread: <<node, maker, map>>
  installed,  \* source tables AddSource has gone through
  mapRows,    \* MySQL table mapJson; the id is the position
  tenantRows, \* MySQL table tenant
  req,        \* of each request the map it is about, whether it is a command, which asks
              \* for a monitor only, and how far it has come
  result,     \* what addBothTableMap has returned
  restarts, fails,
  had,        \* history: maps a node has had in memory
  raced,      \* history: look-ups after which two requests acted at once
  lost,       \* history: what was not recorded or not loaded
  unanswered, \* history: requests to which the target's node gave no answer
  skipped     \* history: <<node, map>> left without a monitor at a start

memory == <<mode, maps, tenants, clients, started, deaf, watch>>
mysql == <<mapRows, tenantRows>>
bounds == <<restarts, fails>>
history == <<had, raced, lost, unanswered, skipped>>
vars == <<memory, installed, mysql, req, result, bounds, history>>

Makers == Requests \cup {"init"}

SourceStages == {"client", "schema", "config", "getThread", "newThread", "checkThread",
                 "startThread", "isExist", "watch", "tenant", "tenantAdd", "map", "mapAdd", "start"}
TargetStages == {"dMap", "dMapAdd", "dStart", "dClients", "dTenant", "dTenantAdd"}

Entry == [map: Maps, to: Nodes, id: Nat, status: {0, 1}]
Request == [map: Maps, command: BOOLEAN,
            stage: SourceStages \cup TargetStages \cup {"idle", "reply", "done"},
            thread: Makers, reply: {"none", "error", "garbage", "map"}]

TypeOK ==
  /\ mode \in [Nodes -> {"up", "down", "loading", "half"}]
  /\ maps \in [Nodes -> Seq(Entry)]
  /\ tenants \in [Nodes -> SUBSET (Nodes \X Nodes)]
  /\ clients \in [Nodes -> SUBSET Nodes]
  /\ started \subseteq Nodes \X Nodes \X Makers /\ deaf \subseteq Nodes \X Nodes \X Makers
  /\ watch \subseteq Nodes \X Makers \X Maps
  /\ installed \subseteq Maps
  /\ mapRows \in Seq([map: Maps, to: Nodes])
  /\ tenantRows \in Seq(Nodes \X Nodes)
  /\ req \in [Requests -> Request]
  /\ result \in [Requests -> {"none", "true", "false"}]
  /\ restarts \in 0..MaxRestarts /\ fails \in 0..MaxFails
  /\ had \in [Nodes -> SUBSET Maps]
  /\ raced \subseteq {"map", "unstarted", "started twice"}
  /\ lost \subseteq {"mapRow", "tenantRow", "load"}
  /\ unanswered \subseteq Requests
  /\ skipped \subseteq Nodes \X Maps

-----------------------------------------------------------------------------
\* The console sends the source's tenant for the target's.
DTanent(m) == Source[m]

\* TableMap.equals: the same source and target.
Same(e, m) == e.map = m /\ e.to = DTanent(m)

IsExistTableMap(n, m) == \E i \in DOMAIN maps[n] : Same(maps[n][i], m)

Known(n, db) == \E p \in Nodes : <<db, p>> \in tenants[n]

HasThread(n, db) == \E b \in Makers : <<n, db, b>> \in started

Wanted(r) == req[r].map

Where(r) == IF req[r].stage \in TargetStages THEN Target[Wanted(r)] ELSE Source[Wanted(r)]

At(r, s) == req[r].stage = s

Handled(r, s) == At(r, s) /\ mode[Where(r)] = "up"

Go(r, s) == req' = [req EXCEPT ![r].stage = s]

\* A handler ends; the console gets the reply, the command thread none.
Answer(r, a) ==
  req' = [req EXCEPT ![r].stage = IF req[r].command THEN "done" ELSE "reply", ![r].reply = a]

\* Another request at the node has looked up and is about to act.
Meets(r, stages) ==
  \E q \in Requests \ {r} : req[q].stage \in stages /\ Where(q) = Where(r)

MeetsSameMap(r) == \E q \in Requests \ {r} :
  req[q].stage \in {"mapAdd", "dMapAdd"} /\ Where(q) = Where(r) /\ Wanted(q) = Wanted(r)

\* A handler ends with an exception, and its node sends nothing: the console takes that for
\* no map from the source's node, and for a success from the target's.
HandlerThrows(r) ==
  IF req[r].stage \in SourceStages
  THEN Answer(r, "garbage") /\ UNCHANGED <<result, unanswered>>
  ELSE /\ Go(r, "done")
       /\ result' = [result EXCEPT ![r] = "true"]
       /\ unanswered' = unanswered \cup {r}

MayFail == fails < MaxFails
Failed == MayFail /\ fails' = fails + 1

-----------------------------------------------------------------------------
\* addBothTableMap asks the source's node; without a connection the reply is empty.
Ask(r) ==
  LET n == Source[Wanted(r)]
  IN /\ At(r, "idle") /\ ~req[r].command
     /\ IF mode[n] = "up" THEN Go(r, "client") ELSE Answer(r, "garbage")
     /\ UNCHANGED <<memory, installed, mysql, result, bounds, history>>

\* The command thread takes a request from its queue: one at a time, and none after one
\* has thrown something else than the two exceptions it catches.
TakeCommand(r) ==
  /\ At(r, "idle") /\ req[r].command
  /\ mode[Source[Wanted(r)]] = "up"
  /\ \A q \in Requests : req[q].command /\ Source[Wanted(q)] = Source[Wanted(r)] =>
       req[q].stage \in {"idle", "done"} /\ req[q].reply # "garbage"
  /\ Go(r, "getThread")
  /\ UNCHANGED <<memory, installed, mysql, result, bounds, history>>

\* addSourceTableMap: the client of the target's database is found or added.
AddClient(r) ==
  /\ Handled(r, "client")
  /\ clients' = [clients EXCEPT ![Where(r)] = @ \cup {DTanent(Wanted(r))}]
  /\ Go(r, "schema")
  /\ UNCHANGED <<mode, maps, tenants, started, deaf, watch, installed, mysql, result, bounds, history>>

\* The schema of the source table is read: "invalid_source_table" when it is not there.
GetSchema(r) ==
  /\ Handled(r, "schema")
  /\ \/ Go(r, "config") /\ UNCHANGED fails
     \/ Failed /\ Answer(r, "error")
  /\ UNCHANGED <<memory, installed, mysql, result, restarts, history>>

\* AddSource; its failure is answered by "config_failed!", which the console does not know.
Config(r) ==
  /\ Handled(r, "config")
  /\ \/ installed' = installed \cup {Wanted(r)} /\ Go(r, "getThread") /\ UNCHANGED fails
     \/ Failed /\ Answer(r, "garbage") /\ UNCHANGED installed
  /\ UNCHANGED <<memory, mysql, result, restarts, history>>

\* Variant: getMonitorThreadByTanent is not asked.
GetThreadNever(r) ==
  /\ Handled(r, "getThread")
  /\ Go(r, "newThread")
  /\ UNCHANGED <<memory, installed, mysql, result, bounds, history>>

\* addNewMonitorSource: the monitor thread of the tenant, if there is one.
GetThread(r) ==
  LET n == Where(r)
  IN /\ Handled(r, "getThread")
     /\ \/ \E b \in Makers :
             /\ <<n, n, b>> \in started
             /\ req' = [req EXCEPT ![r].stage = "isExist", ![r].thread = b]
        \/ ~HasThread(n, n) /\ Go(r, "newThread")
     /\ UNCHANGED <<memory, installed, mysql, result, bounds, history>>

\* The constructor of a monitor thread opens two connections.  The first is used at once
\* and its failure answered; the second is kept even when it is null, and the thread that
\* is to take up the deletions then ends without a word.
NewThread(r) ==
  /\ Handled(r, "newThread")
  /\ \/ /\ req' = [req EXCEPT ![r].stage = "checkThread", ![r].thread = r]
        /\ \/ UNCHANGED <<deaf, fails>>
           \/ Failed /\ deaf' = deaf \cup {<<Where(r), Where(r), r>>}
     \/ Failed /\ UNCHANGED deaf /\ \E a \in {"error", "garbage"} : Answer(r, a)
  /\ UNCHANGED <<mode, maps, tenants, clients, started, watch, installed, mysql, result,
                 restarts, history>>

\* Variant: addMonitorThread does not look again.
CheckThreadNever(r) ==
  /\ Handled(r, "checkThread")
  /\ Go(r, "startThread")
  /\ UNCHANGED <<memory, installed, mysql, result, bounds, history>>

\* addMonitorThread looks again; a thread that is not added is used all the same.
CheckThread(r) ==
  /\ Handled(r, "checkThread")
  /\ Go(r, IF HasThread(Where(r), Where(r)) THEN "isExist" ELSE "startThread")
  /\ UNCHANGED <<memory, installed, mysql, result, bounds, history>>

StartThread(r) ==
  /\ Handled(r, "startThread")
  /\ started' = started \cup {<<Where(r), Where(r), r>>}
  /\ Go(r, "isExist")
  /\ raced' = raced \cup (IF Meets(r, {"newThread", "checkThread"}) THEN {"unstarted"} ELSE {})
                    \cup (IF Meets(r, {"startThread"}) THEN {"started twice"} ELSE {})
  /\ UNCHANGED <<mode, maps, tenants, clients, deaf, watch, installed, mysql, result, bounds,
                 had, lost, unanswered, skipped>>

\* isExistSourceTables: the table and its delete log.
IsExistSourceTables(r) ==
  /\ Handled(r, "isExist")
  /\ \/ Wanted(r) \in installed /\ Go(r, "watch") /\ UNCHANGED fails
     \/ Wanted(r) \notin installed /\ Answer(r, "error") /\ UNCHANGED fails
     \/ Failed /\ \E a \in {"error", "garbage"} : Answer(r, a)
  /\ UNCHANGED <<memory, installed, mysql, result, restarts, history>>

\* Variant: the source's tenant is not added.
WatchOnly(r) ==
  /\ Handled(r, "watch")
  /\ watch' = watch \cup {<<Where(r), req[r].thread, Wanted(r)>>}
  /\ IF req[r].command THEN Answer(r, "none") ELSE Go(r, "map")
  /\ UNCHANGED <<mode, maps, tenants, clients, started, deaf, installed, mysql, result, bounds, history>>

\* The tables are given to the thread, which looks for each once more.
Watch(r) ==
  /\ Handled(r, "watch")
  /\ \/ /\ watch' = watch \cup {<<Where(r), req[r].thread, Wanted(r)>>}
        /\ IF req[r].command THEN Answer(r, "none") ELSE Go(r, "tenant")
        /\ UNCHANGED fails
     \/ Failed /\ UNCHANGED watch /\ \E a \in {"error", "garbage"} : Answer(r, a)
  /\ UNCHANGED <<mode, maps, tenants, clients, started, deaf, installed, mysql, result, restarts,
                 history>>

\* TenantManager.addTanent looks the tenant up, without regard to its password.
IsExistTanent(r) ==
  /\ \E s \in {"tenant", "dTenant"} : Handled(r, s)
  /\ LET there == Known(Where(r), DTanent(Wanted(r)))
     IN IF At(r, "tenant")
        THEN Go(r, IF there THEN "map" ELSE "tenantAdd") /\ UNCHANGED result
        ELSE IF there
        THEN Go(r, "done") /\ result' = [result EXCEPT ![r] = "true"]
        ELSE Go(r, "dTenantAdd") /\ UNCHANGED result
  /\ UNCHANGED <<memory, installed, mysql, bounds, history>>

\* It is written to MySQL, where an error goes unnoticed, and to memory.  The target's
\* node is given the target's password with it.
AddTanent(r) ==
  LET n == Where(r)
      t == <<DTanent(Wanted(r)), n>>
  IN /\ \E s \in {"tenantAdd", "dTenantAdd"} : Handled(r, s)
     /\ \/ /\ tenantRows' = Append(tenantRows, t)
           /\ UNCHANGED <<fails, lost>>
        \/ Failed /\ lost' = lost \cup {"tenantRow"} /\ UNCHANGED tenantRows
     /\ tenants' = [tenants EXCEPT ![n] = @ \cup {t}]
     /\ IF At(r, "tenantAdd")
        THEN Go(r, "map") /\ UNCHANGED result
        ELSE Go(r, "done") /\ result' = [result EXCEPT ![r] = "true"]
     /\ UNCHANGED <<mode, maps, clients, started, deaf, watch, installed, mapRows, restarts, had, raced,
                    unanswered, skipped>>

\* A statement that cannot be prepared is closed all the same, and the handler ends there:
\* that of the insertion, or that of the query for the new row.
AddTanentThrows(r) ==
  /\ \E s \in {"tenantAdd", "dTenantAdd"} : Handled(r, s)
  /\ Failed
  /\ \/ UNCHANGED tenantRows
     \/ tenantRows' = Append(tenantRows, <<DTanent(Wanted(r)), Where(r)>>)
  /\ HandlerThrows(r)
  /\ UNCHANGED <<memory, installed, mapRows, restarts, had, raced, lost, skipped>>

\* Variant: maps are compared by their ids as well, which a new map has not got.
IsExistMapNever(r) ==
  /\ \E s \in {"map", "dMap"} : Handled(r, s)
  /\ Go(r, IF At(r, "map") THEN "mapAdd" ELSE "dMapAdd")
  /\ UNCHANGED <<memory, installed, mysql, result, bounds, history>>

\* TableMapManager.add: a map that is there is not added again.
IsExistMap(r) ==
  /\ \E s \in {"map", "dMap"} : Handled(r, s)
  /\ LET there == IsExistTableMap(Where(r), Wanted(r))
     IN Go(r, IF At(r, "map") THEN (IF there THEN "start" ELSE "mapAdd")
                              ELSE (IF there THEN "dStart" ELSE "dMapAdd"))
  /\ UNCHANGED <<memory, installed, mysql, result, bounds, history>>

\* What remains of the handler after the map has been added.
AfterAdd(r) == IF At(r, "mapAdd") THEN "start" ELSE "dStart"

\* The target's node takes the status from the JSON of the source's node, where the map
\* may have been started.
AddedAs(r) == IF At(r, "mapAdd") THEN {0} ELSE {0, 1}

\* The map is recorded and kept.  getMapJsonById returns null whatever it finds, so a
\* new map never learns its id and keeps 0.
AddMap(r) ==
  LET n == Where(r)
      m == Wanted(r)
  IN /\ \E s \in {"mapAdd", "dMapAdd"} : Handled(r, s)
     /\ \/ /\ mapRows' = Append(mapRows, [map |-> m, to |-> DTanent(m)])
           /\ UNCHANGED <<fails, lost>>
        \/ Failed /\ lost' = lost \cup {"mapRow"} /\ UNCHANGED mapRows
     /\ \E s \in AddedAs(r) : maps' = [maps EXCEPT ![n] =
          Append(@, [map |-> m, to |-> DTanent(m), id |-> 0, status |-> s])]
     /\ had' = [had EXCEPT ![n] = @ \cup {m}]
     /\ Go(r, AfterAdd(r))
     /\ raced' = IF MeetsSameMap(r) THEN raced \cup {"map"} ELSE raced
     /\ UNCHANGED <<mode, tenants, clients, started, deaf, watch, installed, tenantRows, result,
                    restarts, unanswered, skipped>>

\* A statement that cannot be prepared ends the handler here as well, before or after.
AddMapThrows(r) ==
  LET m == Wanted(r)
  IN /\ \E s \in {"mapAdd", "dMapAdd"} : Handled(r, s)
     /\ Failed
     /\ \/ UNCHANGED mapRows
        \/ mapRows' = Append(mapRows, [map |-> m, to |-> DTanent(m)])
     /\ HandlerThrows(r)
     /\ UNCHANGED <<memory, installed, tenantRows, restarts, had, raced, lost, skipped>>

\* Variant: starts are counted.
StartTableMapCounting(r) ==
  LET n == Where(r)
  IN /\ \E s \in {"start", "dStart"} : Handled(r, s)
     /\ maps' = [maps EXCEPT ![n] = [i \in DOMAIN @ |->
          IF Same(@[i], Wanted(r)) THEN [@[i] EXCEPT !.status = @ + 1] ELSE @[i]]]
     /\ IF At(r, "start") THEN Answer(r, "map") ELSE Go(r, "dClients")
     /\ UNCHANGED <<mode, tenants, clients, started, deaf, watch, installed, mysql, result, bounds, history>>

\* startTableMap: every equal map of the node.
StartTableMap(r) ==
  LET n == Where(r)
  IN /\ \E s \in {"start", "dStart"} : Handled(r, s)
     /\ maps' = [maps EXCEPT ![n] = [i \in DOMAIN @ |->
          IF Same(@[i], Wanted(r)) THEN [@[i] EXCEPT !.status = 1] ELSE @[i]]]
     /\ IF At(r, "start") THEN Answer(r, "map") ELSE Go(r, "dClients")
     /\ UNCHANGED <<mode, tenants, clients, started, deaf, watch, installed, mysql, result, bounds, history>>

\* Variant: any answer of the source's node but the known errors is passed as a success.
AskTargetNever(r) ==
  /\ At(r, "reply")
  /\ Go(r, "done")
  /\ result' = [result EXCEPT ![r] = IF req[r].reply = "error" THEN "false" ELSE "true"]
  /\ UNCHANGED <<memory, installed, mysql, bounds, history>>

\* The console ends with false on an error it knows, and passes anything else on to the
\* target's node, which answers "false" to what is no map.  No answer counts as success.
AskTarget(r) ==
  /\ At(r, "reply")
  /\ LET d == Target[Wanted(r)]
     IN \/ /\ req[r].reply = "error" \/ (mode[d] = "up" /\ req[r].reply = "garbage")
           /\ Go(r, "done") /\ result' = [result EXCEPT ![r] = "false"]
           /\ UNCHANGED unanswered
        \/ /\ mode[d] # "up" /\ req[r].reply # "error"
           /\ Go(r, "done") /\ result' = [result EXCEPT ![r] = "true"]
           /\ unanswered' = unanswered \cup {r}
        \/ /\ mode[d] = "up" /\ req[r].reply = "map"
           /\ Go(r, "dMap") /\ UNCHANGED <<result, unanswered>>
  /\ UNCHANGED <<memory, installed, mysql, bounds, had, raced, lost, skipped>>

\* Variant: the target's node monitors the source table as well.
AddClientsWatching(r) ==
  /\ Handled(r, "dClients")
  /\ clients' = [clients EXCEPT ![Where(r)] = @ \cup {Source[Wanted(r)], DTanent(Wanted(r))}]
  /\ started' = started \cup {<<Where(r), Source[Wanted(r)], r>>}
  /\ watch' = watch \cup {<<Where(r), r, Wanted(r)>>}
  /\ Go(r, "dTenant")
  /\ UNCHANGED <<mode, maps, tenants, deaf, installed, mysql, result, bounds, history>>

\* addDestinationTableMap adds the clients after it has started the map.
AddClients(r) ==
  /\ Handled(r, "dClients")
  /\ clients' = [clients EXCEPT ![Where(r)] = @ \cup {Source[Wanted(r)], DTanent(Wanted(r))}]
  /\ Go(r, "dTenant")
  /\ UNCHANGED <<mode, maps, tenants, started, deaf, watch, installed, mysql, result, bounds, history>>

-----------------------------------------------------------------------------
\* startMap(id): the first map with that id.
FirstWithId(n, k) == CHOOSE i \in DOMAIN maps[n] :
  maps[n][i].id = k /\ \A j \in 1..(i - 1) : maps[n][j].id # k

SetStatus(n, i, s) ==
  /\ mode[n] = "up"
  /\ maps' = [maps EXCEPT ![n][FirstWithId(n, maps[n][i].id)].status = s]
  /\ UNCHANGED <<mode, tenants, clients, started, deaf, watch, installed, mysql, req, result, bounds, history>>

\* The i-th map of the web page is started or stopped by the id shown there.
StartMap(n, i) == SetStatus(n, i, 1)
StopMap(n, i) == SetStatus(n, i, 0)

-----------------------------------------------------------------------------
\* The process of node n ends; the requests it was handling get no answer.
Crash(n) ==
  LET broken == {r \in Requests : Where(r) = n /\ req[r].stage \in SourceStages \cup TargetStages}
  IN /\ mode[n] # "down" /\ restarts < MaxRestarts
     /\ restarts' = restarts + 1
     /\ mode' = [mode EXCEPT ![n] = "down"]
     /\ maps' = [maps EXCEPT ![n] = <<>>]
     /\ tenants' = [tenants EXCEPT ![n] = {}]
     /\ clients' = [clients EXCEPT ![n] = {}]
     /\ started' = {x \in started : x[1] # n} /\ deaf' = {x \in deaf : x[1] # n}
     /\ watch' = {x \in watch : x[1] # n}
     /\ req' = [r \in Requests |->
          IF r \notin broken THEN req[r]
          ELSE IF req[r].stage \in TargetStages THEN [req[r] EXCEPT !.stage = "done"]
          ELSE [req[r] EXCEPT !.reply = IF req[r].command THEN "none" ELSE "garbage",
                              !.stage = IF req[r].command THEN "done" ELSE "reply"]]
     /\ LET silent == {r \in broken : req[r].stage \in TargetStages}
        IN /\ result' = [r \in Requests |-> IF r \in silent THEN "true" ELSE result[r]]
           /\ unanswered' = unanswered \cup silent
     /\ UNCHANGED <<installed, mysql, fails, had, raced, lost, skipped>>

\* A monitor thread loses a connection, which it keeps for all its life.  Nobody looks.
LoseConnection(x) ==
  /\ Failed
  /\ deaf' = deaf \cup {x}
  /\ UNCHANGED <<mode, maps, tenants, clients, started, watch, installed, mysql, req, result,
                 restarts, history>>

\* StartRun loads the tenants: the first row of each database.
LoadTenants(n) ==
  LET rows == {<<tenantRows[i][1], tenantRows[i][2]>> : i \in
                {i \in DOMAIN tenantRows :
                   \A j \in 1..(i - 1) : tenantRows[j][1] # tenantRows[i][1]}}
  IN /\ mode[n] = "down"
     /\ mode' = [mode EXCEPT ![n] = "loading"]
     /\ \/ tenants' = [tenants EXCEPT ![n] = rows] /\ UNCHANGED <<fails, lost>>
        \/ Failed /\ lost' = lost \cup {"load"} /\ UNCHANGED tenants
     /\ UNCHANGED <<maps, clients, started, deaf, watch, installed, mysql, req, result, restarts,
                    had, raced, unanswered, skipped>>

\* The maps of mapJson, stopped, with their ids, equal ones once.
Loaded ==
  LET First(i) == \A j \in 1..(i - 1) : mapRows[j] # mapRows[i]
      kept == {i \in DOMAIN mapRows : First(i)}
      index == CHOOSE f \in [1..Cardinality(kept) -> kept] :
                 \A i, j \in DOMAIN f : i < j => f[i] < f[j]
  IN [k \in DOMAIN index |-> [map |-> mapRows[index[k]].map, to |-> mapRows[index[k]].to,
                              id |-> index[k], status |-> 0]]

\* Variant: a node loads the maps of its own source tables.
LoadedOwn(n) ==
  SelectSeq(Loaded, LAMBDA e : Source[e.map] = n)

(***************************************************************************)
(* The maps are loaded and initMonitorService goes through them: a map      *)
(* whose tenant is unknown is left out, AddSource and the monitor may fail  *)
(* with an SQLException, which leaves the map out as well.  A database that *)
(* gives no connection, because of the password or otherwise, is another    *)
(* matter: the exception leaves the constructor of StartRun at that map,    *)
(* and the monitor threads started so far go on alone.  A map that is left  *)
(* out may have got its table installed or its tenant's thread started; and *)
(* a thread whose second connection is null is started without a word.      *)
(***************************************************************************)
LoadMapsFrom(n, list) ==
  LET Usable(i) == Known(n, Source[list[i].map])
      Wrong(i) == \E p \in Nodes \ {Source[list[i].map]} : <<Source[list[i].map], p>> \in tenants[n]
      Thread(i) == <<n, Source[list[i].map], "init">>
  IN \E stop \in 1..(Len(list) + 1) :
     \E out \in SUBSET {i \in 1..(stop - 1) : Usable(i)} :
       LET good == {i \in 1..(stop - 1) : Usable(i)} \ out
           begun == out \cup {i \in DOMAIN list : i = stop /\ ~Wrong(i)}
       IN \E put \in SUBSET begun, run \in SUBSET begun :
          \E still \in SUBSET {Thread(i) : i \in good \cup run} :
          /\ \A i \in 1..(stop - 1) : ~Wrong(i)
          /\ stop \in DOMAIN list => Usable(stop)
          /\ IF still = {} /\ out = {} /\ (stop \in DOMAIN list => Wrong(stop))
             THEN UNCHANGED fails ELSE Failed
          /\ mode' = [mode EXCEPT ![n] = IF stop \in DOMAIN list THEN "half" ELSE "up"]
          /\ maps' = [maps EXCEPT ![n] = list]
          /\ clients' = [clients EXCEPT ![n] = {list[i].to : i \in DOMAIN list}]
          /\ started' = started \cup {Thread(i) : i \in good \cup run}
          /\ deaf' = deaf \cup still
          /\ watch' = watch \cup {<<n, "init", list[i].map>> : i \in good}
          /\ installed' = installed \cup {list[i].map : i \in good \cup put}
          /\ had' = [had EXCEPT ![n] = @ \cup {list[i].map : i \in DOMAIN list}]
          /\ skipped' = {x \in skipped : x[1] # n}
                          \cup {<<n, list[i].map>> : i \in DOMAIN list \ good}

\* Variant: the maps are loaded for the node's own source tables only.
LoadMapsOwn(n) ==
  /\ mode[n] = "loading"
  /\ LoadMapsFrom(n, LoadedOwn(n))
  /\ UNCHANGED <<tenants, mysql, req, result, restarts, raced, lost, unanswered>>

LoadMaps(n) ==
  /\ mode[n] = "loading"
  /\ \/ LoadMapsFrom(n, Loaded) /\ UNCHANGED lost
     \/ /\ Failed
        /\ lost' = lost \cup {"load"}
        /\ mode' = [mode EXCEPT ![n] = "up"]
        /\ UNCHANGED <<maps, clients, started, deaf, watch, installed, had, skipped>>
  /\ UNCHANGED <<tenants, mysql, req, result, restarts, raced, unanswered>>

-----------------------------------------------------------------------------
Init ==
  /\ mode = [n \in Nodes |-> "up"]
  /\ maps = [n \in Nodes |-> <<>>]
  /\ tenants = [n \in Nodes |-> {}]
  /\ clients = [n \in Nodes |-> {}]
  /\ started = {} /\ deaf = {} /\ watch = {} /\ installed = {}
  /\ mapRows = <<>> /\ tenantRows = <<>>
  /\ req \in [Requests -> {[map |-> m, command |-> c, stage |-> "idle", thread |-> "init",
                           reply |-> "none"] : m \in Maps, c \in BOOLEAN}]
  /\ result = [r \in Requests |-> "none"]
  /\ restarts = 0 /\ fails = 0
  /\ had = [n \in Nodes |-> {}]
  /\ raced = {} /\ lost = {} /\ unanswered = {} /\ skipped = {}

Handler(r) ==
  \/ AddClient(r) \/ GetSchema(r) \/ Config(r)
  \/ GetThread(r) \/ NewThread(r) \/ CheckThread(r) \/ StartThread(r)
  \/ IsExistSourceTables(r) \/ Watch(r)
  \/ IsExistTanent(r) \/ AddTanent(r) \/ AddTanentThrows(r)
  \/ IsExistMap(r) \/ AddMap(r) \/ AddMapThrows(r) \/ StartTableMap(r) \/ AddClients(r)

Console(r) == Ask(r) \/ TakeCommand(r) \/ AskTarget(r)

Process(n) ==
  \/ \E i \in DOMAIN maps[n] : StartMap(n, i) \/ StopMap(n, i)
  \/ Crash(n) \/ LoadTenants(n) \/ LoadMaps(n)
  \/ \E x \in started \ deaf : x[1] = n /\ LoseConnection(x)

Next ==
  \/ \E r \in Requests : Console(r) \/ Handler(r)
  \/ \E n \in Nodes : Process(n)

Spec == Init /\ [][Next]_vars

-----------------------------------------------------------------------------
\* A table map is in a node's list once; two entries would send every message twice.
\* Two requests for one map that have both found it absent are the only exception.
MapsDistinct ==
  "map" \notin raced => \A n \in Nodes : \A i, j \in DOMAIN maps[n] :
    i # j => <<maps[n][i].map, maps[n][i].to>> # <<maps[n][j].map, maps[n][j].to>>

\* A started map of a source table works at the source's node: a running monitor thread
\* with both its connections has the table, and the sender finds the client.  Not so when
\* the tenant's thread has failed to get a connection, or has lost one: no request is told,
\* and all later maps of the tenant are given to that thread.  Nor after two requests have
\* looked the thread up at once, of which the later gives its tables to a thread that is
\* never started, nor when initMonitorService has left the map out.  A node that is its own
\* target and has lost the map gets it back as a target, with no monitor.
StartedIsServed ==
  \A n \in Nodes : mode[n] = "up" => \A i \in DOMAIN maps[n] :
    LET e == maps[n][i]
    IN /\ e.status = 1 /\ Source[e.map] = n
       /\ Target[e.map] = n => lost \cap {"mapRow", "load"} = {}
       =>
       /\ e.to \in clients[n]
       /\ \/ \E b \in Makers : <<n, b, e.map>> \in watch /\ <<n, n, b>> \in started \ deaf
          \/ \E b \in Makers : <<n, n, b>> \in started \cap deaf
          \/ "unstarted" \in raced
          \/ <<n, e.map>> \in skipped

\* A tenant has one monitor thread at a node, so no change is taken up twice, unless two
\* requests have both found none before either has started its own.
WatchedOnce ==
  "started twice" \notin raced => \A n, db \in Nodes : \A b, c \in Makers :
    <<n, db, b>> \in started /\ <<n, db, c>> \in started => b = c

\* A node monitors tables of another node's database, and marks the rows of its delete
\* logs, only after a start in which it has loaded the maps of all nodes.
WatchedAtSource ==
  \A x \in watch : x[1] # Source[x[3]] => x[2] = "init"

\* A map that a node has had is there whenever the node is up, over restarts too, unless
\* MySQL failed when it was recorded or loaded.
NothingForgotten ==
  lost \cap {"mapRow", "load"} = {} =>
    \A n \in Nodes : mode[n] = "up" => had[n] \subseteq {maps[n][i].map : i \in DOMAIN maps[n]}

\* The console returns true only when both nodes have got the map, unless the target's
\* node has not answered.
TrueMeansBoth ==
  \A r \in Requests \ unanswered : result[r] = "true" =>
    Wanted(r) \in had[Source[Wanted(r)]] \cap had[Target[Wanted(r)]]

\* The first tenant recorded for a database, which every start uses, has the password of
\* that database, although the target's node records the source's database with its own
\* password: starts are not ended by it, unless a tenant was not recorded.
PasswordsAreRight ==
  "tenantRow" \in lost \/ \A i \in DOMAIN tenantRows :
    (\A j \in 1..(i - 1) : tenantRows[j][1] # tenantRows[i][1]) => tenantRows[i][1] = tenantRows[i][2]

\* The comment on startMap (TableMapService.java:315, "start a map that exists"): the map
\* of the web page that is started by its id is then started.
StartStarts ==
  [][\A n \in Nodes : \A i \in DOMAIN maps[n] : StartMap(n, i) => maps'[n][i].status = 1]_vars
===============================================================================
