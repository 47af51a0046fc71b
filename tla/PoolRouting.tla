----------------------------- MODULE PoolRouting -----------------------------
(***************************************************************************)
(* Where a task of a pool runs: pool queries, the address table of every   *)
(* node and its write-ahead log.                                           *)
(*                                                                         *)
(*   ipc_manager.cc      ResolvePoolQuery and the Resolve*Query functions, *)
(*                       IsTaskLocal, RouteLocal                           *)
(*   pool_query.cc       the queries                                       *)
(*   pool_manager.cc     InitAddressMap, GetContainer, the address table   *)
(*   admin_runtime.cc    SendIn's choice of a node, ChangeAddressTable,    *)
(*                       MigrateContainers                                 *)
(*                                                                         *)
(* A pool has one container per node, numbered like the nodes.  A query is *)
(* resolved on the node where the task is; it runs there, or the node      *)
(* sends a copy with a smaller query to each of several nodes, which       *)
(* resolve it again.  The network delivers every message (AdminNet has the *)
(* failures); it may take any time, so that the tables change meanwhile.   *)
(***************************************************************************)
EXTENDS Naturals, FiniteSets, Bags, SequencesExt

CONSTANTS N,                 \* nodes, and containers of the pool
          NeighborhoodSize,  \* most copies a range is split into
          InitialHost,       \* the node of each container at first
          Requests,          \* what is asked: [node, query] records
          Migrations,        \* what is moved: [from, container, to] records
          MaxActive,         \* migrations that may be under way at once
          MaxCrashes,        \* crashes in a behaviour
          SharedConf,        \* do all nodes share one configuration directory?
          None               \* no container

Nodes == 0 .. N - 1
Containers == Nodes

\* PoolQuery's factories.  Only DirectId sets container_id_; Local leaves it
\* invalid and the others make it 0.
Query(mode, a, b, id) == [mode |-> mode, a |-> a, b |-> b, id |-> id]
Local          == Query("Local", 0, 0, None)
DirectId(c)    == Query("DirectId", c, 0, c)
DirectHash(h)  == Query("DirectHash", h, 0, 0)
RangeOf(o, k)    == Query("Range", o, k, 0)
Broadcast      == Query("Broadcast", 0, 0, 0)
Physical(n)    == Query("Physical", n, 0, 0)

ASSUME RoutingAssumption ==
  /\ N \in Nat \ {0} /\ NeighborhoodSize \in Nat \ {0}
  /\ InitialHost \in [Containers -> Nodes]
  /\ \A c \in Containers : InitialHost[InitialHost[c]] = InitialHost[c]
  /\ \A r \in Requests : r.node \in Nodes
  /\ Migrations \subseteq [from : Nodes, container : Containers, to : Nodes]
  /\ MaxActive \in Nat /\ MaxCrashes \in Nat /\ SharedConf \in BOOLEAN
  /\ None \notin Nat

VARIABLES asked,    \* requests not yet made
          tasks,    \* bag of copies on their way: [node, query]
          ran,      \* bag of executions: [goal, container]
          lost,     \* bag of containers whose copy died with its node
          table,    \* address_map_ of each node
          hosted,   \* containers_ of each node
          local,    \* local_container_ of each node
          plugged,  \* containers that a migration has plugged
          moving,   \* the migrations that are under way
          planned,  \* migrations not yet begun
          wal,      \* each node's write-ahead log: [time, container, node]
          up,       \* nodes that run
          crashes   \* crashes so far

vars == <<asked, tasks, ran, lost, table, hosted, local, plugged, moving, planned,
          wal, up, crashes>>
tables == <<table, hosted, local, plugged, moving, planned, wal, up, crashes>>

Init ==
  /\ asked = Requests
  /\ tasks = EmptyBag /\ ran = EmptyBag /\ lost = EmptyBag
  /\ table = [n \in Nodes |-> InitialHost]
  /\ hosted = [n \in Nodes |-> { c \in Containers : InitialHost[c] = n }]
  /\ local = [n \in Nodes |-> n]
  /\ plugged = {} /\ moving = {} /\ planned = Migrations
  /\ wal = [n \in Nodes |-> <<>>]
  /\ up = { n \in Nodes : InitialHost[n] = n } /\ crashes = 0

---------------------------------------------------------------------------
(***************************************************************************)
(* Resolving a query on node n: a sequence of queries.                     *)
(***************************************************************************)

\* A query for one container: local if it is here, or if the table says it is.
ResolveOne(n, c) ==
  IF c \in hosted[n] \/ table[n][c] = n THEN <<Local>> ELSE <<DirectId(c)>>

ResolveDirectIdQueryForwards(n, c) ==
  IF c \in hosted[n] THEN <<Local>> ELSE <<DirectId(c)>>

ResolveDirectIdQuery(n, c) ==
  IF c \in hosted[n] THEN <<Local>> ELSE <<Physical(table[n][c])>>

\* How many queries a range of k containers becomes.
QueriesToCreate(k) ==
  LET ideal == (k + NeighborhoodSize - 1) \div NeighborhoodSize
      create == IF ideal < NeighborhoodSize THEN ideal ELSE NeighborhoodSize
  IN IF create <= 1 THEN k ELSE create

SplitRangeDropsRest(o, k) ==
  LET create == QueriesToCreate(k)
      each == k \div create
  IN [i \in 1 .. create |-> RangeOf(o + (i - 1) * each, each)]

\* Query i of the split: the first k % create get one container more.
SplitRange(o, k) ==
  LET create == QueriesToCreate(k)
      each == k \div create
      more == k % create
      size(i) == IF i <= more THEN each + 1 ELSE each
      before(i) == (i - 1) * each + (IF i - 1 <= more THEN i - 1 ELSE more)
  IN [i \in 1 .. create |-> RangeOf(o + before(i), size(i))]

ResolveRangeQuery(n, o, k) ==
  IF k = 0 THEN <<>>
  ELSE IF k = 1 THEN ResolveOne(n, o)
  ELSE SplitRange(o, k)

ResolvePoolQuery(n, q) ==
  CASE q.mode = "Local"      -> <<q>>
    [] q.mode = "DirectId"   -> ResolveDirectIdQuery(n, q.a)
    [] q.mode = "DirectHash" -> ResolveOne(n, q.a % N)
    [] q.mode = "Range"      -> ResolveRangeQuery(n, q.a, q.b)
    [] q.mode = "Broadcast"  -> ResolveRangeQuery(n, 0, N)
    [] q.mode = "Physical"   -> <<q>>

IsTaskLocalIfOne(n, qs) == Len(qs) = 1

\* IsTaskLocal.
IsTaskLocal(n, qs) ==
  \/ N = 1 /\ qs # <<>>
  \/ /\ Len(qs) = 1
     /\ \/ qs[1].mode = "Local"
        \/ qs[1].mode = "Physical" /\ qs[1].a = n

\* SendIn: the node that a copy with query q goes to.
TargetNode(n, q) ==
  CASE q.mode = "Local"    -> n
    [] q.mode = "Physical" -> q.a
    [] OTHER               -> table[n][q.a]

\* GetContainer: the container the query names if it is here, else the local one.
GetContainer(n, q) == IF q.id \in hosted[n] THEN q.id ELSE local[n]

\* The containers a query is meant for.  A physical query is meant for a node.
Goals(q) ==
  CASE q.mode = "DirectId"   -> {q.a}
    [] q.mode = "DirectHash" -> {q.a % N}
    [] q.mode = "Range"      -> q.a .. (q.a + q.b - 1)
    [] q.mode = "Broadcast"  -> Containers
    [] q.mode \in {"Local", "Physical"} -> {}

---------------------------------------------------------------------------
(***************************************************************************)
(* Tasks.  goals is what a task's original query was meant for; it is kept *)
(* because a DirectId query is sent on as a physical one.                  *)
(***************************************************************************)

Copy(n, q, g) == [node |-> n, query |-> q, goals |-> g]

Ask(r) ==
  /\ r \in asked /\ r.node \in up
  /\ asked' = asked \ {r}
  /\ tasks' = tasks (+) SetToBag({Copy(r.node, r.query, Goals(r.query))})
  /\ UNCHANGED <<ran, lost, tables>>

\* RouteTask with no query: the task goes nowhere and nobody is told.
RouteNowhere(t) ==
  /\ BagIn(t, tasks) /\ t.node \in up
  /\ ResolvePoolQuery(t.node, t.query) = <<>>
  /\ tasks' = tasks (-) SetToBag({t})
  /\ UNCHANGED <<asked, ran, lost, tables>>

\* RouteLocal: the task runs on this node, or is retried while its container is
\* plugged (ProcessRetryQueue resolves the query again).
RouteLocal(t) ==
  /\ BagIn(t, tasks) /\ t.node \in up
  /\ IsTaskLocal(t.node, ResolvePoolQuery(t.node, t.query))
  /\ GetContainer(t.node, t.query) \notin plugged
  /\ tasks' = tasks (-) SetToBag({t})
  /\ ran' = ran (+) SetToBag({[goals |-> t.goals,
                               container |-> GetContainer(t.node, t.query)]})
  /\ UNCHANGED <<asked, lost, tables>>

\* RouteGlobal and SendIn: one copy for each query.
RouteGlobal(t) ==
  LET qs == ResolvePoolQuery(t.node, t.query)
      copy(q) == Copy(TargetNode(t.node, q), q,
                      IF q.mode = "Physical" THEN t.goals ELSE Goals(q))
  IN /\ BagIn(t, tasks) /\ t.node \in up
     /\ qs # <<>> /\ ~IsTaskLocal(t.node, qs)
     /\ tasks' = (tasks (-) SetToBag({t}))
                   (+) SetToBag({ copy(qs[i]) : i \in 1 .. Len(qs) })
     /\ UNCHANGED <<asked, ran, lost, tables>>

---------------------------------------------------------------------------
(***************************************************************************)
(* MigrateContainers, one container at a time, and restarts.               *)
(***************************************************************************)

\* MigrateContainers on a node that need not host the container: PlugContainer, then the
\* broadcast of ChangeAddressTable.  Container::Migrate does nothing.
BeginMove(i) ==
  /\ i \in planned /\ Cardinality(moving) < MaxActive
  /\ i.from \in up
  /\ planned' = planned \ {i}
  /\ moving' = moving \cup
       {[id |-> Cardinality(Migrations \ planned'), container |-> i.container, from |-> i.from, to |-> i.to,
         todo |-> Nodes, failed |-> FALSE]}
  /\ plugged' = IF i.container \in hosted[i.from]
                  THEN plugged \cup {i.container} ELSE plugged
  /\ UNCHANGED <<asked, tasks, ran, lost, table, hosted, local, wal, up, crashes>>

ChangeAddressTableNoLog(m, n) ==
  /\ n \in up /\ n \in m.todo
  /\ table' = [table EXCEPT ![n][m.container] = m.to]
  /\ moving' = (moving \ {m}) \cup {[m EXCEPT !.todo = @ \ {n}]}
  /\ UNCHANGED <<asked, tasks, ran, lost, hosted, local, plugged, planned, up,
                 crashes, wal>>

\* ChangeAddressTable on one node: the log first, then the table.
ChangeAddressTable(m, n) ==
  /\ n \in up /\ n \in m.todo
  /\ wal' = [wal EXCEPT ![n] =
       Append(@, [time |-> m.id, container |-> m.container, node |-> m.to])]
  /\ table' = [table EXCEPT ![n][m.container] = m.to]
  /\ moving' = (moving \ {m}) \cup {[m EXCEPT !.todo = @ \ {n}]}
  /\ UNCHANGED <<asked, tasks, ran, lost, hosted, local, plugged, planned, up,
                 crashes>>

FinishMoveEarly(m) ==
  /\ ~m.failed /\ m.from \in up
  /\ hosted' = [hosted EXCEPT ![m.from] = @ \ {m.container}]
  /\ moving' = moving \ {m}
  /\ UNCHANGED <<asked, tasks, ran, lost, table, local, plugged, planned, wal, up,
                 crashes>>

\* Every node answered: UnregisterContainer.  RecalculateLocalContainer takes
\* another container, or the plugged one that stays as static_container_.
FinishMove(m) ==
  /\ m.todo = {} /\ ~m.failed /\ m.from \in up
  /\ LET s == m.from
         rest == hosted[s] \ {m.container}
     IN /\ hosted' = [hosted EXCEPT ![s] = rest]
        /\ local' = [local EXCEPT ![s] =
             IF @ # m.container \/ m.container \notin hosted[s] THEN @
             ELSE IF rest = {} THEN s ELSE CHOOSE c \in rest : TRUE]
  /\ moving' = moving \ {m}
  /\ UNCHANGED <<asked, tasks, ran, lost, table, plugged, planned, wal, up, crashes>>

\* An answer is an error or the node that asks is gone: the container stays
\* plugged and registered.
AbandonMove(m) ==
  /\ m.from \notin up \/ (m.todo = {} /\ m.failed)
  /\ moving' = moving \ {m}
  /\ UNCHANGED <<asked, tasks, ran, lost, table, hosted, local, plugged, planned,
                 wal, up, crashes>>

\* A node dies with the copies it has received.  A change of its table that is
\* on its way dies too, or is sent again when the node is back.
Crash(n) ==
  /\ n \in up /\ crashes < MaxCrashes
  /\ up' = up \ {n}
  /\ crashes' = crashes + 1
  /\ LET dead == { t \in BagToSet(tasks) : t.node = n }
     IN /\ tasks' = [t \in BagToSet(tasks) \ dead |-> tasks[t]]
        /\ lost' = lost (+) [t \in dead |-> tasks[t]]
  /\ \E dies \in SUBSET { m \in moving : n \in m.todo } :
       moving' = (moving \ dies) \cup
         { [m EXCEPT !.todo = @ \ {n}, !.failed = TRUE] : m \in dies }
  /\ UNCHANGED <<asked, ran, table, hosted, local, plugged, planned, wal>>

\* ReplayAddressTableWAL: the last entry that is read for a container counts.
Replay(tab, log) ==
  [c \in Containers |->
     LET mine == { i \in 1 .. Len(log) : log[i].container = c }
     IN IF mine = {} THEN tab[c]
        ELSE log[CHOOSE i \in mine : \A j \in mine : j <= i].node]

\* The log files a node finds in its directory, in the directory's order.
LogFiles(n) == IF SharedConf THEN SetToSeqs(Nodes) ELSE {<<n>>}

InitAddressMapFromOne == [c \in Containers |-> c + 1]

\* Compose creates the pool again (RegisterContainer, InitAddressMap), then the
\* logs are replayed.
InitAddressMap == [c \in Containers |-> c]

Restart(n) ==
  /\ n \notin up
  /\ up' = up \cup {n}
  /\ hosted' = [hosted EXCEPT ![n] = {n}]
  /\ local' = [local EXCEPT ![n] = n]
  /\ plugged' = plugged \ {n}
  /\ \E f \in LogFiles(n) :
       table' = [table EXCEPT ![n] =
         Replay(InitAddressMap, FlattenSeq([i \in 1 .. Len(f) |-> wal[f[i]]]))]
  /\ UNCHANGED <<asked, tasks, ran, lost, moving, planned, wal, crashes>>

---------------------------------------------------------------------------
Next ==
  \/ \E r \in Requests : Ask(r)
  \/ \E t \in BagToSet(tasks) : RouteNowhere(t) \/ RouteLocal(t) \/ RouteGlobal(t)
  \/ \E i \in Migrations : BeginMove(i)
  \/ \E m \in moving : \/ FinishMove(m)
                       \/ AbandonMove(m)
                       \/ \E n \in Nodes : ChangeAddressTable(m, n)
  \/ \E n \in Nodes : Crash(n) \/ Restart(n)

\* Messages arrive, workers run what they get, a migration that began goes on,
\* a node that went down is restarted.
Fairness ==
  /\ \A n \in Nodes :
       WF_vars(\E t \in BagToSet(tasks) :
                 t.node = n /\ (RouteNowhere(t) \/ RouteLocal(t) \/ RouteGlobal(t)))
  /\ WF_vars(\E m \in moving : \/ FinishMove(m)
                               \/ AbandonMove(m)
                               \/ \E n \in Nodes : ChangeAddressTable(m, n))
  /\ \A n \in Nodes : WF_vars(Restart(n))

Spec == Init /\ [][Next]_vars /\ Fairness

---------------------------------------------------------------------------
TypeOK ==
  /\ asked \subseteq Requests
  /\ IsABag(tasks) /\ IsABag(ran) /\ IsABag(lost)
  /\ \A t \in BagToSet(tasks) : t.node \in Nodes /\ t.goals \subseteq Containers
  /\ \A e \in BagToSet(ran) : e.container \in Containers
  /\ table \in [Nodes -> [Containers -> Nodes]]
  /\ hosted \in [Nodes -> SUBSET Containers]
  /\ local \in [Nodes -> Containers]
  /\ plugged \subseteq Containers
  /\ planned \subseteq Migrations /\ crashes \in 0 .. MaxCrashes
  /\ up \subseteq Nodes
  /\ \A m \in moving : m.todo \subseteq Nodes /\ m.container \in Containers

\* How many members of a bag of copies or executions are meant for container c.
CountFor(bag, c) ==
  SumFunction([x \in { y \in BagToSet(bag) : c \in y.goals } |-> bag[x]])

\* A broadcast, a range and a query for one container reach every container they
\* are meant for exactly once, through however many nodes they are split and
\* passed on, and whatever the tables say meanwhile; only a crash loses a copy.
EachOnce ==
  \A c \in Containers :
    CountFor(tasks, c) + CountFor(ran, c) + CountFor(lost, c) =
      Cardinality({ r \in Requests \ asked : c \in Goals(r.query) })

\* The containers that some node's log says were moved, and those being moved.
Moved == plugged \cup
  UNION { { wal[n][i].container : i \in 1 .. Len(wal[n]) } : n \in Nodes }

\* A task that is meant for a container that stayed where it is runs on that
\* container, not on another one of the node.
RightContainer ==
  \A e \in BagToSet(ran) :
    e.goals # {} /\ e.goals \cap Moved = {} => e.container \in e.goals

\* A node that restarts has the address table it had when it went down.
ReplayRestores ==
  [][\A n \in Nodes : n \notin up /\ n \in up' => table'[n] = table[n]]_vars

\* A node that restarts believes of every container the newest entry it read.
ReplayNewest ==
  [][\A n \in Nodes : n \notin up /\ n \in up' =>
       LET read == UNION { { wal[m][i] : i \in 1 .. Len(wal[m]) } :
                             m \in IF SharedConf THEN Nodes ELSE {n} }
       IN \A e \in read :
            (\A f \in read : f.container = e.container => f.time <= e.time)
              => table'[n][e.container] = e.node]_vars

\* A task does not go round between nodes whose tables disagree: it runs, or it
\* waits for a container that is plugged.
Waits(t) ==
  /\ IsTaskLocal(t.node, ResolvePoolQuery(t.node, t.query))
  /\ GetContainer(t.node, t.query) \in plugged
AllSettle == <>[](\A t \in BagToSet(tasks) : t.node \in up => Waits(t))

\* When no migration is under way and no node has crashed, all address tables
\* agree, so that a container is looked for on the same node from everywhere.
TablesAgree ==
  moving = {} /\ crashes = 0 => \A n, m \in Nodes : table[n] = table[m]

\* The state is well formed, the copies a query is split into reach each container
\* once, on the container meant, and the tables agree when no migration is under
\* way.
RoutingInv == TypeOK /\ EachOnce /\ RightContainer /\ TablesAgree
=============================================================================
