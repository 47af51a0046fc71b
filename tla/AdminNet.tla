------------------------------ MODULE AdminNet ------------------------------
(***************************************************************************)
(* Tasks that cross nodes (admin_runtime.cc): the origin sends a copy of   *)
(* the task for every replica (SendIn), the target runs it (RecvIn) and    *)
(* sends its outputs back (SendOut), the origin aggregates them and ends   *)
(* the task with the last one (RecvOut).  Copies and outputs for a node    *)
(* that is not alive wait in retry queues (ProcessRetryQueues), and tasks  *)
(* that wait for a dead node are given up (ScanSendMapTimeouts).           *)
(*                                                                         *)
(* One net worker per node runs all of these, so each is a step; time is   *)
(* not measured: an entry may time out at any moment once it can.  The     *)
(* origin files a task under its address (net_key_), which the program     *)
(* gives to another task once the first has ended.  Failure detection      *)
(* is taken from AdminMembership: a node is marked "unsure" (kProbeFailed  *)
(* or kSuspected) and then "dead".                                         *)
(***************************************************************************)
EXTENDS Integers, Sequences, FiniteSets

CONSTANTS
    Nodes,          \* the runtimes
    Zero,           \* the one with node id 0
    Tasks,          \* tasks that are sent to other nodes
    Origin,         \* the node each task starts on
    Queries,        \* pool_queries_ of each task: one per replica, physical for
                    \* a node, direct (DirectId and Range) for a container
    Subtasks,       \* tasks a running task of the node sends and awaits
    NetTimeout,     \* "default", or "zero" for net_timeout = 0
    Containers,     \* containers addressed by DirectId and Range queries
    Home,           \* the node of each container at first
    Addresses,      \* addresses a task may be allocated at
    RetryTimeouts,  \* whether an entry may stay in a retry queue for too long
    RefuseSend,     \* whether a send to a node that is down may report it
    Suspectors,     \* nodes that may suspect a node that is up
    MaxSuspicions,  \* bound: nodes that are up and not seen as alive
    MaxCrashes,     \* bound: crashes
    MaxRestarts,    \* bound: restarts of crashed nodes
    MaxMoves,       \* bound: containers recovered on another node
    MaxFaults       \* bound: suspicions, crashes and restarts together

None == "none"
Physical(n) == [mode |-> "physical", node |-> n]
Direct(c) == [mode |-> "direct", con |-> c]
PoolQueries == {Physical(n) : n \in Nodes} \cup {Direct(c) : c \in Containers}

ASSUME NetAssumption ==
    /\ Zero \in Nodes /\ Addresses # {} /\ None \notin Tasks
    /\ Origin \in [Tasks -> Nodes] /\ Subtasks \subseteq Tasks
    /\ Suspectors \subseteq Nodes
    /\ NetTimeout \in [Tasks -> {"default", "zero"}]
    /\ Home \in [Containers -> Nodes]
    /\ \A t \in Tasks : Queries[t] # <<>> /\ Queries[t] \in Seq(PoolQueries)
    /\ {MaxSuspicions, MaxCrashes, MaxRestarts, MaxMoves, MaxFaults} \subseteq Nat
    /\ {RefuseSend, RetryTimeouts} \subseteq BOOLEAN

\* Mutant: the return node is left at its default, node 0.
CopyFromZero(t, i, k) == [task |-> t, rep |-> i, key |-> k, from |-> Zero]

\* Messages, retry entries, entries of recv_map_ and tasks being run: the copy
\* of task for replica rep, filed under key at node from.
Copy(t, i, k) == [task |-> t, rep |-> i, key |-> k, from |-> Origin[t]]
Reps(t) == DOMAIN Queries[t]

VARIABLES
    up,         \* nodes that run
    view,       \* hostfile_map_: the state of every node as seen by each
    addr,       \* address_map_ of each node
    status,     \* of each task: idle, queued, waiting, ok, timeout, lost, gone
    key,        \* the address of each task
    completed,  \* completed_replicas_
    send_map,   \* send_map_: the task filed under each address
    retry_in,   \* send_in_retry_: copies and their targets
    recv_map,   \* recv_map_: the copy filed under each address and replica
    running,    \* copies the workers have not finished
    outputs,    \* copies in the SendOut queue
    retry_out,  \* send_out_retry_
    net,        \* messages on their way
    got,        \* history: copies aggregated into each task
    runs,       \* history: how often each copy ran
    count       \* history: faults so far, and whether a dead node was heard again

vars == <<up, view, addr, status, key, completed, send_map, retry_in, recv_map,
          running, outputs, retry_out, net, got, runs, count>>

Init ==
    /\ up = Nodes
    /\ view = [n \in Nodes |-> [m \in Nodes |-> "alive"]]
    /\ addr = [n \in Nodes |-> Home]
    /\ status = [t \in Tasks |-> "idle"]
    /\ key \in [Tasks -> {CHOOSE a \in Addresses : TRUE}]
    /\ completed = [t \in Tasks |-> 0]
    /\ send_map = [n \in Nodes |-> [a \in Addresses |-> None]]
    /\ retry_in = [n \in Nodes |-> {}]
    /\ recv_map = [n \in Nodes |-> {}]
    /\ running = [n \in Nodes |-> {}]
    /\ outputs = [n \in Nodes |-> {}]
    /\ retry_out = [n \in Nodes |-> {}]
    /\ net = {}
    /\ got = [t \in Tasks |-> {}]
    /\ runs = [t \in Tasks |-> [i \in Reps(t) |-> 0]]
    /\ count = [suspicions |-> 0, crashes |-> 0, restarts |-> 0, moves |-> 0,
                returns |-> 0]

Alive(n, m) == view[n][m] = "alive"
Live(t) == status[t] \in {"queued", "waiting", "lost"}
In(c, to) == [kind |-> "in", copy |-> c, to |-> to]
Out(c) == [kind |-> "out", copy |-> c, to |-> c.from]

\* A task is allocated at an address no live task of its node has, and put in
\* the net queue.
Submit(t) ==
    /\ status[t] = "idle" /\ Origin[t] \in up
    /\ \E a \in Addresses :
         /\ \A u \in Tasks : Live(u) /\ Origin[u] = Origin[t] => key[u] # a
         /\ key' = [key EXCEPT ![t] = a]
    /\ status' = [status EXCEPT ![t] = "queued"]
    /\ UNCHANGED <<up, view, addr, completed, send_map, retry_in, recv_map,
                   running, outputs, retry_out, net, got, runs, count>>

\* The node a replica goes to.
Target(n, q) == IF q.mode = "physical" THEN q.node ELSE addr[n][q.con]

\* Nodes whose refusal a sender learns of at once.
MayRefuse(n, to) == RefuseSend /\ to \notin up /\ Alive(n, to)
MarkDead(n, S) == [view EXCEPT ![n] = [m \in Nodes |-> IF m \in S THEN "dead" ELSE @[m]]]

SendIn(t) ==
    LET n     == Origin[t]
        to(i) == Target(n, Queries[t][i])
        copy(i) == Copy(t, i, key[t])
    IN  /\ status[t] = "queued"
        /\ status' = [status EXCEPT ![t] = "waiting"]
        /\ send_map' = [send_map EXCEPT ![n][key[t]] = t]
        /\ \E R \in SUBSET {i \in Reps(t) : MayRefuse(n, to(i))} :
             LET dead(i) == \/ ~Alive(n, to(i))
                            \/ \E j \in R : j < i /\ to(j) = to(i)
                 sent  == {i \in Reps(t) \ R : ~dead(i)}
                 skip  == {i \in Reps(t) : dead(i) /\ NetTimeout[t] = "zero"}
                 later == Reps(t) \ (sent \cup skip)
             IN  /\ net' = net \cup {In(copy(i), to(i)) : i \in sent}
                 /\ completed' = [completed EXCEPT ![t] = @ + Cardinality(skip)]
                 /\ retry_in' = [retry_in EXCEPT ![n] =
                                   @ \cup {[copy |-> copy(i), to |-> to(i)] : i \in later}]
                 /\ view' = MarkDead(n, {to(i) : i \in R})
        /\ UNCHANGED <<up, addr, key, recv_map, running, outputs, retry_out,
                       got, runs, count>>

\* FlushStaleStateForNode: entries for the earlier life of node m are dropped,
\* and each copy counts as completed for the task filed under its address.
FlushStaleStateForNode(n, m) ==
    LET stale == {e \in retry_in[n] : e.to = m}
        hits(t) == {e \in stale : send_map[n][e.copy.key] = t}
    IN  /\ retry_in' = [retry_in EXCEPT ![n] = @ \ stale]
        /\ retry_out' = [retry_out EXCEPT ![n] = {c \in @ : c.from # m}]
        /\ completed' = [t \in Tasks |-> completed[t] + Cardinality(hits(t))]

\* A task from a node that was marked dead marks it alive again.
Welcome(n, m) ==
    IF view[n][m] = "dead" /\ m # n
    THEN /\ FlushStaleStateForNode(n, m)
         /\ view' = [view EXCEPT ![n][m] = "alive"]
         /\ count' = [count EXCEPT !.returns = 1]
    ELSE UNCHANGED <<view, completed, retry_in, retry_out, count>>

SameSlot(c, d) == c.key = d.key /\ c.rep = d.rep

\* Mutant: the message stays with the transport.
RecvInTwice(msg) ==
    LET n == msg.to  c == msg.copy
    IN  /\ msg \in net /\ msg.kind = "in" /\ n \in up
        /\ Welcome(n, c.from)
        /\ recv_map' = [recv_map EXCEPT ![n] = {d \in @ : ~SameSlot(c, d)} \cup {c}]
        /\ running' = [running EXCEPT ![n] = @ \cup {c}]
        /\ UNCHANGED <<up, addr, status, key, send_map, outputs, net, got, runs>>

RecvIn(msg) ==
    LET n == msg.to  c == msg.copy
    IN  /\ msg \in net /\ msg.kind = "in" /\ n \in up
        /\ net' = net \ {msg}
        /\ Welcome(n, c.from)
        /\ recv_map' = [recv_map EXCEPT ![n] = {d \in @ : ~SameSlot(c, d)} \cup {c}]
        /\ running' = [running EXCEPT ![n] = @ \cup {c}]
        /\ UNCHANGED <<up, addr, status, key, send_map, outputs, got, runs>>

\* RecvIn of a heartbeat of node m, which is answered like any other task.
RecvProbe(n, m) ==
    /\ {n, m} \subseteq up /\ n # m /\ view[n][m] = "dead"
    /\ Welcome(n, m)
    /\ UNCHANGED <<up, addr, status, key, send_map, recv_map, running, outputs,
                   net, got, runs>>

\* A worker runs the copy; EndTask puts a remote task in the SendOut queue.
Execute(n, c) ==
    /\ c \in running[n]
    /\ running' = [running EXCEPT ![n] = @ \ {c}]
    /\ outputs' = [outputs EXCEPT ![n] = @ \cup {c}]
    /\ runs' = [runs EXCEPT ![c.task][c.rep] = @ + 1]
    /\ UNCHANGED <<up, view, addr, status, key, completed, send_map, retry_in,
                   recv_map, retry_out, net, got, count>>

\* Mutant: the answer goes to the node of the copy that is filed in its slot.
SendBackToSlot(n, c) ==
    LET d == CHOOSE d \in recv_map[n] : SameSlot(c, d)
    IN  /\ Alive(n, d.from)
        /\ net' = net \cup {[Out(c) EXCEPT !.to = d.from]}
        /\ UNCHANGED <<view, retry_out>>

\* The body of SendOut once the copy was found in recv_map_: it is erased and
\* sent, or queued while its origin is not alive or cannot be reached.
SendBack(n, c) ==
    \/ /\ Alive(n, c.from)
       /\ net' = net \cup {Out(c)}
       /\ UNCHANGED <<view, retry_out>>
    \/ /\ ~Alive(n, c.from)
       /\ retry_out' = [retry_out EXCEPT ![n] = @ \cup {c}]
       /\ UNCHANGED <<view, net>>
    \/ /\ MayRefuse(n, c.from)
       /\ retry_out' = [retry_out EXCEPT ![n] = @ \cup {c}]
       /\ view' = MarkDead(n, {c.from})
       /\ UNCHANGED net

InRecvMap(n, c) == \E d \in recv_map[n] : SameSlot(c, d)

\* SendOut: outputs that are not in recv_map_ are dropped.
SendOut(n, c) ==
    /\ c \in outputs[n]
    /\ outputs' = [outputs EXCEPT ![n] = @ \ {c}]
    /\ \/ /\ InRecvMap(n, c)
          /\ recv_map' = [recv_map EXCEPT ![n] = {d \in @ : ~SameSlot(c, d)}]
          /\ SendBack(n, c)
       \/ /\ ~InRecvMap(n, c)
          /\ UNCHANGED <<recv_map, view, retry_out, net>>
    /\ UNCHANGED <<up, addr, status, key, completed, send_map, retry_in,
                   running, got, runs, count>>

\* RerouteRetryEntry: the node the container of a copy has moved to.  Node id 0
\* stands for none.
RerouteRetryEntry(n, e) ==
    LET q == Queries[e.copy.task][e.copy.rep]
    IN  IF q.mode = "direct" THEN {addr[n][q.con]} \ {Zero, e.to} ELSE {}

\* ProcessRetryQueues, a copy: it times out, or is sent to its target once that
\* is alive, or else to the node its container has moved to.  A send that fails
\* leaves it in the queue, with the new target.
RetryIn(n, e) ==
    /\ e \in retry_in[n]
    /\ \/ /\ RetryTimeouts
          /\ retry_in' = [retry_in EXCEPT ![n] = @ \ {e}]
          /\ UNCHANGED net
       \/ \E m \in RerouteRetryEntry(n, e) \cup {e.to} :
            /\ Alive(n, m) /\ (m = e.to \/ ~Alive(n, e.to))
            /\ \/ /\ retry_in' = [retry_in EXCEPT ![n] = @ \ {e}]
                  /\ net' = net \cup {In(e.copy, m)}
               \/ /\ m # e.to /\ MayRefuse(n, m)
                  /\ retry_in' = [retry_in EXCEPT ![n] = (@ \ {e}) \cup {[e EXCEPT !.to = m]}]
                  /\ UNCHANGED net
    /\ UNCHANGED <<up, view, addr, status, key, completed, send_map, recv_map,
                   running, outputs, retry_out, got, runs, count>>

\* ProcessRetryQueues, outputs: they time out, or once the origin is alive
\* SendOut is called for them again.  SendOut erased them from recv_map_ before
\* they were queued, so it sends them only if another copy was filed in their
\* place.
RetryOut(n, c) ==
    /\ c \in retry_out[n]
    /\ retry_out' = [retry_out EXCEPT ![n] = @ \ {c}]
    /\ \/ /\ RetryTimeouts \/ (Alive(n, c.from) /\ ~InRecvMap(n, c))
          /\ UNCHANGED <<recv_map, net>>
       \/ /\ Alive(n, c.from) /\ InRecvMap(n, c)
          /\ recv_map' = [recv_map EXCEPT ![n] = {d \in @ : ~SameSlot(c, d)}]
          /\ net' = net \cup {Out(c)}
    /\ UNCHANGED <<up, view, addr, status, key, completed, send_map, retry_in,
                   running, outputs, got, runs, count>>

\* EndTask does nothing for a task whose RunContext has no container.  RecvOut
\* sets it; ScanSendMapTimeouts does not, and SendRuntimeClient leaves it null in
\* a subtask that goes to another node.
TimedOut(t) == IF t \in Subtasks THEN "lost" ELSE "timeout"

\* ScanSendMapTimeouts: a task with a physical query to a node that has been
\* dead for long ends with kNetworkTimeoutRC.
ScanSendMapTimeouts(t) ==
    /\ status[t] = "waiting"
    /\ send_map[Origin[t]][key[t]] = t
    /\ \E i \in Reps(t) : /\ Queries[t][i].mode = "physical"
                          /\ view[Origin[t]][Queries[t][i].node] = "dead"
    /\ status' = [status EXCEPT ![t] = TimedOut(t)]
    /\ send_map' = [send_map EXCEPT ![Origin[t]][key[t]] = None]
    /\ UNCHANGED <<up, view, addr, key, completed, retry_in, recv_map, running,
                   outputs, retry_out, net, got, runs, count>>

\* Mutants: the task ends with one answer less, or one more.
LastAnswerEarly(t, k) == k >= Len(Queries[t]) - 1
LastAnswerLate(t, k) == k > Len(Queries[t])

\* Whether the task has its last answer with the k-th.
LastAnswer(t, k) == k = Len(Queries[t])

\* RecvOut: the answer goes to the task filed under its address, unless there
\* is none or it has no such replica; the last one ends the task.
RecvOut(msg) ==
    LET n == msg.to  c == msg.copy  t == send_map[n][c.key]
    IN  /\ msg \in net /\ msg.kind = "out" /\ n \in up
        /\ net' = net \ {msg}
        /\ IF t = None \/ c.rep \notin Reps(t)
           THEN UNCHANGED <<got, completed, status, send_map>>
           ELSE /\ got' = [got EXCEPT ![t] = @ \cup {c}]
                /\ completed' = [completed EXCEPT ![t] = @ + 1]
                /\ IF LastAnswer(t, completed'[t])
                   THEN /\ status' = [status EXCEPT ![t] = "ok"]
                        /\ send_map' = [send_map EXCEPT ![n][c.key] = None]
                   ELSE UNCHANGED <<status, send_map>>
        /\ UNCHANGED <<up, view, addr, key, retry_in, recv_map, running, outputs,
                       retry_out, runs, count>>
-----------------------------------------------------------------------------
(* The environment.                                                        *)

\* One more fault of a kind, if the bounds allow it.
Fault(kind, max) ==
    /\ count[kind] < max
    /\ count.suspicions + count.crashes + count.restarts < MaxFaults
    /\ count' = [count EXCEPT ![kind] = @ + 1]

\* A message for a node that is down is gone.
Lose(msg) ==
    /\ msg \in net /\ msg.to \notin up
    /\ net' = net \ {msg}
    /\ UNCHANGED <<up, view, addr, status, key, completed, send_map, retry_in,
                   recv_map, running, outputs, retry_out, got, runs, count>>

Crash(n) ==
    /\ n \in up /\ Fault("crashes", MaxCrashes)
    /\ up' = up \ {n}
    /\ status' = [t \in Tasks |-> IF Origin[t] = n /\ Live(t)
                                  THEN "gone" ELSE status[t]]
    /\ send_map' = [send_map EXCEPT ![n] = [a \in Addresses |-> None]]
    /\ retry_in' = [retry_in EXCEPT ![n] = {}]
    /\ recv_map' = [recv_map EXCEPT ![n] = {}]
    /\ running' = [running EXCEPT ![n] = {}]
    /\ outputs' = [outputs EXCEPT ![n] = {}]
    /\ retry_out' = [retry_out EXCEPT ![n] = {}]
    /\ UNCHANGED <<view, addr, key, completed, net, got, runs>>

Restart(n) ==
    /\ n \notin up /\ Fault("restarts", MaxRestarts)
    /\ up' = up \cup {n}
    /\ view' = [view EXCEPT ![n] = [m \in Nodes |-> "alive"]]
    /\ UNCHANGED <<addr, status, key, completed, send_map, retry_in, recv_map,
                   running, outputs, retry_out, net, got, runs>>

\* The failure detector of n: towards dead for a node that is down, and, as
\* often as MaxSuspicions allows, for one that is up.
Worse == [alive |-> "unsure", unsure |-> "dead", dead |-> "dead"]

Suspect(n, m) ==
    /\ n \in up /\ n # m /\ view[n][m] # "dead"
    /\ view' = [view EXCEPT ![n][m] = Worse[@]]
    /\ \/ m \notin up /\ UNCHANGED count
       \/ m \in up /\ n \in Suspectors /\ Fault("suspicions", MaxSuspicions)
    /\ UNCHANGED <<up, addr, status, key, completed, send_map, retry_in, recv_map,
                   running, outputs, retry_out, net, got, runs>>

Trust(n, m) ==
    /\ {n, m} \subseteq up /\ view[n][m] = "unsure"
    /\ view' = [view EXCEPT ![n][m] = "alive"]
    /\ UNCHANGED <<up, addr, status, key, completed, send_map, retry_in, recv_map,
                   running, outputs, retry_out, net, got, runs, count>>

\* RecoverContainers: node n learns that container c is on m now.
Recover(n, c, m) ==
    /\ count.moves < MaxMoves
    /\ n \in up /\ view[n][addr[n][c]] = "dead" /\ Alive(n, m)
    /\ count' = [count EXCEPT !.moves = @ + 1]
    /\ addr' = [addr EXCEPT ![n][c] = m]
    /\ UNCHANGED <<up, view, status, key, completed, send_map, retry_in, recv_map,
                   running, outputs, retry_out, net, got, runs>>

\* What the net workers, the other workers and the network do of themselves.
Work ==
    \/ \E t \in Tasks : SendIn(t)
    \/ \E msg \in net : RecvIn(msg)
    \/ \E n \in Nodes : \E c \in running[n] : Execute(n, c)
    \/ \E n \in Nodes : \E c \in outputs[n] : SendOut(n, c)
    \/ \E n \in Nodes : \E e \in retry_in[n] : RetryIn(n, e)
    \/ \E n \in Nodes : \E c \in retry_out[n] : RetryOut(n, c)
    \/ \E t \in Tasks : ScanSendMapTimeouts(t)
    \/ \E msg \in net : RecvOut(msg)
    \/ \E msg \in net : Lose(msg)

\* What the failure detector does of itself.
Detect ==
    \/ \E n, m \in Nodes : m \notin up /\ Suspect(n, m)
    \/ \E n, m \in Nodes : Trust(n, m)
    \/ \E n, m \in Nodes : RecvProbe(n, m)

Next ==
    \/ Work
    \/ Detect
    \/ \E t \in Tasks : Submit(t)
    \/ \E n \in Nodes : Crash(n)
    \/ \E n \in Nodes : Restart(n)
    \/ \E n, m \in Nodes : m \in up /\ Suspect(n, m)
    \/ \E n, m \in Nodes, c \in Containers : Recover(n, c, m)

Spec == Init /\ [][Next]_vars

\* The periodic Send and Recv tasks, the workers and the heartbeat probe of
\* every node keep running.  Every step of Work and Detect brings a copy or a
\* view closer to its end, so one condition for all of them is enough.
FairSpec == Spec /\ WF_vars(Work \/ Detect)
-----------------------------------------------------------------------------
CopyOK(c) == /\ c.task \in Tasks /\ c.rep \in Reps(c.task)
             /\ c.key \in Addresses /\ c.from = Origin[c.task]

\* Types, and every copy on its way names a replica and the node to return to.
TypeOK ==
    /\ up \subseteq Nodes
    /\ view \in [Nodes -> [Nodes -> {"alive", "unsure", "dead"}]]
    /\ addr \in [Nodes -> [Containers -> Nodes]]
    /\ key \in [Tasks -> Addresses]
    /\ \A n \in Nodes : \A c \in running[n] \cup outputs[n] \cup retry_out[n] : CopyOK(c)
    /\ completed \in [Tasks -> Nat]

\* No copy runs twice, whatever is retried, re-routed or flushed.
AtMostOnce == \A t \in Tasks : \A i \in Reps(t) : runs[t][i] <= 1

\* What the properties below need: no task was given up, so that no answer is
\* late; no node has restarted, and none that was marked dead is heard again.
NoTimeout == \A t \in Tasks : status[t] # "timeout"
NoReturn == count.restarts = 0 /\ count.returns = 0

\* A task only ever aggregates answers that were computed for it: an answer is
\* found by the address of its task, and addresses are used again.
OwnResults ==
    NoTimeout /\ NoReturn => \A t \in Tasks : \A c \in got[t] : c.task = t

\* A task that ends without an error has an answer of every replica, unless it
\* asked to skip the nodes that are not alive.
CompleteMeansAll ==
    NoTimeout /\ NoReturn =>
        \A t \in Tasks : status[t] = "ok" /\ NetTimeout[t] = "default" =>
            \A i \in Reps(t) : \E c \in got[t] : c.task = t /\ c.rep = i

\* A task whose replicas all count as completed has ended: a replica is counted
\* without an answer only when its node is heard again (FlushStaleStateForNode)
\* or the task asked for it (SendIn).
NotStranded ==
    NoReturn =>
        \A t \in Tasks : status[t] = "waiting" /\ NetTimeout[t] = "default" =>
            completed[t] < Len(Queries[t])

\* Answers reach the task they were computed for even after one was given up.
AlwaysOwnResults == \A t \in Tasks : \A c \in got[t] : c.task = t

\* Counting a replica without an answer (SendIn of a task with net_timeout 0,
\* FlushStaleStateForNode) never leaves a task waiting for nothing.
NeverStranded ==
    \A t \in Tasks : status[t] = "waiting" => completed[t] < Len(Queries[t])

\* Every task that is sent to other nodes ends, unless its node crashes.
Answered == \A t \in Tasks : Live(t) ~> ~Live(t)

\* The state is well formed, no copy of a task runs twice although copies are
\* retried and re-routed, and a task whose replicas are all counted has ended.
NetInv == TypeOK /\ AtMostOnce /\ NotStranded
=============================================================================
