--------------------------- MODULE AdminMembership ---------------------------
(***************************************************************************)
(* Failure detection and recovery (admin_runtime.cc).  HeartbeatProbe runs *)
(* every two seconds on each node: it looks at the direct and indirect     *)
(* probes that are out, confirms suspected nodes as dead, fences itself    *)
(* when most others look bad and sends one new probe.  The node that sees  *)
(* itself as the leader recovers the containers of a dead node on other    *)
(* nodes and waits for all of them.                                        *)
(*                                                                         *)
(* An invocation of HeartbeatProbe passes through the phases "probe"       *)
(* (parts 1 and 2), "confirm" (part 3), "await" (the co_await in           *)
(* TriggerRecovery) and back to "probe" (parts 4 and 5).  Time is not      *)
(* measured.  Which node is probed next and which alive nodes take the     *)
(* containers (round robin in the code) is left open.  Crashed nodes stay  *)
(* down; AdminNet has restarts.                                            *)
(***************************************************************************)
EXTENDS Integers, FiniteSets, FiniteSetsExt

CONSTANTS
    Nodes,                  \* node ids
    Observers,              \* nodes whose HeartbeatProbe is modelled
    kIndirectProbeHelpers,
    Containers,
    Home,                   \* the node of each container at first
    Mortal,                 \* nodes that may crash or leave
    MaxCrashes,             \* bound: crashes
    MaxLeaves,              \* bound: announced shutdowns
    MaxLost,                \* bound: probes of a node that is up that time out
    MaxRefused,             \* bound: sends to a node that is up that fail
    MaxFaults               \* bound: faults of all kinds together

ASSUME MembershipAssumption ==
    /\ IsFiniteSet(Nodes) /\ Nodes \subseteq Nat
    /\ Observers \subseteq Nodes /\ Mortal \subseteq Nodes
    /\ Home \in [Containers -> Nodes]
    /\ {kIndirectProbeHelpers, MaxCrashes, MaxLeaves, MaxLost, MaxRefused,
        MaxFaults} \subseteq Nat

VARIABLES
    up,         \* nodes that run
    view,       \* hostfile_map_: the state of every node as seen by each
    dead_nodes, \* dead_nodes_
    direct,     \* pending_direct_probes_: none, sent, answered
    indirect,   \* pending_indirect_probes_ per target and helper: none, sent,
                \* alive, unreachable
    fenced,     \* nodes with self_fenced_
    initiated,  \* recovery_initiated_
    phase,      \* of HeartbeatProbe
    pending,    \* per dead node: who has not answered the RecoverContainers
    plans,      \* RecoverContainers tasks on their way
    leaving,    \* AnnounceShutdown tasks on their way: <<to, leaving node>>
    addr,       \* address_map_ of each node
    hosted,     \* containers that exist on each node
    count       \* history: faults so far

probing == <<direct, indirect>>
recovery == <<initiated, pending, plans>>
vars == <<up, view, dead_nodes, direct, indirect, fenced, initiated, phase,
          pending, plans, leaving, addr, hosted, count>>

Init ==
    /\ up = Nodes
    /\ view = [n \in Nodes |-> [m \in Nodes |-> "alive"]]
    /\ dead_nodes = [n \in Nodes |-> {}]
    /\ direct = [n \in Nodes |-> [m \in Nodes |-> "none"]]
    /\ indirect = [n \in Nodes |-> [m \in Nodes |-> [h \in Nodes |-> "none"]]]
    /\ fenced = {}
    /\ initiated = [n \in Nodes |-> {}]
    /\ phase = [n \in Nodes |-> "probe"]
    /\ pending = [n \in Nodes |-> [m \in Nodes |-> {}]]
    /\ plans = {}
    /\ leaving = {}
    /\ addr = [n \in Nodes |-> Home]
    /\ hosted = [n \in Nodes |-> {c \in Containers : Home[c] = n}]
    /\ count = [crashes |-> 0, leaves |-> 0, lost |-> 0, refused |-> 0]

Running(n, p) == n \in up \cap Observers /\ phase[n] = p

\* One more fault of a kind, if the bounds allow it.
Faults == count.crashes + count.leaves + count.lost + count.refused
Fault(kind, max) ==
    /\ count[kind] < max /\ Faults < MaxFaults
    /\ count' = [count EXCEPT ![kind] = @ + 1]

\* A probe of m fails: always possible once m is down, and MaxLost times before.
ProbeFails(m) ==
    \/ m \notin up /\ UNCHANGED count
    \/ m \in up /\ Fault("lost", MaxLost)
-----------------------------------------------------------------------------
(* HeartbeatProbe, part 1: direct probes.                                  *)

\* SetNodeState does not touch dead_nodes_.
SetNodeState(n, m, s) == view' = [view EXCEPT ![n][m] = s]

DirectAnswered(n, m) ==
    /\ Running(n, "probe") /\ direct[n][m] = "answered"
    /\ SetNodeState(n, m, "alive")
    /\ direct' = [direct EXCEPT ![n][m] = "none"]
    /\ UNCHANGED <<up, dead_nodes, indirect, fenced, recovery, phase, leaving,
                   addr, hosted, count>>

\* Candidates for an indirect probe of m.
Helpers(n, m) == {h \in Nodes \ {n, m} : view[n][h] = "alive"}

\* Mutant: the node is suspected at once.
DirectTimeoutSuspects(n, m) ==
    /\ Running(n, "probe") /\ direct[n][m] = "sent"
    /\ ProbeFails(m)
    /\ SetNodeState(n, m, "suspected")
    /\ direct' = [direct EXCEPT ![n][m] = "none"]
    /\ UNCHANGED <<up, dead_nodes, indirect, fenced, recovery, phase, leaving, addr,
                   hosted>>

DirectTimeout(n, m) ==
    /\ Running(n, "probe") /\ direct[n][m] = "sent"
    /\ ProbeFails(m)
    /\ SetNodeState(n, m, "probe_failed")
    /\ direct' = [direct EXCEPT ![n][m] = "none"]
    /\ \E H \in SUBSET Helpers(n, m) :
         /\ Cardinality(H) = Min({kIndirectProbeHelpers, Cardinality(Helpers(n, m))})
         /\ indirect' = [indirect EXCEPT ![n][m] =
                           [h \in Nodes |-> IF h \in H THEN "sent" ELSE @[h]]]
    /\ UNCHANGED <<up, dead_nodes, fenced, recovery, phase, leaving, addr, hosted>>
-----------------------------------------------------------------------------
(* Part 2: indirect probes.                                                *)

IndirectAlive(n, m, h) ==
    /\ Running(n, "probe") /\ indirect[n][m][h] = "alive"
    /\ SetNodeState(n, m, "alive")
    /\ indirect' = [indirect EXCEPT ![n][m] = [k \in Nodes |-> "none"]]
    /\ UNCHANGED <<up, dead_nodes, direct, fenced, recovery, phase, leaving,
                   addr, hosted, count>>

\* Mutant: the last helper is not noticed.
DropIndirectSilently(n, m, h) ==
    /\ indirect' = [indirect EXCEPT ![n][m][h] = "none"]
    /\ UNCHANGED view

\* The last indirect probe that fails makes the node suspected.
DropIndirect(n, m, h) ==
    /\ indirect' = [indirect EXCEPT ![n][m][h] = "none"]
    /\ IF view[n][m] = "probe_failed" /\ \A k \in Nodes : indirect'[n][m][k] = "none"
       THEN SetNodeState(n, m, "suspected")
       ELSE UNCHANGED view

IndirectFailed(n, m, h) ==
    /\ Running(n, "probe") /\ indirect[n][m][h] = "unreachable"
    /\ DropIndirect(n, m, h)
    /\ UNCHANGED <<up, dead_nodes, direct, fenced, recovery, phase, leaving,
                   addr, hosted, count>>

\* No answer of the helper: it is down, or it is slow.
IndirectTimeout(n, m, h) ==
    /\ Running(n, "probe") /\ indirect[n][m][h] = "sent"
    /\ ProbeFails(h)
    /\ DropIndirect(n, m, h)
    /\ UNCHANGED <<up, dead_nodes, direct, fenced, recovery, phase, leaving,
                   addr, hosted>>

EndProbes(n) ==
    /\ Running(n, "probe")
    /\ phase' = [phase EXCEPT ![n] = "confirm"]
    /\ UNCHANGED <<up, view, dead_nodes, probing, fenced, recovery, leaving,
                   addr, hosted, count>>
-----------------------------------------------------------------------------
(* Part 3: suspicions, and recovery.                                       *)

\* Mutant: dead_nodes_ is forgotten.
SetDeadUnlisted(n, m) ==
    /\ SetNodeState(n, m, "dead")
    /\ UNCHANGED dead_nodes

SetDead(n, m) ==
    /\ SetNodeState(n, m, "dead")
    /\ dead_nodes' = [dead_nodes EXCEPT ![n] = @ \cup {m}]

GetLeaderNodeId(v) == LET A == {m \in Nodes : v[m] = "alive"}
                      IN  IF A = {} THEN 0 ELSE Min(A)

\* Where the containers of m may go, as n sees it: any alive node each.
ComputeRecoveryPlan(n, m, v) ==
    [{c \in Containers : addr[n][c] = m} -> {k \in Nodes : v[k] = "alive"}]

\* RecoverContainers is broadcast with net_timeout 0: nodes that are not alive
\* are left out.
SendPlan(n, m, plan, v) ==
    LET to == {k \in Nodes : v[k] = "alive"}
    IN  /\ plans' = plans \cup {[from |-> n, to |-> k, dead |-> m, plan |-> plan] : k \in to}
        /\ pending' = [pending EXCEPT ![n][m] = to]

\* Mutant: recovery_initiated_ is not looked at.
TriggerRecoveryAgain(n, m, v) ==
    LET lost == {c \in Containers : addr[n][c] = m}
    IN  IF GetLeaderNodeId(v) # n THEN UNCHANGED recovery
        ELSE /\ initiated' = [initiated EXCEPT ![n] = @ \cup {m}]
             /\ IF n \in fenced \/ lost = {}
                THEN UNCHANGED <<pending, plans>>
                ELSE \E plan \in ComputeRecoveryPlan(n, m, v) : SendPlan(n, m, plan, v)

\* TriggerRecovery, once n has marked m as dead and its view is v.
TriggerRecovery(n, m, v) ==
    LET lost == {c \in Containers : addr[n][c] = m}
    IN  IF GetLeaderNodeId(v) # n \/ m \in initiated[n] THEN UNCHANGED recovery
        ELSE /\ initiated' = [initiated EXCEPT ![n] = @ \cup {m}]
             /\ IF n \in fenced \/ lost = {}
                THEN UNCHANGED <<pending, plans>>
                ELSE \E plan \in ComputeRecoveryPlan(n, m, v) : SendPlan(n, m, plan, v)

ConfirmDead(n, m) ==
    /\ Running(n, "confirm") /\ view[n][m] = "suspected"
    /\ SetDead(n, m)
    /\ TriggerRecovery(n, m, view'[n])
    /\ phase' = [phase EXCEPT ![n] = IF pending' = pending THEN "confirm" ELSE "await"]
    /\ UNCHANGED <<up, probing, fenced, leaving, addr, hosted, count>>

\* The broadcast ends when every node it was sent to has answered.
Resume(n) ==
    /\ Running(n, "await") /\ \A m \in Nodes : pending[n][m] = {}
    /\ phase' = [phase EXCEPT ![n] = "confirm"]
    /\ UNCHANGED <<up, view, dead_nodes, probing, fenced, recovery, leaving,
                   addr, hosted, count>>

\* Mutant: the destination does not create the container.
RecoverContainersTableOnly(p) ==
    LET k == p.to
    IN  /\ p \in plans /\ k \in up
        /\ plans' = plans \ {p}
        /\ addr' = [addr EXCEPT ![k] = [c \in Containers |->
                      IF c \in DOMAIN p.plan THEN p.plan[c] ELSE @[c]]]
        /\ pending' = [pending EXCEPT ![p.from][p.dead] = @ \ {k}]
        /\ UNCHANGED <<up, view, dead_nodes, probing, fenced, initiated, phase,
                       leaving, hosted, count>>

\* RecoverContainers on node p.to.
RecoverContainers(p) ==
    LET k == p.to
    IN  /\ p \in plans /\ k \in up
        /\ plans' = plans \ {p}
        /\ addr' = [addr EXCEPT ![k] = [c \in Containers |->
                      IF c \in DOMAIN p.plan THEN p.plan[c] ELSE @[c]]]
        /\ hosted' = [hosted EXCEPT ![k] = @ \cup {c \in DOMAIN p.plan : p.plan[c] = k}]
        /\ pending' = [pending EXCEPT ![p.from][p.dead] = @ \ {k}]
        /\ UNCHANGED <<up, view, dead_nodes, probing, fenced, initiated, phase,
                       leaving, count>>

\* AnnounceShutdown of node m reaches node n.
AnnounceShutdown(n, m) ==
    /\ n \in up /\ <<n, m>> \in leaving
    /\ leaving' = leaving \ {<<n, m>>}
    /\ SetDead(n, m)
    /\ TriggerRecovery(n, m, view'[n])
    /\ UNCHANGED <<up, probing, fenced, phase, addr, hosted, count>>
-----------------------------------------------------------------------------
(* Parts 4 and 5.                                                          *)

MajorityBad(n) ==
    LET others == Nodes \ {n}
        bad == {m \in others : view[n][m] \in {"suspected", "dead"}}
    IN  Cardinality(bad) * 2 > Cardinality(others)

\* Mutant: a node probes itself.
ProbeableSelf(n) == {m \in Nodes : view[n][m] = "alive" /\ direct[n][m] = "none"}

\* Nodes a new direct probe may go to.
Probeable(n) == {m \in Nodes \ {n} : view[n][m] = "alive" /\ direct[n][m] = "none"}

Probe(n, m) ==
    /\ Running(n, "confirm")
    /\ fenced' = IF MajorityBad(n) THEN fenced \cup {n} ELSE fenced \ {n}
    /\ \/ m \in Probeable(n) /\ direct' = [direct EXCEPT ![n][m] = "sent"]
       \/ Probeable(n) = {} /\ m = n /\ UNCHANGED direct
    /\ phase' = [phase EXCEPT ![n] = "probe"]
    /\ UNCHANGED <<up, view, dead_nodes, indirect, recovery, leaving, addr, hosted,
                   count>>
-----------------------------------------------------------------------------
(* Other nodes.                                                            *)

\* Heartbeat.
Answer(n, m) ==
    /\ {n, m} \subseteq up /\ direct[n][m] = "sent"
    /\ direct' = [direct EXCEPT ![n][m] = "answered"]
    /\ UNCHANGED <<up, view, dead_nodes, indirect, fenced, recovery, phase,
                   leaving, addr, hosted, count>>

\* ProbeRequest: helper h probes m for n.
ProbeRequest(n, m, h) ==
    /\ {n, h} \subseteq up /\ indirect[n][m][h] = "sent"
    /\ \/ /\ m \in up /\ UNCHANGED count
          /\ indirect' = [indirect EXCEPT ![n][m][h] = "alive"]
       \/ /\ ProbeFails(m)
          /\ indirect' = [indirect EXCEPT ![n][m][h] = "unreachable"]
    /\ UNCHANGED <<up, view, dead_nodes, direct, fenced, recovery, phase, leaving,
                   addr, hosted>>

\* RecvIn: a task of a node that n has marked dead.
RecvIn(n, m) ==
    /\ {n, m} \subseteq up /\ n # m /\ view[n][m] = "dead"
    /\ SetNodeState(n, m, "alive")
    /\ dead_nodes' = [dead_nodes EXCEPT ![n] = @ \ {m}]
    /\ UNCHANGED <<up, probing, fenced, recovery, phase, leaving, addr, hosted, count>>

\* SendIn and SendOut: a send fails and marks the node as dead.
SendFails(n, m) ==
    /\ n \in up /\ n # m /\ view[n][m] = "alive"
    /\ Fault("refused", MaxRefused)
    /\ SetDead(n, m)
    /\ UNCHANGED <<up, probing, fenced, recovery, phase, leaving, addr, hosted>>

\* The state a crashed node leaves behind.
Stop(m) ==
    /\ up' = up \ {m}
    /\ hosted' = [hosted EXCEPT ![m] = {}]
    /\ plans' = {p \in plans : p.to # m}
    /\ UNCHANGED <<view, dead_nodes, probing, fenced, initiated, phase, pending, addr>>

Crash(m) ==
    /\ m \in up \cap Mortal /\ Fault("crashes", MaxCrashes)
    /\ leaving' = {l \in leaving : l[1] # m}
    /\ Stop(m)

\* A node announces its shutdown to the others and stops.
Leave(m) ==
    /\ m \in up \cap Mortal /\ Fault("leaves", MaxLeaves)
    /\ leaving' = {l \in leaving : l[1] # m} \cup {<<n, m>> : n \in up \ {m}}
    /\ Stop(m)

Next ==
    \/ \E n, m \in Nodes : DirectAnswered(n, m)
    \/ \E n, m \in Nodes : DirectTimeout(n, m)
    \/ \E n, m, h \in Nodes : IndirectAlive(n, m, h)
    \/ \E n, m, h \in Nodes : IndirectFailed(n, m, h)
    \/ \E n, m, h \in Nodes : IndirectTimeout(n, m, h)
    \/ \E n \in Nodes : EndProbes(n)
    \/ \E n, m \in Nodes : ConfirmDead(n, m)
    \/ \E n \in Nodes : Resume(n)
    \/ \E p \in plans : RecoverContainers(p)
    \/ \E n, m \in Nodes : AnnounceShutdown(n, m)
    \/ \E n, m \in Nodes : Probe(n, m)
    \/ \E n, m \in Nodes : Answer(n, m)
    \/ \E n, m, h \in Nodes : ProbeRequest(n, m, h)
    \/ \E n, m \in Nodes : RecvIn(n, m)
    \/ \E n, m \in Nodes : SendFails(n, m)
    \/ \E m \in Nodes : Crash(m)
    \/ \E m \in Nodes : Leave(m)

Spec == Init /\ [][Next]_vars

\* What HeartbeatProbe of n does about a node that is down.
Pursue(n) ==
    \E m \in Nodes \ up :
        \/ DirectAnswered(n, m) \/ DirectTimeout(n, m)
        \/ ConfirmDead(n, m) \/ Probe(n, m)
        \/ \E h \in Nodes : \/ IndirectAlive(n, m, h) \/ IndirectFailed(n, m, h)
                            \/ h \notin up /\ IndirectTimeout(n, m, h)

\* HeartbeatProbe is run again and again, looks at every probe and suspicion in
\* each run and gets round to every node; tasks that arrive are run.
FairSpec ==
    /\ Spec
    /\ \A n \in Observers :
         /\ WF_vars(EndProbes(n)) /\ WF_vars(Resume(n))
         /\ WF_vars(\E m \in Nodes : Probe(n, m))
         /\ SF_vars(Pursue(n))
    /\ WF_vars(\E n, m, h \in Nodes : ProbeRequest(n, m, h))
    /\ WF_vars(\E p \in plans : RecoverContainers(p))
    /\ WF_vars(\E n, m \in Nodes : AnnounceShutdown(n, m))
-----------------------------------------------------------------------------
States == {"alive", "probe_failed", "suspected", "dead"}

\* Types, and indirect probes are out only for nodes whose direct probe failed.
TypeOK ==
    /\ up \subseteq Nodes /\ fenced \subseteq Observers
    /\ view \in [Nodes -> [Nodes -> States]]
    /\ dead_nodes \in [Nodes -> SUBSET Nodes]
    /\ direct \in [Nodes -> [Nodes -> {"none", "sent", "answered"}]]
    /\ indirect \in [Nodes -> [Nodes -> [Nodes -> {"none", "sent", "alive", "unreachable"}]]]
    /\ phase \in [Nodes -> {"probe", "confirm", "await"}]
    /\ addr \in [Nodes -> [Containers -> Nodes]]
    /\ hosted \in [Nodes -> SUBSET Containers]
    /\ \A n \in Nodes : view[n][n] = "alive"

\* A node that is up is not suspected: while fewer probes are lost or helpers
\* gone than the direct probe and those of the helpers, one speaks for it.  (A
\* failed send needs no second opinion and is left out.)
Accurate ==
    LET ways == 1 + Min({kIndirectProbeHelpers, Cardinality(Nodes) - 2})
    IN  count.refused = 0 /\ Faults < ways =>
            \A n, m \in up : view[n][m] \notin {"suspected", "dead"}

\* dead_nodes_ holds the nodes that are dead in hostfile_map_ and no others, as
\* long as HeartbeatProbe is the only one to mark nodes: ScanSendMapTimeouts ends
\* the tasks that wait for the nodes it lists.
DeadListed ==
    count.leaves = 0 /\ count.refused = 0 =>
        \A n \in up, m \in Nodes : m \in dead_nodes[n] <=> view[n][m] = "dead"

\* No container is created on two nodes: recovery is started once for a dead
\* node, by one leader, whoever notices first and in whatever way, unless a node
\* that is up was misjudged or a leader is gone that had started a recovery (its
\* successor may plan again before it hears of the first plan).
LeadersStay == \A n \in Nodes : initiated[n] # {} => n \in up
SingleHost ==
    count.lost = 0 /\ count.refused = 0 /\ LeadersStay =>
        \A n, k \in up : n # k => hosted[n] \cap hosted[k] = {}

\* dead_nodes_ agrees with hostfile_map_ whoever marked the node.
AlwaysListed ==
    \A n \in up, m \in Nodes : m \in dead_nodes[n] <=> view[n][m] = "dead"

\* All nodes compute the same leader, so no container is created twice even
\* when a probe is lost.
AlwaysSingleHost ==
    \A n, k \in up : n # k => hosted[n] \cap hosted[k] = {}

\* Every node that crashes is found dead by each node that stays up.
Detected ==
    \A n \in Observers, m \in Nodes :
        m \notin up ~> view[n][m] = "dead" \/ n \notin up

\* In the end every container exists on the node that the address tables of
\* all nodes name.
Recovered ==
    \A c \in Containers :
        <>[](\A n \in up : addr[n][c] \in up /\ c \in hosted[addr[n][c]])

\* The state is well formed, HeartbeatProbe suspects no node that is up while one
\* way to reach it is left, and dead_nodes_ agrees with the node states.
MembershipInv == TypeOK /\ Accurate /\ DeadListed
=============================================================================
