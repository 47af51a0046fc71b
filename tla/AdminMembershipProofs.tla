----------------------- MODULE AdminMembershipProofs -----------------------
(***************************************************************************)
(* Failure detection and recovery, for any number of nodes, helpers and    *)
(* containers and any number of faults: what HeartbeatProbe concludes      *)
(* about a node that is up, what dead_nodes_ holds, and that a container   *)
(* is recovered on one node.                                               *)
(***************************************************************************)
EXTENDS AdminMembership, FiniteSetTheorems, WellFoundedInduction, TLAPS

-----------------------------------------------------------------------------
(* The inductive invariant.                                                *)

\* A plan names nodes for some of the containers.
Kinds ==
    /\ count \in [crashes : Nat, leaves : Nat, lost : Nat, refused : Nat]
    /\ initiated \in [Nodes -> SUBSET Nodes]
    /\ leaving \subseteq Nodes \X Nodes
    /\ \A p \in plans :
         /\ p.from \in Nodes /\ p.to \in Nodes /\ p.dead \in Nodes
         /\ \A c \in DOMAIN p.plan : c \in Containers /\ p.plan[c] \in Nodes

\* No node probes itself or takes leave of itself.
NoSelf ==
    \A n \in Nodes :
        /\ direct[n][n] = "none"
        /\ \A h \in Nodes : indirect[n][n][h] = "none"
        /\ <<n, n>> \notin leaving

\* While only HeartbeatProbe marks nodes: a node is probed directly while it
\* is alive, through others after the direct probe failed, and not while it
\* is suspected or dead.
Quiet ==
    count.leaves = 0 /\ count.refused = 0 =>
        /\ leaving = {}
        /\ \A n, m \in Nodes :
             /\ direct[n][m] # "none" => view[n][m] = "alive"
             /\ \A h \in Nodes : indirect[n][m][h] # "none" => view[n][m] = "probe_failed"
             /\ m \in dead_nodes[n] <=> view[n][m] = "dead"

\* The ways in which a node can be reached by HeartbeatProbe of another.
Ways == 1 + Min({kIndirectProbeHelpers, Cardinality(Nodes) - 2})

\* Nodes that n does not see as alive, or that are not up: each one cost a fault.
Bad(n) == {m \in Nodes : view[n][m] # "alive" \/ m \notin up}

\* Helpers that may still speak for m.
Hopes(n, m) == {h \in up : indirect[n][m][h] \in {"sent", "alive"}}

\* Every probe that failed for a node that is up cost a fault of its own.
Judged ==
    /\ \A l \in leaving : l[2] \notin up
    /\ count.refused = 0 =>
        \A n \in Nodes :
            /\ Cardinality(Bad(n)) <= Faults
            /\ \A m \in up :
                 /\ direct[n][m] # "none" => view[n][m] = "alive"
                 /\ view[n][m] = "probe_failed" => Faults + Cardinality(Hopes(n, m)) >= Ways
                 /\ view[n][m] \in {"suspected", "dead"} => Faults >= Ways

\* Without misjudged nodes a node that has started a recovery is the lowest.
Truth ==
    count.lost = 0 /\ count.refused = 0 =>
        \A n \in Nodes :
            /\ \A m \in up : view[n][m] = "alive"
            /\ initiated[n] # {} => \A m \in up : n <= m

\* Nodes that host a container or will when a plan reaches them.
Claims(c) ==
    {k \in up : \/ c \in hosted[k]
                \/ \E p \in plans : p.to = k /\ c \in DOMAIN p.plan /\ p.plan[c] = k}

\* What n knows of a container while no other node starts recoveries: it is
\* claimed where n believes it is, or n has started the recovery of that node;
\* and then at most one plan for it is on its way to n, which says where.
Settled(n, c) ==
    /\ addr[n][c] \in initiated[n] \/ Claims(c) \subseteq {addr[n][c]}
    /\ \A p \in plans : p.to = n /\ c \in DOMAIN p.plan =>
         /\ addr[n][c] \in initiated[n]
         /\ Claims(c) \subseteq {p.plan[c]}
         /\ \A q \in plans : q.to = n /\ c \in DOMAIN q.plan => q = p

\* Each container is claimed by one node at most, as the node that recovers knows.
Sole(n) == \A k \in Nodes : k # n => initiated[k] = {}
Planned ==
    count.lost = 0 /\ count.refused = 0 /\ LeadersStay =>
        \A c \in Containers :
            /\ \A j, k \in Claims(c) : j = k
            /\ \A n \in up : Sole(n) => Settled(n, c)

Static == TypeOK /\ Kinds /\ NoSelf

Inv == Static /\ Quiet /\ Judged /\ Truth /\ Planned

-----------------------------------------------------------------------------
(* Facts about the operators.                                              *)

\* The smaller of two numbers.
LEMMA MinOfTwo ==
    ASSUME NEW a \in Int, NEW b \in Int
    PROVE  Min({a, b}) = IF a <= b THEN a ELSE b
<1> DEFINE m == IF a <= b THEN a ELSE b
<1>1. m \in {a, b} /\ \A y \in {a, b} : m <= y
  OBVIOUS
<1>2. \A x \in {a, b} : (\A y \in {a, b} : x <= y) => x = m
  OBVIOUS
<1> QED
  BY <1>1, <1>2 DEF Min

\* A fault is counted.
LEMMA FaultCounted ==
    ASSUME Kinds, NEW kind \in {"crashes", "leaves", "lost", "refused"}, NEW max,
           Fault(kind, max)
    PROVE  /\ count' \in [crashes : Nat, leaves : Nat, lost : Nat, refused : Nat]
           /\ Faults' = Faults + 1 /\ Faults \in Nat
           /\ count'[kind] # 0
           /\ \A k \in {"crashes", "leaves", "lost", "refused"} : k # kind => count'[k] = count[k]
<1>1. count \in [crashes : Nat, leaves : Nat, lost : Nat, refused : Nat]
  BY DEF Kinds
<1>2. count' = [count EXCEPT ![kind] = @ + 1]
  BY DEF Fault
<1> QED
  BY <1>1, <1>2 DEF Faults

\* ProbeFails leaves the counts well formed.
LEMMA ProbeFailsCounted ==
    ASSUME Kinds, NEW m, ProbeFails(m)
    PROVE  /\ count' \in [crashes : Nat, leaves : Nat, lost : Nat, refused : Nat]
           /\ Faults' \in Nat /\ Faults \in Nat /\ Faults' >= Faults
           /\ count'.leaves = count.leaves /\ count'.refused = count.refused
           /\ m \in up => count'.lost # 0 /\ Faults' = Faults + 1
<1>1. CASE m \in up
  BY <1>1, FaultCounted DEF ProbeFails
<1>2. CASE m \notin up
  BY <1>2 DEF ProbeFails, Kinds, Faults
<1> QED
  BY <1>1, <1>2

-----------------------------------------------------------------------------
(* What the actions do to the tables.                                      *)

\* Two tables agree except for the entry of m in the table of n.
Same(f, g, n, m) == \A j, k \in Nodes : (j # n \/ k # m) => g[j][k] = f[j][k]

\* An entry of another node is not on the diagonal.
LEMMA OffDiagonal ==
    ASSUME NEW f, NEW g, NEW n \in Nodes, NEW m \in Nodes, n # m, Same(f, g, n, m)
    PROVE  \A k \in Nodes : g[k][k] = f[k][k]
  BY DEF Same

Answers == {"none", "sent", "alive", "unreachable"}

Written(n, m, h, x) == indirect' = [indirect EXCEPT ![n][m][h] = x]

\* Writing one answer of a helper.
LEMMA WriteAnswer ==
    ASSUME TypeOK, NEW n \in Nodes, NEW m \in Nodes, NEW h \in Nodes, NEW x \in Answers,
           Written(n, m, h, x)
    PROVE  /\ indirect' \in [Nodes -> [Nodes -> [Nodes -> Answers]]]
           /\ Same(indirect, indirect', n, m)
           /\ indirect'[n][m][h] = x
           /\ \A k \in Nodes : k # h => indirect'[n][m][k] = indirect[n][m][k]
<1> DEFINE row == [indirect[n][m] EXCEPT ![h] = x]
<1>1. indirect \in [Nodes -> [Nodes -> [Nodes -> Answers]]]
  BY DEF TypeOK, Answers
<1>2. row \in [Nodes -> Answers] /\ row[h] = x /\ \A k \in Nodes : k # h => row[k] = indirect[n][m][k]
  BY <1>1
<1>3. indirect' = [indirect EXCEPT ![n][m] = row]
  BY <1>1 DEF Written
<1> HIDE DEF row
<1>4. /\ indirect' \in [Nodes -> [Nodes -> [Nodes -> Answers]]]
      /\ indirect'[n][m] = row /\ Same(indirect, indirect', n, m)
  BY <1>1, <1>2, <1>3 DEF Same
<1> QED
  BY <1>2, <1>4

\* Writing the state of a node.
LEMMA StateWritten ==
    ASSUME TypeOK, NEW n \in Nodes, NEW m \in Nodes, NEW st \in States,
           SetNodeState(n, m, st), n # m \/ st = "alive"
    PROVE  /\ view' \in [Nodes -> [Nodes -> States]]
           /\ \A k \in Nodes : view'[k][k] = "alive"
           /\ view'[n][m] = st /\ Same(view, view', n, m)
<1>1. view \in [Nodes -> [Nodes -> States]] /\ \A k \in Nodes : view[k][k] = "alive"
  BY DEF TypeOK
<1>2. /\ view' \in [Nodes -> [Nodes -> States]]
      /\ view'[n][m] = st /\ Same(view, view', n, m)
  BY <1>1 DEF SetNodeState, Same
<1> QED
  BY <1>1, <1>2 DEF Same

Probes == {"none", "sent", "answered"}

\* Writing the state of a direct probe.
LEMMA ProbeWritten ==
    ASSUME TypeOK, NEW n \in Nodes, NEW m \in Nodes, NEW x \in Probes,
           direct' = [direct EXCEPT ![n][m] = x]
    PROVE  /\ direct' \in [Nodes -> [Nodes -> Probes]]
           /\ direct'[n][m] = x /\ Same(direct, direct', n, m)
  BY DEF TypeOK, Probes, Same

\* A direct probe that was answered.
LEMMA DirectAnsweredDoes ==
    ASSUME Static, NEW n \in Nodes, NEW m \in Nodes, DirectAnswered(n, m)
    PROVE  /\ n # m /\ direct[n][m] = "answered"
           /\ view' \in [Nodes -> [Nodes -> States]] /\ \A k \in Nodes : view'[k][k] = "alive"
           /\ view'[n][m] = "alive" /\ Same(view, view', n, m)
           /\ direct' \in [Nodes -> [Nodes -> Probes]]
           /\ direct'[n][m] = "none" /\ Same(direct, direct', n, m)
           /\ UNCHANGED <<up, dead_nodes, indirect, fenced, recovery, phase, leaving, addr, hosted, count>>
<1>1. n # m /\ direct[n][m] = "answered"
  BY DEF DirectAnswered, Static, NoSelf
<1>2. SetNodeState(n, m, "alive") /\ direct' = [direct EXCEPT ![n][m] = "none"]
  BY DEF DirectAnswered
<1>3. "alive" \in States /\ "none" \in Probes /\ TypeOK
  BY DEF States, Probes, Static
<1>4. /\ view' \in [Nodes -> [Nodes -> States]] /\ \A k \in Nodes : view'[k][k] = "alive"
      /\ view'[n][m] = "alive" /\ Same(view, view', n, m)
  BY <1>2, <1>3, StateWritten
<1>5. /\ direct' \in [Nodes -> [Nodes -> Probes]]
      /\ direct'[n][m] = "none" /\ Same(direct, direct', n, m)
  BY <1>2, <1>3, ProbeWritten
<1> QED
  BY <1>1, <1>4, <1>5 DEF DirectAnswered

\* A direct probe that timed out: indirect probes go out through H.
LEMMA DirectTimeoutDoes ==
    ASSUME Static, NEW n \in Nodes, NEW m \in Nodes, DirectTimeout(n, m)
    PROVE  /\ n # m /\ n \in up /\ direct[n][m] = "sent" /\ ProbeFails(m)
           /\ view' \in [Nodes -> [Nodes -> States]] /\ \A k \in Nodes : view'[k][k] = "alive"
           /\ view'[n][m] = "probe_failed" /\ Same(view, view', n, m)
           /\ direct' \in [Nodes -> [Nodes -> Probes]]
           /\ direct'[n][m] = "none" /\ Same(direct, direct', n, m)
           /\ indirect' \in [Nodes -> [Nodes -> [Nodes -> Answers]]] /\ Same(indirect, indirect', n, m)
           /\ \E H \in SUBSET Helpers(n, m) :
                /\ Cardinality(H) = Min({kIndirectProbeHelpers, Cardinality(Helpers(n, m))})
                /\ \A h \in Nodes : indirect'[n][m][h] = IF h \in H THEN "sent" ELSE indirect[n][m][h]
           /\ UNCHANGED <<up, dead_nodes, fenced, recovery, phase, leaving, addr, hosted>>
<1>1. n # m /\ n \in up /\ direct[n][m] = "sent" /\ ProbeFails(m)
  BY DEF DirectTimeout, Static, NoSelf, Running
<1>2. SetNodeState(n, m, "probe_failed") /\ direct' = [direct EXCEPT ![n][m] = "none"]
  BY DEF DirectTimeout
<1>3. "probe_failed" \in States /\ "none" \in Probes /\ TypeOK
  BY DEF States, Probes, Static
<1>4. PICK H \in SUBSET Helpers(n, m) :
         /\ Cardinality(H) = Min({kIndirectProbeHelpers, Cardinality(Helpers(n, m))})
         /\ indirect' = [indirect EXCEPT ![n][m] = [h \in Nodes |-> IF h \in H THEN "sent" ELSE @[h]]]
  BY DEF DirectTimeout
<1> DEFINE row == [h \in Nodes |-> IF h \in H THEN "sent" ELSE indirect[n][m][h]]
<1>5. indirect \in [Nodes -> [Nodes -> [Nodes -> Answers]]] /\ row \in [Nodes -> Answers]
  BY <1>3 DEF TypeOK, Answers
<1>6. indirect' = [indirect EXCEPT ![n][m] = row]
  BY <1>4, <1>5
<1>7. \A h \in Nodes : row[h] = IF h \in H THEN "sent" ELSE indirect[n][m][h]
  OBVIOUS
<1> HIDE DEF row
<1>8. /\ indirect' \in [Nodes -> [Nodes -> [Nodes -> Answers]]]
      /\ indirect'[n][m] = row /\ Same(indirect, indirect', n, m)
  BY <1>5, <1>6 DEF Same
<1>9. \E G \in SUBSET Helpers(n, m) :
        /\ Cardinality(G) = Min({kIndirectProbeHelpers, Cardinality(Helpers(n, m))})
        /\ \A h \in Nodes : indirect'[n][m][h] = IF h \in G THEN "sent" ELSE indirect[n][m][h]
  BY <1>4, <1>7, <1>8
<1>10. /\ view' \in [Nodes -> [Nodes -> States]] /\ \A k \in Nodes : view'[k][k] = "alive"
       /\ view'[n][m] = "probe_failed" /\ Same(view, view', n, m)
  BY <1>1, <1>2, <1>3, StateWritten
<1>11. /\ direct' \in [Nodes -> [Nodes -> Probes]]
       /\ direct'[n][m] = "none" /\ Same(direct, direct', n, m)
  BY <1>2, <1>3, ProbeWritten
<1> QED
  BY <1>1, <1>8, <1>9, <1>10, <1>11 DEF DirectTimeout

\* A helper reached the node.
LEMMA IndirectAliveDoes ==
    ASSUME Static, NEW n \in Nodes, NEW m \in Nodes, NEW h \in Nodes, IndirectAlive(n, m, h)
    PROVE  /\ n # m /\ indirect[n][m][h] = "alive"
           /\ view' \in [Nodes -> [Nodes -> States]] /\ \A k \in Nodes : view'[k][k] = "alive"
           /\ view'[n][m] = "alive" /\ Same(view, view', n, m)
           /\ indirect' \in [Nodes -> [Nodes -> [Nodes -> Answers]]] /\ Same(indirect, indirect', n, m)
           /\ \A k \in Nodes : indirect'[n][m][k] = "none"
           /\ UNCHANGED <<up, dead_nodes, direct, fenced, recovery, phase, leaving, addr, hosted, count>>
<1>1. n # m /\ indirect[n][m][h] = "alive"
  BY DEF IndirectAlive, Static, NoSelf
<1>2. SetNodeState(n, m, "alive")
  BY DEF IndirectAlive
<1>3. "alive" \in States /\ TypeOK
  BY DEF States, Static
<1> DEFINE row == [k \in Nodes |-> "none"]
<1>5. indirect \in [Nodes -> [Nodes -> [Nodes -> Answers]]] /\ row \in [Nodes -> Answers]
  BY <1>3 DEF TypeOK, Answers
<1>6. indirect' = [indirect EXCEPT ![n][m] = row] /\ \A k \in Nodes : row[k] = "none"
  BY DEF IndirectAlive
<1> HIDE DEF row
<1>8. /\ indirect' \in [Nodes -> [Nodes -> [Nodes -> Answers]]]
      /\ indirect'[n][m] = row /\ Same(indirect, indirect', n, m)
  BY <1>5, <1>6 DEF Same
<1>9. /\ view' \in [Nodes -> [Nodes -> States]] /\ \A k \in Nodes : view'[k][k] = "alive"
      /\ view'[n][m] = "alive" /\ Same(view, view', n, m)
  BY <1>2, <1>3, StateWritten
<1> QED
  BY <1>1, <1>6, <1>8, <1>9 DEF IndirectAlive

\* An indirect probe is given up; the last one makes the node suspected.
LEMMA DropIndirectDoes ==
    ASSUME Static, NEW n \in Nodes, NEW m \in Nodes, NEW h \in Nodes, DropIndirect(n, m, h),
           indirect[n][m][h] # "none"
    PROVE  /\ n # m
           /\ indirect' \in [Nodes -> [Nodes -> [Nodes -> Answers]]] /\ Same(indirect, indirect', n, m)
           /\ indirect'[n][m][h] = "none"
           /\ \A k \in Nodes : k # h => indirect'[n][m][k] = indirect[n][m][k]
           /\ view' \in [Nodes -> [Nodes -> States]] /\ \A k \in Nodes : view'[k][k] = "alive"
           /\ Same(view, view', n, m)
           /\ \/ view'[n][m] = view[n][m] /\ (view[n][m] = "probe_failed" => \E k \in Nodes : indirect'[n][m][k] # "none")
              \/ /\ view[n][m] = "probe_failed" /\ view'[n][m] = "suspected"
                 /\ \A k \in Nodes : indirect'[n][m][k] = "none"
<1>1. n # m /\ TypeOK
  BY DEF Static, NoSelf
<1>2. Written(n, m, h, "none") /\ "none" \in Answers
  BY DEF DropIndirect, Answers, Written
<1>3. /\ indirect' \in [Nodes -> [Nodes -> [Nodes -> Answers]]] /\ Same(indirect, indirect', n, m)
      /\ indirect'[n][m][h] = "none"
      /\ \A k \in Nodes : k # h => indirect'[n][m][k] = indirect[n][m][k]
  BY <1>1, <1>2, WriteAnswer
<1>4. CASE view[n][m] = "probe_failed" /\ \A k \in Nodes : indirect'[n][m][k] = "none"
  <2>1. SetNodeState(n, m, "suspected") /\ "suspected" \in States
    BY <1>4 DEF DropIndirect, States
  <2>2. /\ view' \in [Nodes -> [Nodes -> States]] /\ \A k \in Nodes : view'[k][k] = "alive"
        /\ view'[n][m] = "suspected" /\ Same(view, view', n, m)
    BY <1>1, <2>1, StateWritten
  <2> QED
    BY <1>1, <1>3, <1>4, <2>2
<1>5. CASE ~ (view[n][m] = "probe_failed" /\ \A k \in Nodes : indirect'[n][m][k] = "none")
  <2>1. view' = view
    BY <1>5 DEF DropIndirect
  <2>2. /\ view' \in [Nodes -> [Nodes -> States]] /\ \A k \in Nodes : view'[k][k] = "alive"
        /\ view'[n][m] = view[n][m] /\ Same(view, view', n, m)
    BY <1>1, <2>1 DEF TypeOK, Same
  <2> QED
    BY <1>1, <1>3, <1>5, <2>2
<1> QED
  BY <1>4, <1>5

\* A node is marked dead and listed.
LEMMA SetDeadDoes ==
    ASSUME TypeOK, NEW n \in Nodes, NEW m \in Nodes, SetDead(n, m), n # m
    PROVE  /\ view' \in [Nodes -> [Nodes -> States]] /\ \A k \in Nodes : view'[k][k] = "alive"
           /\ view'[n][m] = "dead" /\ Same(view, view', n, m)
           /\ dead_nodes' \in [Nodes -> SUBSET Nodes]
           /\ \A j, k \in Nodes : k \in dead_nodes'[j] <=> k \in dead_nodes[j] \/ (j = n /\ k = m)
<1>1. SetNodeState(n, m, "dead") /\ "dead" \in States
  BY DEF SetDead, States
<1>2. /\ dead_nodes \in [Nodes -> SUBSET Nodes] /\ dead_nodes[n] \cup {m} \in SUBSET Nodes
      /\ dead_nodes' = [dead_nodes EXCEPT ![n] = dead_nodes[n] \cup {m}]
  BY DEF TypeOK, SetDead
<1>3. /\ dead_nodes' \in [Nodes -> SUBSET Nodes] /\ dead_nodes'[n] = dead_nodes[n] \cup {m}
      /\ \A k \in Nodes : k # n => dead_nodes'[k] = dead_nodes[k]
  BY <1>2
<1>4. \A j, k \in Nodes : k \in dead_nodes'[j] <=> k \in dead_nodes[j] \/ (j = n /\ k = m)
  BY <1>3
<1> QED
  BY <1>1, <1>3, <1>4, StateWritten

\* A node is marked dead, and its recovery started, by HeartbeatProbe or by an
\* announcement.
LEMMA RecoveryTypes ==
    ASSUME Static, NEW n \in Nodes, NEW m \in Nodes, NEW v, TriggerRecovery(n, m, v)
    PROVE  /\ initiated' \in [Nodes -> SUBSET Nodes]
           /\ \A p \in plans' :
                /\ p.from \in Nodes /\ p.to \in Nodes /\ p.dead \in Nodes
                /\ \A c \in DOMAIN p.plan : c \in Containers /\ p.plan[c] \in Nodes
<1>0. /\ initiated \in [Nodes -> SUBSET Nodes]
      /\ \A p \in plans :
           /\ p.from \in Nodes /\ p.to \in Nodes /\ p.dead \in Nodes
           /\ \A c \in DOMAIN p.plan : c \in Containers /\ p.plan[c] \in Nodes
  BY DEF Static, Kinds
<1>1. CASE UNCHANGED recovery
  BY <1>0, <1>1 DEF recovery
<1>2. CASE initiated' = [initiated EXCEPT ![n] = @ \cup {m}] /\ plans' = plans
  <2>1. initiated' \in [Nodes -> SUBSET Nodes]
    BY <1>0, <1>2
  <2> QED
    BY <1>0, <1>2, <2>1
<1>3. CASE /\ initiated' = [initiated EXCEPT ![n] = @ \cup {m}]
           /\ \E plan \in ComputeRecoveryPlan(n, m, v) : SendPlan(n, m, plan, v)
  <2>0. PICK plan \in ComputeRecoveryPlan(n, m, v) : SendPlan(n, m, plan, v)
    BY <1>3
  <2>1. \A c \in DOMAIN plan : c \in Containers /\ plan[c] \in Nodes
    BY DEF ComputeRecoveryPlan
  <2>2. \A p \in plans' : p \in plans \/ (p.from = n /\ p.to \in Nodes /\ p.dead = m /\ p.plan = plan)
    BY <2>0 DEF SendPlan
  <2>3. initiated' \in [Nodes -> SUBSET Nodes]
    BY <1>0, <1>3
  <2> QED
    BY <1>0, <2>1, <2>2, <2>3
<1> QED
  BY <1>1, <1>2, <1>3 DEF TriggerRecovery

-----------------------------------------------------------------------------
(* Types.                                                                  *)

\* The types hold at first.
LEMMA InitStatic == Init => Static
<1> SUFFICES ASSUME Init PROVE Static
  OBVIOUS
<1>1. TypeOK
  BY MembershipAssumption DEF Init, TypeOK, States
<1>2. Kinds
  BY DEF Init, Kinds
<1>3. NoSelf
  BY DEF Init, NoSelf
<1> QED
  BY <1>1, <1>2, <1>3 DEF Static

\* A step that writes the tables and leaves the rest alone keeps the types.
LEMMA TablesStatic ==
    ASSUME Static,
           view' \in [Nodes -> [Nodes -> States]], \A k \in Nodes : view'[k][k] = "alive",
           direct' \in [Nodes -> [Nodes -> Probes]],
           indirect' \in [Nodes -> [Nodes -> [Nodes -> Answers]]],
           \A k \in Nodes : direct'[k][k] = "none",
           \A k, h \in Nodes : indirect'[k][k][h] = "none",
           dead_nodes' \in [Nodes -> SUBSET Nodes],
           fenced' \subseteq Observers,
           phase' \in [Nodes -> {"probe", "confirm", "await"}],
           count' \in [crashes : Nat, leaves : Nat, lost : Nat, refused : Nat],
           UNCHANGED <<up, initiated, plans, leaving, addr, hosted>>
    PROVE  Static'
<1>1. TypeOK'
  BY DEF Static, TypeOK, Probes, Answers
<1>2. Kinds'
  BY DEF Static, Kinds
<1>3. NoSelf'
  BY DEF Static, NoSelf
<1> QED
  BY <1>1, <1>2, <1>3 DEF Static

\* What the types say of a state.
LEMMA StaticFacts ==
    ASSUME Static
    PROVE  /\ view \in [Nodes -> [Nodes -> States]] /\ \A k \in Nodes : view[k][k] = "alive"
           /\ direct \in [Nodes -> [Nodes -> Probes]]
           /\ indirect \in [Nodes -> [Nodes -> [Nodes -> Answers]]]
           /\ \A k \in Nodes : direct[k][k] = "none"
           /\ \A k, h \in Nodes : indirect[k][k][h] = "none"
           /\ dead_nodes \in [Nodes -> SUBSET Nodes]
           /\ fenced \subseteq Observers
           /\ phase \in [Nodes -> {"probe", "confirm", "await"}]
           /\ count \in [crashes : Nat, leaves : Nat, lost : Nat, refused : Nat]
           /\ up \subseteq Nodes /\ leaving \subseteq Nodes \X Nodes
<1>1. TypeOK /\ Kinds /\ NoSelf
  BY DEF Static
<1> QED
  BY <1>1 DEF TypeOK, Kinds, NoSelf, Probes, Answers

\* A node is marked dead by HeartbeatProbe or by an announcement: what both do.
LEMMA MarkedStatic ==
    ASSUME Static, NEW n \in Nodes, NEW m \in Nodes, n # m,
           SetDead(n, m), TriggerRecovery(n, m, view'[n]),
           phase' \in [Nodes -> {"probe", "confirm", "await"}],
           leaving' \subseteq leaving,
           UNCHANGED <<up, direct, indirect, fenced, addr, hosted, count>>
    PROVE  Static'
<1>1. /\ view' \in [Nodes -> [Nodes -> States]] /\ \A k \in Nodes : view'[k][k] = "alive"
      /\ dead_nodes' \in [Nodes -> SUBSET Nodes]
  BY SetDeadDoes DEF Static
<1>2. /\ initiated' \in [Nodes -> SUBSET Nodes]
      /\ \A p \in plans' :
           /\ p.from \in Nodes /\ p.to \in Nodes /\ p.dead \in Nodes
           /\ \A c \in DOMAIN p.plan : c \in Containers /\ p.plan[c] \in Nodes
  BY RecoveryTypes
<1>3. TypeOK'
  BY <1>1 DEF Static, TypeOK
<1>4. Kinds'
  BY <1>2 DEF Static, Kinds
<1>5. NoSelf'
  BY DEF Static, NoSelf
<1> QED
  BY <1>3, <1>4, <1>5 DEF Static

\* RecoverContainers on one node.
LEMMA RecoverDoes ==
    ASSUME Static, NEW p \in plans, RecoverContainers(p)
    PROVE  /\ p.to \in up /\ p.to \in Nodes /\ plans' = plans \ {p}
           /\ addr' \in [Nodes -> [Containers -> Nodes]]
           /\ hosted' \in [Nodes -> SUBSET Containers]
           /\ \A k \in Nodes : k # p.to => addr'[k] = addr[k] /\ hosted'[k] = hosted[k]
           /\ \A c \in Containers :
                /\ addr'[p.to][c] = IF c \in DOMAIN p.plan THEN p.plan[c] ELSE addr[p.to][c]
                /\ c \in hosted'[p.to] <=> c \in hosted[p.to] \/ (c \in DOMAIN p.plan /\ p.plan[c] = p.to)
           /\ UNCHANGED <<up, view, dead_nodes, direct, indirect, fenced, initiated, phase, leaving, count>>
<1>1. /\ p.to \in Nodes /\ (\A c \in DOMAIN p.plan : p.plan[c] \in Nodes /\ c \in Containers)
      /\ addr \in [Nodes -> [Containers -> Nodes]] /\ hosted \in [Nodes -> SUBSET Containers]
  BY DEF Static, Kinds, TypeOK
<1> DEFINE row == [c \in Containers |-> IF c \in DOMAIN p.plan THEN p.plan[c] ELSE addr[p.to][c]]
           new == hosted[p.to] \cup {c \in DOMAIN p.plan : p.plan[c] = p.to}
<1>2. /\ addr' = [addr EXCEPT ![p.to] = row] /\ hosted' = [hosted EXCEPT ![p.to] = new]
  BY <1>1 DEF RecoverContainers
<1>3. /\ row \in [Containers -> Nodes] /\ new \in SUBSET Containers
      /\ \A c \in Containers : row[c] = IF c \in DOMAIN p.plan THEN p.plan[c] ELSE addr[p.to][c]
      /\ \A c \in Containers :
           c \in new <=> c \in hosted[p.to] \/ (c \in DOMAIN p.plan /\ p.plan[c] = p.to)
  BY <1>1
<1> HIDE DEF row, new
<1>4. /\ addr' \in [Nodes -> [Containers -> Nodes]] /\ addr'[p.to] = row
      /\ \A k \in Nodes : k # p.to => addr'[k] = addr[k]
  BY <1>1, <1>2, <1>3
<1>5. /\ hosted' \in [Nodes -> SUBSET Containers] /\ hosted'[p.to] = new
      /\ \A k \in Nodes : k # p.to => hosted'[k] = hosted[k]
  BY <1>1, <1>2, <1>3
<1>6. /\ p.to \in up /\ plans' = plans \ {p}
      /\ UNCHANGED <<up, view, dead_nodes, direct, indirect, fenced, initiated, phase, leaving, count>>
  BY DEF RecoverContainers, probing
<1> QED
  BY <1>1, <1>3, <1>4, <1>5, <1>6

\* A node stops, with or without a word.
LEMMA StopDoes ==
    ASSUME Static, NEW m \in Nodes, Crash(m) \/ Leave(m)
    PROVE  /\ m \in up /\ up' = up \ {m}
           /\ hosted' \in [Nodes -> SUBSET Containers]
           /\ \A k \in Nodes : k # m => hosted'[k] = hosted[k]
           /\ plans' \subseteq plans
           /\ count' \in [crashes : Nat, leaves : Nat, lost : Nat, refused : Nat]
           /\ Faults' = Faults + 1 /\ Faults \in Nat
           /\ count'.lost = count.lost /\ count'.refused = count.refused
           /\ count'.leaves = 0 => count.leaves = 0 /\ leaving' \subseteq leaving
           /\ \A l \in leaving' : l \in leaving \/ (\E k \in up \ {m} : l = <<k, m>>)
           /\ UNCHANGED <<view, dead_nodes, direct, indirect, fenced, initiated, phase, addr>>
<1>1. m \in up /\ Stop(m) /\ Kinds /\ hosted \in [Nodes -> SUBSET Containers]
  BY DEF Crash, Leave, Static, TypeOK
<1>2. hosted' \in [Nodes -> SUBSET Containers] /\ \A k \in Nodes : k # m => hosted'[k] = hosted[k]
  BY <1>1 DEF Stop
<1>3. /\ up' = up \ {m} /\ plans' \subseteq plans
      /\ UNCHANGED <<view, dead_nodes, direct, indirect, fenced, initiated, phase, addr>>
  BY <1>1 DEF Stop, probing
<1>4. CASE Crash(m)
  <2>1. Fault("crashes", MaxCrashes)
    BY <1>4 DEF Crash
  <2>2. /\ count' \in [crashes : Nat, leaves : Nat, lost : Nat, refused : Nat]
        /\ Faults' = Faults + 1 /\ Faults \in Nat
        /\ count'.lost = count.lost /\ count'.refused = count.refused /\ count'.leaves = count.leaves
    BY <2>1, <1>1, FaultCounted
  <2>3. leaving' \subseteq leaving
    BY <1>4 DEF Crash
  <2> QED
    BY <1>1, <1>2, <1>3, <2>2, <2>3
<1>5. CASE Leave(m)
  <2>1. Fault("leaves", MaxLeaves)
    BY <1>5 DEF Leave
  <2>2. /\ count' \in [crashes : Nat, leaves : Nat, lost : Nat, refused : Nat]
        /\ Faults' = Faults + 1 /\ Faults \in Nat
        /\ count'.lost = count.lost /\ count'.refused = count.refused /\ count'.leaves # 0
    BY <2>1, <1>1, FaultCounted
  <2>3. \A l \in leaving' : l \in leaving \/ (\E k \in up \ {m} : l = <<k, m>>)
    BY <1>5 DEF Leave
  <2> QED
    BY <1>1, <1>2, <1>3, <2>2, <2>3
<1> QED
  BY <1>4, <1>5

\* Probe: the last parts of HeartbeatProbe.
LEMMA ProbeDoes ==
    ASSUME Static, NEW n \in Nodes, NEW m \in Nodes, Probe(n, m)
    PROVE  /\ direct' \in [Nodes -> [Nodes -> Probes]]
           /\ \/ m # n /\ view[n][m] = "alive" /\ direct'[n][m] = "sent" /\ Same(direct, direct', n, m)
              \/ direct' = direct
           /\ fenced' \subseteq Observers
           /\ phase' \in [Nodes -> {"probe", "confirm", "await"}]
           /\ UNCHANGED <<up, view, dead_nodes, indirect, recovery, leaving, addr, hosted, count>>
<1>1. TypeOK /\ n \in Observers /\ fenced \subseteq Observers /\ "sent" \in Probes
      /\ phase \in [Nodes -> {"probe", "confirm", "await"}] /\ direct \in [Nodes -> [Nodes -> Probes]]
  BY DEF Probe, Running, Static, TypeOK, Probes
<1>2. fenced' \subseteq Observers
  BY <1>1 DEF Probe
<1>3. phase' \in [Nodes -> {"probe", "confirm", "await"}]
  BY <1>1 DEF Probe
<1>4. CASE m \in Probeable(n) /\ direct' = [direct EXCEPT ![n][m] = "sent"]
  <2>1. direct' \in [Nodes -> [Nodes -> Probes]] /\ direct'[n][m] = "sent" /\ Same(direct, direct', n, m)
    BY <1>1, <1>4, ProbeWritten
  <2> QED
    BY <1>2, <1>3, <1>4, <2>1 DEF Probe, Probeable
<1>5. CASE UNCHANGED direct
  BY <1>1, <1>2, <1>3, <1>5 DEF Probe
<1> QED
  BY <1>4, <1>5 DEF Probe

\* Heartbeat.
LEMMA AnswerDoes ==
    ASSUME Static, NEW n \in Nodes, NEW m \in Nodes, Answer(n, m)
    PROVE  /\ n # m /\ direct[n][m] = "sent" /\ direct' \in [Nodes -> [Nodes -> Probes]]
           /\ direct'[n][m] = "answered" /\ Same(direct, direct', n, m)
           /\ UNCHANGED <<up, view, dead_nodes, indirect, fenced, recovery, phase, leaving, addr, hosted, count>>
<1>1. n # m /\ TypeOK /\ "answered" \in Probes /\ direct[n][m] = "sent"
  BY DEF Answer, Static, NoSelf, Probes
<1>2. direct' \in [Nodes -> [Nodes -> Probes]]
           /\ direct'[n][m] = "answered" /\ Same(direct, direct', n, m)
  BY <1>1, ProbeWritten DEF Answer
<1> QED
  BY <1>1, <1>2 DEF Answer

\* A helper has probed the node.
LEMMA ProbeRequestDoes ==
    ASSUME Static, NEW n \in Nodes, NEW m \in Nodes, NEW h \in Nodes, ProbeRequest(n, m, h)
    PROVE  /\ n # m /\ h \in up /\ indirect[n][m][h] = "sent"
           /\ indirect' \in [Nodes -> [Nodes -> [Nodes -> Answers]]] /\ Same(indirect, indirect', n, m)
           /\ \A k \in Nodes : k # h => indirect'[n][m][k] = indirect[n][m][k]
           /\ count' \in [crashes : Nat, leaves : Nat, lost : Nat, refused : Nat]
           /\ \/ indirect'[n][m][h] = "alive" /\ UNCHANGED count
              \/ indirect'[n][m][h] = "unreachable" /\ ProbeFails(m)
           /\ UNCHANGED <<up, view, dead_nodes, direct, fenced, recovery, phase, leaving, addr, hosted>>
<1>1. /\ n # m /\ TypeOK /\ Kinds /\ h \in up /\ "alive" \in Answers /\ "unreachable" \in Answers
      /\ indirect[n][m][h] = "sent"
  BY DEF ProbeRequest, Static, NoSelf, Answers
<1>2. CASE UNCHANGED count /\ indirect' = [indirect EXCEPT ![n][m][h] = "alive"]
  <2>1. Written(n, m, h, "alive")
    BY <1>2 DEF Written
  <2>2. /\ indirect' \in [Nodes -> [Nodes -> [Nodes -> Answers]]] /\ Same(indirect, indirect', n, m)
        /\ indirect'[n][m][h] = "alive" /\ \A k \in Nodes : k # h => indirect'[n][m][k] = indirect[n][m][k]
    BY <1>1, <2>1, WriteAnswer
  <2> QED
    BY <1>1, <1>2, <2>2 DEF Kinds, ProbeRequest
<1>3. CASE ProbeFails(m) /\ indirect' = [indirect EXCEPT ![n][m][h] = "unreachable"]
  <2>1. Written(n, m, h, "unreachable")
    BY <1>3 DEF Written
  <2>2. /\ indirect' \in [Nodes -> [Nodes -> [Nodes -> Answers]]] /\ Same(indirect, indirect', n, m)
        /\ indirect'[n][m][h] = "unreachable" /\ \A k \in Nodes : k # h => indirect'[n][m][k] = indirect[n][m][k]
    BY <1>1, <2>1, WriteAnswer
  <2>3. count' \in [crashes : Nat, leaves : Nat, lost : Nat, refused : Nat]
    BY <1>1, <1>3, ProbeFailsCounted
  <2> QED
    BY <1>1, <1>3, <2>2, <2>3 DEF ProbeRequest
<1> QED
  BY <1>2, <1>3 DEF ProbeRequest

\* A dead node is heard of again.
LEMMA RecvInDoes ==
    ASSUME Static, NEW n \in Nodes, NEW m \in Nodes, RecvIn(n, m)
    PROVE  /\ n # m /\ view[n][m] = "dead"
           /\ view' \in [Nodes -> [Nodes -> States]] /\ \A k \in Nodes : view'[k][k] = "alive"
           /\ view'[n][m] = "alive" /\ Same(view, view', n, m)
           /\ dead_nodes' \in [Nodes -> SUBSET Nodes]
           /\ \A j, k \in Nodes : k \in dead_nodes'[j] <=> k \in dead_nodes[j] /\ ~ (j = n /\ k = m)
           /\ UNCHANGED <<up, direct, indirect, fenced, recovery, phase, leaving, addr, hosted, count>>
<1>1. n # m /\ view[n][m] = "dead" /\ SetNodeState(n, m, "alive") /\ "alive" \in States /\ TypeOK
  BY DEF RecvIn, States, Static
<1>2. /\ dead_nodes \in [Nodes -> SUBSET Nodes] /\ dead_nodes[n] \ {m} \in SUBSET Nodes
      /\ dead_nodes' = [dead_nodes EXCEPT ![n] = dead_nodes[n] \ {m}]
  BY DEF TypeOK, RecvIn, Static
<1>3. /\ dead_nodes' \in [Nodes -> SUBSET Nodes] /\ dead_nodes'[n] = dead_nodes[n] \ {m}
      /\ \A k \in Nodes : k # n => dead_nodes'[k] = dead_nodes[k]
  BY <1>2
<1>4. \A j, k \in Nodes : k \in dead_nodes'[j] <=> k \in dead_nodes[j] /\ ~ (j = n /\ k = m)
  BY <1>3
<1>5. /\ view' \in [Nodes -> [Nodes -> States]] /\ \A k \in Nodes : view'[k][k] = "alive"
      /\ view'[n][m] = "alive" /\ Same(view, view', n, m)
  BY <1>1, StateWritten
<1> QED
  BY <1>1, <1>3, <1>4, <1>5 DEF RecvIn, probing

\* Every step keeps the types.
LEMMA NextStatic ==
    ASSUME Static, [Next]_vars
    PROVE  Static'
<1>0. /\ view \in [Nodes -> [Nodes -> States]] /\ \A k \in Nodes : view[k][k] = "alive"
      /\ direct \in [Nodes -> [Nodes -> Probes]]
      /\ indirect \in [Nodes -> [Nodes -> [Nodes -> Answers]]]
      /\ \A k \in Nodes : direct[k][k] = "none"
      /\ \A k, h \in Nodes : indirect[k][k][h] = "none"
      /\ dead_nodes \in [Nodes -> SUBSET Nodes]
      /\ fenced \subseteq Observers
      /\ phase \in [Nodes -> {"probe", "confirm", "await"}]
      /\ count \in [crashes : Nat, leaves : Nat, lost : Nat, refused : Nat]
  BY StaticFacts
<1>k. Kinds
  BY DEF Static
<1>1. ASSUME NEW n \in Nodes, NEW m \in Nodes, DirectAnswered(n, m) PROVE Static'
  <2>1. \A k \in Nodes : direct'[k][k] = direct[k][k]
    BY <1>1, DirectAnsweredDoes, OffDiagonal
  <2> QED
    BY <1>0, <1>1, <2>1, DirectAnsweredDoes, TablesStatic DEF recovery
<1>2. ASSUME NEW n \in Nodes, NEW m \in Nodes, DirectTimeout(n, m) PROVE Static'
  <2>1. count' \in [crashes : Nat, leaves : Nat, lost : Nat, refused : Nat]
    BY <1>2, <1>k, ProbeFailsCounted DEF DirectTimeout
  <2>2. /\ n # m
        /\ view' \in [Nodes -> [Nodes -> States]] /\ \A k \in Nodes : view'[k][k] = "alive"
        /\ direct' \in [Nodes -> [Nodes -> Probes]] /\ Same(direct, direct', n, m)
        /\ indirect' \in [Nodes -> [Nodes -> [Nodes -> Answers]]] /\ Same(indirect, indirect', n, m)
        /\ UNCHANGED <<up, dead_nodes, fenced, recovery, phase, leaving, addr, hosted>>
    BY <1>2, DirectTimeoutDoes
  <2>3. \A k \in Nodes : direct'[k][k] = direct[k][k]
    BY <2>2, OffDiagonal
  <2>4. \A k \in Nodes : indirect'[k][k] = indirect[k][k]
    BY <2>2, OffDiagonal
  <2> QED
    BY <1>0, <2>1, <2>2, <2>3, <2>4, TablesStatic DEF recovery
<1>3. ASSUME NEW n \in Nodes, NEW m \in Nodes, NEW h \in Nodes, IndirectAlive(n, m, h) PROVE Static'
  <2>1. \A k \in Nodes : indirect'[k][k] = indirect[k][k]
    BY <1>3, IndirectAliveDoes, OffDiagonal
  <2> QED
    BY <1>0, <1>3, <2>1, IndirectAliveDoes, TablesStatic DEF recovery
<1>4. ASSUME NEW n \in Nodes, NEW m \in Nodes, NEW h \in Nodes, IndirectFailed(n, m, h) PROVE Static'
  <2>1. DropIndirect(n, m, h) /\ indirect[n][m][h] # "none"
    BY <1>4 DEF IndirectFailed
  <2> QED
    BY <1>0, <1>4, <2>1, DropIndirectDoes, TablesStatic DEF Same, recovery, IndirectFailed
<1>5. ASSUME NEW n \in Nodes, NEW m \in Nodes, NEW h \in Nodes, IndirectTimeout(n, m, h) PROVE Static'
  <2>1. DropIndirect(n, m, h) /\ indirect[n][m][h] # "none"
    BY <1>5 DEF IndirectTimeout
  <2>2. count' \in [crashes : Nat, leaves : Nat, lost : Nat, refused : Nat]
    BY <1>5, <1>k, ProbeFailsCounted DEF IndirectTimeout
  <2> QED
    BY <1>0, <1>5, <2>1, <2>2, DropIndirectDoes, TablesStatic DEF Same, recovery, IndirectTimeout
<1>6. ASSUME NEW n \in Nodes, EndProbes(n) \/ Resume(n) PROVE Static'
  <2>1. phase' \in [Nodes -> {"probe", "confirm", "await"}]
    BY <1>0, <1>6 DEF EndProbes, Resume
  <2> QED
    BY <1>0, <1>6, <2>1, TablesStatic DEF EndProbes, Resume, recovery, probing
<1>7. ASSUME NEW n \in Nodes, NEW m \in Nodes, ConfirmDead(n, m) PROVE Static'
  <2>1. phase' \in [Nodes -> {"probe", "confirm", "await"}]
    BY <1>0, <1>7 DEF ConfirmDead
  <2>2. n # m
    BY <1>0, <1>7 DEF ConfirmDead
  <2> QED
    BY <1>7, <2>1, <2>2, MarkedStatic DEF ConfirmDead, probing
<1>8. ASSUME NEW p \in plans, RecoverContainers(p) PROVE Static'
  <2> USE <1>8, RecoverDoes
  <2>1. TypeOK'
    BY DEF Static, TypeOK
  <2>2. Kinds'
    BY DEF Static, Kinds
  <2>3. UNCHANGED <<direct, indirect, leaving>>
    OBVIOUS
  <2>4. NoSelf'
    BY <2>3 DEF Static, NoSelf
  <2> QED
    BY <2>1, <2>2, <2>4 DEF Static
<1>9. ASSUME NEW n \in Nodes, NEW m \in Nodes, AnnounceShutdown(n, m) PROVE Static'
  <2>1. n # m
    BY <1>9 DEF AnnounceShutdown, Static, NoSelf
  <2> QED
    BY <1>0, <1>9, <2>1, MarkedStatic DEF AnnounceShutdown, probing
<1>10. ASSUME NEW n \in Nodes, NEW m \in Nodes, Probe(n, m) PROVE Static'
  <2>1. \A k \in Nodes : direct'[k][k] = direct[k][k]
    BY <1>10, ProbeDoes, OffDiagonal
  <2> QED
    BY <1>0, <1>10, <2>1, ProbeDoes, TablesStatic DEF recovery
<1>11. ASSUME NEW n \in Nodes, NEW m \in Nodes, Answer(n, m) PROVE Static'
  <2>1. \A k \in Nodes : direct'[k][k] = direct[k][k]
    BY <1>11, AnswerDoes, OffDiagonal
  <2> QED
    BY <1>0, <1>11, <2>1, AnswerDoes, TablesStatic DEF recovery
<1>12. ASSUME NEW n \in Nodes, NEW m \in Nodes, NEW h \in Nodes, ProbeRequest(n, m, h) PROVE Static'
  <2>1. \A k \in Nodes : indirect'[k][k] = indirect[k][k]
    BY <1>12, ProbeRequestDoes, OffDiagonal
  <2> QED
    BY <1>0, <1>12, <2>1, ProbeRequestDoes, TablesStatic DEF recovery
<1>13. ASSUME NEW n \in Nodes, NEW m \in Nodes, RecvIn(n, m) PROVE Static'
  BY <1>0, <1>13, RecvInDoes, TablesStatic DEF recovery
<1>14. ASSUME NEW n \in Nodes, NEW m \in Nodes, SendFails(n, m) PROVE Static'
  <2>1. count' \in [crashes : Nat, leaves : Nat, lost : Nat, refused : Nat]
    BY <1>14, <1>k, FaultCounted DEF SendFails
  <2>2. SetDead(n, m) /\ n # m /\ TypeOK
    BY <1>14 DEF SendFails, Static
  <2>3. /\ view' \in [Nodes -> [Nodes -> States]] /\ \A k \in Nodes : view'[k][k] = "alive"
        /\ dead_nodes' \in [Nodes -> SUBSET Nodes]
    BY <2>2, SetDeadDoes
  <2> QED
    BY <1>0, <1>14, <2>1, <2>3, TablesStatic DEF SendFails, probing, recovery
<1>15. ASSUME NEW m \in Nodes, Crash(m) \/ Leave(m) PROVE Static'
  <2> USE <1>15, StopDoes
  <2>1. TypeOK'
    BY DEF Static, TypeOK
  <2>2. Kinds'
    <3>1. leaving' \subseteq Nodes \X Nodes
      BY DEF Static, Kinds, TypeOK
    <3> QED
      BY <3>1 DEF Static, Kinds
  <2>3. NoSelf'
    <3>1. UNCHANGED <<direct, indirect>> /\ \A k \in Nodes : <<k, k>> \in leaving' => <<k, k>> \in leaving
      OBVIOUS
    <3> QED
      BY <3>1 DEF Static, NoSelf
  <2> QED
    BY <2>1, <2>2, <2>3 DEF Static
<1>16. CASE UNCHANGED vars
  BY <1>0, <1>16, TablesStatic DEF vars
<1> QED
  BY <1>1, <1>2, <1>3, <1>4, <1>5, <1>6, <1>7, <1>8, <1>9, <1>10, <1>11, <1>12, <1>13, <1>14, <1>15,
     <1>16 DEF Next

-----------------------------------------------------------------------------
(* HeartbeatProbe alone marks nodes: probes and states agree.              *)

\* What Quiet says of one pair of nodes.
QuietPair(n, m) ==
    /\ direct[n][m] # "none" => view[n][m] = "alive"
    /\ \A h \in Nodes : indirect[n][m][h] # "none" => view[n][m] = "probe_failed"
    /\ m \in dead_nodes[n] <=> view[n][m] = "dead"

Unmarked == count.leaves = 0 /\ count.refused = 0

\* Quiet, pair by pair.
LEMMA QuietPairs ==
    Quiet <=> (Unmarked => leaving = {} /\ \A n, m \in Nodes : QuietPair(n, m))
  BY DEF Quiet, QuietPair, Unmarked

\* Only the pair that a step writes has to be looked at.
LEMMA QuietFrom ==
    ASSUME Quiet, Unmarked' => Unmarked /\ leaving' \subseteq leaving,
           NEW n \in Nodes, NEW m \in Nodes,
           Same(view, view', n, m), Same(direct, direct', n, m), Same(indirect, indirect', n, m),
           \A j, k \in Nodes : (j # n \/ k # m) => (k \in dead_nodes'[j] <=> k \in dead_nodes[j]),
           Unmarked /\ QuietPair(n, m) => QuietPair(n, m)'
    PROVE  Quiet'
<1> SUFFICES ASSUME Unmarked', NEW j \in Nodes, NEW k \in Nodes
             PROVE  leaving' = {} /\ QuietPair(j, k)'
  BY DEF Quiet, QuietPair, Unmarked
<1>1. Unmarked /\ leaving = {} /\ leaving' = {} /\ QuietPair(j, k) /\ QuietPair(n, m)
  BY QuietPairs
<1>2. CASE j = n /\ k = m
  BY <1>1, <1>2
<1>3. CASE j # n \/ k # m
  <2>1. view'[j][k] = view[j][k] /\ direct'[j][k] = direct[j][k] /\ indirect'[j][k] = indirect[j][k]
    BY <1>3 DEF Same
  <2>2. k \in dead_nodes'[j] <=> k \in dead_nodes[j]
    BY <1>3
  <2> QED
    BY <1>1, <2>1, <2>2 DEF QuietPair
<1> QED
  BY <1>2, <1>3

\* A table that was not written.
LEMMA SameTable ==
    ASSUME NEW f, NEW g, g = f
    PROVE  \A n, m \in Nodes : Same(f, g, n, m)
  BY DEF Same

\* Every step keeps Quiet.
LEMMA NextQuiet ==
    ASSUME Static, Quiet, [Next]_vars
    PROVE  Quiet'
<1>k. Kinds
  BY DEF Static
<1>n. ASSUME UNCHANGED <<view, direct, indirect, dead_nodes, leaving, count>> PROVE Quiet'
  BY <1>n DEF Quiet
<1>1. ASSUME NEW n \in Nodes, NEW m \in Nodes, DirectAnswered(n, m) PROVE Quiet'
  <2>1. /\ direct[n][m] = "answered" /\ direct'[n][m] = "none" /\ view'[n][m] = "alive"
        /\ Same(view, view', n, m) /\ Same(direct, direct', n, m) /\ Same(indirect, indirect', n, m)
        /\ UNCHANGED <<dead_nodes, indirect, leaving, count>>
    BY <1>1, DirectAnsweredDoes, SameTable
  <2>2. QuietPair(n, m) => QuietPair(n, m)'
    BY <2>1 DEF QuietPair
  <2> QED
    BY <2>1, <2>2, QuietFrom DEF Unmarked
<1>2. ASSUME NEW n \in Nodes, NEW m \in Nodes, DirectTimeout(n, m) PROVE Quiet'
  <2>1. /\ direct[n][m] = "sent" /\ direct'[n][m] = "none" /\ view'[n][m] = "probe_failed"
        /\ Same(view, view', n, m) /\ Same(direct, direct', n, m) /\ Same(indirect, indirect', n, m)
        /\ UNCHANGED <<dead_nodes, leaving>> /\ ProbeFails(m)
    BY <1>2, DirectTimeoutDoes
  <2>2. QuietPair(n, m) => QuietPair(n, m)'
    BY <2>1 DEF QuietPair
  <2>3. Unmarked' => Unmarked
    BY <2>1, <1>k, ProbeFailsCounted DEF Unmarked
  <2> QED
    BY <2>1, <2>2, <2>3, QuietFrom
<1>3. ASSUME NEW n \in Nodes, NEW m \in Nodes, NEW h \in Nodes, IndirectAlive(n, m, h) PROVE Quiet'
  <2>1. /\ indirect[n][m][h] = "alive" /\ view'[n][m] = "alive" /\ \A k \in Nodes : indirect'[n][m][k] = "none"
        /\ Same(view, view', n, m) /\ Same(direct, direct', n, m) /\ Same(indirect, indirect', n, m)
        /\ UNCHANGED <<dead_nodes, direct, leaving, count>>
    BY <1>3, IndirectAliveDoes, SameTable
  <2>2. QuietPair(n, m) => QuietPair(n, m)'
    BY <2>1 DEF QuietPair
  <2> QED
    BY <2>1, <2>2, QuietFrom DEF Unmarked
<1>d. ASSUME NEW n \in Nodes, NEW m \in Nodes, NEW h \in Nodes, DropIndirect(n, m, h),
             indirect[n][m][h] # "none", UNCHANGED <<dead_nodes, direct, leaving>>, Unmarked' => Unmarked
      PROVE  Quiet'
  <2>1. /\ Same(view, view', n, m) /\ Same(direct, direct', n, m) /\ Same(indirect, indirect', n, m)
    BY <1>d, DropIndirectDoes, SameTable
  <2>0. /\ indirect'[n][m][h] = "none"
        /\ \A k \in Nodes : k # h => indirect'[n][m][k] = indirect[n][m][k]
        /\ \/ view'[n][m] = view[n][m]
           \/ view'[n][m] = "suspected" /\ \A k \in Nodes : indirect'[n][m][k] = "none"
    BY <1>d, DropIndirectDoes
  <2>2. \A k \in Nodes : indirect'[n][m][k] # "none" => indirect[n][m][k] # "none"
    BY <2>0
  <2>3. QuietPair(n, m) => QuietPair(n, m)'
    BY <1>d, <2>0, <2>2 DEF QuietPair
  <2> QED
    BY <1>d, <2>1, <2>3, QuietFrom
<1>4. ASSUME NEW n \in Nodes, NEW m \in Nodes, NEW h \in Nodes, IndirectFailed(n, m, h) PROVE Quiet'
  BY <1>4, <1>d DEF IndirectFailed, Unmarked
<1>5. ASSUME NEW n \in Nodes, NEW m \in Nodes, NEW h \in Nodes, IndirectTimeout(n, m, h) PROVE Quiet'
  <2>1. Unmarked' => Unmarked
    BY <1>5, <1>k, ProbeFailsCounted DEF Unmarked, IndirectTimeout
  <2> QED
    BY <1>5, <2>1, <1>d DEF IndirectTimeout
<1>6. ASSUME NEW n \in Nodes, EndProbes(n) \/ Resume(n) PROVE Quiet'
  BY <1>6, <1>n DEF EndProbes, Resume, probing
<1>7. ASSUME NEW n \in Nodes, NEW m \in Nodes, ConfirmDead(n, m) PROVE Quiet'
  <2>1. /\ view[n][m] = "suspected" /\ n # m /\ SetDead(n, m) /\ TypeOK
        /\ UNCHANGED <<direct, indirect, leaving, count>>
    BY <1>7 DEF ConfirmDead, Static, TypeOK, probing
  <2>2. /\ view'[n][m] = "dead" /\ m \in dead_nodes'[n]
        /\ Same(view, view', n, m) /\ Same(direct, direct', n, m) /\ Same(indirect, indirect', n, m)
        /\ \A j, k \in Nodes : (j # n \/ k # m) => (k \in dead_nodes'[j] <=> k \in dead_nodes[j])
    BY <2>1, SetDeadDoes, SameTable
  <2>3. QuietPair(n, m) => QuietPair(n, m)'
    BY <2>1, <2>2 DEF QuietPair
  <2> QED
    BY <2>1, <2>2, <2>3, QuietFrom DEF Unmarked
<1>8. ASSUME NEW p \in plans, RecoverContainers(p) PROVE Quiet'
  BY <1>8, <1>n, RecoverDoes
<1>9. ASSUME NEW n \in Nodes, NEW m \in Nodes, AnnounceShutdown(n, m) PROVE Quiet'
  BY <1>9 DEF AnnounceShutdown, Quiet
<1>10. ASSUME NEW n \in Nodes, NEW m \in Nodes, Probe(n, m) PROVE Quiet'
  <2>0. UNCHANGED <<view, dead_nodes, indirect, leaving, count>>
    BY <1>10, ProbeDoes
  <2>1. CASE m # n /\ view[n][m] = "alive" /\ direct'[n][m] = "sent" /\ Same(direct, direct', n, m)
    <3>1. QuietPair(n, m) => QuietPair(n, m)'
      BY <2>0, <2>1 DEF QuietPair
    <3>2. Same(view, view', n, m) /\ Same(indirect, indirect', n, m)
      BY <2>0, SameTable
    <3> QED
      BY <2>0, <2>1, <3>1, <3>2, QuietFrom DEF Unmarked
  <2>2. CASE direct' = direct
    BY <2>0, <2>2, <1>n
  <2> QED
    BY <1>10, <2>1, <2>2, ProbeDoes
<1>11. ASSUME NEW n \in Nodes, NEW m \in Nodes, Answer(n, m) PROVE Quiet'
  <2>1. /\ direct[n][m] = "sent" /\ UNCHANGED <<view, dead_nodes, indirect, leaving, count>>
        /\ Same(view, view', n, m) /\ Same(direct, direct', n, m) /\ Same(indirect, indirect', n, m)
    BY <1>11, AnswerDoes, SameTable
  <2>2. QuietPair(n, m) => QuietPair(n, m)'
    BY <2>1 DEF QuietPair
  <2> QED
    BY <2>1, <2>2, QuietFrom DEF Unmarked
<1>12. ASSUME NEW n \in Nodes, NEW m \in Nodes, NEW h \in Nodes, ProbeRequest(n, m, h) PROVE Quiet'
  <2>1. /\ indirect[n][m][h] = "sent" /\ UNCHANGED <<view, dead_nodes, direct, leaving>>
        /\ Same(view, view', n, m) /\ Same(direct, direct', n, m) /\ Same(indirect, indirect', n, m)
        /\ \A k \in Nodes : k # h => indirect'[n][m][k] = indirect[n][m][k]
    BY <1>12, ProbeRequestDoes, SameTable
  <2>2. QuietPair(n, m) => QuietPair(n, m)'
    BY <2>1 DEF QuietPair
  <2>3. Unmarked' => Unmarked
    BY <1>12, <1>k, ProbeRequestDoes, ProbeFailsCounted DEF Unmarked
  <2> QED
    BY <2>1, <2>2, <2>3, QuietFrom
<1>13. ASSUME NEW n \in Nodes, NEW m \in Nodes, RecvIn(n, m) PROVE Quiet'
  <2>1. /\ view[n][m] = "dead" /\ view'[n][m] = "alive" /\ UNCHANGED <<direct, indirect, leaving, count>>
        /\ Same(view, view', n, m) /\ Same(direct, direct', n, m) /\ Same(indirect, indirect', n, m)
        /\ \A j, k \in Nodes : k \in dead_nodes'[j] <=> k \in dead_nodes[j] /\ ~ (j = n /\ k = m)
    BY <1>13, RecvInDoes, SameTable
  <2>2. QuietPair(n, m) => QuietPair(n, m)'
    BY <2>1 DEF QuietPair
  <2> QED
    BY <2>1, <2>2, QuietFrom DEF Unmarked
<1>14. ASSUME NEW n \in Nodes, NEW m \in Nodes, SendFails(n, m) PROVE Quiet'
  <2>1. count'.refused # 0
    BY <1>14, <1>k, FaultCounted DEF SendFails
  <2> QED
    BY <2>1 DEF Quiet
<1>15. ASSUME NEW m \in Nodes, Crash(m) \/ Leave(m) PROVE Quiet'
  <2>1. /\ UNCHANGED <<view, direct, indirect, dead_nodes>>
        /\ Unmarked' => Unmarked /\ leaving' \subseteq leaving
    BY <1>15, StopDoes DEF Unmarked
  <2> QED
    BY <2>1 DEF Quiet, Unmarked
<1>16. CASE UNCHANGED vars
  BY <1>16, <1>n DEF vars
<1> QED
  BY <1>1, <1>2, <1>3, <1>4, <1>5, <1>6, <1>7, <1>8, <1>9, <1>10, <1>11, <1>12, <1>13, <1>14, <1>15,
     <1>16 DEF Next

-----------------------------------------------------------------------------
(* A node that is up is suspected only after as many faults as there are   *)
(* ways to reach it.                                                       *)

\* What Judged says of n and a node m that is up.
JudgedPair(n, m) ==
    /\ direct[n][m] # "none" => view[n][m] = "alive"
    /\ view[n][m] = "probe_failed" => Faults + Cardinality(Hopes(n, m)) >= Ways
    /\ view[n][m] \in {"suspected", "dead"} => Faults >= Ways

\* Judged, pair by pair.
LEMMA JudgedPairs ==
    Judged <=> /\ \A l \in leaving : l[2] \notin up
               /\ count.refused = 0 =>
                    /\ \A n \in Nodes : Cardinality(Bad(n)) <= Faults
                    /\ \A n \in Nodes, m \in up : JudgedPair(n, m)
  BY DEF Judged, JudgedPair

\* The numbers involved.
LEMMA Sizes ==
    ASSUME Static
    PROVE  /\ Ways \in Int /\ Faults \in Nat /\ IsFiniteSet(up)
           /\ \A n \in Nodes : IsFiniteSet(Bad(n)) /\ Cardinality(Bad(n)) \in Nat
           /\ \A n, m \in Nodes : IsFiniteSet(Hopes(n, m)) /\ Cardinality(Hopes(n, m)) \in Nat
<1>1. IsFiniteSet(Nodes) /\ Cardinality(Nodes) \in Nat /\ kIndirectProbeHelpers \in Nat
  BY MembershipAssumption, FS_CardinalityType
<1>2. Ways \in Int
  BY <1>1, MinOfTwo DEF Ways
<1>3. Faults \in Nat
  BY DEF Static, Kinds, Faults
<1>4. up \subseteq Nodes
  BY DEF Static, TypeOK
<1>5. \A n \in Nodes : IsFiniteSet(Bad(n)) /\ Cardinality(Bad(n)) \in Nat
  <2> TAKE n \in Nodes
  <2>1. Bad(n) \subseteq Nodes
    BY DEF Bad
  <2> QED
    BY <1>1, <2>1, FS_Subset, FS_CardinalityType
<1>6. \A n, m \in Nodes : IsFiniteSet(Hopes(n, m)) /\ Cardinality(Hopes(n, m)) \in Nat
  <2> TAKE n, m \in Nodes
  <2>1. Hopes(n, m) \subseteq Nodes
    BY <1>4 DEF Hopes
  <2> QED
    BY <1>1, <2>1, FS_Subset, FS_CardinalityType
<1> QED
  BY <1>1, <1>2, <1>3, <1>4, <1>5, <1>6, FS_Subset

\* Only the pair that a step writes has to be looked at.
LEMMA JudgedFrom ==
    ASSUME Static, Static', Judged, NEW n \in Nodes, NEW m \in Nodes,
           up' = up, leaving' \subseteq leaving, count'.refused = count.refused, Faults' >= Faults,
           Same(view, view', n, m), Same(direct, direct', n, m), Same(indirect, indirect', n, m),
           \/ view'[n][m] = "alive" \/ view[n][m] # "alive" \/ m \notin up
           \/ Faults' = Faults + 1,
           m \in up /\ JudgedPair(n, m) /\ Cardinality(Bad(n)) <= Faults => JudgedPair(n, m)'
    PROVE  Judged'
<1>f. Faults' \in Nat
  BY DEF Static, Kinds, Faults
<1>0. /\ Ways \in Int /\ Faults \in Nat /\ Faults' \in Nat
      /\ \A j \in Nodes : IsFiniteSet(Bad(j)) /\ Cardinality(Bad(j)) \in Nat
      /\ \A j, k \in Nodes : Cardinality(Hopes(j, k)) \in Nat
  BY <1>f, Sizes
<1>1. \A l \in leaving' : l[2] \notin up'
  BY DEF Judged
<1>2. ASSUME count'.refused = 0, NEW j \in Nodes
      PROVE  Cardinality(Bad(j)') <= Faults'
  <2>0. Cardinality(Bad(j)) <= Faults
    BY <1>2, JudgedPairs
  <2>1. Bad(j)' \subseteq Bad(j) \cup {m}
    BY DEF Bad, Same
  <2>2. CASE Bad(j)' \subseteq Bad(j)
    <3>1. Cardinality(Bad(j)') <= Cardinality(Bad(j)) /\ Cardinality(Bad(j)') \in Nat
      BY <1>0, <2>2, FS_Subset, FS_CardinalityType
    <3> QED
      BY <1>0, <2>0, <3>1
  <2>3. CASE ~ (Bad(j)' \subseteq Bad(j))
    <3>1. j = n /\ view'[n][m] # "alive" /\ view[n][m] = "alive" /\ m \in up
      BY <2>3 DEF Bad, Same
    <3>2. Faults' = Faults + 1
      BY <3>1
    <3>3. /\ IsFiniteSet(Bad(j) \cup {m}) /\ Cardinality(Bad(j) \cup {m}) \in Nat
          /\ Cardinality(Bad(j) \cup {m}) <= Cardinality(Bad(j)) + 1
      <4>1. /\ IsFiniteSet(Bad(j) \cup {m})
            /\ Cardinality(Bad(j) \cup {m}) = IF m \in Bad(j) THEN Cardinality(Bad(j)) ELSE Cardinality(Bad(j)) + 1
        BY <1>0, FS_AddElement
      <4> QED
        BY <1>0, <4>1
    <3>4. Cardinality(Bad(j)') <= Cardinality(Bad(j) \cup {m}) /\ Cardinality(Bad(j)') \in Nat
      BY <3>3, <2>1, FS_Subset, FS_CardinalityType
    <3> QED
      BY <1>0, <2>0, <3>2, <3>3, <3>4
  <2> QED
    BY <2>2, <2>3
<1>3. ASSUME count'.refused = 0, NEW j \in Nodes, NEW k \in up'
      PROVE  JudgedPair(j, k)'
  <2>0. k \in up /\ k \in Nodes /\ JudgedPair(j, k) /\ Cardinality(Bad(j)) <= Faults
    BY <1>3, JudgedPairs DEF Static, TypeOK
  <2>1. CASE j = n /\ k = m
    BY <2>0, <2>1
  <2>2. CASE j # n \/ k # m
    <3>1. view'[j][k] = view[j][k] /\ direct'[j][k] = direct[j][k] /\ indirect'[j][k] = indirect[j][k]
      BY <2>0, <2>2 DEF Same
    <3>2. Hopes(j, k)' = Hopes(j, k)
      BY <3>1 DEF Hopes
    <3>3. Ways' = Ways
      BY DEF Ways
    <3> QED
      BY <1>0, <2>0, <3>1, <3>2, <3>3 DEF JudgedPair
  <2> QED
    BY <2>1, <2>2
<1> QED
  BY <1>1, <1>2, <1>3, JudgedPairs DEF Judged, JudgedPair

\* Of the helpers that n asks, those that are up make good for what the nodes
\* that look bad have cost.
LEMMA HelpersEnough ==
    ASSUME Static, NEW n \in Nodes, NEW m \in Nodes, n # m, NEW H \in SUBSET Helpers(n, m),
           Cardinality(H) = Min({kIndirectProbeHelpers, Cardinality(Helpers(n, m))})
    PROVE  Cardinality(H \cap up) + Cardinality(Bad(n)) >= Min({kIndirectProbeHelpers, Cardinality(Nodes) - 2})
<1> DEFINE A == H \cap up
           B == Bad(n)
           X == Helpers(n, m)
<1>1. /\ IsFiniteSet(Nodes) /\ Cardinality(Nodes) \in Nat /\ kIndirectProbeHelpers \in Nat
      /\ IsFiniteSet(B) /\ Cardinality(B) \in Nat
  BY MembershipAssumption, FS_CardinalityType, Sizes
<1>2. X \subseteq Nodes /\ H \subseteq X /\ A \subseteq H
  BY DEF Helpers
<1>3. IsFiniteSet(X) /\ IsFiniteSet(H) /\ IsFiniteSet(A)
  BY <1>1, <1>2, FS_Subset
<1>4. Cardinality(X) \in Nat /\ Cardinality(H) \in Nat /\ Cardinality(A) \in Nat
  BY <1>3, FS_CardinalityType
<1>5. IsFiniteSet(A \cup B) /\ Cardinality(A \cup B) \in Nat
      /\ Cardinality(A \cup B) <= Cardinality(A) + Cardinality(B)
  <2>1. /\ IsFiniteSet(A \cup B) /\ IsFiniteSet(A \cap B)
        /\ Cardinality(A \cup B) = Cardinality(A) + Cardinality(B) - Cardinality(A \cap B)
    BY <1>1, <1>3, FS_Union, FS_Intersection
  <2>2. Cardinality(A \cap B) \in Nat /\ Cardinality(A \cup B) \in Nat
    BY <2>1, FS_CardinalityType
  <2> QED
    BY <1>1, <1>4, <2>1, <2>2
<1>6. Min({kIndirectProbeHelpers, Cardinality(Nodes) - 2}) =
        IF kIndirectProbeHelpers <= Cardinality(Nodes) - 2 THEN kIndirectProbeHelpers ELSE Cardinality(Nodes) - 2
  BY <1>1, MinOfTwo
<1>7. Cardinality(H) = IF kIndirectProbeHelpers <= Cardinality(X) THEN kIndirectProbeHelpers ELSE Cardinality(X)
  BY <1>1, <1>4, MinOfTwo
<1>8. CASE Cardinality(H) = kIndirectProbeHelpers
  <2>1. H \subseteq A \cup B
    BY <1>2 DEF Bad
  <2>2. Cardinality(H) <= Cardinality(A \cup B)
    BY <2>1, <1>5, FS_Subset
  <2> QED
    BY <1>1, <1>4, <1>5, <1>6, <1>8, <2>2
<1>9. CASE Cardinality(H) = Cardinality(X)
  <2>1. H = X
    BY <1>2, <1>3, <1>9, FS_Subset
  <2>2. (Nodes \ {n}) \ {m} \subseteq A \cup B
    BY <2>1 DEF Helpers, Bad
  <2>3. /\ IsFiniteSet(Nodes \ {n}) /\ Cardinality(Nodes \ {n}) = Cardinality(Nodes) - 1
    BY <1>1, FS_RemoveElement
  <2>4. m \in Nodes \ {n}
    OBVIOUS
  <2>5. Cardinality((Nodes \ {n}) \ {m}) = Cardinality(Nodes \ {n}) - 1
    BY <2>3, <2>4, FS_RemoveElement
  <2>6. Cardinality((Nodes \ {n}) \ {m}) <= Cardinality(A \cup B)
    BY <2>2, <1>5, FS_Subset
  <2> QED
    BY <1>1, <1>4, <1>5, <1>6, <2>3, <2>5, <2>6
<1> QED
  BY <1>7, <1>8, <1>9

\* A direct probe times out for a node that is up.
LEMMA TimeoutJudged ==
    ASSUME Static, Static', NEW n \in Nodes, NEW m \in Nodes, DirectTimeout(n, m),
           m \in up, Cardinality(Bad(n)) <= Faults, Faults' = Faults + 1
    PROVE  JudgedPair(n, m)'
<1>1. /\ n # m /\ view'[n][m] = "probe_failed" /\ direct'[n][m] = "none" /\ up' = up
      /\ \E H \in SUBSET Helpers(n, m) :
           /\ Cardinality(H) = Min({kIndirectProbeHelpers, Cardinality(Helpers(n, m))})
           /\ \A h \in Nodes : indirect'[n][m][h] = IF h \in H THEN "sent" ELSE indirect[n][m][h]
  BY DirectTimeoutDoes
<1>2. PICK H \in SUBSET Helpers(n, m) :
         /\ Cardinality(H) = Min({kIndirectProbeHelpers, Cardinality(Helpers(n, m))})
         /\ \A h \in Nodes : indirect'[n][m][h] = IF h \in H THEN "sent" ELSE indirect[n][m][h]
  BY <1>1
<1>3. H \subseteq Nodes /\ up' \subseteq Nodes /\ IsFiniteSet(Nodes)
  BY MembershipAssumption DEF Helpers, Static, TypeOK
<1>4. H \cap up \subseteq Hopes(n, m)' /\ Hopes(n, m)' \subseteq Nodes
  BY <1>1, <1>2, <1>3 DEF Hopes
<1>5. IsFiniteSet(Hopes(n, m)') /\ IsFiniteSet(H \cap up)
  BY <1>3, <1>4, FS_Subset
<1>6. /\ Cardinality(H \cap up) <= Cardinality(Hopes(n, m)')
      /\ Cardinality(H \cap up) \in Nat /\ Cardinality(Hopes(n, m)') \in Nat
  BY <1>4, <1>5, FS_Subset, FS_CardinalityType
<1>7. Cardinality(H \cap up) + Cardinality(Bad(n)) >= Min({kIndirectProbeHelpers, Cardinality(Nodes) - 2})
  BY <1>1, <1>2, HelpersEnough
<1>8. /\ Faults \in Nat /\ Cardinality(Bad(n)) \in Nat
      /\ Min({kIndirectProbeHelpers, Cardinality(Nodes) - 2}) \in Int
  <2>1. Cardinality(Nodes) \in Nat /\ kIndirectProbeHelpers \in Nat
    BY MembershipAssumption, FS_CardinalityType
  <2> QED
    BY <2>1, Sizes, MinOfTwo
<1>9. Faults' + Cardinality(Hopes(n, m)') >= 1 + Min({kIndirectProbeHelpers, Cardinality(Nodes) - 2})
  BY <1>6, <1>7, <1>8
<1> QED
  BY <1>1, <1>9 DEF JudgedPair, Ways

\* An indirect probe through h is over: if h could have spoken for the node, a
\* fault has been counted.
LEMMA DropJudged ==
    ASSUME Static, Static', NEW n \in Nodes, NEW m \in Nodes, NEW h \in Nodes, up' = up,
           DropIndirect(n, m, h), indirect[n][m][h] # "none", direct' = direct, JudgedPair(n, m),
           \/ h \notin Hopes(n, m) /\ Faults' >= Faults
           \/ Faults' = Faults + 1
    PROVE  JudgedPair(n, m)'
<1>0. /\ Ways \in Int /\ Faults \in Nat /\ IsFiniteSet(Hopes(n, m)) /\ Cardinality(Hopes(n, m)) \in Nat
  BY Sizes
<1>f. Faults' \in Nat /\ Ways' = Ways
  BY DEF Static, Kinds, Faults, Ways
<1>1. /\ indirect'[n][m][h] = "none"
      /\ \A k \in Nodes : k # h => indirect'[n][m][k] = indirect[n][m][k]
      /\ \/ view'[n][m] = view[n][m]
         \/ /\ view[n][m] = "probe_failed" /\ view'[n][m] = "suspected"
            /\ \A k \in Nodes : indirect'[n][m][k] = "none"
  BY DropIndirectDoes
<1>2. Hopes(n, m)' = Hopes(n, m) \ {h}
  BY <1>1 DEF Hopes, Static, TypeOK
<1>3. /\ Cardinality(Hopes(n, m)') \in Nat
      /\ Faults' + Cardinality(Hopes(n, m)') >= Faults + Cardinality(Hopes(n, m))
  <2>1. /\ IsFiniteSet(Hopes(n, m) \ {h})
        /\ Cardinality(Hopes(n, m) \ {h}) =
             IF h \in Hopes(n, m) THEN Cardinality(Hopes(n, m)) - 1 ELSE Cardinality(Hopes(n, m))
    BY <1>0, FS_RemoveElement
  <2>2. Cardinality(Hopes(n, m) \ {h}) \in Nat
    BY <2>1, FS_CardinalityType
  <2> QED
    BY <1>0, <1>f, <1>2, <2>1, <2>2
<1>4. Faults' >= Faults
  BY <1>0
<1>5. CASE view'[n][m] = view[n][m]
  BY <1>0, <1>f, <1>3, <1>4, <1>5 DEF JudgedPair
<1>6. CASE /\ view[n][m] = "probe_failed" /\ view'[n][m] = "suspected"
           /\ \A k \in Nodes : indirect'[n][m][k] = "none"
  <2>1. Hopes(n, m)' = {}
    BY <1>6 DEF Hopes, Static, TypeOK
  <2>2. Cardinality(Hopes(n, m)') = 0
    BY <2>1, FS_EmptySet
  <2>3. Faults + Cardinality(Hopes(n, m)) >= Ways /\ direct[n][m] = "none"
    BY <1>6 DEF JudgedPair
  <2>4. Faults' >= Ways
    BY <1>0, <1>f, <1>3, <2>2, <2>3
  <2> QED
    BY <1>f, <1>6, <2>3, <2>4 DEF JudgedPair
<1> QED
  BY <1>1, <1>5, <1>6

\* A node stops: it was counted, and it may have been bad or a hope before.
LEMMA StopJudged ==
    ASSUME Static, Static', Judged, NEW m \in Nodes, Crash(m) \/ Leave(m)
    PROVE  Judged'
<1>1. /\ up' = up \ {m} /\ Faults' = Faults + 1 /\ count'.refused = count.refused
      /\ \A l \in leaving' : l \in leaving \/ (\E k \in up \ {m} : l = <<k, m>>)
      /\ UNCHANGED <<view, direct, indirect>>
  BY StopDoes
<1>0. /\ Ways \in Int /\ Faults \in Nat
      /\ \A j \in Nodes : IsFiniteSet(Bad(j)) /\ Cardinality(Bad(j)) \in Nat
      /\ \A j, k \in Nodes : IsFiniteSet(Hopes(j, k)) /\ Cardinality(Hopes(j, k)) \in Nat
  BY Sizes
<1>2. \A l \in leaving' : l[2] \notin up'
  BY <1>1 DEF Judged
<1>3. ASSUME count'.refused = 0, NEW j \in Nodes
      PROVE  Cardinality(Bad(j)') <= Faults'
  <2>0. Cardinality(Bad(j)) <= Faults
    BY <1>1, <1>3, JudgedPairs
  <2>1. Bad(j)' = Bad(j) \cup {m}
    BY <1>1 DEF Bad
  <2>2. Cardinality(Bad(j) \cup {m}) =
          IF m \in Bad(j) THEN Cardinality(Bad(j)) ELSE Cardinality(Bad(j)) + 1
    BY <1>0, FS_AddElement
  <2> QED
    BY <1>0, <1>1, <2>0, <2>1, <2>2
<1>4. ASSUME count'.refused = 0, NEW j \in Nodes, NEW k \in up'
      PROVE  JudgedPair(j, k)'
  <2>0. k \in Nodes /\ JudgedPair(j, k)
    BY <1>1, <1>4, JudgedPairs DEF Static, TypeOK
  <2>1. Hopes(j, k)' = Hopes(j, k) \ {m}
    BY <1>1 DEF Hopes
  <2>2. Cardinality(Hopes(j, k) \ {m}) =
          IF m \in Hopes(j, k) THEN Cardinality(Hopes(j, k)) - 1 ELSE Cardinality(Hopes(j, k))
    BY <1>0, <2>0, FS_RemoveElement
  <2>3. Ways' = Ways
    BY DEF Ways
  <2> QED
    BY <1>0, <1>1, <2>0, <2>1, <2>2, <2>3 DEF JudgedPair
<1> QED
  BY <1>2, <1>3, <1>4 DEF Judged, JudgedPair

\* Every step keeps Judged.
LEMMA NextJudged ==
    ASSUME Static, Static', Judged, [Next]_vars
    PROVE  Judged'
<1>k. /\ Kinds /\ up \subseteq Nodes
      /\ Ways \in Int /\ Ways' = Ways /\ Faults \in Nat /\ Faults' \in Nat
  BY Sizes DEF Static, TypeOK, Ways, Kinds, Faults
<1>n. ASSUME UNCHANGED <<up, view, direct, indirect, leaving, count>> PROVE Judged'
  BY <1>n DEF Judged, Bad, Hopes, Faults, Ways
<1>1. ASSUME NEW n \in Nodes, NEW m \in Nodes, DirectAnswered(n, m) PROVE Judged'
  <2>1. /\ direct[n][m] = "answered" /\ direct'[n][m] = "none" /\ view'[n][m] = "alive"
        /\ Same(view, view', n, m) /\ Same(direct, direct', n, m) /\ Same(indirect, indirect', n, m)
        /\ UNCHANGED <<up, leaving, count>>
    BY <1>1, DirectAnsweredDoes, SameTable
  <2>2. JudgedPair(n, m)'
    BY <2>1 DEF JudgedPair
  <2>3. Faults' = Faults
    BY <2>1 DEF Faults
  <2> QED
    BY <1>k, <2>1, <2>2, <2>3, JudgedFrom
<1>2. ASSUME NEW n \in Nodes, NEW m \in Nodes, DirectTimeout(n, m) PROVE Judged'
  <2>1. /\ Same(view, view', n, m) /\ Same(direct, direct', n, m) /\ Same(indirect, indirect', n, m)
        /\ UNCHANGED <<up, leaving>> /\ ProbeFails(m)
    BY <1>2, DirectTimeoutDoes
  <2>2. /\ Faults' >= Faults /\ count'.refused = count.refused
        /\ m \in up => Faults' = Faults + 1
    BY <1>k, <2>1, ProbeFailsCounted
  <2>3. m \in up /\ Cardinality(Bad(n)) <= Faults => JudgedPair(n, m)'
    BY <1>2, <2>2, TimeoutJudged
  <2> QED
    BY <2>1, <2>2, <2>3, JudgedFrom
<1>3. ASSUME NEW n \in Nodes, NEW m \in Nodes, NEW h \in Nodes, IndirectAlive(n, m, h) PROVE Judged'
  <2>1. /\ view'[n][m] = "alive" /\ UNCHANGED <<up, direct, leaving, count>>
        /\ Same(view, view', n, m) /\ Same(direct, direct', n, m) /\ Same(indirect, indirect', n, m)
    BY <1>3, IndirectAliveDoes, SameTable
  <2>2. JudgedPair(n, m)'
    BY <2>1 DEF JudgedPair
  <2>3. Faults' = Faults
    BY <2>1 DEF Faults
  <2> QED
    BY <1>k, <2>1, <2>2, <2>3, JudgedFrom
<1>d. ASSUME NEW n \in Nodes, NEW m \in Nodes, NEW h \in Nodes, DropIndirect(n, m, h),
             indirect[n][m][h] # "none", UNCHANGED <<up, direct, leaving>>, count'.refused = count.refused,
             \/ h \notin Hopes(n, m) /\ Faults' >= Faults
             \/ Faults' = Faults + 1
      PROVE  Judged'
  <2>1. /\ Same(view, view', n, m) /\ Same(direct, direct', n, m) /\ Same(indirect, indirect', n, m)
        /\ view'[n][m] = view[n][m] \/ view[n][m] = "probe_failed"
    BY <1>d, DropIndirectDoes, SameTable
  <2>2. JudgedPair(n, m) => JudgedPair(n, m)'
    BY <1>d, DropJudged
  <2>3. Faults' >= Faults
    BY <1>d, <1>k
  <2>4. view'[n][m] = "alive" \/ view[n][m] # "alive"
    BY <2>1
  <2> QED
    BY <1>d, <2>1, <2>2, <2>3, <2>4, JudgedFrom
<1>4. ASSUME NEW n \in Nodes, NEW m \in Nodes, NEW h \in Nodes, IndirectFailed(n, m, h) PROVE Judged'
  <2>1. h \notin Hopes(n, m) /\ DropIndirect(n, m, h) /\ indirect[n][m][h] # "none"
    BY <1>4 DEF IndirectFailed, Hopes
  <2>2. UNCHANGED <<up, direct, leaving, count>>
    BY <1>4 DEF IndirectFailed
  <2>3. Faults' >= Faults /\ count'.refused = count.refused
    BY <1>k, <2>2 DEF Faults
  <2> QED
    BY <2>1, <2>2, <2>3, <1>d
<1>5. ASSUME NEW n \in Nodes, NEW m \in Nodes, NEW h \in Nodes, IndirectTimeout(n, m, h) PROVE Judged'
  <2>1. ProbeFails(h) /\ DropIndirect(n, m, h) /\ indirect[n][m][h] # "none" /\ UNCHANGED <<up, direct, leaving>>
    BY <1>5 DEF IndirectTimeout
  <2>2. /\ Faults' >= Faults /\ count'.refused = count.refused
        /\ h \in up => Faults' = Faults + 1
    BY <1>k, <2>1, ProbeFailsCounted
  <2>3. h \in Hopes(n, m) => h \in up
    BY DEF Hopes
  <2> QED
    BY <2>1, <2>2, <2>3, <1>d
<1>6. ASSUME NEW n \in Nodes, EndProbes(n) \/ Resume(n) PROVE Judged'
  BY <1>6, <1>n DEF EndProbes, Resume, probing
<1>m. ASSUME NEW n \in Nodes, NEW m \in Nodes, n # m, SetDead(n, m), UNCHANGED <<up, direct, indirect, count>>,
             leaving' \subseteq leaving, m \notin up \/ view[n][m] = "suspected"
      PROVE  Judged'
  <2>0. Faults' = Faults
    BY <1>m DEF Faults
  <2>1. /\ view'[n][m] = "dead"
        /\ Same(view, view', n, m) /\ Same(direct, direct', n, m) /\ Same(indirect, indirect', n, m)
    BY <1>m, SetDeadDoes, SameTable DEF Static
  <2>2. m \in up /\ JudgedPair(n, m) => JudgedPair(n, m)'
    BY <1>m, <1>k, <2>0, <2>1 DEF JudgedPair
  <2> QED
    BY <1>m, <1>k, <2>0, <2>1, <2>2, JudgedFrom
<1>7. ASSUME NEW n \in Nodes, NEW m \in Nodes, ConfirmDead(n, m) PROVE Judged'
  <2>1. n # m
    BY <1>7 DEF ConfirmDead, Static, TypeOK
  <2> QED
    BY <1>7, <2>1, <1>m DEF ConfirmDead, probing
<1>8. ASSUME NEW p \in plans, RecoverContainers(p) PROVE Judged'
  BY <1>8, <1>n, RecoverDoes
<1>9. ASSUME NEW n \in Nodes, NEW m \in Nodes, AnnounceShutdown(n, m) PROVE Judged'
  <2>1. n # m /\ m \notin up
    BY <1>9 DEF AnnounceShutdown, Static, NoSelf, Judged
  <2> QED
    BY <1>9, <2>1, <1>m DEF AnnounceShutdown, probing
<1>10. ASSUME NEW n \in Nodes, NEW m \in Nodes, Probe(n, m) PROVE Judged'
  <2>0. UNCHANGED <<up, view, indirect, leaving, count>>
    BY <1>10, ProbeDoes
  <2>1. CASE m # n /\ view[n][m] = "alive" /\ direct'[n][m] = "sent" /\ Same(direct, direct', n, m)
    <3>1. JudgedPair(n, m)'
      BY <2>0, <2>1 DEF JudgedPair
    <3>2. Same(view, view', n, m) /\ Same(indirect, indirect', n, m) /\ Faults' = Faults
      BY <2>0, SameTable DEF Faults
    <3> QED
      BY <1>k, <2>0, <2>1, <3>1, <3>2, JudgedFrom
  <2>2. CASE direct' = direct
    BY <2>0, <2>2, <1>n
  <2> QED
    BY <1>10, <2>1, <2>2, ProbeDoes
<1>11. ASSUME NEW n \in Nodes, NEW m \in Nodes, Answer(n, m) PROVE Judged'
  <2>1. /\ direct[n][m] = "sent" /\ UNCHANGED <<up, view, indirect, leaving, count>>
        /\ Same(view, view', n, m) /\ Same(direct, direct', n, m) /\ Same(indirect, indirect', n, m)
    BY <1>11, AnswerDoes, SameTable
  <2>2. JudgedPair(n, m) => JudgedPair(n, m)'
    BY <2>1 DEF JudgedPair
  <2>3. Faults' = Faults
    BY <2>1 DEF Faults
  <2>4. JudgedPair(n, m) /\ m \in up => view'[n][m] = "alive"
    BY <2>1 DEF JudgedPair
  <2>5. view'[n][m] = "alive" \/ view[n][m] # "alive"
    BY <2>1
  <2> QED
    BY <1>k, <2>1, <2>2, <2>3, <2>5, JudgedFrom
<1>12. ASSUME NEW n \in Nodes, NEW m \in Nodes, NEW h \in Nodes, ProbeRequest(n, m, h) PROVE Judged'
  <2>1. /\ indirect[n][m][h] = "sent" /\ h \in up /\ UNCHANGED <<up, view, direct, leaving>>
        /\ Same(view, view', n, m) /\ Same(direct, direct', n, m) /\ Same(indirect, indirect', n, m)
        /\ \A k \in Nodes : k # h => indirect'[n][m][k] = indirect[n][m][k]
    BY <1>12, ProbeRequestDoes, SameTable
  <2>2. view'[n][m] = "alive" \/ view[n][m] # "alive"
    BY <2>1
  <2>3. CASE indirect'[n][m][h] = "alive" /\ UNCHANGED count
    <3>1. Hopes(n, m)' = Hopes(n, m)
      BY <1>k, <2>1, <2>3 DEF Hopes
    <3>2. Faults' = Faults
      BY <2>3 DEF Faults
    <3>3. JudgedPair(n, m) => JudgedPair(n, m)'
      BY <1>k, <2>1, <3>1, <3>2 DEF JudgedPair
    <3> QED
      BY <1>k, <2>1, <2>2, <2>3, <3>2, <3>3, JudgedFrom
  <2>4. CASE indirect'[n][m][h] = "unreachable" /\ ProbeFails(m)
    <3>1. /\ Faults' >= Faults /\ count'.refused = count.refused
          /\ m \in up => Faults' = Faults + 1
      BY <1>k, <2>4, ProbeFailsCounted
    <3>2. Hopes(n, m)' = Hopes(n, m) \ {h}
      BY <1>k, <2>1, <2>4 DEF Hopes
    <3>3. IsFiniteSet(Hopes(n, m)) /\ Cardinality(Hopes(n, m)) \in Nat
      BY Sizes
    <3>4. Cardinality(Hopes(n, m) \ {h}) =
            IF h \in Hopes(n, m) THEN Cardinality(Hopes(n, m)) - 1 ELSE Cardinality(Hopes(n, m))
      BY <3>3, FS_RemoveElement
    <3>5. m \in up /\ JudgedPair(n, m) => JudgedPair(n, m)'
      BY <1>k, <2>1, <3>1, <3>2, <3>3, <3>4 DEF JudgedPair
    <3> QED
      BY <2>1, <2>2, <3>1, <3>5, JudgedFrom
  <2> QED
    BY <1>12, <2>3, <2>4, ProbeRequestDoes
<1>13. ASSUME NEW n \in Nodes, NEW m \in Nodes, RecvIn(n, m) PROVE Judged'
  <2>1. /\ view[n][m] = "dead" /\ view'[n][m] = "alive" /\ UNCHANGED <<up, direct, indirect, leaving, count>>
        /\ Same(view, view', n, m) /\ Same(direct, direct', n, m) /\ Same(indirect, indirect', n, m)
    BY <1>13, RecvInDoes, SameTable
  <2>2. JudgedPair(n, m) => JudgedPair(n, m)'
    BY <2>1 DEF JudgedPair
  <2>3. Faults' = Faults
    BY <2>1 DEF Faults
  <2> QED
    BY <1>k, <2>1, <2>2, <2>3, JudgedFrom
<1>14. ASSUME NEW n \in Nodes, NEW m \in Nodes, SendFails(n, m) PROVE Judged'
  <2>1. count'.refused # 0 /\ UNCHANGED <<up, leaving>>
    BY <1>14, <1>k, FaultCounted DEF SendFails
  <2> QED
    BY <2>1 DEF Judged
<1>15. ASSUME NEW m \in Nodes, Crash(m) \/ Leave(m) PROVE Judged'
  BY <1>15, StopJudged
<1>16. CASE UNCHANGED vars
  BY <1>16, <1>n DEF vars
<1> QED
  BY <1>1, <1>2, <1>3, <1>4, <1>5, <1>6, <1>7, <1>8, <1>9, <1>10, <1>11, <1>12, <1>13, <1>14, <1>15,
     <1>16 DEF Next

\* Quiet and Judged hold at first.
LEMMA InitDetection ==
    ASSUME Init
    PROVE  Quiet /\ Judged
<1>0. /\ Ways \in Int /\ Faults = 0
  BY InitStatic, Sizes DEF Init, Faults
<1>1. Quiet
  BY DEF Init, Quiet
<1>2. \A n \in Nodes : Bad(n) = {}
  BY DEF Init, Bad
<1>3. \A n \in Nodes : Cardinality(Bad(n)) <= Faults
  BY <1>0, <1>2, FS_EmptySet
<1>4. \A n \in Nodes, m \in up : JudgedPair(n, m)
  BY DEF Init, JudgedPair
<1>5. leaving = {}
  BY DEF Init
<1> QED
  BY <1>1, <1>3, <1>4, <1>5, JudgedPairs

Detection == Static /\ Quiet /\ Judged

\* What failure detection maintains.
LEMMA DetectionHolds == Spec => []Detection
<1>1. Init => Detection
  BY InitStatic, InitDetection DEF Detection
<1>2. Detection /\ [Next]_vars => Detection'
  BY NextStatic, NextQuiet, NextJudged DEF Detection
<1> QED
  BY <1>1, <1>2, PTL DEF Spec

\* For any number of nodes, helpers and faults: HeartbeatProbe does not suspect a
\* node that is up while fewer probes were lost or helpers gone than there are
\* ways to reach it, and dead_nodes_ agrees with the states while HeartbeatProbe
\* alone marks nodes.
THEOREM SuspicionsAccurate == Spec => []MembershipInv
<1>1. Detection => MembershipInv
  <2> SUFFICES ASSUME Detection PROVE MembershipInv
    OBVIOUS
  <2>1. TypeOK /\ up \subseteq Nodes
    BY DEF Detection, Static, TypeOK
  <2>2. DeadListed
    BY <2>1 DEF Detection, Quiet, DeadListed
  <2>3. Accurate
    <3> SUFFICES ASSUME count.refused = 0, Faults < Ways, NEW n \in up, NEW m \in up,
                        view[n][m] \in {"suspected", "dead"}
                 PROVE  FALSE
      BY DEF Accurate, Ways
    <3>1. n \in Nodes /\ Judged /\ Static
      BY <2>1 DEF Detection
    <3>2. Faults >= Ways
      BY <3>1 DEF Judged
    <3> QED
      BY <3>1, <3>2, Sizes
  <2> QED
    BY <2>1, <2>2, <2>3 DEF MembershipInv
<1> QED
  BY <1>1, DetectionHolds, PTL

-----------------------------------------------------------------------------
(* Who starts a recovery.                                                  *)

\* A node that sees itself as the leader has no alive node below it.
LEMMA LeaderIsLowest ==
    ASSUME Static, NEW n \in Nodes, NEW v \in [Nodes -> States], v[n] = "alive",
           GetLeaderNodeId(v) = n
    PROVE  \A m \in Nodes : v[m] = "alive" => n <= m
<1> DEFINE A == {m \in Nodes : v[m] = "alive"}
<1>1. A \in SUBSET Nat /\ A # {}
  BY MembershipAssumption
<1> HIDE DEF A
<1>2. PICK i \in A : \A j \in A : ~ (<<j, i>> \in OpToRel(<, Nat))
  BY <1>1, WFMin, NatLessThanWellFounded
<1>3. \A j \in A : i <= j
  <2>1. \A j \in A : ~ (j < i)
    BY <1>1, <1>2 DEF OpToRel
  <2> QED
    BY <1>1, <2>1
<1>4. Min(A) = n
  BY <1>1 DEF GetLeaderNodeId, A
<1>5. \A j \in A : Min(A) <= j
  BY <1>3 DEF Min
<1> QED
  BY <1>4, <1>5 DEF A

\* A recovery is started by the lowest of the nodes it sees as alive.
LEMMA RecoveryBy ==
    ASSUME Static, NEW n \in Nodes, NEW m \in Nodes, NEW v, TriggerRecovery(n, m, v)
    PROVE  /\ \A k \in Nodes : k # n => initiated'[k] = initiated[k]
           /\ initiated[n] \subseteq initiated'[n]
           /\ GetLeaderNodeId(v) # n => initiated'[n] = initiated[n]
           /\ plans' = plans \/ initiated'[n] # {}
<1>0. initiated \in [Nodes -> SUBSET Nodes]
  BY DEF Static, Kinds
<1>1. CASE UNCHANGED recovery
  BY <1>1 DEF recovery
<1>2. CASE initiated' = [initiated EXCEPT ![n] = @ \cup {m}] /\ GetLeaderNodeId(v) = n
  <2>1. initiated'[n] = initiated[n] \cup {m} /\ \A k \in Nodes : k # n => initiated'[k] = initiated[k]
    BY <1>0, <1>2
  <2> QED
    BY <1>2, <2>1
<1> QED
  BY <1>1, <1>2 DEF TriggerRecovery

Reliable == count.lost = 0 /\ count.refused = 0

\* What Truth needs of a step: nodes that are up stay alive in every view, and
\* recoveries are started by the lowest of them.
LEMMA TruthFrom ==
    ASSUME Static, Truth, Reliable' => Reliable, up' \subseteq up,
           Reliable' => \A n \in Nodes, m \in up' : view[n][m] = "alive" => view'[n][m] = "alive",
           Reliable' => \A n \in Nodes : initiated'[n] = initiated[n] \/ \A m \in up' : n <= m
    PROVE  Truth'
  BY DEF Truth, Reliable

\* A node that n marks as dead and may recover is down.
LEMMA MarkedTruth ==
    ASSUME Static, Static', Truth, NEW n \in Nodes, NEW m \in Nodes, n # m,
           SetDead(n, m), TriggerRecovery(n, m, view'[n]), UNCHANGED <<up, count>>,
           Reliable => m \notin up
    PROVE  Truth'
<1>1. /\ view' \in [Nodes -> [Nodes -> States]] /\ \A k \in Nodes : view'[k][k] = "alive"
      /\ Same(view, view', n, m)
  BY SetDeadDoes DEF Static
<1>2. up \subseteq Nodes /\ view'[n] \in [Nodes -> States] /\ view'[n][n] = "alive"
  BY <1>1 DEF Static, TypeOK
<1>3. Reliable => \A j \in Nodes, k \in up : view[j][k] = "alive" /\ view'[j][k] = "alive"
  BY <1>1, <1>2 DEF Truth, Reliable, Same
<1>4. GetLeaderNodeId(view'[n]) = n => \A k \in Nodes : view'[n][k] = "alive" => n <= k
  BY <1>2, LeaderIsLowest
<1>5. Reliable => initiated'[n] = initiated[n] \/ \A k \in up : n <= k
  BY <1>2, <1>3, <1>4, RecoveryBy
<1>6. \A k \in Nodes : k # n => initiated'[k] = initiated[k]
  BY RecoveryBy
<1>7. Reliable' => Reliable
  BY DEF Reliable
<1> QED
  BY <1>3, <1>5, <1>6, <1>7, TruthFrom

\* Every step keeps Truth.
LEMMA NextTruth ==
    ASSUME Static, Static', Judged, Truth, [Next]_vars
    PROVE  Truth'
<1>k. Kinds /\ up \subseteq Nodes
  BY DEF Static, TypeOK
<1>n. ASSUME UNCHANGED <<up, view, initiated, count>> PROVE Truth'
  BY <1>n DEF Truth
<1>v. ASSUME NEW n \in Nodes, NEW m \in Nodes, Same(view, view', n, m), UNCHANGED <<up, initiated>>,
             Reliable' => Reliable /\ (m \in up => view'[n][m] = "alive" \/ view'[n][m] = view[n][m])
      PROVE  Truth'
  <2>1. Reliable' => \A j \in Nodes, k \in up' : view[j][k] = "alive" => view'[j][k] = "alive"
    BY <1>k, <1>v DEF Same
  <2> QED
    BY <1>v, <2>1, TruthFrom
<1>f. ASSUME NEW m \in Nodes, ProbeFails(m)
      PROVE  Reliable' => Reliable /\ m \notin up
  <2>1. count'.refused = count.refused /\ (m \in up => count'.lost # 0)
    BY <1>k, <1>f, ProbeFailsCounted
  <2>2. m \notin up => count' = count
    BY <1>f DEF ProbeFails
  <2> QED
    BY <2>1, <2>2 DEF Reliable
<1>1. ASSUME NEW n \in Nodes, NEW m \in Nodes, DirectAnswered(n, m) PROVE Truth'
  <2>1. view'[n][m] = "alive" /\ Same(view, view', n, m) /\ UNCHANGED <<up, initiated, count>>
    BY <1>1, DirectAnsweredDoes DEF recovery
  <2> QED
    BY <2>1, <1>v DEF Reliable
<1>2. ASSUME NEW n \in Nodes, NEW m \in Nodes, DirectTimeout(n, m) PROVE Truth'
  <2>1. Same(view, view', n, m) /\ UNCHANGED <<up, initiated>> /\ ProbeFails(m)
    BY <1>2, DirectTimeoutDoes DEF recovery
  <2>2. Reliable' => Reliable /\ m \notin up
    BY <2>1, <1>f
  <2> QED
    BY <2>1, <2>2, <1>v
<1>3. ASSUME NEW n \in Nodes, NEW m \in Nodes, NEW h \in Nodes, IndirectAlive(n, m, h) PROVE Truth'
  <2>1. view'[n][m] = "alive" /\ Same(view, view', n, m) /\ UNCHANGED <<up, initiated, count>>
    BY <1>3, IndirectAliveDoes DEF recovery
  <2> QED
    BY <2>1, <1>v DEF Reliable
<1>d. ASSUME NEW n \in Nodes, NEW m \in Nodes, NEW h \in Nodes, DropIndirect(n, m, h),
             indirect[n][m][h] # "none", UNCHANGED <<up, initiated>>, Reliable' => Reliable
      PROVE  Truth'
  <2>1. /\ Same(view, view', n, m)
        /\ view'[n][m] = view[n][m] \/ view[n][m] = "probe_failed"
    BY <1>d, DropIndirectDoes
  <2>2. Reliable /\ m \in up => view[n][m] = "alive"
    BY DEF Truth, Reliable
  <2> QED
    BY <1>d, <2>1, <2>2, <1>v
<1>4. ASSUME NEW n \in Nodes, NEW m \in Nodes, NEW h \in Nodes, IndirectFailed(n, m, h) PROVE Truth'
  BY <1>4, <1>d DEF IndirectFailed, Reliable, recovery
<1>5. ASSUME NEW n \in Nodes, NEW m \in Nodes, NEW h \in Nodes, IndirectTimeout(n, m, h) PROVE Truth'
  <2>1. Reliable' => Reliable
    BY <1>5, <1>f DEF IndirectTimeout
  <2> QED
    BY <1>5, <2>1, <1>d DEF IndirectTimeout, recovery
<1>6. ASSUME NEW n \in Nodes, EndProbes(n) \/ Resume(n) PROVE Truth'
  BY <1>6, <1>n DEF EndProbes, Resume, recovery
<1>7. ASSUME NEW n \in Nodes, NEW m \in Nodes, ConfirmDead(n, m) PROVE Truth'
  <2>1. n # m /\ (Reliable => m \notin up)
    BY <1>7 DEF ConfirmDead, Static, TypeOK, Truth, Reliable
  <2> QED
    BY <1>7, <2>1, MarkedTruth DEF ConfirmDead
<1>8. ASSUME NEW p \in plans, RecoverContainers(p) PROVE Truth'
  BY <1>8, <1>n, RecoverDoes
<1>9. ASSUME NEW n \in Nodes, NEW m \in Nodes, AnnounceShutdown(n, m) PROVE Truth'
  <2>1. n # m /\ m \notin up
    BY <1>9 DEF AnnounceShutdown, Static, NoSelf, Judged
  <2> QED
    BY <1>9, <2>1, MarkedTruth DEF AnnounceShutdown
<1>10. ASSUME NEW n \in Nodes, NEW m \in Nodes, Probe(n, m) PROVE Truth'
  BY <1>10, <1>n, ProbeDoes DEF recovery
<1>11. ASSUME NEW n \in Nodes, NEW m \in Nodes, Answer(n, m) PROVE Truth'
  BY <1>11, <1>n, AnswerDoes DEF recovery
<1>12. ASSUME NEW n \in Nodes, NEW m \in Nodes, NEW h \in Nodes, ProbeRequest(n, m, h) PROVE Truth'
  <2>1. UNCHANGED <<up, view, initiated>> /\ (UNCHANGED count \/ ProbeFails(m))
    BY <1>12, ProbeRequestDoes DEF recovery
  <2>2. Reliable' => Reliable
    BY <2>1, <1>f DEF Reliable
  <2> QED
    BY <2>1, <2>2, TruthFrom
<1>13. ASSUME NEW n \in Nodes, NEW m \in Nodes, RecvIn(n, m) PROVE Truth'
  <2>1. view'[n][m] = "alive" /\ Same(view, view', n, m) /\ UNCHANGED <<up, initiated, count>>
    BY <1>13, RecvInDoes DEF recovery
  <2> QED
    BY <2>1, <1>v DEF Reliable
<1>14. ASSUME NEW n \in Nodes, NEW m \in Nodes, SendFails(n, m) PROVE Truth'
  <2>1. count'.refused # 0
    BY <1>14, <1>k, FaultCounted DEF SendFails
  <2> QED
    BY <2>1 DEF Truth
<1>15. ASSUME NEW m \in Nodes, Crash(m) \/ Leave(m) PROVE Truth'
  <2>1. up' \subseteq up /\ UNCHANGED <<view, initiated>> /\ (Reliable' => Reliable)
    BY <1>15, StopDoes DEF Reliable
  <2> QED
    BY <2>1, TruthFrom
<1>16. CASE UNCHANGED vars
  BY <1>16, <1>n DEF vars
<1> QED
  BY <1>1, <1>2, <1>3, <1>4, <1>5, <1>6, <1>7, <1>8, <1>9, <1>10, <1>11, <1>12, <1>13, <1>14, <1>15,
     <1>16 DEF Next

-----------------------------------------------------------------------------
(* No container is created on two nodes.                                   *)

Steady == Reliable /\ LeadersStay

\* Recoveries are never taken back and nodes do not return, so that what Planned
\* assumes after a step held before it.
LEMMA SteadyBefore ==
    ASSUME Static, Reliable' => Reliable, up' \subseteq up,
           \A n \in Nodes : initiated[n] \subseteq initiated'[n]
    PROVE  Steady' => Steady
  BY DEF Steady, LeadersStay

\* Planned, for one container.
LEMMA PlannedOne ==
    ASSUME Planned, Steady, NEW c \in Containers
    PROVE  /\ \A j, k \in Claims(c) : j = k
           /\ \A n \in up : Sole(n) => Settled(n, c)
  BY DEF Planned, Steady, Reliable

\* What Planned asks of a step.
LEMMA PlannedFrom ==
    ASSUME ASSUME NEW c \in Containers, Steady'
           PROVE  /\ \A j, k \in Claims(c)' : j = k
                  /\ \A n \in up' : Sole(n)' => Settled(n, c)'
    PROVE  Planned'
  BY DEF Planned, Steady, Reliable

\* A step after which there are fewer claims and plans and n believes what it
\* believed before.
LEMMA SettledStays ==
    ASSUME NEW n, NEW c, Settled(n, c), addr'[n][c] = addr[n][c], initiated[n] \subseteq initiated'[n],
           Claims(c)' \subseteq Claims(c), plans' \subseteq plans
    PROVE  Settled(n, c)'
  BY DEF Settled

\* No plan is made.
LEMMA NoPlanPlanned ==
    ASSUME Static, Planned, Reliable' => Reliable, up' \subseteq up, addr' = addr,
           \A k \in up' : hosted'[k] = hosted[k], plans' \subseteq plans,
           \A n \in Nodes : initiated[n] \subseteq initiated'[n]
    PROVE  Planned'
<1>1. Steady' => Steady
  BY SteadyBefore
<1>2. \A c \in Containers : Claims(c)' \subseteq Claims(c)
  BY DEF Claims
<1>3. \A n \in Nodes : Sole(n)' => Sole(n)
  BY DEF Sole
<1>4. ASSUME NEW c \in Containers, Steady'
      PROVE  /\ \A j, k \in Claims(c)' : j = k
             /\ \A n \in up' : Sole(n)' => Settled(n, c)'
  <2>1. \A j, k \in Claims(c)' : j = k
    BY <1>1, <1>2, <1>4, PlannedOne
  <2>2. ASSUME NEW n \in up', Sole(n)' PROVE Settled(n, c)'
    <3>1. n \in Nodes /\ n \in up /\ Settled(n, c)
      BY <1>1, <1>3, <1>4, <2>2, PlannedOne DEF Static, TypeOK
    <3> QED
      BY <1>2, <3>1, SettledStays
  <2> QED
    BY <2>1, <2>2
<1> QED
  BY <1>4, PlannedFrom

\* The plan of TriggerRecovery, by a node that is then the only one that has
\* started a recovery.
LEMMA SendPlanPlanned ==
    ASSUME Static, Planned, Truth, Truth', NEW n \in up, NEW m \in Nodes, m \notin up, n \in Nodes,
           m \notin initiated[n], NEW v, NEW plan \in ComputeRecoveryPlan(n, m, v), SendPlan(n, m, plan, v),
           initiated' = [initiated EXCEPT ![n] = @ \cup {m}],
           UNCHANGED <<up, addr, hosted, count>>
    PROVE  Planned'
<1> DEFINE lost == {c \in Containers : addr[n][c] = m}
<1>0. initiated \in [Nodes -> SUBSET Nodes] /\ up \subseteq Nodes /\ Nodes \subseteq Nat
  BY MembershipAssumption DEF Static, Kinds, TypeOK
<1>1. initiated'[n] = initiated[n] \cup {m} /\ \A k \in Nodes : k # n => initiated'[k] = initiated[k]
  BY <1>0
<1>2. Reliable' => Reliable
  BY DEF Reliable
<1>3. Steady' => Steady
  <2>1. \A k \in Nodes : initiated[k] \subseteq initiated'[k]
    BY <1>1
  <2> QED
    BY <1>2, <2>1, SteadyBefore
<1>4. Steady' => Sole(n)
  <2> SUFFICES ASSUME Steady', NEW k \in Nodes, k # n, initiated[k] # {} PROVE FALSE
    BY DEF Sole
  <2>1. k \in up /\ Reliable /\ Reliable'
    BY <1>3 DEF Steady, LeadersStay
  <2>2. k <= n
    BY <2>1 DEF Truth, Reliable
  <2>3. n <= k
    BY <1>1, <2>1 DEF Truth, Reliable
  <2> QED
    BY <1>0, <2>2, <2>3
<1>5. /\ DOMAIN plan = lost
      /\ \A p \in plans' : p \in plans \/ (p.plan = plan /\ \E k \in Nodes :
                                p = [from |-> n, to |-> k, dead |-> m, plan |-> plan])
      /\ plans \subseteq plans'
  BY DEF ComputeRecoveryPlan, SendPlan
<1>6. ASSUME NEW c \in Containers, c \notin lost PROVE Claims(c)' = Claims(c)
  BY <1>5, <1>6 DEF Claims
<1>7. ASSUME NEW c \in lost, Steady' PROVE Claims(c) = {}
  <2>1. Settled(n, c) /\ addr[n][c] = m
    BY <1>3, <1>4, <1>7, PlannedOne
  <2>2. Claims(c) \subseteq {m} /\ Claims(c) \subseteq up
    BY <2>1 DEF Settled, Claims
  <2> QED
    BY <2>2
<1>8. ASSUME NEW c \in lost, Steady' PROVE Claims(c)' \subseteq {plan[c]}
  <2> SUFFICES ASSUME NEW k \in Claims(c)' PROVE k = plan[c]
    OBVIOUS
  <2>1. k \in up /\ k \notin Claims(c)
    BY <1>7, <1>8 DEF Claims
  <2>2. c \notin hosted[k]
    BY <2>1 DEF Claims
  <2>3. PICK p \in plans' : p.to = k /\ c \in DOMAIN p.plan /\ p.plan[c] = k
    BY <2>2 DEF Claims
  <2>4. p \notin plans
    BY <2>1, <2>3 DEF Claims
  <2> QED
    BY <1>5, <2>3, <2>4
<1>9. ASSUME NEW c \in Containers, Steady'
      PROVE  /\ \A j, k \in Claims(c)' : j = k
             /\ \A k \in up' : Sole(k)' => Settled(k, c)'
  <2>0. Steady /\ Sole(n) /\ Settled(n, c)
    BY <1>3, <1>4, <1>9, PlannedOne
  <2>1. \A j, k \in Claims(c)' : j = k
    <3>1. CASE c \in lost
      BY <1>8, <1>9, <3>1
    <3>2. CASE c \notin lost
      BY <1>6, <2>0, <3>2, PlannedOne
    <3> QED
      BY <3>1, <3>2
  <2>2. ASSUME NEW k \in up', Sole(k)' PROVE k = n
    BY <1>0, <1>1, <2>2 DEF Sole
  <2>3. Settled(n, c)'
    <3>1. CASE c \in lost
      <4>1. addr'[n][c] = m /\ m \in initiated'[n] /\ addr[n][c] \notin initiated[n]
        BY <1>1, <3>1
      <4>2. ASSUME NEW p \in plans', p.to = n, c \in DOMAIN p.plan
            PROVE  p = [from |-> n, to |-> n, dead |-> m, plan |-> plan] /\ p.plan = plan
        <5>1. p \notin plans
          BY <2>0, <4>1, <4>2 DEF Settled
        <5> QED
          BY <1>5, <4>2, <5>1
      <4> QED
        BY <1>8, <1>9, <3>1, <4>1, <4>2 DEF Settled
    <3>2. CASE c \notin lost
      <4>1. Claims(c)' = Claims(c)
        BY <1>6, <3>2
      <4>2. ASSUME NEW p \in plans', p.to = n, c \in DOMAIN p.plan PROVE p \in plans
        BY <1>5, <3>2, <4>2
      <4> QED
        BY <1>1, <2>0, <4>1, <4>2 DEF Settled
    <3> QED
      BY <3>1, <3>2
  <2> QED
    BY <2>1, <2>2, <2>3
<1> QED
  BY <1>9, PlannedFrom

\* A node that is down has been marked dead.
LEMMA MarkedPlanned ==
    ASSUME Static, Planned, Truth, Truth', NEW n \in up, n \in Nodes, NEW m \in Nodes,
           Reliable => m \notin up,
           TriggerRecovery(n, m, view'[n]), UNCHANGED <<up, addr, hosted, count>>
    PROVE  Planned'
<1>0. \A k \in Nodes : initiated[k] \subseteq initiated'[k]
  BY RecoveryBy
<1>1. Reliable' <=> Reliable
  BY DEF Reliable
<1>2. CASE plans' = plans
  BY <1>0, <1>1, <1>2, NoPlanPlanned
<1>3. CASE ~ Reliable
  BY <1>1, <1>3 DEF Planned, Reliable
<1>4. CASE plans' # plans /\ m \notin up
  <2>1. /\ m \notin initiated[n]
        /\ initiated' = [initiated EXCEPT ![n] = @ \cup {m}]
        /\ \E plan \in ComputeRecoveryPlan(n, m, view'[n]) : SendPlan(n, m, plan, view'[n])
    BY <1>4 DEF TriggerRecovery, recovery
  <2> QED
    BY <1>4, <2>1, SendPlanPlanned
<1> QED
  BY <1>2, <1>3, <1>4

\* RecoverContainers turns a claim by a plan into one by a container.
LEMMA RecoverPlanned ==
    ASSUME Static, Planned, NEW p \in plans, RecoverContainers(p)
    PROVE  Planned'
<1>1. /\ p.to \in up /\ p.to \in Nodes /\ plans' = plans \ {p}
      /\ \A k \in Nodes : k # p.to => addr'[k] = addr[k] /\ hosted'[k] = hosted[k]
      /\ \A c \in Containers :
           /\ addr'[p.to][c] = IF c \in DOMAIN p.plan THEN p.plan[c] ELSE addr[p.to][c]
           /\ c \in hosted'[p.to] <=> c \in hosted[p.to] \/ (c \in DOMAIN p.plan /\ p.plan[c] = p.to)
      /\ UNCHANGED <<up, initiated, count>>
  BY RecoverDoes
<1>2. up \subseteq Nodes
  BY DEF Static, TypeOK
<1>3. Steady' => Steady
  BY <1>1 DEF Steady, Reliable, LeadersStay
<1>4. ASSUME NEW c \in Containers PROVE Claims(c)' \subseteq Claims(c)
  BY <1>1, <1>2 DEF Claims
<1>5. ASSUME NEW c \in Containers, Steady'
      PROVE  /\ \A j, k \in Claims(c)' : j = k
             /\ \A n \in up' : Sole(n)' => Settled(n, c)'
  <2>1. \A j, k \in Claims(c)' : j = k
    BY <1>3, <1>4, <1>5, PlannedOne
  <2>2. ASSUME NEW n \in up', Sole(n)' PROVE Settled(n, c)'
    <3>1. n \in Nodes /\ Settled(n, c)
      BY <1>1, <1>2, <1>3, <1>5, <2>2, PlannedOne DEF Sole
    <3>2. CASE n # p.to \/ c \notin DOMAIN p.plan
      <4>1. addr'[n][c] = addr[n][c]
        BY <1>1, <3>1, <3>2
      <4> QED
        BY <1>1, <1>4, <3>1, <4>1, SettledStays
    <3>3. CASE n = p.to /\ c \in DOMAIN p.plan
      <4>1. addr'[n][c] = p.plan[c] /\ Claims(c) \subseteq {p.plan[c]}
        BY <1>1, <3>1, <3>3 DEF Settled
      <4>2. \A q \in plans' : ~ (q.to = n /\ c \in DOMAIN q.plan)
        BY <1>1, <3>1, <3>3 DEF Settled
      <4>3. Claims(c)' \subseteq {addr'[n][c]}
        BY <1>4, <4>1
      <4> QED
        BY <4>2, <4>3 DEF Settled
    <3> QED
      BY <3>2, <3>3
  <2> QED
    BY <2>1, <2>2
<1> QED
  BY <1>5, PlannedFrom

\* Every step keeps Planned.
LEMMA NextPlanned ==
    ASSUME Static, Judged, Truth, Truth', Planned, [Next]_vars
    PROVE  Planned'
<1>k. Kinds /\ up \subseteq Nodes
  BY DEF Static, TypeOK
<1>n. ASSUME UNCHANGED <<up, initiated, plans, addr, hosted>>, Reliable' => Reliable PROVE Planned'
  BY <1>n, NoPlanPlanned
<1>f. ASSUME NEW m \in Nodes, ProbeFails(m) PROVE Reliable' => Reliable
  <2>1. count'.refused = count.refused /\ (m \in up => count'.lost # 0)
    BY <1>k, <1>f, ProbeFailsCounted
  <2>2. m \notin up => count' = count
    BY <1>f DEF ProbeFails
  <2> QED
    BY <2>1, <2>2 DEF Reliable
<1>c. count' = count => (Reliable' => Reliable)
  BY DEF Reliable
<1>1. ASSUME NEW n \in Nodes, NEW m \in Nodes, DirectAnswered(n, m) PROVE Planned'
  BY <1>1, <1>c, <1>n DEF DirectAnswered, recovery
<1>2. ASSUME NEW n \in Nodes, NEW m \in Nodes, DirectTimeout(n, m) PROVE Planned'
  BY <1>2, <1>f, <1>n DEF DirectTimeout, recovery
<1>3. ASSUME NEW n \in Nodes, NEW m \in Nodes, NEW h \in Nodes, IndirectAlive(n, m, h) PROVE Planned'
  BY <1>3, <1>c, <1>n DEF IndirectAlive, recovery
<1>4. ASSUME NEW n \in Nodes, NEW m \in Nodes, NEW h \in Nodes, IndirectFailed(n, m, h) PROVE Planned'
  BY <1>4, <1>c, <1>n DEF IndirectFailed, recovery
<1>5. ASSUME NEW n \in Nodes, NEW m \in Nodes, NEW h \in Nodes, IndirectTimeout(n, m, h) PROVE Planned'
  BY <1>5, <1>f, <1>n DEF IndirectTimeout, recovery
<1>6. ASSUME NEW n \in Nodes, EndProbes(n) \/ Resume(n) PROVE Planned'
  BY <1>6, <1>c, <1>n DEF EndProbes, Resume, recovery
<1>7. ASSUME NEW n \in Nodes, NEW m \in Nodes, ConfirmDead(n, m) PROVE Planned'
  <2>1. n \in up /\ (Reliable => m \notin up)
    BY <1>7 DEF ConfirmDead, Running, Truth, Reliable
  <2> QED
    BY <1>7, <2>1, MarkedPlanned DEF ConfirmDead
<1>8. ASSUME NEW p \in plans, RecoverContainers(p) PROVE Planned'
  BY <1>8, RecoverPlanned
<1>9. ASSUME NEW n \in Nodes, NEW m \in Nodes, AnnounceShutdown(n, m) PROVE Planned'
  <2>1. n \in up /\ m \notin up
    BY <1>9 DEF AnnounceShutdown, Judged
  <2> QED
    BY <1>9, <2>1, MarkedPlanned DEF AnnounceShutdown
<1>10. ASSUME NEW n \in Nodes, NEW m \in Nodes, Probe(n, m) PROVE Planned'
  BY <1>10, <1>c, <1>n DEF Probe, recovery
<1>11. ASSUME NEW n \in Nodes, NEW m \in Nodes, Answer(n, m) PROVE Planned'
  BY <1>11, <1>c, <1>n DEF Answer, recovery
<1>12. ASSUME NEW n \in Nodes, NEW m \in Nodes, NEW h \in Nodes, ProbeRequest(n, m, h) PROVE Planned'
  BY <1>12, <1>c, <1>f, <1>n DEF ProbeRequest, recovery
<1>13. ASSUME NEW n \in Nodes, NEW m \in Nodes, RecvIn(n, m) PROVE Planned'
  BY <1>13, <1>c, <1>n DEF RecvIn, recovery
<1>14. ASSUME NEW n \in Nodes, NEW m \in Nodes, SendFails(n, m) PROVE Planned'
  <2>1. count'.refused # 0
    BY <1>14, <1>k, FaultCounted DEF SendFails
  <2> QED
    BY <2>1 DEF Planned
<1>15. ASSUME NEW m \in Nodes, Crash(m) \/ Leave(m) PROVE Planned'
  <2>1. /\ up' = up \ {m} /\ plans' \subseteq plans /\ UNCHANGED <<initiated, addr>> /\ (Reliable' => Reliable)
        /\ \A k \in Nodes : k # m => hosted'[k] = hosted[k]
    BY <1>15, StopDoes DEF Reliable
  <2>2. \A k \in up' : hosted'[k] = hosted[k]
    BY <1>k, <2>1
  <2> QED
    BY <2>1, <2>2, NoPlanPlanned
<1>16. CASE UNCHANGED vars
  BY <1>16, <1>c, <1>n DEF vars
<1> QED
  BY <1>1, <1>2, <1>3, <1>4, <1>5, <1>6, <1>7, <1>8, <1>9, <1>10, <1>11, <1>12, <1>13, <1>14, <1>15,
     <1>16 DEF Next

\* Truth and Planned hold at first: each container is where all nodes say.
LEMMA InitRecovery ==
    ASSUME Init
    PROVE  Truth /\ Planned
<1>1. Truth
  BY DEF Init, Truth
<1>2. \A c \in Containers : Claims(c) \subseteq {Home[c]}
  BY DEF Init, Claims
<1>3. \A n \in up, c \in Containers : addr[n][c] = Home[c] /\ plans = {}
  BY DEF Init
<1>4. \A c \in Containers, n \in up : Settled(n, c)
  BY <1>2, <1>3 DEF Settled
<1>5. Planned
  BY <1>2, <1>4 DEF Planned
<1> QED
  BY <1>1, <1>5

\* The inductive invariant.
LEMMA InvHolds == Spec => []Inv
<1>1. Init => Inv
  BY InitStatic, InitDetection, InitRecovery DEF Inv
<1>2. Inv /\ [Next]_vars => Inv'
  <2> SUFFICES ASSUME Inv, [Next]_vars PROVE Inv'
    OBVIOUS
  <2>1. Static' /\ Quiet' /\ Judged'
    BY NextStatic, NextQuiet, NextJudged DEF Inv
  <2>2. Truth'
    BY <2>1, NextTruth DEF Inv
  <2>3. Planned'
    BY <2>2, NextPlanned DEF Inv
  <2> QED
    BY <2>1, <2>2, <2>3 DEF Inv
<1> QED
  BY <1>1, <1>2, PTL DEF Spec

\* For any number of nodes and containers, and any number of crashes and
\* announced shutdowns: no container is created on two nodes, as long as no node
\* that is up was misjudged and no node is gone that had started a recovery.
THEOREM RecoveredOnce == Spec => []SingleHost
<1>1. Inv => SingleHost
  <2> SUFFICES ASSUME Inv, count.lost = 0, count.refused = 0, LeadersStay,
                      NEW n \in up, NEW k \in up, n # k, NEW c \in hosted[n] \cap hosted[k]
               PROVE  FALSE
    BY DEF SingleHost
  <2>1. c \in Containers /\ Steady /\ Planned
    BY DEF Inv, Static, TypeOK, Steady, Reliable
  <2>2. n \in Claims(c) /\ k \in Claims(c)
    BY DEF Claims
  <2> QED
    BY <2>1, <2>2, PlannedOne
<1> QED
  BY <1>1, InvHolds, PTL
=============================================================================
