--------------------------- MODULE AdminNetProofs ---------------------------
(***************************************************************************)
(* Proofs about AdminNet.  A replica of a task is in one place at a time:  *)
(* on its way, in a retry queue, running, or with its outputs queued.      *)
(* Every action moves it, drops it, or (SendIn) puts it there.             *)
(***************************************************************************)
EXTENDS AdminNet, FiniteSetTheorems, TLAPS

Copies == [task : Tasks, rep : Nat, key : Addresses, from : Nodes]

\* Where a copy is: the kind of place, the node, and the node it is meant for.
Token(at, n, m, c) == [at |-> at, node |-> n, to |-> m, copy |-> c]
Sent(S) == {Token(msg.kind, msg.to, msg.to, msg.copy) : msg \in S}
Held(f) == UNION {{Token("held", n, e.to, e.copy) : e \in f[n]} : n \in Nodes}
Kept(at, f) == UNION {{Token(at, n, n, c) : c \in f[n]} : n \in Nodes}
TokensOf(ne, ri, ru, ou, ro) ==
    Sent(ne) \cup Held(ri) \cup Kept("running", ru) \cup Kept("outputs", ou)
             \cup Kept("back", ro)
Tokens == TokensOf(net, retry_in, running, outputs, retry_out)

SameCopy(c, d) == c.task = d.task /\ c.rep = d.rep

\* The variables have their types, and every copy names a replica and its node.
Types ==
    /\ up \subseteq Nodes
    /\ view \in [Nodes -> [Nodes -> {"alive", "unsure", "dead"}]]
    /\ addr \in [Nodes -> [Containers -> Nodes]]
    /\ status \in [Tasks -> {"idle", "queued", "waiting", "ok", "timeout", "lost", "gone"}]
    /\ key \in [Tasks -> Addresses]
    /\ completed \in [Tasks -> Nat]
    /\ send_map \in [Nodes -> [Addresses -> Tasks \cup {None}]]
    /\ retry_in \in [Nodes -> SUBSET [copy : Copies, to : Nodes]]
    /\ recv_map \in [Nodes -> SUBSET Copies]
    /\ running \in [Nodes -> SUBSET Copies]
    /\ outputs \in [Nodes -> SUBSET Copies]
    /\ retry_out \in [Nodes -> SUBSET Copies]
    /\ net \subseteq [kind : {"in", "out"}, copy : Copies, to : Nodes]
    /\ got \in [Tasks -> SUBSET Copies]
    /\ DOMAIN runs = Tasks /\ \A t \in Tasks : runs[t] \in [Reps(t) -> Nat]
    /\ count \in [suspicions : Nat, crashes : Nat, restarts : Nat, moves : Nat, returns : Nat]
    /\ \A n \in Nodes : IsFiniteSet(retry_in[n])

Once == \A x, y \in Tokens : SameCopy(x.copy, y.copy) => x = y

\* A copy names a replica of a task that was sent, and the task's address.
Honest ==
    \A x \in Tokens :
        /\ CopyOK(x.copy) /\ x.copy.key = key[x.copy.task]
        /\ status[x.copy.task] \notin {"idle", "queued"}
        /\ x.at \in {"in", "held", "running"} => runs[x.copy.task][x.copy.rep] = 0
        /\ x.at = "out" => x.to = x.copy.from

\* A task that was not sent yet has no answers.
Fresh ==
    \A t \in Tasks : status[t] \in {"idle", "queued"} =>
        /\ completed[t] = 0 /\ got[t] = {}
        /\ \A i \in Reps(t) : runs[t][i] = 0

\* send_map_ holds waiting tasks, each under its address.
Filed ==
    \A n \in Nodes, a \in Addresses : send_map[n][a] # None =>
        LET t == send_map[n][a]
        IN  Origin[t] = n /\ key[t] = a /\ status[t] = "waiting"

\* Live tasks of a node have different addresses.
Apart ==
    \A t, u \in Tasks : Live(t) /\ Live(u) /\ Origin[t] = Origin[u] /\ key[t] = key[u] => t = u

Calm == NoTimeout /\ NoReturn
Open(t) == {i \in Reps(t) : \E x \in Tokens : x.copy.task = t /\ x.copy.rep = i}
Done(t) == {i \in Reps(t) : \E c \in got[t] : c.task = t /\ c.rep = i}

\* Without late answers and returning nodes a replica that is counted is not on
\* its way any more.
Tally ==
    Calm => \A t \in Tasks :
        /\ status[t] = "gone" => Origin[t] \notin up
        /\ \A c \in got[t] : c.task = t
        /\ Done(t) \cap Open(t) = {}
        /\ completed[t] + Cardinality(Open(t)) <= Len(Queries[t])
        /\ NetTimeout[t] = "default" => completed[t] <= Cardinality(Done(t))
        /\ status[t] = "ok" => completed[t] = Len(Queries[t])

NetInvariant ==
    Types /\ Once /\ Honest /\ Fresh /\ AtMostOnce /\ Filed /\ Apart /\ NotStranded /\ Tally
-----------------------------------------------------------------------------
(* Where copies are.                                                       *)

\* The copies on their way, case by case: in a message, in a retry queue, or
\* with a worker.
LEMMA TokenCases ==
  ASSUME NEW ne, NEW ri, NEW ru, NEW ou, NEW ro, NEW x
  PROVE  x \in TokensOf(ne, ri, ru, ou, ro) <=>
           \/ \E msg \in ne : x = Token(msg.kind, msg.to, msg.to, msg.copy)
           \/ \E n \in Nodes : \E e \in ri[n] : x = Token("held", n, e.to, e.copy)
           \/ \E n \in Nodes : \E c \in ru[n] : x = Token("running", n, n, c)
           \/ \E n \in Nodes : \E c \in ou[n] : x = Token("outputs", n, n, c)
           \/ \E n \in Nodes : \E c \in ro[n] : x = Token("back", n, n, c)
  <1>1. x \in Sent(ne) <=> \E msg \in ne : x = Token(msg.kind, msg.to, msg.to, msg.copy)
    BY Zenon DEF Sent
  <1>2. x \in Held(ri) <=> \E n \in Nodes : \E e \in ri[n] : x = Token("held", n, e.to, e.copy)
    BY DEF Held
  <1>3. \A at, f : x \in Kept(at, f) <=> \E n \in Nodes : \E c \in f[n] : x = Token(at, n, n, c)
    BY DEF Kept
  <1> QED
    BY <1>1, <1>2, <1>3, Zenon DEF TokensOf

\* Tokens are equal only if they agree on everything.
LEMMA TokenParts ==
  ASSUME NEW a, NEW n, NEW m, NEW c
  PROVE  /\ Token(a, n, m, c).at = a /\ Token(a, n, m, c).node = n
         /\ Token(a, n, m, c).to = m /\ Token(a, n, m, c).copy = c
  BY DEF Token

Shrinks == Tokens' \subseteq Tokens
Moves(x, y) == /\ x \in Tokens /\ y.copy = x.copy
               /\ Tokens' \subseteq (Tokens \ {x}) \cup {y}

\* What a step does to the messages, to a retry queue for copies, and to the
\* other places: nothing is left at x and at most y is added.
NetStep(x, y) ==
    \A o \in net' : LET z == Token(o.kind, o.to, o.to, o.copy)
                    IN  (o \in net /\ z # x) \/ z = y
HeldStep(x, y) ==
    \A n \in Nodes : \A e \in retry_in'[n] :
        LET z == Token("held", n, e.to, e.copy)
        IN  (e \in retry_in[n] /\ z # x) \/ z = y
KeptStep(at, f, g, x, y) ==
    \A n \in Nodes : \A c \in g[n] :
        LET z == Token(at, n, n, c) IN (c \in f[n] /\ z # x) \/ z = y

\* A step that leaves nothing at x and adds at most y anywhere.
LEMMA Carried ==
  ASSUME NEW x, NEW y, NetStep(x, y), HeldStep(x, y),
         KeptStep("running", running, running', x, y),
         KeptStep("outputs", outputs, outputs', x, y),
         KeptStep("back", retry_out, retry_out', x, y)
  PROVE  Tokens' \subseteq (Tokens \ {x}) \cup {y}
  <1> SUFFICES ASSUME NEW z \in Tokens' PROVE z \in (Tokens \ {x}) \cup {y}
    OBVIOUS
  <1>1. CASE \E o \in net' : z = Token(o.kind, o.to, o.to, o.copy)
    BY <1>1, TokenCases DEF Tokens, NetStep
  <1>2. CASE \E n \in Nodes : \E e \in retry_in'[n] : z = Token("held", n, e.to, e.copy)
    BY <1>2, TokenCases DEF Tokens, HeldStep
  <1>3. CASE \E n \in Nodes : \E c \in running'[n] : z = Token("running", n, n, c)
    BY <1>3, TokenCases DEF Tokens, KeptStep
  <1>4. CASE \E n \in Nodes : \E c \in outputs'[n] : z = Token("outputs", n, n, c)
    BY <1>4, TokenCases DEF Tokens, KeptStep
  <1>5. CASE \E n \in Nodes : \E c \in retry_out'[n] : z = Token("back", n, n, c)
    BY <1>5, TokenCases DEF Tokens, KeptStep
  <1> QED
    BY <1>1, <1>2, <1>3, <1>4, <1>5, TokenCases DEF Tokens

\* Places that only lose copies take part in no move from another place.
LEMMA Bystanders ==
  ASSUME Types, NEW x, NEW y
  PROVE  /\ net' \subseteq net /\ x.at \notin {"in", "out"} => NetStep(x, y)
         /\ (\A n \in Nodes : retry_in'[n] \subseteq retry_in[n]) /\ x.at # "held" => HeldStep(x, y)
         /\ \A at, f, g : (\A n \in Nodes : g[n] \subseteq f[n]) /\ x.at # at =>
                KeptStep(at, f, g, x, y)
  <1>1. net' \subseteq net /\ x.at \notin {"in", "out"} => NetStep(x, y)
    <2>1. \A o \in net : Token(o.kind, o.to, o.to, o.copy).at \in {"in", "out"}
      BY TokenParts DEF Types
    <2> QED
      BY <2>1 DEF NetStep
  <1>2. (\A n \in Nodes : retry_in'[n] \subseteq retry_in[n]) /\ x.at # "held" => HeldStep(x, y)
    BY TokenParts DEF HeldStep
  <1>3. \A at, f, g : (\A n \in Nodes : g[n] \subseteq f[n]) /\ x.at # at => KeptStep(at, f, g, x, y)
    BY TokenParts DEF KeptStep
  <1> QED
    BY <1>1, <1>2, <1>3, Zenon

\* A message that is taken from the network is not there any more.
LEMMA Taken ==
  ASSUME net \subseteq [kind : {"in", "out"}, copy : Copies, to : Nodes],
         NEW msg \in net, NEW o \in net \ {msg}
  PROVE  Token(o.kind, o.to, o.to, o.copy) # Token(msg.kind, msg.to, msg.to, msg.copy)
  <1> SUFFICES ASSUME o.kind = msg.kind, o.to = msg.to, o.copy = msg.copy PROVE FALSE
    BY TokenParts
  <1> QED
    OBVIOUS

\* Welcome: the flush for a node that is heard again only drops entries.
LEMMA WelcomeDrops ==
  ASSUME Types, NEW n \in Nodes, NEW m, Welcome(n, m)
  PROVE  \A k \in Nodes : retry_in'[k] \subseteq retry_in[k] /\ retry_out'[k] \subseteq retry_out[k]
  <1>1. CASE view[n][m] = "dead" /\ m # n
    <2>1. FlushStaleStateForNode(n, m)
      BY <1>1 DEF Welcome
    <2> QED
      BY <2>1 DEF Types, FlushStaleStateForNode
  <1>2. CASE ~(view[n][m] = "dead" /\ m # n)
    BY <1>2 DEF Welcome
  <1> QED
    BY <1>1, <1>2

\* RecvIn: a copy that is received runs.
LEMMA RecvInMoves ==
  ASSUME Types, NEW msg \in net, RecvIn(msg)
  PROVE  Moves(Token("in", msg.to, msg.to, msg.copy), Token("running", msg.to, msg.to, msg.copy))
  <1> DEFINE x == Token("in", msg.to, msg.to, msg.copy)
             y == Token("running", msg.to, msg.to, msg.copy)
  <1>1. /\ msg.kind = "in" /\ msg.to \in Nodes
        /\ net' = net \ {msg} /\ outputs' = outputs
        /\ running' = [running EXCEPT ![msg.to] = @ \cup {msg.copy}]
        /\ running \in [Nodes -> SUBSET Copies]
        /\ net \subseteq [kind : {"in", "out"}, copy : Copies, to : Nodes]
        /\ Welcome(msg.to, msg.copy.from)
    BY DEF Types, RecvIn
  <1>2. \A m \in Nodes : retry_in'[m] \subseteq retry_in[m] /\ retry_out'[m] \subseteq retry_out[m]
    BY <1>1, WelcomeDrops
  <1>3. x \in Tokens /\ x.at = "in" /\ y.copy = x.copy
    BY <1>1, TokenCases, TokenParts DEF Tokens
  <1>4. NetStep(x, y)
    BY <1>1, Taken DEF NetStep
  <1>5. KeptStep("running", running, running', x, y)
    BY <1>1, TokenParts DEF KeptStep
  <1> HIDE DEF x, y
  <1>6. /\ HeldStep(x, y) /\ KeptStep("outputs", outputs, outputs', x, y)
        /\ KeptStep("back", retry_out, retry_out', x, y)
    BY <1>1, <1>2, <1>3, Bystanders
  <1> QED
    BY <1>3, <1>4, <1>5, <1>6, Carried DEF Moves, x, y

\* Execute: a copy that ran has outputs.
LEMMA ExecuteMoves ==
  ASSUME Types, NEW n \in Nodes, NEW c \in running[n], Execute(n, c)
  PROVE  Moves(Token("running", n, n, c), Token("outputs", n, n, c))
  <1> DEFINE x == Token("running", n, n, c)
             y == Token("outputs", n, n, c)
  <1>1. /\ net' = net /\ retry_in' = retry_in /\ retry_out' = retry_out
        /\ running' = [running EXCEPT ![n] = @ \ {c}]
        /\ outputs' = [outputs EXCEPT ![n] = @ \cup {c}]
        /\ running \in [Nodes -> SUBSET Copies] /\ outputs \in [Nodes -> SUBSET Copies]
    BY DEF Types, Execute
  <1>2. x \in Tokens /\ x.at = "running" /\ y.copy = x.copy
    BY TokenCases, TokenParts DEF Tokens
  <1>3. KeptStep("running", running, running', x, y)
    BY <1>1, TokenParts DEF KeptStep
  <1>4. KeptStep("outputs", outputs, outputs', x, y)
    BY <1>1, TokenParts DEF KeptStep
  <1> HIDE DEF x, y
  <1>5. NetStep(x, y) /\ HeldStep(x, y) /\ KeptStep("back", retry_out, retry_out', x, y)
    BY <1>1, <1>2, Bystanders
  <1> QED
    BY <1>2, <1>3, <1>4, <1>5, Carried DEF Moves, x, y

\* A step after which every place has at most what it had.
LEMMA Fewer ==
  ASSUME net' \subseteq net,
         \A n \in Nodes : /\ retry_in'[n] \subseteq retry_in[n]
                          /\ running'[n] \subseteq running[n]
                          /\ outputs'[n] \subseteq outputs[n]
                          /\ retry_out'[n] \subseteq retry_out[n]
  PROVE  Shrinks
  <1> SUFFICES ASSUME NEW z \in Tokens' PROVE z \in Tokens
    BY DEF Shrinks
  <1>1. CASE \E o \in net' : z = Token(o.kind, o.to, o.to, o.copy)
    BY <1>1, TokenCases DEF Tokens
  <1>2. CASE \E n \in Nodes : \E e \in retry_in'[n] : z = Token("held", n, e.to, e.copy)
    BY <1>2, TokenCases DEF Tokens
  <1>3. CASE \E n \in Nodes : \E c \in running'[n] : z = Token("running", n, n, c)
    BY <1>3, TokenCases DEF Tokens
  <1>4. CASE \E n \in Nodes : \E c \in outputs'[n] : z = Token("outputs", n, n, c)
    BY <1>4, TokenCases DEF Tokens
  <1>5. CASE \E n \in Nodes : \E c \in retry_out'[n] : z = Token("back", n, n, c)
    BY <1>5, TokenCases DEF Tokens
  <1> QED
    BY <1>1, <1>2, <1>3, <1>4, <1>5, TokenCases DEF Tokens

\* SendOut: outputs are sent, queued or dropped.
LEMMA SendOutMoves ==
  ASSUME Types, NEW n \in Nodes, NEW c \in outputs[n], SendOut(n, c)
  PROVE  \/ Shrinks
         \/ Moves(Token("outputs", n, n, c), Token("out", c.from, c.from, c))
         \/ Moves(Token("outputs", n, n, c), Token("back", n, n, c))
  <1> DEFINE x == Token("outputs", n, n, c)
  <1>1. /\ retry_in' = retry_in /\ running' = running
        /\ outputs' = [outputs EXCEPT ![n] = @ \ {c}]
        /\ outputs \in [Nodes -> SUBSET Copies] /\ retry_out \in [Nodes -> SUBSET Copies]
    BY DEF Types, SendOut
  <1>2. x \in Tokens /\ x.at = "outputs" /\ x.copy = c
    BY TokenCases, TokenParts DEF Tokens
  <1>3. CASE net' = net /\ retry_out' = retry_out
    BY <1>1, <1>3, Fewer
  <1>4. \A y : KeptStep("outputs", outputs, outputs', x, y)
    BY <1>1, TokenParts DEF KeptStep
  <1>5. CASE net' = net \cup {Out(c)} /\ retry_out' = retry_out
    <2> DEFINE y == Token("out", c.from, c.from, c)
    <2>1. NetStep(x, y)
      <3>1. \A o \in net' : o \in net \/ Token(o.kind, o.to, o.to, o.copy) = y
        BY <1>5 DEF Out
      <3>2. \A o \in net : Token(o.kind, o.to, o.to, o.copy).at \in {"in", "out"}
        BY TokenParts DEF Types
      <3> QED
        BY <1>2, <3>1, <3>2 DEF NetStep
    <2>2. y.copy = x.copy
      BY TokenParts
    <2> HIDE DEF x, y
    <2>3. /\ HeldStep(x, y) /\ KeptStep("running", running, running', x, y)
          /\ KeptStep("back", retry_out, retry_out', x, y)
      BY <1>1, <1>2, <1>5, Bystanders
    <2>4. Moves(x, y)
      BY <1>2, <1>4, <2>1, <2>2, <2>3, Carried DEF Moves
    <2> QED
      BY <2>4 DEF x, y
  <1>6. CASE net' = net /\ retry_out' = [retry_out EXCEPT ![n] = @ \cup {c}]
    <2> DEFINE y == Token("back", n, n, c)
    <2>1. KeptStep("back", retry_out, retry_out', x, y)
      BY <1>1, <1>6, TokenParts DEF KeptStep
    <2>2. y.copy = x.copy
      BY TokenParts
    <2> HIDE DEF x, y
    <2>3. NetStep(x, y) /\ HeldStep(x, y) /\ KeptStep("running", running, running', x, y)
      BY <1>1, <1>2, <1>6, Bystanders
    <2>4. Moves(x, y)
      BY <1>2, <1>4, <2>1, <2>2, <2>3, Carried DEF Moves
    <2> QED
      BY <2>4 DEF x, y
  <1> QED
    BY <1>3, <1>5, <1>6 DEF SendOut, SendBack

\* The fields of a query that SendIn and RerouteRetryEntry read.
LEMMA QueryParts ==
  ASSUME NEW t \in Tasks, NEW i \in Reps(t)
  PROVE  LET q == Queries[t][i]
         IN  \/ q.mode = "physical" /\ q.node \in Nodes
             \/ q.mode = "direct" /\ q.con \in Containers
  <1>1. Queries[t][i] \in PoolQueries
    BY NetAssumption DEF Reps
  <1>2. CASE \E n \in Nodes : Queries[t][i] = Physical(n)
    BY <1>2 DEF Physical
  <1>3. CASE \E c \in Containers : Queries[t][i] = Direct(c)
    BY <1>3 DEF Direct
  <1> QED
    BY <1>1, <1>2, <1>3 DEF PoolQueries

\* RetryIn: a copy is sent, given up, or queued for another node.
LEMMA RetryInMoves ==
  ASSUME Types, Honest, NEW n \in Nodes, NEW e \in retry_in[n], RetryIn(n, e)
  PROVE  \/ Shrinks
         \/ \E m \in Nodes : \/ Moves(Token("held", n, e.to, e.copy), Token("in", m, m, e.copy))
                             \/ Moves(Token("held", n, e.to, e.copy), Token("held", n, m, e.copy))
  <1> DEFINE x == Token("held", n, e.to, e.copy)
  <1>1. /\ running' = running /\ outputs' = outputs /\ retry_out' = retry_out
        /\ retry_in \in [Nodes -> SUBSET [copy : Copies, to : Nodes]]
        /\ e \in [copy : Copies, to : Nodes]
    BY DEF Types, RetryIn
  <1>2. x \in Tokens /\ x.at = "held" /\ x.copy = e.copy
    BY TokenCases, TokenParts DEF Tokens
  <1>3. \A d \in retry_in[n] \ {e} : Token("held", n, d.to, d.copy) # x
    <2> SUFFICES ASSUME NEW d \in retry_in[n] \ {e}, d.to = e.to, d.copy = e.copy PROVE FALSE
      BY TokenParts
    <2> QED
      BY <1>1
  <1>4. CASE net' = net /\ retry_in' = [retry_in EXCEPT ![n] = @ \ {e}]
    BY <1>1, <1>4, Fewer
  <1>5. \A y : /\ KeptStep("running", running, running', x, y)
              /\ KeptStep("outputs", outputs, outputs', x, y)
              /\ KeptStep("back", retry_out, retry_out', x, y)
    <2> HIDE DEF x
    <2> QED
      BY <1>1, <1>2, Bystanders
  <1>6. ASSUME NEW m \in Nodes, net' = net \cup {In(e.copy, m)}, retry_in' = [retry_in EXCEPT ![n] = @ \ {e}]
        PROVE  Moves(x, Token("in", m, m, e.copy))
    <2> DEFINE y == Token("in", m, m, e.copy)
    <2>1. NetStep(x, y)
      <3>1. \A o \in net' : o \in net \/ Token(o.kind, o.to, o.to, o.copy) = y
        BY <1>6 DEF In
      <3>2. \A o \in net : Token(o.kind, o.to, o.to, o.copy).at \in {"in", "out"}
        BY TokenParts DEF Types
      <3> QED
        BY <1>2, <3>1, <3>2 DEF NetStep
    <2>2. HeldStep(x, y)
      BY <1>1, <1>3, <1>6, TokenParts DEF HeldStep
    <2>3. y.copy = x.copy
      BY TokenParts
    <2> HIDE DEF x, y
    <2> QED
      BY <1>2, <1>5, <2>1, <2>2, <2>3, Carried DEF Moves, y
  <1>7. ASSUME NEW m \in Nodes, net' = net,
               retry_in' = [retry_in EXCEPT ![n] = (@ \ {e}) \cup {[e EXCEPT !.to = m]}]
        PROVE  Moves(x, Token("held", n, m, e.copy))
    <2> DEFINE y == Token("held", n, m, e.copy)
    <2>1. [e EXCEPT !.to = m].to = m /\ [e EXCEPT !.to = m].copy = e.copy
      BY <1>1
    <2>2. HeldStep(x, y)
      BY <1>1, <1>3, <1>7, <2>1, TokenParts DEF HeldStep
    <2>3. y.copy = x.copy
      BY TokenParts
    <2> HIDE DEF x, y
    <2>4. NetStep(x, y)
      BY <1>2, <1>7, Bystanders
    <2> QED
      BY <1>2, <1>5, <2>2, <2>3, <2>4, Carried DEF Moves, y
  <1>8. ASSUME NEW m \in RerouteRetryEntry(n, e) \cup {e.to} PROVE m \in Nodes
    <2>1. CASE m = e.to
      BY <1>1, <2>1
    <2>2. CASE m \in RerouteRetryEntry(n, e)
      <3>1. e.copy.task \in Tasks /\ e.copy.rep \in Reps(e.copy.task)
        BY <1>2 DEF Honest, CopyOK
      <3>2. addr \in [Nodes -> [Containers -> Nodes]]
        BY DEF Types
      <3> QED
        BY <2>2, <3>1, <3>2, QueryParts DEF RerouteRetryEntry
    <2> QED
      BY <2>1, <2>2
  <1> QED
    BY <1>4, <1>6, <1>7, <1>8 DEF RetryIn

\* RetryOut: outputs are sent or dropped.
LEMMA RetryOutMoves ==
  ASSUME Types, NEW n \in Nodes, NEW c \in retry_out[n], RetryOut(n, c)
  PROVE  Shrinks \/ Moves(Token("back", n, n, c), Token("out", c.from, c.from, c))
  <1> DEFINE x == Token("back", n, n, c)
             y == Token("out", c.from, c.from, c)
  <1>1. /\ retry_in' = retry_in /\ running' = running /\ outputs' = outputs
        /\ retry_out' = [retry_out EXCEPT ![n] = @ \ {c}]
        /\ retry_out \in [Nodes -> SUBSET Copies]
    BY DEF Types, RetryOut
  <1>2. x \in Tokens /\ x.at = "back" /\ y.copy = x.copy
    BY TokenCases, TokenParts DEF Tokens
  <1>3. CASE net' = net
    BY <1>1, <1>3, Fewer
  <1>4. CASE net' = net \cup {Out(c)}
    <2>1. NetStep(x, y)
      <3>1. \A o \in net' : o \in net \/ Token(o.kind, o.to, o.to, o.copy) = y
        BY <1>4 DEF Out
      <3>2. \A o \in net : Token(o.kind, o.to, o.to, o.copy).at \in {"in", "out"}
        BY TokenParts DEF Types
      <3> QED
        BY <1>2, <3>1, <3>2 DEF NetStep
    <2>2. KeptStep("back", retry_out, retry_out', x, y)
      BY <1>1, TokenParts DEF KeptStep
    <2> HIDE DEF x, y
    <2>3. /\ HeldStep(x, y) /\ KeptStep("running", running, running', x, y)
          /\ KeptStep("outputs", outputs, outputs', x, y)
      BY <1>1, <1>2, Bystanders
    <2>4. Moves(x, y)
      BY <1>2, <2>1, <2>2, <2>3, Carried DEF Moves
    <2> QED
      BY <2>4 DEF x, y
  <1> QED
    BY <1>3, <1>4 DEF RetryOut

\* RecvOut: the message of an answer is used up.
LEMMA RecvOutDrops ==
  ASSUME Types, NEW msg \in net, RecvOut(msg)
  PROVE  /\ Token("out", msg.to, msg.to, msg.copy) \in Tokens
         /\ Tokens' \subseteq Tokens \ {Token("out", msg.to, msg.to, msg.copy)}
  <1> DEFINE x == Token("out", msg.to, msg.to, msg.copy)
  <1>1. /\ msg.kind = "out" /\ net' = net \ {msg} /\ retry_in' = retry_in
        /\ running' = running /\ outputs' = outputs /\ retry_out' = retry_out
        /\ net \subseteq [kind : {"in", "out"}, copy : Copies, to : Nodes]
    BY DEF Types, RecvOut
  <1>2. x \in Tokens /\ x.at = "out"
    BY <1>1, TokenCases, TokenParts DEF Tokens
  <1>3. Tokens' \subseteq Tokens
    BY <1>1, Fewer DEF Shrinks
  <1>4. ASSUME x \in Tokens' PROVE FALSE
    <2>1. PICK o \in net' : x = Token(o.kind, o.to, o.to, o.copy)
      <3> HIDE DEF x
      <3> QED
        BY <1>2, <1>4, TokenCases, TokenParts DEF Tokens
    <2> QED
      BY <1>1, <2>1, Taken
  <1> QED
    BY <1>2, <1>3, <1>4

\* The node a replica is sent to.
LEMMA TargetType ==
  ASSUME Types, NEW n \in Nodes, NEW t \in Tasks, NEW i \in Reps(t)
  PROVE  Target(n, Queries[t][i]) \in Nodes
  BY QueryParts DEF Target, Types

\* SendIn: the replicas that are not skipped each have one copy on its way.
Skips(t, skip) ==
    /\ completed' = [completed EXCEPT ![t] = @ + Cardinality(skip)]
    /\ NetTimeout[t] = "default" => skip = {}
    /\ \A z \in Tokens' \ Tokens :
          z.at \in {"in", "held"} /\ \E i \in Reps(t) \ skip : z.copy = Copy(t, i, key[t])
    /\ \A z, w \in Tokens' \ Tokens : z.copy.rep = w.copy.rep => z = w
LEMMA SendInSpawns ==
  ASSUME Types, NEW t \in Tasks, SendIn(t)
  PROVE  \E skip \in SUBSET Reps(t) : Skips(t, skip)
  <1> DEFINE n == Origin[t]
             to(i) == Target(n, Queries[t][i])
             copy(i) == Copy(t, i, key[t])
  <1>1. PICK R \in SUBSET {i \in Reps(t) : MayRefuse(n, to(i))} :
           LET dead(i) == \/ ~Alive(n, to(i))
                          \/ \E j \in R : j < i /\ to(j) = to(i)
               sent  == {i \in Reps(t) \ R : ~dead(i)}
               skip  == {i \in Reps(t) : dead(i) /\ NetTimeout[t] = "zero"}
               later == Reps(t) \ (sent \cup skip)
           IN  /\ net' = net \cup {In(copy(i), to(i)) : i \in sent}
               /\ completed' = [completed EXCEPT ![t] = @ + Cardinality(skip)]
               /\ retry_in' = [retry_in EXCEPT ![n] =
                                 @ \cup {[copy |-> copy(i), to |-> to(i)] : i \in later}]
    BY DEF SendIn
  <1> DEFINE dead(i) == \/ ~Alive(n, to(i))
                        \/ \E j \in R : j < i /\ to(j) = to(i)
             sent  == {i \in Reps(t) \ R : ~dead(i)}
             skip  == {i \in Reps(t) : dead(i) /\ NetTimeout[t] = "zero"}
             later == Reps(t) \ (sent \cup skip)
  <1>2. /\ n \in Nodes
        /\ running' = running /\ outputs' = outputs /\ retry_out' = retry_out
        /\ retry_in \in [Nodes -> SUBSET [copy : Copies, to : Nodes]]
    BY NetAssumption DEF SendIn, Types
  <1>3. /\ net' = net \cup {In(copy(i), to(i)) : i \in sent}
        /\ completed' = [completed EXCEPT ![t] = @ + Cardinality(skip)]
        /\ retry_in' = [retry_in EXCEPT ![n] =
                          @ \cup {[copy |-> copy(i), to |-> to(i)] : i \in later}]
    BY <1>1
  <1>4. /\ sent \cap skip = {} /\ sent \cap later = {} /\ later \cap skip = {}
        /\ sent \subseteq Reps(t) /\ later \subseteq Reps(t) /\ skip \subseteq Reps(t)
    OBVIOUS
  <1>5. NetTimeout[t] = "default" => skip = {}
    OBVIOUS
  <1>6. \A i, j : copy(i).rep = i /\ (copy(i).rep = copy(j).rep => i = j)
    BY DEF Copy
  <1> HIDE DEF to, copy, sent, skip, later
  <1>7. ASSUME NEW z \in Tokens' \ Tokens
        PROVE  \/ \E i \in sent : z = Token("in", to(i), to(i), copy(i))
               \/ \E i \in later : z = Token("held", n, to(i), copy(i))
    <2>1. CASE \E o \in net' : z = Token(o.kind, o.to, o.to, o.copy)
      <3>1. PICK o \in net' : z = Token(o.kind, o.to, o.to, o.copy)
        BY <2>1
      <3>2. o \notin net
        BY <3>1, TokenCases DEF Tokens
      <3> QED
        BY <1>3, <3>1, <3>2 DEF In
    <2>2. CASE \E m \in Nodes : \E e \in retry_in'[m] : z = Token("held", m, e.to, e.copy)
      <3>1. PICK m \in Nodes : \E e \in retry_in'[m] : z = Token("held", m, e.to, e.copy)
        BY <2>2
      <3>2. PICK e \in retry_in'[m] : z = Token("held", m, e.to, e.copy)
        BY <3>1
      <3>3. e \notin retry_in[m]
        BY <3>2, TokenCases DEF Tokens
      <3>4. m = n /\ e \in {[copy |-> copy(i), to |-> to(i)] : i \in later}
        BY <1>2, <1>3, <3>2, <3>3
      <3> QED
        BY <3>2, <3>4
    <2>3. CASE \E m \in Nodes : \E c \in running'[m] : z = Token("running", m, m, c)
      BY <1>2, <2>3, TokenCases DEF Tokens
    <2>4. CASE \E m \in Nodes : \E c \in outputs'[m] : z = Token("outputs", m, m, c)
      BY <1>2, <2>4, TokenCases DEF Tokens
    <2>5. CASE \E m \in Nodes : \E c \in retry_out'[m] : z = Token("back", m, m, c)
      BY <1>2, <2>5, TokenCases DEF Tokens
    <2> QED
      BY <2>1, <2>2, <2>3, <2>4, <2>5, TokenCases DEF Tokens
  <1>8. \A z \in Tokens' \ Tokens :
           z.at \in {"in", "held"} /\ \E i \in Reps(t) \ skip : z.copy = copy(i)
    BY <1>4, <1>7, TokenParts
  <1>9. ASSUME NEW z \in Tokens' \ Tokens, NEW w \in Tokens' \ Tokens, z.copy.rep = w.copy.rep
        PROVE  z = w
    <2>1. PICK i : \/ i \in sent /\ z = Token("in", to(i), to(i), copy(i))
                   \/ i \in later /\ z = Token("held", n, to(i), copy(i))
      BY <1>7
    <2>2. PICK j : \/ j \in sent /\ w = Token("in", to(j), to(j), copy(j))
                   \/ j \in later /\ w = Token("held", n, to(j), copy(j))
      BY <1>7
    <2>3. z.copy = copy(i) /\ w.copy = copy(j)
      BY <2>1, <2>2, TokenParts
    <2>4. i = j
      BY <1>6, <1>9, <2>3
    <2> QED
      BY <1>4, <2>1, <2>2, <2>4
  <1> QED
    BY <1>3, <1>4, <1>5, <1>8, <1>9 DEF Skips, copy
-----------------------------------------------------------------------------
(* Types.                                                                  *)

\* The replicas of a task are numbered from 1.
LEMMA RepsFinite ==
  ASSUME NEW t \in Tasks
  PROVE  /\ Reps(t) = 1 .. Len(Queries[t]) /\ Len(Queries[t]) \in Nat /\ Len(Queries[t]) > 0
         /\ IsFiniteSet(Reps(t)) /\ Cardinality(Reps(t)) = Len(Queries[t])
  <1>1. Reps(t) = 1 .. Len(Queries[t]) /\ Len(Queries[t]) \in Nat /\ Len(Queries[t]) > 0
    BY NetAssumption DEF Reps
  <1>2. IsFiniteSet(1 .. Len(Queries[t])) /\ Cardinality(1 .. Len(Queries[t])) = Len(Queries[t])
    <2>1. PICK k \in Nat : k = Len(Queries[t]) /\ k > 0
      BY <1>1
    <2>2. 1 \in Int /\ k \in Int
      OBVIOUS
    <2>3. IsFiniteSet(1 .. k) /\ Cardinality(1 .. k) = IF 1 > k THEN 0 ELSE k - 1 + 1
      BY <2>2, FS_Interval, Zenon
    <2> QED
      BY <2>1, <2>3
  <1> QED
    BY <1>1, <1>2

\* Copies of a task are well formed.
LEMMA CopyType ==
  ASSUME NEW t \in Tasks, NEW i \in Reps(t), NEW a \in Addresses
  PROVE  Copy(t, i, a) \in Copies /\ CopyOK(Copy(t, i, a))
  <1>1. i \in Nat /\ Origin[t] \in Nodes
    BY RepsFinite, NetAssumption
  <1> QED
    BY <1>1 DEF Copy, Copies, CopyOK

\* Welcome changes the completed replicas of waiting tasks only, and leaves a
\* trace in the history when it changes any.
LEMMA WelcomeDoes ==
  ASSUME Types, NEW n \in Nodes, NEW m \in Nodes, Welcome(n, m)
  PROVE  /\ view' \in [Nodes -> [Nodes -> {"alive", "unsure", "dead"}]]
         /\ completed' \in [Tasks -> Nat]
         /\ retry_in' \in [Nodes -> SUBSET [copy : Copies, to : Nodes]]
         /\ retry_out' \in [Nodes -> SUBSET Copies]
         /\ count' \in [suspicions : Nat, crashes : Nat, restarts : Nat, moves : Nat, returns : Nat]
         /\ \A k \in Nodes : IsFiniteSet(retry_in'[k])
         /\ NoReturn' => NoReturn /\ completed' = completed
         /\ Filed => \A t \in Tasks : status[t] # "waiting" => completed'[t] = completed[t]
  <1>1. CASE view[n][m] = "dead" /\ m # n
    <2> DEFINE stale == {e \in retry_in[n] : e.to = m}
               hits(t) == {e \in stale : send_map[n][e.copy.key] = t}
    <2>1. /\ FlushStaleStateForNode(n, m) /\ view' = [view EXCEPT ![n][m] = "alive"]
          /\ count' = [count EXCEPT !.returns = 1]
      BY <1>1 DEF Welcome
    <2>2. /\ retry_in' = [retry_in EXCEPT ![n] = @ \ stale]
          /\ retry_out' = [retry_out EXCEPT ![n] = {c \in @ : c.from # m}]
          /\ completed' = [t \in Tasks |-> completed[t] + Cardinality(hits(t))]
      BY <2>1 DEF FlushStaleStateForNode
    <2>3. \A t \in Tasks : hits(t) \subseteq retry_in[n] /\ Cardinality(hits(t)) \in Nat
      <3> TAKE t \in Tasks
      <3>1. hits(t) \subseteq retry_in[n] /\ IsFiniteSet(retry_in[n])
        BY DEF Types
      <3> HIDE DEF hits
      <3> QED
        BY <3>1, FS_Subset, FS_CardinalityType
    <2>4. /\ view' \in [Nodes -> [Nodes -> {"alive", "unsure", "dead"}]]
          /\ count' \in [suspicions : Nat, crashes : Nat, restarts : Nat, moves : Nat, returns : Nat]
      BY <2>1 DEF Types
    <2>5. ~NoReturn'
      BY <2>1 DEF Types, NoReturn
    <2>6. Filed => \A t \in Tasks : status[t] # "waiting" => completed'[t] = completed[t]
      <3> SUFFICES ASSUME Filed, NEW t \in Tasks, status[t] # "waiting"
                   PROVE  completed'[t] = completed[t]
        OBVIOUS
      <3>1. \A e \in retry_in[n] : e.copy.key \in Addresses
        BY DEF Types, Copies
      <3>2. hits(t) = {}
        BY <3>1, NetAssumption DEF Filed
      <3>3. completed[t] \in Nat
        BY DEF Types
      <3> HIDE DEF hits
      <3> QED
        BY <2>2, <3>2, <3>3, FS_EmptySet
    <2>7. completed' \in [Tasks -> Nat]
      <3>1. completed \in [Tasks -> Nat]
        BY DEF Types
      <3> HIDE DEF hits
      <3> QED
        BY <2>2, <2>3, <3>1
    <2>8. \A k \in Nodes : IsFiniteSet(retry_in'[k])
      <3> HIDE DEF stale
      <3>1. \A k \in Nodes : retry_in'[k] \subseteq retry_in[k] /\ IsFiniteSet(retry_in[k])
        BY <2>2 DEF Types
      <3> QED
        BY <3>1, FS_Subset
    <2>9. /\ retry_in' \in [Nodes -> SUBSET [copy : Copies, to : Nodes]]
          /\ retry_out' \in [Nodes -> SUBSET Copies]
      BY <2>2 DEF Types
    <2> QED
      BY <2>4, <2>5, <2>6, <2>7, <2>8, <2>9
  <1>2. CASE ~(view[n][m] = "dead" /\ m # n)
    <2>1. UNCHANGED <<view, completed, retry_in, retry_out, count>>
      BY <1>2 DEF Welcome
    <2> QED
      BY <2>1 DEF Types, NoReturn
  <1> QED
    BY <1>1, <1>2

CountType == [suspicions : Nat, crashes : Nat, restarts : Nat, moves : Nat, returns : Nat]

\* Fault counts one more fault.
LEMMA FaultCounts ==
  ASSUME Types, NEW kind \in {"suspicions", "crashes", "restarts"}, NEW max, Fault(kind, max)
  PROVE  count' \in CountType /\ (NoReturn' => NoReturn)
         /\ (kind = "restarts" => ~NoReturn')
  <1>1. count \in CountType /\ count' = [count EXCEPT ![kind] = @ + 1]
    BY DEF Types, Fault, CountType
  <1>2. CASE kind = "suspicions"
    BY <1>1, <1>2 DEF CountType, NoReturn
  <1>3. CASE kind = "crashes"
    BY <1>1, <1>3 DEF CountType, NoReturn
  <1>4. CASE kind = "restarts"
    BY <1>1, <1>4 DEF CountType, NoReturn
  <1> QED
    BY <1>2, <1>3, <1>4

\* SendIn keeps the types.
LEMMA SendInTypes ==
  ASSUME Types, NEW t \in Tasks, SendIn(t)
  PROVE  Types'
  <1> DEFINE n == Origin[t]
             to(i) == Target(n, Queries[t][i])
             copy(i) == Copy(t, i, key[t])
  <1>1. PICK R \in SUBSET {i \in Reps(t) : MayRefuse(n, to(i))} :
           LET dead(i) == \/ ~Alive(n, to(i))
                          \/ \E j \in R : j < i /\ to(j) = to(i)
               sent  == {i \in Reps(t) \ R : ~dead(i)}
               skip  == {i \in Reps(t) : dead(i) /\ NetTimeout[t] = "zero"}
               later == Reps(t) \ (sent \cup skip)
           IN  /\ net' = net \cup {In(copy(i), to(i)) : i \in sent}
               /\ retry_in' = [retry_in EXCEPT ![n] =
                                 @ \cup {[copy |-> copy(i), to |-> to(i)] : i \in later}]
               /\ view' = MarkDead(n, {to(i) : i \in R})
    BY DEF SendIn
  <1> DEFINE dead(i) == \/ ~Alive(n, to(i))
                        \/ \E j \in R : j < i /\ to(j) = to(i)
             sent  == {i \in Reps(t) \ R : ~dead(i)}
             skip  == {i \in Reps(t) : dead(i) /\ NetTimeout[t] = "zero"}
             later == Reps(t) \ (sent \cup skip)
             new == {[copy |-> copy(i), to |-> to(i)] : i \in later}
  <1>2. /\ net' = net \cup {In(copy(i), to(i)) : i \in sent}
        /\ retry_in' = [retry_in EXCEPT ![n] = @ \cup new]
        /\ view' = MarkDead(n, {to(i) : i \in R})
        /\ sent \subseteq Reps(t) /\ later \subseteq Reps(t)
    BY <1>1
  <1>3. n \in Nodes /\ key[t] \in Addresses
    BY NetAssumption DEF Types
  <1>4. \A i \in Reps(t) : copy(i) \in Copies /\ to(i) \in Nodes
    BY <1>3, CopyType, TargetType
  <1> HIDE DEF copy, to, sent, later
  <1>5. net' \subseteq [kind : {"in", "out"}, copy : Copies, to : Nodes]
    BY <1>2, <1>4 DEF Types, In
  <1>6. new \subseteq [copy : Copies, to : Nodes] /\ IsFiniteSet(new)
    <2>1. IsFiniteSet(later)
      BY <1>2, RepsFinite, FS_Subset
    <2>2. [i \in later |-> [copy |-> copy(i), to |-> to(i)]] \in Surjection(later, new)
      BY DEF Surjection
    <2>3. IsFiniteSet(new)
      <3> HIDE DEF new
      <3> QED
        BY <2>1, <2>2, FS_Surjection
    <2> QED
      BY <1>2, <1>4, <2>3
  <1> HIDE DEF new
  <1>7. /\ retry_in' \in [Nodes -> SUBSET [copy : Copies, to : Nodes]]
        /\ \A k \in Nodes : IsFiniteSet(retry_in'[k])
    <2>1. retry_in' \in [Nodes -> SUBSET [copy : Copies, to : Nodes]]
      BY <1>2, <1>3, <1>6 DEF Types
    <2>2. \A k \in Nodes : IsFiniteSet(retry_in[k]) /\ IsFiniteSet(retry_in[k] \cup new)
      BY <1>6, FS_Union DEF Types
    <2>3. \A k \in Nodes : retry_in'[k] = retry_in[k] \/ retry_in'[k] = retry_in[k] \cup new
      BY <1>2 DEF Types
    <2> QED
      BY <2>1, <2>2, <2>3
  <1>8. completed' \in [Tasks -> Nat]
    <2>1. PICK omit \in SUBSET Reps(t) : completed' = [completed EXCEPT ![t] = @ + Cardinality(omit)]
      BY SendInSpawns DEF Skips
    <2>2. Cardinality(omit) \in Nat
      BY RepsFinite, FS_Subset, FS_CardinalityType
    <2> QED
      BY <2>1, <2>2 DEF Types
  <1>9. view' \in [Nodes -> [Nodes -> {"alive", "unsure", "dead"}]]
    BY <1>2, <1>3 DEF MarkDead, Types
  <1>10. /\ status' \in [Tasks -> {"idle", "queued", "waiting", "ok", "timeout", "lost", "gone"}]
         /\ send_map' \in [Nodes -> [Addresses -> Tasks \cup {None}]]
    BY <1>3 DEF SendIn, Types
  <1>11. UNCHANGED <<up, addr, key, recv_map, running, outputs, retry_out, got, runs, count>>
    BY DEF SendIn
  <1> QED
    BY <1>5, <1>7, <1>8, <1>9, <1>10, <1>11 DEF Types

\* RecvIn keeps the types.
LEMMA RecvInTypes ==
  ASSUME Types, NEW msg \in net, RecvIn(msg)
  PROVE  Types'
  <1>1. msg.to \in Nodes /\ msg.copy \in Copies /\ msg.copy.from \in Nodes
    BY DEF Types, Copies
  <1>2. Welcome(msg.to, msg.copy.from)
    BY DEF RecvIn
  <1>3. /\ view' \in [Nodes -> [Nodes -> {"alive", "unsure", "dead"}]]
        /\ completed' \in [Tasks -> Nat]
        /\ retry_in' \in [Nodes -> SUBSET [copy : Copies, to : Nodes]]
        /\ retry_out' \in [Nodes -> SUBSET Copies]
        /\ count' \in [suspicions : Nat, crashes : Nat, restarts : Nat, moves : Nat, returns : Nat]
        /\ \A k \in Nodes : IsFiniteSet(retry_in'[k])
    BY <1>1, <1>2, WelcomeDoes
  <1>4. recv_map' \in [Nodes -> SUBSET Copies] /\ running' \in [Nodes -> SUBSET Copies]
    BY <1>1 DEF RecvIn, Types
  <1>5. net' \subseteq net /\ UNCHANGED <<up, addr, status, key, send_map, outputs, got, runs>>
    BY DEF RecvIn
  <1> QED
    BY <1>3, <1>4, <1>5 DEF Types

\* RecvProbe keeps the types.
LEMMA RecvProbeTypes ==
  ASSUME Types, NEW n \in Nodes, NEW m \in Nodes, RecvProbe(n, m)
  PROVE  Types'
  <1>1. Welcome(n, m)
    BY DEF RecvProbe
  <1>2. /\ view' \in [Nodes -> [Nodes -> {"alive", "unsure", "dead"}]]
        /\ completed' \in [Tasks -> Nat]
        /\ retry_in' \in [Nodes -> SUBSET [copy : Copies, to : Nodes]]
        /\ retry_out' \in [Nodes -> SUBSET Copies]
        /\ count' \in [suspicions : Nat, crashes : Nat, restarts : Nat, moves : Nat, returns : Nat]
        /\ \A k \in Nodes : IsFiniteSet(retry_in'[k])
    BY <1>1, WelcomeDoes
  <1>3. UNCHANGED <<up, addr, status, key, send_map, recv_map, running, outputs, net, got, runs>>
    BY DEF RecvProbe
  <1> QED
    BY <1>2, <1>3 DEF Types

\* Execute keeps the types, and adds one run.
LEMMA ExecuteTypes ==
  ASSUME Types, Honest, NEW n \in Nodes, NEW c \in running[n], Execute(n, c)
  PROVE  /\ Types'
         /\ \A t \in Tasks : \A i \in Reps(t) :
               runs'[t][i] = IF t = c.task /\ i = c.rep THEN runs[t][i] + 1 ELSE runs[t][i]
  <1>1. c \in Copies /\ c.task \in Tasks /\ c.rep \in Reps(c.task)
    <2>1. Token("running", n, n, c) \in Tokens
      BY TokenCases DEF Tokens
    <2> QED
      BY <2>1, TokenParts DEF Honest, CopyOK, Types
  <1>2. running' \in [Nodes -> SUBSET Copies] /\ outputs' \in [Nodes -> SUBSET Copies]
    BY <1>1 DEF Execute, Types
  <1>3. DOMAIN runs = Tasks /\ runs[c.task] \in [Reps(c.task) -> Nat]
        /\ \A t \in Tasks : runs[t] \in [Reps(t) -> Nat]
    BY <1>1 DEF Types
  <1>4. runs' = [runs EXCEPT ![c.task] = [runs[c.task] EXCEPT ![c.rep] = @ + 1]]
    BY DEF Execute
  <1>5. [runs[c.task] EXCEPT ![c.rep] = @ + 1] \in [Reps(c.task) -> Nat]
    BY <1>1, <1>3
  <1>6. DOMAIN runs' = Tasks /\ \A t \in Tasks : runs'[t] \in [Reps(t) -> Nat]
    BY <1>1, <1>3, <1>4, <1>5
  <1>7. UNCHANGED <<up, view, addr, status, key, completed, send_map, retry_in,
                    recv_map, retry_out, net, got, count>>
    BY DEF Execute
  <1>8. \A t \in Tasks : \A i \in Reps(t) :
               runs'[t][i] = IF t = c.task /\ i = c.rep THEN runs[t][i] + 1 ELSE runs[t][i]
    BY <1>1, <1>3, <1>4
  <1>9. Types'
    BY <1>2, <1>6, <1>7 DEF Types
  <1> QED
    BY <1>8, <1>9

\* SendOut and RetryOut keep the types.
LEMMA SendOutTypes ==
  ASSUME Types, NEW n \in Nodes, NEW c \in Copies,
         (c \in outputs[n] /\ SendOut(n, c)) \/ (c \in retry_out[n] /\ RetryOut(n, c))
  PROVE  Types'
  <1>1. c.from \in Nodes
    BY DEF Copies
  <1>2. net' \subseteq net \cup {Out(c)}
    BY DEF SendOut, SendBack, RetryOut
  <1>3. Out(c) \in [kind : {"in", "out"}, copy : Copies, to : Nodes]
    BY <1>1 DEF Out
  <1>4. /\ outputs' \in [Nodes -> SUBSET Copies] /\ retry_out' \in [Nodes -> SUBSET Copies]
        /\ recv_map' \in [Nodes -> SUBSET Copies]
    <2>1. /\ outputs \in [Nodes -> SUBSET Copies] /\ retry_out \in [Nodes -> SUBSET Copies]
          /\ recv_map \in [Nodes -> SUBSET Copies]
      BY DEF Types
    <2>2. /\ outputs' = outputs \/ outputs' = [outputs EXCEPT ![n] = @ \ {c}]
          /\ \/ retry_out' = retry_out
             \/ retry_out' = [retry_out EXCEPT ![n] = @ \cup {c}]
             \/ retry_out' = [retry_out EXCEPT ![n] = @ \ {c}]
          /\ \/ recv_map' = recv_map
             \/ recv_map' = [recv_map EXCEPT ![n] = {d \in @ : ~SameSlot(c, d)}]
      BY DEF SendOut, SendBack, RetryOut
    <2>3. outputs' \in [Nodes -> SUBSET Copies]
      BY <2>1, <2>2
    <2>4. retry_out' \in [Nodes -> SUBSET Copies]
      BY <2>1, <2>2
    <2>5. recv_map' \in [Nodes -> SUBSET Copies]
      BY <2>1, <2>2
    <2> QED
      BY <2>3, <2>4, <2>5
  <1>6. view' \in [Nodes -> [Nodes -> {"alive", "unsure", "dead"}]]
    <2>1. view' = view \/ view' = MarkDead(n, {c.from})
      BY DEF SendOut, SendBack, RetryOut
    <2>2. view \in [Nodes -> [Nodes -> {"alive", "unsure", "dead"}]]
      BY DEF Types
    <2>3. MarkDead(n, {c.from}) \in [Nodes -> [Nodes -> {"alive", "unsure", "dead"}]]
      BY <2>2 DEF MarkDead
    <2> QED
      BY <2>1, <2>2, <2>3
  <1>7. UNCHANGED <<up, addr, status, key, completed, send_map, retry_in, running, got, runs, count>>
    BY DEF SendOut, RetryOut
  <1>8. net' \subseteq [kind : {"in", "out"}, copy : Copies, to : Nodes]
    BY <1>2, <1>3 DEF Types
  <1> QED
    BY <1>4, <1>6, <1>7, <1>8 DEF Types

\* The nodes a queued copy may go to.
LEMMA RerouteType ==
  ASSUME Types, Honest, NEW n \in Nodes, NEW e \in retry_in[n],
         NEW m \in RerouteRetryEntry(n, e) \cup {e.to}
  PROVE  m \in Nodes
  <1>1. CASE m = e.to
    BY <1>1 DEF Types
  <1>2. CASE m \in RerouteRetryEntry(n, e)
    <2>1. Token("held", n, e.to, e.copy) \in Tokens
      BY TokenCases DEF Tokens
    <2>2. e.copy.task \in Tasks /\ e.copy.rep \in Reps(e.copy.task)
      BY <2>1, TokenParts DEF Honest, CopyOK
    <2>3. addr \in [Nodes -> [Containers -> Nodes]]
      BY DEF Types
    <2> QED
      BY <1>2, <2>2, <2>3, QueryParts DEF RerouteRetryEntry
  <1> QED
    BY <1>1, <1>2

\* RetryIn keeps the types.
LEMMA RetryInTypes ==
  ASSUME Types, Honest, NEW n \in Nodes, NEW e \in retry_in[n], RetryIn(n, e)
  PROVE  Types'
  <1>1. e \in [copy : Copies, to : Nodes]
    BY DEF Types
  <1>2. \E m \in Nodes :
          /\ net' \subseteq net \cup {In(e.copy, m)}
          /\ \/ retry_in' = [retry_in EXCEPT ![n] = @ \ {e}]
             \/ retry_in' = [retry_in EXCEPT ![n] = (@ \ {e}) \cup {[e EXCEPT !.to = m]}]
    BY <1>1, RerouteType DEF RetryIn
  <1>3. PICK m \in Nodes :
          /\ net' \subseteq net \cup {In(e.copy, m)}
          /\ \/ retry_in' = [retry_in EXCEPT ![n] = @ \ {e}]
             \/ retry_in' = [retry_in EXCEPT ![n] = (@ \ {e}) \cup {[e EXCEPT !.to = m]}]
    BY <1>2
  <1>4. In(e.copy, m) \in [kind : {"in", "out"}, copy : Copies, to : Nodes]
    BY <1>1 DEF In
  <1>5. net' \subseteq [kind : {"in", "out"}, copy : Copies, to : Nodes]
    BY <1>3, <1>4 DEF Types
  <1> DEFINE d == [e EXCEPT !.to = m]
  <1>6. d \in [copy : Copies, to : Nodes]
    BY <1>1
  <1>7. retry_in' = [retry_in EXCEPT ![n] = @ \ {e}] \/ retry_in' = [retry_in EXCEPT ![n] = (@ \ {e}) \cup {d}]
    BY <1>3
  <1> HIDE DEF d
  <1>8. /\ retry_in' \in [Nodes -> SUBSET [copy : Copies, to : Nodes]]
        /\ \A k \in Nodes : retry_in'[k] \subseteq retry_in[k] \cup {d}
    <2>1. retry_in \in [Nodes -> SUBSET [copy : Copies, to : Nodes]]
      BY DEF Types
    <2>2. CASE retry_in' = [retry_in EXCEPT ![n] = @ \ {e}]
      BY <2>1, <2>2
    <2>3. CASE retry_in' = [retry_in EXCEPT ![n] = (@ \ {e}) \cup {d}]
      BY <1>6, <2>1, <2>3
    <2> QED
      BY <1>7, <2>2, <2>3
  <1>9. \A k \in Nodes : IsFiniteSet(retry_in'[k])
    <2>1. \A k \in Nodes : retry_in'[k] \subseteq retry_in[k] \cup {d}
      BY <1>8
    <2>2. \A k \in Nodes : IsFiniteSet(retry_in[k] \cup {d})
      BY FS_AddElement DEF Types
    <2> QED
      BY <2>1, <2>2, FS_Subset
  <1>10. UNCHANGED <<up, view, addr, status, key, completed, send_map, recv_map,
                     running, outputs, retry_out, got, runs, count>>
    BY DEF RetryIn
  <1> QED
    BY <1>5, <1>8, <1>9, <1>10 DEF Types

\* An address of send_map_ is cleared.
LEMMA Unfile ==
  ASSUME Types, NEW n \in Nodes, NEW a \in Addresses, send_map' = [send_map EXCEPT ![n][a] = None]
  PROVE  /\ send_map' \in [Nodes -> [Addresses -> Tasks \cup {None}]]
         /\ send_map'[n][a] = None
         /\ \A m \in Nodes, b \in Addresses :
               send_map'[m][b] # None => send_map'[m][b] = send_map[m][b]
  <1>1. send_map \in [Nodes -> [Addresses -> Tasks \cup {None}]]
    BY DEF Types
  <1> QED
    BY <1>1

\* What RecvOut does to the task t that is filed under the address.
Aggregated(n, c, t) ==
    /\ got' = [got EXCEPT ![t] = @ \cup {c}]
    /\ completed' = [completed EXCEPT ![t] = @ + 1]
    /\ IF LastAnswer(t, completed'[t])
       THEN /\ status' = [status EXCEPT ![t] = "ok"]
            /\ send_map' = [send_map EXCEPT ![n][c.key] = None]
       ELSE UNCHANGED <<status, send_map>>

\* RecvOut: the message is dropped or aggregated; the types are kept.
LEMMA RecvOutDoes ==
  ASSUME Types, NEW msg \in net, RecvOut(msg)
  PROVE  /\ msg.to \in Nodes /\ msg.to \in up /\ msg.copy.key \in Addresses
         /\ \/ UNCHANGED <<got, completed, status, send_map>>
            \/ /\ send_map[msg.to][msg.copy.key] \in Tasks
               /\ Aggregated(msg.to, msg.copy, send_map[msg.to][msg.copy.key])
         /\ Types'
  <1> DEFINE n == msg.to
             c == msg.copy
             t == send_map[n][c.key]
  <1>1. n \in Nodes /\ n \in up /\ c \in Copies /\ c.key \in Addresses /\ t \in Tasks \cup {None}
    BY DEF Types, Copies, RecvOut
  <1>2. UNCHANGED <<got, completed, status, send_map>> \/ (t \in Tasks /\ Aggregated(n, c, t))
    <2>1. CASE t = None \/ c.rep \notin Reps(t)
      BY <2>1 DEF RecvOut
    <2>2. CASE ~(t = None \/ c.rep \notin Reps(t))
      BY <1>1, <2>2 DEF RecvOut, Aggregated
    <2> QED
      BY <2>1, <2>2
  <1>3. net' \subseteq net
        /\ UNCHANGED <<up, view, addr, key, retry_in, recv_map, running, outputs, retry_out, runs, count>>
    BY DEF RecvOut
  <1>4. /\ got' \in [Tasks -> SUBSET Copies] /\ completed' \in [Tasks -> Nat]
        /\ status' \in [Tasks -> {"idle", "queued", "waiting", "ok", "timeout", "lost", "gone"}]
        /\ send_map' \in [Nodes -> [Addresses -> Tasks \cup {None}]]
    <2>1. CASE UNCHANGED <<got, completed, status, send_map>>
      BY <2>1 DEF Types
    <2>2. CASE t \in Tasks /\ Aggregated(n, c, t)
      <3> HIDE DEF t, n, c
      <3>1. got' \in [Tasks -> SUBSET Copies] /\ completed' \in [Tasks -> Nat]
        BY <1>1, <2>2 DEF Aggregated, Types
      <3>2. CASE LastAnswer(t, completed'[t])
        <4>1. status' = [status EXCEPT ![t] = "ok"] /\ send_map' = [send_map EXCEPT ![n][c.key] = None]
          BY <2>2, <3>2 DEF Aggregated
        <4>2. send_map' \in [Nodes -> [Addresses -> Tasks \cup {None}]]
          BY <1>1, <4>1, Unfile
        <4> QED
          BY <2>2, <3>1, <4>1, <4>2 DEF Types
      <3>3. CASE ~LastAnswer(t, completed'[t])
        BY <2>2, <3>1, <3>3 DEF Aggregated, Types
      <3> QED
        BY <3>2, <3>3
    <2> QED
      BY <1>2, <2>1, <2>2
  <1>5. Types'
    BY <1>3, <1>4 DEF Types
  <1> QED
    BY <1>1, <1>2, <1>5

\* The other steps keep the types.
LEMMA OtherTypes ==
  ASSUME Types,
         \/ \E t \in Tasks : Submit(t) \/ ScanSendMapTimeouts(t)
         \/ \E msg \in net : Lose(msg)
         \/ \E n \in Nodes : Crash(n) \/ Restart(n)
         \/ \E n, m \in Nodes : Suspect(n, m) \/ Trust(n, m)
         \/ \E n, m \in Nodes, c \in Containers : Recover(n, c, m)
  PROVE  Types'
  <1>1. ASSUME NEW t \in Tasks, Submit(t) PROVE Types'
    BY <1>1 DEF Types, Submit
  <1>2. ASSUME NEW t \in Tasks, ScanSendMapTimeouts(t) PROVE Types'
    <2>1. Origin[t] \in Nodes /\ key[t] \in Addresses
      BY NetAssumption DEF Types
    <2>2. send_map' \in [Nodes -> [Addresses -> Tasks \cup {None}]]
      BY <1>2, <2>1, Unfile DEF ScanSendMapTimeouts
    <2> QED
      BY <1>2, <2>2 DEF Types, ScanSendMapTimeouts, TimedOut
  <1>3. ASSUME NEW msg \in net, Lose(msg) PROVE Types'
    BY <1>3 DEF Types, Lose
  <1>4. ASSUME NEW n \in Nodes, Crash(n) PROVE Types'
    <2>1. count' \in CountType
      BY <1>4, FaultCounts DEF Crash
    <2>2. \A k \in Nodes : IsFiniteSet(retry_in'[k])
      BY <1>4, FS_EmptySet DEF Crash, Types
    <2>3. /\ send_map' \in [Nodes -> [Addresses -> Tasks \cup {None}]]
          /\ status' \in [Tasks -> {"idle", "queued", "waiting", "ok", "timeout", "lost", "gone"}]
          /\ up' \subseteq Nodes
      BY <1>4 DEF Crash, Types
    <2>4. /\ retry_in' \in [Nodes -> SUBSET [copy : Copies, to : Nodes]]
          /\ recv_map' \in [Nodes -> SUBSET Copies]
          /\ running' \in [Nodes -> SUBSET Copies]
          /\ outputs' \in [Nodes -> SUBSET Copies]
          /\ retry_out' \in [Nodes -> SUBSET Copies]
      BY <1>4 DEF Crash, Types
    <2>5. UNCHANGED <<view, addr, key, completed, net, got, runs>>
      BY <1>4 DEF Crash
    <2> QED
      BY <2>1, <2>2, <2>3, <2>4, <2>5 DEF Types, CountType
  <1>5. ASSUME NEW n \in Nodes, Restart(n) PROVE Types'
    <2>1. count' \in CountType
      BY <1>5, FaultCounts DEF Restart
    <2>2. view' \in [Nodes -> [Nodes -> {"alive", "unsure", "dead"}]]
      BY <1>5 DEF Restart, Types
    <2> QED
      BY <1>5, <2>1, <2>2 DEF Types, CountType, Restart
  <1>6. ASSUME NEW n \in Nodes, NEW m \in Nodes, Suspect(n, m) PROVE Types'
    <2>1. count' \in CountType
      <3>1. CASE UNCHANGED count
        BY <3>1 DEF Types, CountType
      <3>2. CASE Fault("suspicions", MaxSuspicions)
        BY <3>2, FaultCounts
      <3> QED
        BY <1>6, <3>1, <3>2 DEF Suspect
    <2>2. view' \in [Nodes -> [Nodes -> {"alive", "unsure", "dead"}]]
      <3>1. Worse[view[n][m]] \in {"alive", "unsure", "dead"}
        BY DEF Types, Worse
      <3> QED
        BY <1>6, <3>1 DEF Suspect, Types
    <2> QED
      BY <1>6, <2>1, <2>2 DEF Types, CountType, Suspect
  <1>7. ASSUME NEW n \in Nodes, NEW m \in Nodes, Trust(n, m) PROVE Types'
    <2>1. view' \in [Nodes -> [Nodes -> {"alive", "unsure", "dead"}]]
      BY <1>7 DEF Trust, Types
    <2> QED
      BY <1>7, <2>1 DEF Types, Trust
  <1>8. ASSUME NEW n \in Nodes, NEW m \in Nodes, NEW c \in Containers, Recover(n, c, m) PROVE Types'
    <2>1. addr' \in [Nodes -> [Containers -> Nodes]]
      BY <1>8 DEF Recover, Types
    <2>2. count' \in CountType
      <3>1. count \in CountType /\ count' = [count EXCEPT !.moves = @ + 1]
        BY <1>8 DEF Recover, Types, CountType
      <3> QED
        BY <3>1 DEF CountType
    <2> QED
      BY <1>8, <2>1, <2>2 DEF Types, CountType, Recover
  <1> QED
    BY <1>1, <1>2, <1>3, <1>4, <1>5, <1>6, <1>7, <1>8
-----------------------------------------------------------------------------
(* What moves preserve.                                                    *)

\* A copy that has not run stays one, and an answer goes to the task's node.
Onward(x, y) ==
    /\ Moves(x, y)
    /\ y.at \in {"in", "held", "running"} => x.at \in {"in", "held", "running"}
    /\ y.at = "out" => y.to = y.copy.from
Carries == Shrinks \/ \E x, y : Onward(x, y)

\* After a move every copy on its way was on its way.
LEMMA CarriedCopies ==
  ASSUME Shrinks \/ \E x, y : Moves(x, y), NEW z \in Tokens'
  PROVE  \E w \in Tokens : w.copy = z.copy
  BY DEF Shrinks, Moves

\* A move leaves one copy of a replica.
LEMMA OnceCarried ==
  ASSUME Once, Shrinks \/ \E x, y : Moves(x, y)
  PROVE  Once'
  <1>1. CASE Shrinks
    BY <1>1 DEF Once, Shrinks
  <1>2. ASSUME NEW x, NEW y, Moves(x, y) PROVE Once'
    <2> SUFFICES ASSUME NEW z \in Tokens', NEW w \in Tokens', SameCopy(z.copy, w.copy)
                 PROVE  z = w
      BY DEF Once
    <2>1. \A u \in Tokens \ {x} : ~SameCopy(u.copy, x.copy) /\ ~SameCopy(x.copy, u.copy)
      BY <1>2 DEF Once, Moves
    <2>2. \A u \in Tokens \ {x} : ~SameCopy(u.copy, y.copy) /\ ~SameCopy(y.copy, u.copy)
      BY <1>2, <2>1 DEF Moves
    <2>3. CASE z \in Tokens \ {x} /\ w \in Tokens \ {x}
      BY <2>3 DEF Once
    <2> QED
      BY <1>2, <2>2, <2>3 DEF Moves
  <1> QED
    BY <1>1, <1>2

\* A move keeps copies in accord with their tasks.
LEMMA HonestCarried ==
  ASSUME Honest, Carries, UNCHANGED <<key, runs>>,
         \A t \in Tasks : status[t] \notin {"idle", "queued"} => status'[t] \notin {"idle", "queued"}
  PROVE  Honest'
  <1> SUFFICES ASSUME NEW z \in Tokens'
               PROVE  /\ CopyOK(z.copy) /\ z.copy.key = key[z.copy.task]
                      /\ status'[z.copy.task] \notin {"idle", "queued"}
                      /\ z.at \in {"in", "held", "running"} => runs[z.copy.task][z.copy.rep] = 0
                      /\ z.at = "out" => z.to = z.copy.from
    BY DEF Honest, CopyOK
  <1>1. CASE z \in Tokens
    BY <1>1 DEF Honest, CopyOK
  <1>2. CASE z \notin Tokens
    <2>1. PICK x, y : Onward(x, y)
      BY <1>2 DEF Carries, Shrinks
    <2>2. z = y /\ x \in Tokens /\ z.copy = x.copy
      BY <1>2, <2>1 DEF Onward, Moves
    <2> QED
      BY <2>1, <2>2 DEF Honest, Onward, CopyOK
  <1> QED
    BY <1>1, <1>2

\* A move opens no replica.
LEMMA OpenCarried ==
  ASSUME Shrinks \/ \E x, y : Moves(x, y), NEW t
  PROVE  Open(t)' \subseteq Open(t)
  BY CarriedCopies DEF Open

\* Sets of replicas are finite.
LEMMA RepsCount ==
  ASSUME NEW t \in Tasks, NEW S \in SUBSET Reps(t)
  PROVE  /\ IsFiniteSet(S) /\ Cardinality(S) \in Nat /\ Cardinality(S) <= Len(Queries[t])
         /\ Cardinality(S) = Len(Queries[t]) => S = Reps(t)
         /\ \A U \in SUBSET S : IsFiniteSet(U) /\ Cardinality(U) \in Nat /\ Cardinality(U) <= Cardinality(S)
  <1>1. /\ IsFiniteSet(S) /\ Cardinality(S) <= Cardinality(Reps(t))
        /\ Cardinality(S) = Cardinality(Reps(t)) => S = Reps(t)
    BY RepsFinite, FS_Subset
  <1>2. \A U \in SUBSET S : IsFiniteSet(U) /\ Cardinality(U) <= Cardinality(S)
    BY <1>1, FS_Subset
  <1>3. Cardinality(S) \in Nat /\ \A U \in SUBSET S : Cardinality(U) \in Nat
    BY <1>1, <1>2, FS_CardinalityType
  <1> QED
    BY <1>1, <1>2, <1>3, RepsFinite

\* A step that opens no replica and counts none keeps the tally.
LEMMA TallyKept ==
  ASSUME Types, Tally, Calm' => Calm,
         Calm' => \A t \in Tasks :
             /\ Open(t)' \subseteq Open(t) /\ got'[t] = got[t] /\ completed'[t] = completed[t]
             /\ status'[t] = "ok" => status[t] = "ok"
             /\ status'[t] = "gone" => Origin[t] \notin up'
  PROVE  Tally'
  <1> SUFFICES ASSUME Calm', NEW t \in Tasks
               PROVE  /\ status'[t] = "gone" => Origin[t] \notin up'
                      /\ \A c \in got'[t] : c.task = t
                      /\ Done(t)' \cap Open(t)' = {}
                      /\ completed'[t] + Cardinality(Open(t)') <= Len(Queries[t])
                      /\ NetTimeout[t] = "default" => completed'[t] <= Cardinality(Done(t)')
                      /\ status'[t] = "ok" => completed'[t] = Len(Queries[t])
    BY DEF Tally
  <1>1. /\ Open(t)' \subseteq Open(t) /\ got'[t] = got[t] /\ completed'[t] = completed[t]
        /\ status'[t] = "ok" => status[t] = "ok"
        /\ status'[t] = "gone" => Origin[t] \notin up'
    OBVIOUS
  <1>2. /\ \A c \in got[t] : c.task = t
        /\ Done(t) \cap Open(t) = {}
        /\ completed[t] + Cardinality(Open(t)) <= Len(Queries[t])
        /\ NetTimeout[t] = "default" => completed[t] <= Cardinality(Done(t))
        /\ status[t] = "ok" => completed[t] = Len(Queries[t])
    BY DEF Tally
  <1>3. Done(t)' = Done(t)
    BY <1>1 DEF Done
  <1>4. /\ Open(t) \in SUBSET Reps(t) /\ completed[t] \in Nat
    BY DEF Open, Types
  <1>5. /\ Cardinality(Open(t)') \in Nat /\ Cardinality(Open(t)) \in Nat
        /\ Cardinality(Open(t)') <= Cardinality(Open(t))
    BY <1>1, <1>4, RepsCount
  <1>6. completed[t] + Cardinality(Open(t)') <= Len(Queries[t])
    BY <1>2, <1>4, <1>5, RepsFinite
  <1> QED
    BY <1>1, <1>2, <1>3, <1>6
-----------------------------------------------------------------------------
(* Every step preserves the invariant.                                     *)

\* A step that only moves copies.
LEMMA CarryInv ==
  ASSUME NetInvariant, Types', Carries, UNCHANGED <<up, status, key, send_map, got, runs>>,
         NoReturn' => NoReturn /\ completed' = completed,
         \A t \in Tasks : status[t] # "waiting" => completed'[t] = completed[t]
  PROVE  NetInvariant'
  <1>1. Once' /\ Honest'
    BY OnceCarried, HonestCarried DEF NetInvariant, Carries, Onward
  <1>2. Fresh' /\ AtMostOnce' /\ Filed' /\ Apart'
    BY DEF NetInvariant, Fresh, AtMostOnce, Filed, Apart, Live
  <1>3. NotStranded'
    BY DEF NetInvariant, NotStranded
  <1>4. Tally'
    <2>1. \A t : Open(t)' \subseteq Open(t)
      BY OpenCarried DEF Carries, Onward
    <2>2. Calm' => Calm /\ completed' = completed
      BY DEF Calm, NoTimeout
    <2>3. Calm => \A t \in Tasks : status[t] = "gone" => Origin[t] \notin up
      BY DEF NetInvariant, Tally
    <2> QED
      BY <2>1, <2>2, <2>3, TallyKept DEF NetInvariant
  <1> QED
    BY <1>1, <1>2, <1>3, <1>4 DEF NetInvariant

\* RecvIn preserves the invariant: the copy runs.
LEMMA RecvInInv ==
  ASSUME NetInvariant, NEW msg \in net, RecvIn(msg)
  PROVE  NetInvariant'
  <1> DEFINE x == Token("in", msg.to, msg.to, msg.copy)
             y == Token("running", msg.to, msg.to, msg.copy)
  <1>1. msg.to \in Nodes /\ msg.copy.from \in Nodes
    BY DEF NetInvariant, Types, Copies
  <1>2. /\ UNCHANGED <<up, status, key, send_map, got, runs>>
        /\ Welcome(msg.to, msg.copy.from)
    BY DEF RecvIn
  <1>3. Onward(x, y)
    BY RecvInMoves, TokenParts DEF NetInvariant, Onward
  <1>4. Carries
    BY <1>3 DEF Carries
  <1>5. /\ NoReturn' => NoReturn /\ completed' = completed
        /\ \A t \in Tasks : status[t] # "waiting" => completed'[t] = completed[t]
    BY <1>1, <1>2, WelcomeDoes DEF NetInvariant
  <1> QED
    BY <1>2, <1>4, <1>5, CarryInv, RecvInTypes DEF NetInvariant

\* RecvProbe preserves the invariant: entries are dropped.
LEMMA RecvProbeInv ==
  ASSUME NetInvariant, NEW n \in Nodes, NEW m \in Nodes, RecvProbe(n, m)
  PROVE  NetInvariant'
  <1>1. /\ UNCHANGED <<up, status, key, send_map, got, runs, net, running, outputs>>
        /\ Welcome(n, m)
    BY DEF RecvProbe
  <1>2. /\ NoReturn' => NoReturn /\ completed' = completed
        /\ \A t \in Tasks : status[t] # "waiting" => completed'[t] = completed[t]
    BY <1>1, WelcomeDoes DEF NetInvariant
  <1>3. Carries
    BY <1>1, WelcomeDrops, Fewer DEF NetInvariant, Carries
  <1> QED
    BY <1>1, <1>2, <1>3, CarryInv, RecvProbeTypes DEF NetInvariant

\* SendOut and RetryOut preserve the invariant: outputs go to the task's node.
LEMMA SendOutInv ==
  ASSUME NetInvariant, NEW n \in Nodes, NEW c \in Copies,
         (c \in outputs[n] /\ SendOut(n, c)) \/ (c \in retry_out[n] /\ RetryOut(n, c))
  PROVE  NetInvariant'
  <1>1. UNCHANGED <<up, status, key, send_map, got, runs, completed, count>>
    BY DEF SendOut, RetryOut
  <1>2. Carries
    <2>1. CASE c \in outputs[n] /\ SendOut(n, c)
      <3>1. \/ Shrinks
            \/ Moves(Token("outputs", n, n, c), Token("out", c.from, c.from, c))
            \/ Moves(Token("outputs", n, n, c), Token("back", n, n, c))
        BY <2>1, SendOutMoves DEF NetInvariant
      <3> QED
        BY <3>1, TokenParts DEF Carries, Onward
    <2>2. CASE c \in retry_out[n] /\ RetryOut(n, c)
      <3>1. Shrinks \/ Moves(Token("back", n, n, c), Token("out", c.from, c.from, c))
        BY <2>2, RetryOutMoves DEF NetInvariant
      <3> QED
        BY <3>1, TokenParts DEF Carries, Onward
    <2> QED
      BY <2>1, <2>2
  <1>3. Types'
    BY SendOutTypes DEF NetInvariant
  <1>4. NoReturn' => NoReturn
    BY <1>1 DEF NoReturn
  <1> QED
    BY <1>1, <1>2, <1>3, <1>4, CarryInv

\* RetryIn preserves the invariant: the copy has not run.
LEMMA RetryInInv ==
  ASSUME NetInvariant, NEW n \in Nodes, NEW e \in retry_in[n], RetryIn(n, e)
  PROVE  NetInvariant'
  <1>1. UNCHANGED <<up, status, key, send_map, got, runs, completed, count>>
    BY DEF RetryIn
  <1>2. Carries
    <2>1. \/ Shrinks
          \/ \E m \in Nodes : \/ Moves(Token("held", n, e.to, e.copy), Token("in", m, m, e.copy))
                              \/ Moves(Token("held", n, e.to, e.copy), Token("held", n, m, e.copy))
      BY RetryInMoves DEF NetInvariant
    <2> QED
      BY <2>1, TokenParts DEF Carries, Onward
  <1>3. NoReturn' => NoReturn
    BY <1>1 DEF NoReturn
  <1> QED
    BY <1>1, <1>2, <1>3, CarryInv, RetryInTypes DEF NetInvariant

\* The steps of the network and of the failure detector that touch no copy, or
\* drop one, preserve the invariant.
LEMMA BackgroundInv ==
  ASSUME NetInvariant,
         \/ \E msg \in net : Lose(msg)
         \/ \E n, m \in Nodes : Suspect(n, m) \/ Trust(n, m)
         \/ \E n, m \in Nodes, c \in Containers : Recover(n, c, m)
  PROVE  NetInvariant'
  <1>1. /\ UNCHANGED <<up, status, key, send_map, got, runs, completed, retry_in, running,
                       outputs, retry_out>>
        /\ net' \subseteq net
    BY DEF Lose, Suspect, Trust, Recover
  <1>2. NoReturn' => NoReturn
    <2>1. CASE \E msg \in net : Lose(msg)
      BY <2>1 DEF Lose, NoReturn
    <2>2. ASSUME NEW n \in Nodes, NEW m \in Nodes, Suspect(n, m) PROVE NoReturn' => NoReturn
      <3>1. CASE UNCHANGED count
        BY <3>1 DEF NoReturn
      <3>2. CASE Fault("suspicions", MaxSuspicions)
        BY <3>2, FaultCounts DEF NetInvariant
      <3> QED
        BY <2>2, <3>1, <3>2 DEF Suspect
    <2>3. CASE \E n, m \in Nodes : Trust(n, m)
      BY <2>3 DEF Trust, NoReturn
    <2>4. CASE \E n, m \in Nodes, c \in Containers : Recover(n, c, m)
      BY <2>4 DEF Recover, NoReturn, NetInvariant, Types
    <2> QED
      BY <2>1, <2>2, <2>3, <2>4
  <1>3. Carries
    BY <1>1, Fewer DEF Carries
  <1>4. Types'
    BY OtherTypes DEF NetInvariant
  <1> QED
    BY <1>1, <1>2, <1>3, <1>4, CarryInv

\* Execute preserves the invariant: the copy had not run.
LEMMA ExecuteInv ==
  ASSUME NetInvariant, NEW n \in Nodes, NEW c \in running[n], Execute(n, c)
  PROVE  NetInvariant'
  <1> DEFINE x == Token("running", n, n, c)
             y == Token("outputs", n, n, c)
  <1>1. UNCHANGED <<up, status, key, send_map, got, completed, count>>
    BY DEF Execute
  <1>2. Moves(x, y) /\ x.at = "running" /\ y.at = "outputs" /\ x.copy = c /\ y.copy = c
    BY ExecuteMoves, TokenParts DEF NetInvariant
  <1>3. x \in Tokens
    BY <1>2 DEF Moves
  <1> HIDE DEF x, y
  <1>4. /\ CopyOK(c) /\ c.key = key[c.task] /\ status[c.task] \notin {"idle", "queued"}
        /\ runs[c.task][c.rep] = 0
    BY <1>2, <1>3 DEF NetInvariant, Honest
  <1>5. /\ Types'
        /\ \A t \in Tasks : \A i \in Reps(t) :
              runs'[t][i] = IF t = c.task /\ i = c.rep THEN runs[t][i] + 1 ELSE runs[t][i]
    BY ExecuteTypes DEF NetInvariant
  <1>6. Once'
    BY <1>2, OnceCarried DEF NetInvariant
  <1>7. Honest'
    <2> SUFFICES ASSUME NEW z \in Tokens'
                 PROVE  /\ CopyOK(z.copy) /\ z.copy.key = key[z.copy.task]
                        /\ status[z.copy.task] \notin {"idle", "queued"}
                        /\ z.at \in {"in", "held", "running"} => runs'[z.copy.task][z.copy.rep] = 0
                        /\ z.at = "out" => z.to = z.copy.from
      BY <1>1 DEF Honest, CopyOK
    <2>1. CASE z = y
      BY <1>2, <1>4, <2>1
    <2>2. CASE z \in Tokens \ {x}
      <3>1. ~SameCopy(z.copy, c)
        BY <1>2, <1>3, <2>2 DEF NetInvariant, Once
      <3>2. /\ CopyOK(z.copy) /\ z.copy.key = key[z.copy.task]
            /\ status[z.copy.task] \notin {"idle", "queued"}
            /\ z.at \in {"in", "held", "running"} => runs[z.copy.task][z.copy.rep] = 0
            /\ z.at = "out" => z.to = z.copy.from
        BY <2>2 DEF NetInvariant, Honest
      <3>3. runs'[z.copy.task][z.copy.rep] = runs[z.copy.task][z.copy.rep]
        BY <1>5, <3>1, <3>2 DEF CopyOK, SameCopy
      <3> QED
        BY <3>2, <3>3
    <2> QED
      BY <1>2, <2>1, <2>2 DEF Moves
  <1>8. Fresh'
    BY <1>1, <1>4, <1>5 DEF NetInvariant, Fresh
  <1>9. AtMostOnce'
    BY <1>4, <1>5 DEF NetInvariant, AtMostOnce
  <1>10. Filed' /\ Apart' /\ NotStranded'
    BY <1>1 DEF NetInvariant, Filed, Apart, Live, NotStranded, NoReturn
  <1>11. Tally'
    <2>1. \A t : Open(t)' \subseteq Open(t)
      BY <1>2, OpenCarried
    <2>2. Calm' => Calm
      BY <1>1 DEF Calm, NoTimeout, NoReturn
    <2>3. Calm => \A t \in Tasks : status[t] = "gone" => Origin[t] \notin up
      BY DEF NetInvariant, Tally
    <2> QED
      BY <1>1, <2>1, <2>2, <2>3, TallyKept DEF NetInvariant
  <1> QED
    BY <1>5, <1>6, <1>7, <1>8, <1>9, <1>10, <1>11 DEF NetInvariant

\* Submit preserves the invariant: no live task of the node has the address.
LEMMA SubmitInv ==
  ASSUME NetInvariant, NEW t \in Tasks, Submit(t)
  PROVE  NetInvariant'
  <1>1. PICK a \in Addresses :
          /\ \A u \in Tasks : Live(u) /\ Origin[u] = Origin[t] => key[u] # a
          /\ key' = [key EXCEPT ![t] = a]
    BY DEF Submit
  <1>2. /\ status[t] = "idle" /\ status' = [status EXCEPT ![t] = "queued"]
        /\ UNCHANGED <<up, view, addr, completed, send_map, retry_in, recv_map,
                       running, outputs, retry_out, net, got, runs, count>>
    BY DEF Submit
  <1>3. /\ key \in [Tasks -> Addresses] /\ DOMAIN status = Tasks
    BY DEF NetInvariant, Types
  <1>4. Tokens' = Tokens
    BY <1>2 DEF Tokens
  <1>5. Types'
    BY OtherTypes DEF NetInvariant
  <1>6. Once'
    BY <1>4 DEF NetInvariant, Once
  <1>7. Honest'
    <2> SUFFICES ASSUME NEW z \in Tokens
                 PROVE  /\ CopyOK(z.copy) /\ z.copy.key = key'[z.copy.task]
                        /\ status'[z.copy.task] \notin {"idle", "queued"}
                        /\ z.at \in {"in", "held", "running"} => runs[z.copy.task][z.copy.rep] = 0
                        /\ z.at = "out" => z.to = z.copy.from
      BY <1>2, <1>4 DEF Honest, CopyOK
    <2>1. z.copy.task # t /\ z.copy.task \in Tasks
      BY <1>2 DEF NetInvariant, Honest, CopyOK
    <2>2. key'[z.copy.task] = key[z.copy.task] /\ status'[z.copy.task] = status[z.copy.task]
      BY <1>1, <1>2, <1>3, <2>1
    <2> QED
      BY <2>2 DEF NetInvariant, Honest
  <1>8. Fresh'
    BY <1>2, <1>3 DEF NetInvariant, Fresh
  <1>9. AtMostOnce' /\ NotStranded'
    BY <1>2, <1>3 DEF NetInvariant, AtMostOnce, NotStranded, NoReturn
  <1>10. Filed'
    <2> SUFFICES ASSUME NEW n \in Nodes, NEW b \in Addresses, send_map[n][b] # None
                 PROVE  /\ Origin[send_map[n][b]] = n /\ key'[send_map[n][b]] = b
                        /\ status'[send_map[n][b]] = "waiting"
      BY <1>2 DEF Filed
    <2>1. /\ Origin[send_map[n][b]] = n /\ key[send_map[n][b]] = b
          /\ status[send_map[n][b]] = "waiting" /\ send_map[n][b] \in Tasks
      BY DEF NetInvariant, Filed, Types
    <2> QED
      BY <1>1, <1>2, <1>3, <2>1
  <1>11. Apart'
    <2> SUFFICES ASSUME NEW u \in Tasks, NEW v \in Tasks, Live(u)', Live(v)',
                        Origin[u] = Origin[v], key'[u] = key'[v]
                 PROVE  u = v
      BY DEF Apart
    <2>1. \A w \in Tasks : w # t => key'[w] = key[w] /\ (Live(w)' => Live(w))
      BY <1>1, <1>2, <1>3 DEF Live
    <2>2. key'[t] = a
      BY <1>1, <1>3
    <2> QED
      BY <1>1, <2>1, <2>2 DEF NetInvariant, Apart
  <1>12. Tally'
    <2>1. \A u : Open(u)' = Open(u)
      BY <1>4 DEF Open
    <2>2. Calm' => Calm
      BY <1>2, <1>3 DEF Calm, NoTimeout, NoReturn
    <2>3. Calm => \A u \in Tasks : status[u] = "gone" => Origin[u] \notin up
      BY DEF NetInvariant, Tally
    <2>4. \A u \in Tasks : (status'[u] = "gone" => status[u] = "gone") /\ (status'[u] = "ok" => status[u] = "ok")
      BY <1>2, <1>3
    <2> QED
      BY <1>2, <2>1, <2>2, <2>3, <2>4, TallyKept DEF NetInvariant
  <1> QED
    BY <1>5, <1>6, <1>7, <1>8, <1>9, <1>10, <1>11, <1>12 DEF NetInvariant

\* ScanSendMapTimeouts preserves the invariant: a task that is given up is not
\* filed any more.
LEMMA ScanInv ==
  ASSUME NetInvariant, NEW t \in Tasks, ScanSendMapTimeouts(t)
  PROVE  NetInvariant'
  <1>1. /\ status[t] = "waiting" /\ status' = [status EXCEPT ![t] = TimedOut(t)]
        /\ send_map' = [send_map EXCEPT ![Origin[t]][key[t]] = None]
        /\ TimedOut(t) \in {"lost", "timeout"}
        /\ UNCHANGED <<up, view, addr, key, completed, retry_in, recv_map, running,
                       outputs, retry_out, net, got, runs, count>>
    BY DEF ScanSendMapTimeouts, TimedOut
  <1>2. DOMAIN status = Tasks /\ Origin[t] \in Nodes /\ key[t] \in Addresses
    BY NetAssumption DEF NetInvariant, Types
  <1>3. Tokens' = Tokens
    BY <1>1 DEF Tokens
  <1>4. Types'
    BY OtherTypes DEF NetInvariant
  <1>5. Once' /\ Honest'
    BY <1>1, <1>2, <1>3, HonestCarried DEF NetInvariant, Once, Carries, Shrinks
  <1>6. Fresh' /\ AtMostOnce' /\ NotStranded'
    BY <1>1, <1>2 DEF NetInvariant, Fresh, AtMostOnce, NotStranded, NoReturn
  <1>7. Filed'
    <2> SUFFICES ASSUME NEW n \in Nodes, NEW b \in Addresses, send_map'[n][b] # None
                 PROVE  /\ Origin[send_map'[n][b]] = n /\ key[send_map'[n][b]] = b
                        /\ status'[send_map'[n][b]] = "waiting"
      BY <1>1 DEF Filed
    <2>1. send_map'[n][b] = send_map[n][b] /\ send_map'[Origin[t]][key[t]] = None
      BY <1>1, <1>2, Unfile DEF NetInvariant
    <2>2. /\ Origin[send_map[n][b]] = n /\ key[send_map[n][b]] = b
          /\ status[send_map[n][b]] = "waiting" /\ send_map[n][b] \in Tasks
      BY <2>1 DEF NetInvariant, Filed, Types
    <2>3. send_map[n][b] # t
      BY <2>1, <2>2
    <2> QED
      BY <1>1, <1>2, <2>1, <2>2, <2>3
  <1>8. Apart'
    BY <1>1, <1>2 DEF NetInvariant, Apart, Live
  <1>9. Tally'
    <2>1. \A u : Open(u)' = Open(u)
      BY <1>3 DEF Open
    <2>2. Calm' => Calm
      BY <1>1, <1>2 DEF Calm, NoTimeout, NoReturn
    <2>3. Calm => \A u \in Tasks : status[u] = "gone" => Origin[u] \notin up
      BY DEF NetInvariant, Tally
    <2>4. \A u \in Tasks : (status'[u] = "gone" => status[u] = "gone") /\ (status'[u] = "ok" => status[u] = "ok")
      BY <1>1, <1>2
    <2> QED
      BY <1>1, <2>1, <2>2, <2>3, <2>4, TallyKept DEF NetInvariant
  <1> QED
    BY <1>4, <1>5, <1>6, <1>7, <1>8, <1>9 DEF NetInvariant

\* A crash preserves the invariant: the node's tasks and copies are gone.
LEMMA CrashInv ==
  ASSUME NetInvariant, NEW n \in Nodes, Crash(n)
  PROVE  NetInvariant'
  <1>1. /\ up' = up \ {n} /\ Fault("crashes", MaxCrashes)
        /\ status' = [t \in Tasks |-> IF Origin[t] = n /\ Live(t) THEN "gone" ELSE status[t]]
        /\ send_map' = [send_map EXCEPT ![n] = [a \in Addresses |-> None]]
        /\ UNCHANGED <<view, addr, key, completed, net, got, runs>>
    BY DEF Crash
  <1>2. Types'
    BY OtherTypes DEF NetInvariant
  <1>3. Shrinks
    <2>1. \A m \in Nodes : /\ retry_in'[m] \subseteq retry_in[m] /\ running'[m] \subseteq running[m]
                           /\ outputs'[m] \subseteq outputs[m] /\ retry_out'[m] \subseteq retry_out[m]
      BY DEF Crash, NetInvariant, Types
    <2> QED
      BY <1>1, <2>1, Fewer
  <1>4. \A t \in Tasks :
          /\ status'[t] \in {"idle", "queued"} => status[t] = status'[t]
          /\ status[t] \notin {"idle", "queued"} => status'[t] \notin {"idle", "queued"}
          /\ status'[t] = "ok" => status[t] = "ok"
          /\ status'[t] = "waiting" => status[t] = "waiting"
          /\ status'[t] # "timeout" => status[t] # "timeout"
          /\ status'[t] = "gone" => status[t] = "gone" \/ Origin[t] = n
          /\ Origin[t] # n => status'[t] = status[t]
    BY <1>1 DEF Live
  <1>5. NoReturn' => NoReturn
    BY <1>1, FaultCounts DEF NetInvariant
  <1>6. Once' /\ Honest'
    BY <1>1, <1>3, <1>4, OnceCarried, HonestCarried DEF NetInvariant, Carries
  <1>7. Fresh' /\ AtMostOnce'
    BY <1>1, <1>4 DEF NetInvariant, Fresh, AtMostOnce
  <1>8. NotStranded'
    BY <1>1, <1>4, <1>5 DEF NetInvariant, NotStranded
  <1>9. Filed'
    <2> SUFFICES ASSUME NEW m \in Nodes, NEW b \in Addresses, send_map'[m][b] # None
                 PROVE  /\ Origin[send_map'[m][b]] = m /\ key[send_map'[m][b]] = b
                        /\ status'[send_map'[m][b]] = "waiting"
      BY <1>1 DEF Filed
    <2>1. m # n /\ send_map'[m][b] = send_map[m][b]
      BY <1>1 DEF NetInvariant, Types
    <2>2. /\ Origin[send_map[m][b]] = m /\ key[send_map[m][b]] = b
          /\ status[send_map[m][b]] = "waiting" /\ send_map[m][b] \in Tasks
      BY <2>1 DEF NetInvariant, Filed, Types
    <2> QED
      BY <1>4, <2>1, <2>2
  <1>10. Apart'
    <2>1. \A t \in Tasks : Live(t)' => Live(t)
      BY <1>1 DEF Live
    <2> QED
      BY <1>1, <2>1 DEF NetInvariant, Apart
  <1>11. Tally'
    <2>1. \A t : Open(t)' \subseteq Open(t)
      BY <1>3, OpenCarried
    <2>2. Calm' => Calm
      BY <1>4, <1>5 DEF Calm, NoTimeout
    <2>3. Calm' => \A t \in Tasks : status'[t] = "gone" => Origin[t] \notin up'
      BY <1>1, <1>4, <2>2 DEF NetInvariant, Tally
    <2> QED
      BY <1>1, <1>4, <2>1, <2>2, <2>3, TallyKept DEF NetInvariant
  <1> QED
    BY <1>2, <1>6, <1>7, <1>8, <1>9, <1>10, <1>11 DEF NetInvariant

\* A restart preserves the invariant; the properties about answers end with it.
LEMMA RestartInv ==
  ASSUME NetInvariant, NEW n \in Nodes, Restart(n)
  PROVE  NetInvariant'
  <1>1. UNCHANGED <<addr, status, key, completed, send_map, retry_in, recv_map,
                    running, outputs, retry_out, net, got, runs>>
    BY DEF Restart
  <1>2. Types'
    BY OtherTypes DEF NetInvariant
  <1>3. ~NoReturn'
    BY FaultCounts DEF NetInvariant, Restart
  <1>4. Tokens' = Tokens
    BY <1>1 DEF Tokens
  <1>5. Once' /\ Honest' /\ Fresh' /\ AtMostOnce' /\ Filed' /\ Apart'
    BY <1>1, <1>4 DEF NetInvariant, Once, Honest, CopyOK, Fresh, AtMostOnce, Filed, Apart, Live
  <1>6. NotStranded' /\ Tally'
    BY <1>3 DEF NotStranded, Tally, Calm
  <1> QED
    BY <1>2, <1>5, <1>6 DEF NetInvariant

\* SendIn preserves the invariant: every replica is skipped and counted, or has
\* one copy on its way.
LEMMA SendInInv ==
  ASSUME NetInvariant, NEW t \in Tasks, SendIn(t)
  PROVE  NetInvariant'
  <1>1. PICK skip \in SUBSET Reps(t) : Skips(t, skip)
    BY SendInSpawns DEF NetInvariant
  <1>2. /\ status[t] = "queued" /\ status' = [status EXCEPT ![t] = "waiting"]
        /\ send_map' = [send_map EXCEPT ![Origin[t]][key[t]] = t]
        /\ UNCHANGED <<up, addr, key, recv_map, running, outputs, retry_out, got, runs, count>>
    BY DEF SendIn
  <1>3. /\ DOMAIN status = Tasks /\ Origin[t] \in Nodes /\ key[t] \in Addresses
        /\ completed \in [Tasks -> Nat] /\ send_map \in [Nodes -> [Addresses -> Tasks \cup {None}]]
    BY NetAssumption DEF NetInvariant, Types
  <1>4. Types'
    BY SendInTypes DEF NetInvariant
  <1>5. completed[t] = 0 /\ got[t] = {} /\ \A i \in Reps(t) : runs[t][i] = 0
    BY <1>2 DEF NetInvariant, Fresh
  <1>6. \A z \in Tokens : z.copy.task # t /\ z.copy.task \in Tasks
    BY <1>2 DEF NetInvariant, Honest, CopyOK
  <1>7. ASSUME NEW z \in Tokens' \ Tokens
        PROVE  /\ z.at \in {"in", "held"} /\ z.copy.task = t /\ z.copy.rep \in Reps(t) \ skip
               /\ z.copy.key = key[t] /\ CopyOK(z.copy)
    <2>1. PICK i \in Reps(t) \ skip : z.copy = Copy(t, i, key[t])
      BY <1>1, <1>7 DEF Skips
    <2>2. z.at \in {"in", "held"}
      BY <1>1, <1>7 DEF Skips
    <2>3. CopyOK(z.copy)
      BY <1>3, <2>1, CopyType
    <2> QED
      BY <2>1, <2>2, <2>3 DEF Copy
  <1>8. Once'
    <2> SUFFICES ASSUME NEW z \in Tokens', NEW w \in Tokens', SameCopy(z.copy, w.copy)
                 PROVE  z = w
      BY DEF Once
    <2>1. CASE z \in Tokens /\ w \in Tokens
      BY <2>1 DEF NetInvariant, Once
    <2>2. CASE z \notin Tokens /\ w \notin Tokens
      BY <1>1, <2>2 DEF Skips, SameCopy
    <2>3. CASE (z \in Tokens) # (w \in Tokens)
      BY <1>6, <1>7, <2>3 DEF SameCopy
    <2> QED
      BY <2>1, <2>2, <2>3
  <1>9. Honest'
    <2> SUFFICES ASSUME NEW z \in Tokens'
                 PROVE  /\ CopyOK(z.copy) /\ z.copy.key = key[z.copy.task]
                        /\ status'[z.copy.task] \notin {"idle", "queued"}
                        /\ z.at \in {"in", "held", "running"} => runs[z.copy.task][z.copy.rep] = 0
                        /\ z.at = "out" => z.to = z.copy.from
      BY <1>2 DEF Honest, CopyOK
    <2>1. CASE z \in Tokens
      BY <1>2, <1>3, <1>6, <2>1 DEF NetInvariant, Honest
    <2>2. CASE z \notin Tokens
      BY <1>2, <1>3, <1>5, <1>7, <2>2
    <2> QED
      BY <2>1, <2>2
  <1>10. \A u \in Tasks : u # t => completed'[u] = completed[u] /\ status'[u] = status[u]
    BY <1>1, <1>2, <1>3 DEF Skips
  <1>11. Fresh' /\ AtMostOnce'
    BY <1>2, <1>3, <1>10 DEF NetInvariant, Fresh, AtMostOnce
  <1>12. Filed'
    <2> SUFFICES ASSUME NEW n \in Nodes, NEW b \in Addresses, send_map'[n][b] # None
                 PROVE  /\ Origin[send_map'[n][b]] = n /\ key[send_map'[n][b]] = b
                        /\ status'[send_map'[n][b]] = "waiting"
      BY <1>2 DEF Filed
    <2>1. CASE n = Origin[t] /\ b = key[t]
      BY <1>2, <1>3, <2>1
    <2>2. CASE ~(n = Origin[t] /\ b = key[t])
      <3>1. send_map'[n][b] = send_map[n][b]
        BY <1>2, <1>3, <2>2
      <3>2. /\ Origin[send_map[n][b]] = n /\ key[send_map[n][b]] = b
            /\ status[send_map[n][b]] = "waiting" /\ send_map[n][b] \in Tasks
        BY <3>1 DEF NetInvariant, Filed, Types
      <3> QED
        BY <1>2, <1>10, <3>1, <3>2
    <2> QED
      BY <2>1, <2>2
  <1>13. Apart'
    <2>1. \A u \in Tasks : Live(u)' => Live(u)
      BY <1>2, <1>3 DEF Live
    <2> QED
      BY <1>2, <2>1 DEF NetInvariant, Apart
  <1>14. completed'[t] = Cardinality(skip) /\ Cardinality(skip) \in Nat
    <2>1. Cardinality(skip) \in Nat
      BY RepsCount
    <2> QED
      BY <1>1, <1>3, <1>5, <2>1 DEF Skips
  <1>15. NotStranded'
    <2> SUFFICES ASSUME NoReturn, NEW u \in Tasks, status'[u] = "waiting", NetTimeout[u] = "default"
                 PROVE  completed'[u] < Len(Queries[u])
      BY <1>2 DEF NotStranded, NoReturn
    <2>1. CASE u = t
      <3>1. skip = {}
        BY <1>1, <2>1 DEF Skips
      <3> QED
        BY <1>14, <2>1, <3>1, FS_EmptySet, RepsFinite
    <2>2. CASE u # t
      BY <1>10, <2>2 DEF NetInvariant, NotStranded
    <2> QED
      BY <2>1, <2>2
  <1>16. \A u \in Tasks : u # t => Open(u)' \subseteq Open(u)
    BY <1>7 DEF Open
  <1>17. Open(t)' \subseteq Reps(t) \ skip
    BY <1>6, <1>7 DEF Open
  <1>18. Cardinality(skip) + Cardinality(Open(t)') <= Len(Queries[t])
    <2> DEFINE rest == Reps(t) \ skip
    <2>1. /\ IsFiniteSet(rest) /\ Cardinality(rest) \in Nat
          /\ Cardinality(Open(t)') \in Nat /\ Cardinality(Open(t)') <= Cardinality(rest)
      BY <1>17, RepsCount
    <2>2. IsFiniteSet(skip)
      BY RepsCount
    <2>3. Cardinality(rest \cup skip) = Cardinality(rest) + Cardinality(skip) - Cardinality(rest \cap skip)
      BY <2>1, <2>2, FS_Union
    <2>4. rest \cup skip = Reps(t) /\ rest \cap skip = {}
      OBVIOUS
    <2>5. Cardinality(Reps(t)) = Len(Queries[t]) /\ Len(Queries[t]) \in Nat
      BY RepsFinite
    <2>6. Cardinality({}) = 0
      BY FS_EmptySet
    <2>7. Len(Queries[t]) = Cardinality(rest) + Cardinality(skip)
      <3>1. Cardinality(rest \cup skip) = Len(Queries[t]) /\ Cardinality(rest \cap skip) = 0
        BY <2>4, <2>5, <2>6
      <3> HIDE DEF rest
      <3> QED
        BY <1>14, <2>1, <2>3, <2>5, <3>1
    <2> HIDE DEF rest
    <2> QED
      BY <1>14, <2>1, <2>5, <2>7
  <1>19. Tally'
    <2> SUFFICES ASSUME Calm', NEW u \in Tasks
                 PROVE  /\ status'[u] = "gone" => Origin[u] \notin up'
                        /\ \A c \in got'[u] : c.task = u
                        /\ Done(u)' \cap Open(u)' = {}
                        /\ completed'[u] + Cardinality(Open(u)') <= Len(Queries[u])
                        /\ NetTimeout[u] = "default" => completed'[u] <= Cardinality(Done(u)')
                        /\ status'[u] = "ok" => completed'[u] = Len(Queries[u])
      BY DEF Tally
    <2>1. Calm
      BY <1>2, <1>3 DEF Calm, NoTimeout, NoReturn
    <2>2. CASE u = t
      <3>1. Done(t)' = {}
        BY <1>2, <1>5 DEF Done
      <3>2. NetTimeout[t] = "default" => skip = {}
        BY <1>1 DEF Skips
      <3>3. status'[t] = "waiting"
        BY <1>2, <1>3
      <3>4. NetTimeout[t] = "default" => completed'[t] <= Cardinality(Done(t)')
        BY <1>14, <3>1, <3>2, FS_EmptySet
      <3> QED
        BY <1>2, <1>5, <1>14, <1>18, <2>2, <3>1, <3>3, <3>4
    <2>3. CASE u # t
      <3>1. /\ status[u] = "gone" => Origin[u] \notin up
            /\ \A c \in got[u] : c.task = u
            /\ Done(u) \cap Open(u) = {}
            /\ completed[u] + Cardinality(Open(u)) <= Len(Queries[u])
            /\ NetTimeout[u] = "default" => completed[u] <= Cardinality(Done(u))
            /\ status[u] = "ok" => completed[u] = Len(Queries[u])
        BY <2>1 DEF NetInvariant, Tally
      <3>2. Done(u)' = Done(u)
        BY <1>2 DEF Done
      <3>3. Open(u) \in SUBSET Reps(u) /\ Open(u)' \subseteq Open(u) /\ completed[u] \in Nat
        BY <1>3, <1>16, <2>3 DEF Open
      <3>4. /\ Cardinality(Open(u)') \in Nat /\ Cardinality(Open(u)) \in Nat
            /\ Cardinality(Open(u)') <= Cardinality(Open(u))
        BY <3>3, RepsCount
      <3>5. completed[u] + Cardinality(Open(u)') <= Len(Queries[u])
        BY <3>1, <3>3, <3>4, RepsFinite
      <3> QED
        BY <1>2, <1>10, <2>3, <3>1, <3>2, <3>3, <3>5
    <2> QED
      BY <2>2, <2>3
  <1> QED
    BY <1>4, <1>8, <1>9, <1>11, <1>12, <1>13, <1>15, <1>19 DEF NetInvariant

\* The answer that RecvOut aggregates was computed for the task it finds: a task
\* with a copy on its way has not ended, and no other live task of the node has
\* its address.
LEMMA AnswerFindsTask ==
  ASSUME NetInvariant, Calm, NEW msg \in net, RecvOut(msg),
         send_map[msg.to][msg.copy.key] \in Tasks
  PROVE  /\ msg.copy.task = send_map[msg.to][msg.copy.key]
         /\ msg.copy.rep \in Open(msg.copy.task)
  <1> DEFINE c == msg.copy
             x == Token("out", msg.to, msg.to, msg.copy)
             t == send_map[msg.to][c.key]
  <1>1. msg.to \in Nodes /\ msg.to \in up /\ c.key \in Addresses
    BY RecvOutDoes DEF NetInvariant
  <1>2. x \in Tokens /\ x.at = "out" /\ x.to = msg.to /\ x.copy = c
    BY RecvOutDrops, TokenParts DEF NetInvariant
  <1>3. /\ c.task \in Tasks /\ c.rep \in Reps(c.task) /\ c.from = Origin[c.task]
        /\ c.key = key[c.task] /\ status[c.task] \notin {"idle", "queued"} /\ msg.to = c.from
    BY <1>2 DEF NetInvariant, Honest, CopyOK
  <1>4. c.rep \in Open(c.task)
    BY <1>2, <1>3 DEF Open
  <1>5. status[c.task] # "ok"
    <2> SUFFICES ASSUME status[c.task] = "ok" PROVE FALSE
      OBVIOUS
    <2>1. /\ completed[c.task] = Len(Queries[c.task])
          /\ completed[c.task] + Cardinality(Open(c.task)) <= Len(Queries[c.task])
      BY <1>3 DEF NetInvariant, Tally
    <2>2. Open(c.task) \in SUBSET Reps(c.task)
      BY DEF Open
    <2>3. IsFiniteSet(Open(c.task)) /\ Cardinality(Open(c.task)) \in Nat
      BY <1>3, <2>2, RepsCount
    <2>4. Cardinality(Open(c.task)) = 0
      BY <1>3, <2>1, <2>3, RepsFinite
    <2> QED
      BY <1>4, <2>3, <2>4, FS_EmptySet
  <1>6. status[c.task] # "gone" /\ status[c.task] # "timeout"
    BY <1>1, <1>3 DEF NetInvariant, Tally, Calm, NoTimeout
  <1>7. Live(c.task)
    BY <1>3, <1>5, <1>6 DEF NetInvariant, Types, Live
  <1>8. Origin[t] = msg.to /\ key[t] = c.key /\ status[t] = "waiting"
    BY <1>1, NetAssumption DEF NetInvariant, Filed
  <1>9. c.task = t
    BY <1>3, <1>7, <1>8 DEF NetInvariant, Apart, Live
  <1> QED
    BY <1>4, <1>9

\* RecvOut preserves the invariant: it counts a replica that was open and is not
\* any more, and ends the task with the last one.
LEMMA RecvOutInv ==
  ASSUME NetInvariant, NEW msg \in net, RecvOut(msg)
  PROVE  NetInvariant'
  <1> DEFINE c == msg.copy
             n == msg.to
             x == Token("out", msg.to, msg.to, msg.copy)
             t == send_map[msg.to][msg.copy.key]
  <1>1. /\ n \in Nodes /\ n \in up /\ c.key \in Addresses
        /\ UNCHANGED <<got, completed, status, send_map>> \/ (t \in Tasks /\ Aggregated(n, c, t))
        /\ Types'
    BY RecvOutDoes DEF NetInvariant
  <1>2. UNCHANGED <<up, view, addr, key, retry_in, recv_map, running, outputs, retry_out, runs, count>>
    BY DEF RecvOut
  <1>3. /\ x \in Tokens /\ x.copy = c /\ Tokens' \subseteq Tokens \ {x}
    BY RecvOutDrops, TokenParts DEF NetInvariant
  <1>4. Shrinks /\ (NoReturn' => NoReturn)
    BY <1>2, <1>3 DEF Shrinks, NoReturn
  <1>5. CASE UNCHANGED <<got, completed, status, send_map>>
    BY <1>1, <1>2, <1>4, <1>5, CarryInv DEF Carries
  <1>6. CASE t \in Tasks /\ Aggregated(n, c, t)
    <2>1. /\ DOMAIN status = Tasks /\ completed \in [Tasks -> Nat]
          /\ got \in [Tasks -> SUBSET Copies] /\ None \notin Tasks
      BY NetAssumption DEF NetInvariant, Types
    <2>2. Origin[t] = n /\ key[t] = c.key /\ status[t] = "waiting"
      BY <1>1, <1>6, <2>1 DEF NetInvariant, Filed
    <2> HIDE DEF t
    <2>3. /\ got' = [got EXCEPT ![t] = @ \cup {c}]
          /\ completed'[t] = completed[t] + 1
          /\ \A u \in Tasks : u # t => completed'[u] = completed[u] /\ got'[u] = got[u] /\ status'[u] = status[u]
      BY <1>6, <2>1 DEF Aggregated
    <2>4. \/ /\ completed'[t] = Len(Queries[t]) /\ status'[t] = "ok"
             /\ send_map' = [send_map EXCEPT ![n][c.key] = None]
          \/ /\ completed'[t] # Len(Queries[t]) /\ status' = status /\ send_map' = send_map
      BY <1>6, <2>1 DEF Aggregated, LastAnswer
    <2>5. Once'
      BY <1>4, OnceCarried DEF NetInvariant
    <2>6. Honest'
      <3>1. \A u \in Tasks : status[u] \notin {"idle", "queued"} => status'[u] \notin {"idle", "queued"}
        BY <2>3, <2>4
      <3> QED
        BY <1>2, <1>4, <3>1, HonestCarried DEF NetInvariant, Carries
    <2>7. Fresh' /\ AtMostOnce'
      BY <1>2, <2>2, <2>3, <2>4 DEF NetInvariant, Fresh, AtMostOnce
    <2>8. NotStranded'
      <3> SUFFICES ASSUME NoReturn', NEW u \in Tasks, status'[u] = "waiting", NetTimeout[u] = "default"
                   PROVE  completed'[u] < Len(Queries[u])
        BY DEF NotStranded
      <3>1. CASE u = t
        <4>1. completed[t] < Len(Queries[t]) /\ completed[t] \in Nat
          BY <1>4, <1>6, <2>1, <2>2, <3>1 DEF NetInvariant, NotStranded
        <4>2. completed'[t] = completed[t] + 1 /\ completed'[t] # Len(Queries[t])
          BY <2>3, <2>4, <3>1
        <4> QED
          BY <1>6, <3>1, <4>1, <4>2, RepsFinite
      <3>2. CASE u # t
        BY <1>4, <2>3, <3>2 DEF NetInvariant, NotStranded
      <3> QED
        BY <3>1, <3>2
    <2>9. Filed'
      <3> SUFFICES ASSUME NEW m \in Nodes, NEW b \in Addresses, send_map'[m][b] # None
                   PROVE  /\ Origin[send_map'[m][b]] = m /\ key[send_map'[m][b]] = b
                          /\ status'[send_map'[m][b]] = "waiting"
        BY <1>2 DEF Filed
      <3>1. send_map'[m][b] = send_map[m][b]
        BY <1>1, <2>4, Unfile DEF NetInvariant
      <3>2. /\ Origin[send_map[m][b]] = m /\ key[send_map[m][b]] = b
            /\ status[send_map[m][b]] = "waiting" /\ send_map[m][b] \in Tasks
        BY <3>1 DEF NetInvariant, Filed, Types
      <3>3. CASE send_map[m][b] # t
        BY <2>3, <3>1, <3>2, <3>3
      <3>4. CASE send_map[m][b] = t
        <4>1. m = n /\ b = c.key
          BY <2>2, <3>2, <3>4
        <4>2. send_map' # [send_map EXCEPT ![n][c.key] = None]
          BY <1>1, <4>1, Unfile DEF NetInvariant
        <4> QED
          BY <2>4, <3>1, <3>2, <4>2
      <3> QED
        BY <3>3, <3>4
    <2>10. Apart'
      <3>1. \A u \in Tasks : Live(u)' => Live(u)
        BY <2>2, <2>3, <2>4 DEF Live
      <3> QED
        BY <1>2, <3>1 DEF NetInvariant, Apart
    <2>11. Tally'
      <3> SUFFICES ASSUME Calm', NEW u \in Tasks
                   PROVE  /\ status'[u] = "gone" => Origin[u] \notin up
                          /\ \A d \in got'[u] : d.task = u
                          /\ Done(u)' \cap Open(u)' = {}
                          /\ completed'[u] + Cardinality(Open(u)') <= Len(Queries[u])
                          /\ NetTimeout[u] = "default" => completed'[u] <= Cardinality(Done(u)')
                          /\ status'[u] = "ok" => completed'[u] = Len(Queries[u])
        BY <1>2 DEF Tally
      <3>1. Calm
        BY <1>4, <2>2, <2>3 DEF Calm, NoTimeout
      <3>2. /\ status[u] = "gone" => Origin[u] \notin up
            /\ \A d \in got[u] : d.task = u
            /\ Done(u) \cap Open(u) = {}
            /\ completed[u] + Cardinality(Open(u)) <= Len(Queries[u])
            /\ NetTimeout[u] = "default" => completed[u] <= Cardinality(Done(u))
            /\ status[u] = "ok" => completed[u] = Len(Queries[u])
        BY <3>1 DEF NetInvariant, Tally
      <3>3. /\ Open(u) \in SUBSET Reps(u) /\ Done(u) \in SUBSET Reps(u) /\ completed[u] \in Nat
            /\ Open(u)' \subseteq Open(u)
        BY <1>4, <2>1, OpenCarried DEF Open, Done
      <3>4. CASE u # t
        <4>1. Done(u)' = Done(u)
          BY <2>3, <3>4 DEF Done
        <4>2. /\ Cardinality(Open(u)') \in Nat /\ Cardinality(Open(u)) \in Nat
              /\ Cardinality(Open(u)') <= Cardinality(Open(u))
          BY <3>3, RepsCount
        <4>3. completed[u] + Cardinality(Open(u)') <= Len(Queries[u])
          BY <3>2, <3>3, <4>2, RepsFinite
        <4> QED
          BY <2>3, <3>2, <3>3, <3>4, <4>1, <4>3
      <3>5. CASE u = t
        <4>1. c.task = t /\ c.rep \in Open(u)
          BY <1>6, <3>1, <3>5, AnswerFindsTask DEF t
        <4>2. c.rep \notin Open(u)'
          <5> SUFFICES ASSUME NEW z \in Tokens', z.copy.task = u, z.copy.rep = c.rep PROVE FALSE
            BY DEF Open
          <5> QED
            BY <1>3, <3>5, <4>1 DEF NetInvariant, Once, SameCopy
        <4>3. Done(u)' = Done(u) \cup {c.rep}
          <5>1. got'[t] = got[t] \cup {c}
            BY <1>6, <2>1, <2>3
          <5>2. c.rep \in Reps(t)
            BY <3>3, <3>5, <4>1
          <5> QED
            BY <3>5, <4>1, <5>1, <5>2 DEF Done
        <4>4. c.rep \notin Done(u)
          BY <3>2, <3>5, <4>1
        <4>5. /\ IsFiniteSet(Done(u)) /\ Cardinality(Done(u)) \in Nat
              /\ IsFiniteSet(Open(u)) /\ Cardinality(Open(u)) \in Nat
          BY <3>3, <3>5, RepsCount
        <4>6. Cardinality(Done(u)') = Cardinality(Done(u)) + 1
          BY <4>3, <4>4, <4>5, FS_AddElement
        <4>7. /\ Cardinality(Open(u)') \in Nat
              /\ Cardinality(Open(u)') + 1 <= Cardinality(Open(u))
          <5>1. /\ IsFiniteSet(Open(u) \ {c.rep})
                /\ Cardinality(Open(u) \ {c.rep}) = Cardinality(Open(u)) - 1
            BY <4>1, <4>5, FS_RemoveElement
          <5>2. Open(u)' \subseteq Open(u) \ {c.rep}
            BY <3>3, <3>5, <4>2
          <5>3. /\ IsFiniteSet(Open(u)') /\ Cardinality(Open(u)') <= Cardinality(Open(u) \ {c.rep})
            BY <5>1, <5>2, FS_Subset
          <5>4. Cardinality(Open(u)') \in Nat
            BY <5>3, FS_CardinalityType
          <5> QED
            BY <4>5, <5>1, <5>3, <5>4
        <4>8. completed'[t] + Cardinality(Open(u)') <= Len(Queries[t])
          BY <2>3, <3>2, <3>3, <3>5, <4>5, <4>7, RepsFinite
        <4>9. NetTimeout[t] = "default" => completed'[t] <= Cardinality(Done(u)')
          BY <2>3, <3>2, <3>3, <3>5, <4>5, <4>6
        <4>10. \A d \in got'[t] : d.task = t
          <5>1. got'[t] = got[t] \cup {c}
            BY <1>6, <2>1, <2>3
          <5> QED
            BY <3>2, <3>5, <4>1, <5>1
        <4>11. Done(u)' \cap Open(u)' = {}
          BY <3>2, <3>3, <3>5, <4>2, <4>3
        <4>12. status'[t] # "gone" /\ (status'[t] = "ok" => completed'[t] = Len(Queries[t]))
          BY <2>2, <2>4
        <4> QED
          BY <3>5, <4>8, <4>9, <4>10, <4>11, <4>12
      <3> QED
        BY <3>4, <3>5
    <2> QED
      BY <1>1, <2>5, <2>6, <2>7, <2>8, <2>9, <2>10, <2>11 DEF NetInvariant
  <1> QED
    BY <1>1, <1>5, <1>6
-----------------------------------------------------------------------------
(* The theorems.                                                           *)

\* Nothing is sent at first.
LEMMA InitInv == Init => NetInvariant
  <1> SUFFICES ASSUME Init PROVE NetInvariant
    OBVIOUS
  <1>1. Tokens = {}
    <2> SUFFICES ASSUME NEW z \in Tokens PROVE FALSE
      OBVIOUS
    <2>1. net = {} /\ \A n \in Nodes : retry_in[n] = {} /\ running[n] = {} /\ outputs[n] = {} /\ retry_out[n] = {}
      BY DEF Init
    <2> QED
      BY <2>1, TokenCases DEF Tokens
  <1>2. Types
    <2>1. (CHOOSE a \in Addresses : TRUE) \in Addresses
      BY NetAssumption
    <2>2. key \in [Tasks -> Addresses]
      BY <2>1 DEF Init
    <2>3. /\ runs = [t \in Tasks |-> [i \in Reps(t) |-> 0]]
          /\ count \in [suspicions : Nat, crashes : Nat, restarts : Nat, moves : Nat, returns : Nat]
      BY DEF Init
    <2>4. \A n \in Nodes : IsFiniteSet(retry_in[n])
      BY FS_EmptySet DEF Init
    <2>5. addr \in [Nodes -> [Containers -> Nodes]]
      BY NetAssumption DEF Init
    <2> QED
      BY <2>2, <2>3, <2>4, <2>5 DEF Init, Types
  <1>3. Once /\ Honest
    BY <1>1 DEF Once, Honest
  <1>4. Fresh /\ AtMostOnce /\ Apart /\ NotStranded
    BY DEF Init, Fresh, AtMostOnce, Apart, Live, NotStranded
  <1>5. Filed
    BY DEF Init, Filed
  <1>6. Tally
    <2> SUFFICES ASSUME NEW t \in Tasks
                 PROVE  /\ status[t] \notin {"gone", "ok"} /\ got[t] = {}
                        /\ Done(t) = {} /\ Open(t) = {}
                        /\ completed[t] + Cardinality(Open(t)) <= Len(Queries[t])
                        /\ completed[t] <= Cardinality(Done(t))
      BY DEF Tally
    <2>1. status[t] = "idle" /\ got[t] = {} /\ completed[t] = 0
      BY DEF Init
    <2>2. Done(t) = {} /\ Open(t) = {}
      BY <1>1, <2>1 DEF Done, Open
    <2>3. Cardinality({}) = 0
      BY FS_EmptySet
    <2> QED
      BY <2>1, <2>2, <2>3, RepsFinite
  <1> QED
    BY <1>2, <1>3, <1>4, <1>5, <1>6 DEF NetInvariant

\* Every step preserves the invariant.
LEMMA NextInv == NetInvariant /\ [Next]_vars => NetInvariant'
  <1> SUFFICES ASSUME NetInvariant, [Next]_vars PROVE NetInvariant'
    OBVIOUS
  <1>1. ASSUME NEW t \in Tasks, SendIn(t) PROVE NetInvariant'
    BY <1>1, SendInInv
  <1>2. ASSUME NEW msg \in net, RecvIn(msg) PROVE NetInvariant'
    BY <1>2, RecvInInv
  <1>3. ASSUME NEW n \in Nodes, NEW c \in running[n], Execute(n, c) PROVE NetInvariant'
    BY <1>3, ExecuteInv
  <1>4. ASSUME NEW n \in Nodes, NEW c \in outputs[n], SendOut(n, c) PROVE NetInvariant'
    <2>1. c \in Copies
      BY <1>4 DEF NetInvariant, Types
    <2>2. (c \in outputs[n] /\ SendOut(n, c)) \/ (c \in retry_out[n] /\ RetryOut(n, c))
      BY <1>4
    <2> QED
      BY <2>1, <2>2, SendOutInv, Zenon
  <1>5. ASSUME NEW n \in Nodes, NEW e \in retry_in[n], RetryIn(n, e) PROVE NetInvariant'
    BY <1>5, RetryInInv
  <1>6. ASSUME NEW n \in Nodes, NEW c \in retry_out[n], RetryOut(n, c) PROVE NetInvariant'
    <2>1. c \in Copies
      BY <1>6 DEF NetInvariant, Types
    <2> QED
      BY <1>6, <2>1, SendOutInv
  <1>7. ASSUME NEW t \in Tasks, ScanSendMapTimeouts(t) PROVE NetInvariant'
    BY <1>7, ScanInv
  <1>8. ASSUME NEW msg \in net, RecvOut(msg) PROVE NetInvariant'
    BY <1>8, RecvOutInv
  <1>9. ASSUME NEW n \in Nodes, NEW m \in Nodes, RecvProbe(n, m) PROVE NetInvariant'
    BY <1>9, RecvProbeInv
  <1>10. ASSUME NEW t \in Tasks, Submit(t) PROVE NetInvariant'
    BY <1>10, SubmitInv
  <1>11. ASSUME NEW n \in Nodes, Crash(n) PROVE NetInvariant'
    BY <1>11, CrashInv
  <1>12. ASSUME NEW n \in Nodes, Restart(n) PROVE NetInvariant'
    BY <1>12, RestartInv
  <1>13. CASE \/ \E msg \in net : Lose(msg)
              \/ \E n, m \in Nodes : Suspect(n, m) \/ Trust(n, m)
              \/ \E n, m \in Nodes, c \in Containers : Recover(n, c, m)
    BY <1>13, BackgroundInv
  <1>14. CASE UNCHANGED vars
    <2>1. Tokens' = Tokens
      BY <1>14 DEF vars, Tokens
    <2>2. Types'
      BY <1>14 DEF vars, NetInvariant, Types
    <2>3. UNCHANGED <<up, status, key, send_map, got, runs, completed, count>> /\ (NoReturn' => NoReturn)
      BY <1>14 DEF vars, NoReturn
    <2> QED
      BY <2>1, <2>2, <2>3, CarryInv DEF Carries, Shrinks
  <1>15. CASE Next
    BY <1>1, <1>2, <1>3, <1>4, <1>5, <1>6, <1>7, <1>8, <1>9, <1>10, <1>11, <1>12, <1>13, <1>15
    DEF Next, Work, Detect
  <1> QED
    BY <1>14, <1>15

\* The invariant holds in every reachable state.
LEMMA Invariant == Spec => []NetInvariant
  BY InitInv, NextInv, PTL DEF Spec

\* For any number of nodes, tasks, replicas and faults: no copy of a task runs
\* twice although SendIn, RecvIn, the retry queues and the flush for a node that
\* returns all handle it, and a task whose replicas are all counted has ended.
THEOREM RunsOnce == Spec => []NetInv
  <1>1. NetInvariant => NetInv
    <2> SUFFICES ASSUME NetInvariant PROVE TypeOK
      BY DEF NetInvariant, NetInv
    <2>1. ASSUME NEW n \in Nodes, NEW c \in running[n] \cup outputs[n] \cup retry_out[n]
          PROVE  CopyOK(c)
      <3>1. \E z \in Tokens : z.copy = c
        BY TokenCases, TokenParts DEF Tokens
      <3> QED
        BY <3>1 DEF NetInvariant, Honest
    <2> QED
      BY <2>1 DEF NetInvariant, Types, TypeOK
  <1> QED
    BY <1>1, Invariant, PTL

\* For any number of nodes and tasks: RecvOut aggregates into a task only answers
\* that were computed for it, although it finds the task by an address that is
\* allocated again, as long as no task was given up and no node came back.
THEOREM AnswersFindTheirTask == Spec => []OwnResults
  <1>1. NetInvariant => OwnResults
    BY DEF NetInvariant, Tally, Calm, OwnResults
  <1> QED
    BY <1>1, Invariant, PTL

\* For any number of nodes and replicas: RecvOut ends a task without an error
\* only with an answer of every replica, as long as no task was given up and no
\* node came back.
THEOREM AllAnswered == Spec => []CompleteMeansAll
  <1>1. NetInvariant => CompleteMeansAll
    <2> SUFFICES ASSUME NetInvariant, Calm, NEW t \in Tasks, status[t] = "ok",
                        NetTimeout[t] = "default", NEW i \in Reps(t)
                 PROVE  \E c \in got[t] : c.task = t /\ c.rep = i
      BY DEF CompleteMeansAll, Calm
    <2>1. completed[t] = Len(Queries[t]) /\ completed[t] <= Cardinality(Done(t))
      BY DEF NetInvariant, Tally
    <2>2. Done(t) \in SUBSET Reps(t)
      BY DEF Done
    <2>3. Cardinality(Done(t)) = Len(Queries[t])
      BY <2>1, <2>2, RepsCount, RepsFinite
    <2>4. i \in Done(t)
      BY <2>2, <2>3, RepsCount
    <2> QED
      BY <2>4 DEF Done
  <1> QED
    BY <1>1, Invariant, PTL
=============================================================================
