---------------------------- MODULE WorkerProofs ----------------------------
(***************************************************************************)
(* Proofs about Worker, for any number of workers and tasks and any        *)
(* handlers that are Sequential: a coroutine is in one place at a time,    *)
(* runs where its subtasks report to, goes on where it was suspended and   *)
(* never passes a subtask that has not ended.                              *)
(***************************************************************************)
EXTENDS Worker, SequenceTheorems, FiniteSetTheorems, TLAPS

-----------------------------------------------------------------------------
(* The inductive invariant.                                                *)

\* at says in what kind of place every task is and on of which worker, and they
\* are right about all queues.
Kinds == {"none", "lane", "timed", "blocked", "retry", "cur", "net"}
Holds(q, t) == \E i \in 1 .. Len(q) : q[i] = t
Located(at, on) ==
  /\ at \in [Tasks -> Kinds] /\ on \in [Tasks -> Workers]
  /\ \A t \in Tasks : t \in net <=> at[t] = "net"
  /\ \A t \in Tasks, w \in Workers :
       /\ Holds(lane[w], t) <=> at[t] = "lane" /\ on[t] = w
       /\ t \in timed[w] <=> at[t] = "timed" /\ on[t] = w
       /\ t \in blocked[w] <=> at[t] = "blocked" /\ on[t] = w
       /\ t \in retry[w] <=> at[t] = "retry" /\ on[t] = w
       /\ cur[w] = t <=> at[t] = "cur" /\ on[t] = w

\* A task is somewhere exactly if it was sent, has not ended and does not await
\* a subtask.
Accounted(at) ==
  \A t \in Tasks :
    at[t] = "none" <=> (phase[t] # "pending" \/ ctx[t].waits = "future")

\* No lane holds a task twice or more tasks than fit.
NoRepeats(q) == \A i, j \in 1 .. Len(q) : q[i] = q[j] => i = j
LanesApart == \A w \in Workers : Len(lane[w]) <= LaneDepth /\ NoRepeats(lane[w])

Running(t) == \E w \in Workers : cur[w] = t

\* The operation a handler has reached.
Reached(t, name) ==
  ctx[t].pc \in 1 .. Len(Program[t]) /\ Program[t][ctx[t].pc].op = name

\* The RunContext of a coroutine agrees with where it is.
Coroutine(t) ==
  /\ phase[t] = "new" => ctx[t] = NewContext
  /\ Running(t) => ctx[t].started /\ ctx[t].waits = "no" /\ ctx[t].pc >= 1
  /\ phase[t] = "pending" /\ ~Running(t) => (ctx[t].started <=> ctx[t].waits # "no")
  /\ ctx[t].waits = "timer" => Reached(t, "yield")
  /\ ctx[t].waits = "future" => Reached(t, "await") /\ ctx[t].worker \in Workers
  /\ \A w \in Workers :
       /\ t \in timed[w] \/ t \in blocked[w] \/ t \in retry[w] \/ cur[w] = t
            => ctx[t].worker = w
       /\ t \in retry[w] => t \in Movable
  /\ t \in net => t \in Movable
Coroutines == \A t \in Tasks : Coroutine(t)

\* A subtask that will report has a parent at the co_await for it, suspended or
\* about to be.
Reports(s) ==
  ctx[s].parent # None /\ s \notin FireForget /\ phase[s] \in {"pending", "ended"}
Families ==
  \A s \in Tasks :
    /\ Reports(s) =>
         LET p == ctx[s].parent
         IN /\ phase[p] = "pending"
            /\ Reached(p, "await") /\ Program[p][ctx[p].pc].sub = s
            /\ Running(p) \/ ctx[p].waits = "future"
    /\ phase[s] = "ended" => Reports(s)
    /\ s \in Roots => ctx[s].parent = None

\* A handler at a co_await has sent the subtask, which has not been awaited yet.
Awaiting ==
  \A p \in Tasks :
    phase[p] = "pending" /\ Reached(p, "await") /\ (Running(p) \/ ctx[p].waits = "future") =>
      LET s == Program[p][ctx[p].pc].sub
      IN /\ s \in Tasks
         /\ s \notin FireForget => Reports(s) /\ ctx[s].parent = p
         /\ ctx[p].waits = "future" => s \notin FireForget

\* A report is in the event queue of the worker its parent belongs to, once.
Events ==
  \A w \in Workers :
    /\ NoRepeats(event[w])
    /\ \A s \in Tasks : Holds(event[w], s) =>
         phase[s] = "ended" /\ ctx[ctx[s].parent].worker = w

State == TypeOK /\ LanesApart /\ Coroutines /\ Families /\ Awaiting /\ Events
Placed == \E at, on : Located(at, on) /\ Accounted(at)
Inv == State /\ Placed

-----------------------------------------------------------------------------
(* Facts about the constants and the queues.                               *)

\* What an operation of a handler is.
LEMMA OpFacts ==
  ASSUME NEW t \in Tasks
  PROVE  /\ Program[t] \in Seq(Ops) /\ Len(Program[t]) \in Nat
         /\ \A i \in 1 .. Len(Program[t]) : Program[t][i] \in Ops
         /\ \A o \in Ops : o.op \in {"send", "await", "poll"} => o.sub \in Tasks
         /\ \A s : /\ Send(s).op = "send" /\ Send(s).sub = s
                   /\ Await(s).op = "await" /\ Await(s).sub = s
  <1>1. Program[t] \in Seq(Ops)
    BY WorkerAssumption
  <1>2. \A o \in Ops : o.op \in {"send", "await", "poll"} => o.sub \in Tasks
    BY DEF Ops, Send, Await, Poll, Yield, YieldNow
  <1>3. \A s : /\ Send(s).op = "send" /\ Send(s).sub = s
               /\ Await(s).op = "await" /\ Await(s).sub = s
    BY DEF Send, Await
  <1> QED
    BY <1>1, <1>2, <1>3, LenProperties, ElementOfSeq

\* What Sequential says of one operation.
LEMMA SequentialOp ==
  ASSUME Sequential, NEW t \in Tasks, NEW i \in 1 .. Len(Program[t])
  PROVE  /\ Program[t][i].op \in {"send", "await", "yield"}
         /\ Program[t][i].op \in {"send", "await"} => Program[t][i].sub \in Tasks
         /\ Program[t][i].op = "send" =>
              /\ Program[t][i].sub \notin Roots
              /\ Program[t][i].sub \notin FireForget =>
                   /\ i + 1 \in 1 .. Len(Program[t])
                   /\ Program[t][i + 1].op = "await"
                   /\ Program[t][i + 1].sub = Program[t][i].sub
         /\ Program[t][i].op = "await" =>
              /\ i - 1 \in 1 .. Len(Program[t])
              /\ Program[t][i - 1].op = "send"
              /\ Program[t][i - 1].sub = Program[t][i].sub
         /\ Program[t][i].op = "yield" => t \notin Movable
  BY OpFacts DEF Sequential

\* A sequence that lost its first element.
LEMMA TailFacts ==
  ASSUME NEW S, NEW q \in Seq(S), q # <<>>
  PROVE  /\ Len(q) \in Nat \ {0} /\ Head(q) = q[1] /\ q[1] \in S
         /\ Tail(q) \in Seq(S) /\ Len(Tail(q)) = Len(q) - 1
         /\ \A i \in 1 .. Len(q) - 1 : Tail(q)[i] = q[i + 1]
  BY HeadTailProperties, LenProperties, ElementOfSeq, EmptySeq

\* A sequence with one element more.
LEMMA AppendFacts ==
  ASSUME NEW S, NEW q \in Seq(S), NEW x \in S
  PROVE  /\ Len(q) \in Nat
         /\ Append(q, x) \in Seq(S) /\ Len(Append(q, x)) = Len(q) + 1
         /\ Append(q, x)[Len(q) + 1] = x
         /\ \A i \in 1 .. Len(q) : Append(q, x)[i] = q[i]
  BY AppendProperties, LenProperties

\* What a queue holds after its first element was taken.
LEMMA HoldsTail ==
  ASSUME NEW S, NEW q \in Seq(S), q # <<>>, NoRepeats(q)
  PROVE  /\ Head(q) \in S /\ Holds(q, Head(q)) /\ Tail(q) \in Seq(S)
         /\ NoRepeats(Tail(q)) /\ Len(Tail(q)) <= Len(q) /\ Len(q) \in Nat
         /\ \A u : Holds(Tail(q), u) <=> Holds(q, u) /\ u # Head(q)
  <1>0. /\ Len(q) \in Nat \ {0} /\ Head(q) = q[1] /\ q[1] \in S
        /\ Tail(q) \in Seq(S) /\ Len(Tail(q)) = Len(q) - 1
        /\ \A i \in 1 .. Len(q) - 1 : Tail(q)[i] = q[i + 1]
    BY TailFacts
  <1>1. Holds(q, Head(q))
    BY <1>0 DEF Holds
  <1>2. NoRepeats(Tail(q))
    BY <1>0 DEF NoRepeats
  <1>3. ASSUME NEW u, Holds(Tail(q), u) PROVE Holds(q, u) /\ u # Head(q)
    <2>1. PICK i \in 1 .. Len(q) - 1 : Tail(q)[i] = u
      BY <1>0, <1>3 DEF Holds
    <2>2. q[i + 1] = u /\ i + 1 \in 1 .. Len(q) /\ i + 1 # 1 /\ 1 \in 1 .. Len(q)
      BY <1>0, <2>1
    <2> QED
      BY <1>0, <2>2 DEF Holds, NoRepeats
  <1>4. ASSUME NEW u, Holds(q, u), u # Head(q) PROVE Holds(Tail(q), u)
    <2>1. PICK i \in 1 .. Len(q) : q[i] = u
      BY <1>4 DEF Holds
    <2>2. i - 1 \in 1 .. Len(q) - 1 /\ Tail(q)[i - 1] = u
      BY <1>0, <1>4, <2>1
    <2> QED
      BY <1>0, <2>2 DEF Holds
  <1> QED
    BY <1>0, <1>1, <1>2, <1>3, <1>4

\* What a queue holds after one element was added.
LEMMA HoldsAppend ==
  ASSUME NEW S, NEW q \in Seq(S), NEW x \in S, NoRepeats(q), ~Holds(q, x)
  PROVE  /\ Append(q, x) \in Seq(S) /\ NoRepeats(Append(q, x))
         /\ Len(q) \in Nat /\ Len(Append(q, x)) = Len(q) + 1
         /\ \A u : Holds(Append(q, x), u) <=> Holds(q, u) \/ u = x
  <1>0. /\ Len(q) \in Nat
        /\ Append(q, x) \in Seq(S) /\ Len(Append(q, x)) = Len(q) + 1
        /\ Append(q, x)[Len(q) + 1] = x
        /\ \A i \in 1 .. Len(q) : Append(q, x)[i] = q[i]
    BY AppendFacts
  <1>1. NoRepeats(Append(q, x))
    BY <1>0 DEF NoRepeats, Holds
  <1>2. \A u : Holds(Append(q, x), u) <=> Holds(q, u) \/ u = x
    BY <1>0 DEF Holds
  <1> QED
    BY <1>0, <1>1, <1>2

\* An empty queue holds nothing.
LEMMA HoldsEmpty == NoRepeats(<<>>) /\ \A u : ~Holds(<<>>, u)
  BY DEF NoRepeats, Holds

-----------------------------------------------------------------------------
(* Initial states.                                                         *)

\* Nothing was sent: the invariant holds.
LEMMA InitInv == Init => Inv
  <1> SUFFICES ASSUME Init PROVE Inv
    OBVIOUS
  <1> DEFINE at == [t \in Tasks |-> "none"]
             on == [t \in Tasks |-> SchedWorker]
  <1>0. NewContext \in Contexts
    BY DEF NewContext, Contexts
  <1>1. TypeOK
    <2>1. phase \in [Tasks -> Phases] /\ ctx \in [Tasks -> Contexts]
      BY <1>0 DEF Init, Phases
    <2>2. lane \in [Workers -> Seq(Tasks)] /\ event \in [Workers -> Seq(Tasks)]
      BY EmptySeq DEF Init
    <2>3. /\ timed \in [Workers -> SUBSET Tasks] /\ blocked \in [Workers -> SUBSET Tasks]
          /\ retry \in [Workers -> SUBSET Tasks] /\ net \subseteq Tasks
      BY DEF Init
    <2>4. /\ cur \in [Workers -> Tasks \cup {None}] /\ moves \in 0 .. MaxMoves
          /\ container \in {"here", "plugged", "stuck", "away", "absent"}
      BY WorkerAssumption DEF Init
    <2> QED
      BY <2>1, <2>2, <2>3, <2>4 DEF TypeOK
  <1>2. LanesApart
    BY HoldsEmpty, WorkerAssumption, EmptySeq DEF Init, LanesApart
  <1>3. \A t \in Tasks : ctx[t] = NewContext /\ phase[t] = "new" /\ ~Running(t)
    BY WorkerAssumption DEF Init, Running
  <1>4. Coroutines
    BY <1>3, WorkerAssumption DEF Init, NewContext, Coroutines, Coroutine
  <1>5. Families /\ Awaiting
    BY <1>3 DEF NewContext, Families, Awaiting, Reports
  <1>6. Events
    BY HoldsEmpty DEF Init, Events
  <1>7. Located(at, on)
    BY HoldsEmpty, WorkerAssumption DEF Init, Located, Kinds
  <1>8. Accounted(at)
    BY <1>3 DEF Accounted
  <1> QED
    BY <1>1, <1>2, <1>4, <1>5, <1>6, <1>7, <1>8 DEF Inv, State, Placed

-----------------------------------------------------------------------------
(* Steps that take one task from its place to another.                     *)

\* t is at a place of kind k of worker h afterwards; the others stay.
Relocates(t, k, h) ==
  /\ \A u \in Tasks : u # t => (u \in net' <=> u \in net)
  /\ \A u \in Tasks, w \in Workers : u # t =>
       /\ Holds(lane'[w], u) <=> Holds(lane[w], u)
       /\ u \in timed'[w] <=> u \in timed[w]
       /\ u \in blocked'[w] <=> u \in blocked[w]
       /\ u \in retry'[w] <=> u \in retry[w]
       /\ cur'[w] = u <=> cur[w] = u
  /\ t \in net' <=> k = "net"
  /\ \A w \in Workers :
       /\ Holds(lane'[w], t) <=> k = "lane" /\ h = w
       /\ t \in timed'[w] <=> k = "timed" /\ h = w
       /\ t \in blocked'[w] <=> k = "blocked" /\ h = w
       /\ t \in retry'[w] <=> k = "retry" /\ h = w
       /\ cur'[w] = t <=> k = "cur" /\ h = w

\* The places are those of before, but for t.
LEMMA Relocated ==
  ASSUME NEW at, NEW on, Located(at, on),
         NEW t \in Tasks, NEW k \in Kinds, NEW h \in Workers, Relocates(t, k, h)
  PROVE  Located([at EXCEPT ![t] = k], [on EXCEPT ![t] = h])'
  BY DEF Located, Relocates

\* The task that moved is the only one that may begin or cease to run.
LEMMA RunningOthers ==
  ASSUME NEW t \in Tasks, NEW k, NEW h \in Workers, Relocates(t, k, h)
  PROVE  /\ \A u \in Tasks : u # t => (Running(u)' <=> Running(u))
         /\ Running(t)' <=> k = "cur"
  BY DEF Relocates, Running

\* The RunContexts of the tasks that did not move agree with their places.
LEMMA CoroutineOthers ==
  ASSUME NEW t \in Tasks, NEW k, NEW h \in Workers, Relocates(t, k, h),
         NEW u \in Tasks, u # t, ctx'[u] = ctx[u], phase'[u] = phase[u], Coroutine(u)
  PROVE  Coroutine(u)'
  <1>1. Running(u)' <=> Running(u)
    BY RunningOthers
  <1>2. \A name : Reached(u, name)' <=> Reached(u, name)
    BY DEF Reached
  <1> QED
    BY <1>1, <1>2 DEF Coroutine, Relocates

\* No subtask will report to t.
Childless(t) == \A s \in Tasks : Reports(s) => ctx[s].parent # t

\* Only a task at a co_await has a subtask that reports to it.
LEMMA NoChildren ==
  ASSUME State, NEW t \in Tasks,
         (~Running(t) /\ ctx[t].waits # "future") \/ ~Reached(t, "await")
  PROVE  Childless(t)
  BY DEF State, Families, Childless

\* The parent of a task that reports is a task.
LEMMA ParentIsTask ==
  ASSUME TypeOK, NEW s \in Tasks, Reports(s)
  PROVE  ctx[s].parent \in Tasks /\ ctx[s].parent # None
  BY DEF TypeOK, Contexts, Reports

\* A task that was sent and has no subtask that reports to it goes to another
\* place, to run there or to be suspended.
LEMMA Passed ==
  ASSUME Inv, TypeOK', LanesApart',
         NEW t \in Tasks, NEW k \in Kinds \ {"none"}, NEW h \in Workers,
         NEW n \in Contexts,
         Relocates(t, k, h), phase' = phase, event' = event,
         ctx' = [ctx EXCEPT ![t] = n],
         phase[t] = "pending", Childless(t),
         n.parent = ctx[t].parent, n.waits # "future",
         k = "cur" => ~(n.pc \in 1 .. Len(Program[t]) /\ Program[t][n.pc].op = "await"),
         Coroutine(t)'
  PROVE  Inv'
  <1> USE DEF Inv, State
  <1>0. ctx'[t] = n /\ \A u \in Tasks : u # t => ctx'[u] = ctx[u]
    BY DEF TypeOK
  <1>1. Coroutines'
    BY <1>0, CoroutineOthers DEF Coroutines
  <1>2. /\ \A u \in Tasks : u # t => (Running(u)' <=> Running(u))
        /\ Running(t)' <=> k = "cur"
    BY RunningOthers
  <1>3. \A u \in Tasks : ctx'[u].parent = ctx[u].parent /\ (Reports(u)' <=> Reports(u))
    BY <1>0 DEF Reports
  <1>4. \A u \in Tasks : \A name : u # t => (Reached(u, name)' <=> Reached(u, name))
    BY <1>0 DEF Reached
  <1>5. Families'
    <2> SUFFICES ASSUME NEW s \in Tasks
                 PROVE  /\ Reports(s)' =>
                             LET p == ctx[s].parent
                             IN /\ phase[p] = "pending"
                                /\ Reached(p, "await")' /\ Program[p][ctx'[p].pc].sub = s
                                /\ Running(p)' \/ ctx'[p].waits = "future"
                        /\ phase[s] = "ended" => Reports(s)'
                        /\ s \in Roots => ctx[s].parent = None
      BY <1>3 DEF Families
    <2>1. ASSUME Reports(s)' PROVE ctx[s].parent \in Tasks /\ ctx[s].parent # t
      BY <1>3, <2>1, ParentIsTask DEF Childless
    <2> QED
      BY <1>0, <1>2, <1>3, <1>4, <2>1 DEF Families
  <1>6. Awaiting'
    <2> SUFFICES ASSUME NEW p \in Tasks, phase[p] = "pending", Reached(p, "await")',
                        Running(p)' \/ ctx'[p].waits = "future",
                        NEW s, s = Program[p][ctx'[p].pc].sub
                 PROVE  /\ s \in Tasks
                        /\ s \notin FireForget => Reports(s)' /\ ctx'[s].parent = p
                        /\ ctx'[p].waits = "future" => s \notin FireForget
      BY DEF Awaiting
    <2>1. p # t
      BY <1>0, <1>2 DEF Reached
    <2> QED
      BY <1>0, <1>2, <1>3, <1>4, <2>1 DEF Awaiting
  <1>7. Events'
    <2>1. ASSUME NEW w \in Workers, NEW s \in Tasks, Holds(event[w], s)
          PROVE  ctx'[ctx'[s].parent].worker = w
      <3>1. phase[s] = "ended" /\ ctx[ctx[s].parent].worker = w
        BY <2>1 DEF Events
      <3>2. Reports(s)
        BY <3>1 DEF Families
      <3> QED
        BY <1>0, <1>3, <3>1, <3>2, ParentIsTask DEF Childless
    <2> QED
      BY <2>1 DEF Events
  <1>8. Placed'
    <2>1. PICK at, on : Located(at, on) /\ Accounted(at)
      BY DEF Placed
    <2>2. Located([at EXCEPT ![t] = k], [on EXCEPT ![t] = h])'
      BY <2>1, Relocated
    <2>3. Accounted([at EXCEPT ![t] = k])'
      BY <1>0, <2>1 DEF Accounted, Located
    <2> QED
      BY <2>2, <2>3 DEF Placed
  <1> QED
    BY <1>1, <1>5, <1>6, <1>7, <1>8

-----------------------------------------------------------------------------
(* Routing.                                                                *)

\* A RunContext, field by field.
LEMMA ContextFacts ==
  ASSUME NEW c \in Contexts
  PROVE  /\ c.worker \in Workers \cup {None} /\ c.parent \in Tasks \cup {None}
         /\ c.pc \in Nat /\ c.started \in BOOLEAN /\ c.routed \in BOOLEAN
         /\ c.waits \in {"no", "future", "timer"}
  BY DEF Contexts

\* n is the RunContext with which ExecTask runs t.
Begins(t, c, n) ==
  \/ ctx[t].started /\ n = [Resumed(t) EXCEPT !.routed = c.routed, !.worker = c.worker]
  \/ ~ctx[t].started /\ n = [Started(t) EXCEPT !.routed = c.routed, !.worker = c.worker]

\* A coroutine that runs has not reached a co_await yet.
LEMMA ExecContext ==
  ASSUME Sequential, State, NEW t \in Tasks, NEW c \in Contexts,
         phase[t] = "pending", ~Running(t), ctx[t].waits # "future", NEW n, Begins(t, c, n)
  PROVE  /\ n \in Contexts /\ n.waits = "no" /\ n.started /\ n.pc >= 1
         /\ n.worker = c.worker /\ n.parent = ctx[t].parent
         /\ n.pc \in 1 .. Len(Program[t]) => Program[t][n.pc].op # "await"
  <1>0. ctx[t] \in Contexts
    BY DEF State, TypeOK
  <1>1. c.routed \in BOOLEAN /\ c.worker \in Workers \cup {None}
    BY ContextFacts
  <1>2. CASE ctx[t].started /\ n = [Resumed(t) EXCEPT !.routed = c.routed, !.worker = c.worker]
    <2>1. ctx[t].waits = "timer" /\ Reached(t, "yield")
      BY <1>0, <1>2, ContextFacts DEF State, Coroutines, Coroutine
    <2>2. /\ ctx[t].pc \in 1 .. Len(Program[t]) /\ Program[t][ctx[t].pc].op = "yield"
          /\ Len(Program[t]) \in Nat /\ ctx[t].pc \in Nat
      BY <1>0, <2>1, OpFacts, ContextFacts DEF Reached
    <2>3. n = [ctx[t] EXCEPT !.waits = "no", !.pc = @ + 1,
                             !.routed = c.routed, !.worker = c.worker]
      BY <1>0, <1>2, <2>1, <2>2 DEF Resumed, Contexts
    <2>4. /\ n \in Contexts /\ n.waits = "no" /\ n.started /\ n.pc = ctx[t].pc + 1
          /\ n.worker = c.worker /\ n.parent = ctx[t].parent
      <3>1. ctx[t].pc + 1 \in Nat
        BY <2>2
      <3>2. n.waits = "no" /\ n.pc = ctx[t].pc + 1 /\ n.worker = c.worker /\ n.parent = ctx[t].parent
        BY <1>0, <2>3 DEF Contexts
      <3>3. n.started = ctx[t].started
        BY <1>0, <2>3 DEF Contexts
      <3>4. n \in Contexts
        BY <1>0, <1>1, <2>3, <3>1 DEF Contexts
      <3> QED
        BY <1>2, <3>2, <3>3, <3>4
    <2>5. ASSUME n.pc \in 1 .. Len(Program[t]), Program[t][n.pc].op = "await" PROVE FALSE
      <3>1. n.pc - 1 = ctx[t].pc
        BY <2>2, <2>4
      <3>2. Program[t][n.pc - 1].op = "send"
        BY <2>5, SequentialOp
      <3> QED
        BY <2>2, <3>1, <3>2
    <2> QED
      BY <2>2, <2>4, <2>5
  <1>3. CASE ~ctx[t].started /\ n = [Started(t) EXCEPT !.routed = c.routed, !.worker = c.worker]
    <2> DEFINE m == [ctx[t] EXCEPT !.started = TRUE]
    <2>0. m \in Contexts /\ m.started /\ m.parent = ctx[t].parent
      BY <1>0, Zenon DEF Contexts
    <2>1. n = [m EXCEPT !.waits = "no", !.pc = 1, !.routed = c.routed, !.worker = c.worker]
      BY <1>0, <1>3 DEF Started, Contexts
    <2> HIDE DEF m
    <2>2. /\ n \in Contexts /\ n.waits = "no" /\ n.started /\ n.pc = 1
          /\ n.worker = c.worker /\ n.parent = ctx[t].parent
      <3>2. n.waits = "no" /\ n.pc = 1 /\ n.worker = c.worker /\ n.parent = ctx[t].parent
        BY <2>0, <2>1 DEF Contexts
      <3>3. n.started = m.started
        BY <2>0, <2>1 DEF Contexts
      <3>4. n \in Contexts
        BY <2>0, <1>1, <2>1 DEF Contexts
      <3> QED
        BY <2>0, <3>2, <3>3, <3>4
    <2>3. ASSUME 1 \in 1 .. Len(Program[t]), Program[t][1].op = "await" PROVE FALSE
      <3>1. 1 - 1 \in 1 .. Len(Program[t])
        BY <2>3, SequentialOp
      <3> QED
        BY <3>1, OpFacts
    <2> QED
      BY <2>2, <2>3
  <1> QED
    BY <1>2, <1>3 DEF Begins

\* ExecTask runs a task that it took out of a queue of its worker.
LEMMA Executed ==
  ASSUME Sequential, Inv, LanesApart',
         NEW w \in Workers, NEW t \in Tasks, NEW c \in Contexts, NEW n,
         phase[t] = "pending", ~Running(t), ctx[t].waits # "future",
         c.worker = w, Begins(t, c, n), Relocates(t, "cur", w),
         ctx' = [ctx EXCEPT ![t] = n], cur' = [cur EXCEPT ![w] = t],
         lane' \in [Workers -> Seq(Tasks)], timed' \in [Workers -> SUBSET Tasks],
         blocked' \in [Workers -> SUBSET Tasks], retry' \in [Workers -> SUBSET Tasks],
         UNCHANGED <<phase, event, net, container, moves>>
  PROVE  Inv'
  <1>1. /\ n \in Contexts /\ n.waits = "no" /\ n.started /\ n.pc >= 1
        /\ n.worker = w /\ n.parent = ctx[t].parent
        /\ n.pc \in 1 .. Len(Program[t]) => Program[t][n.pc].op # "await"
    <2>1. State
      BY DEF Inv
    <2> QED
      BY <2>1, ExecContext
  <1>3. TypeOK'
    BY <1>1 DEF Inv, State, TypeOK
  <1>4. ctx'[t] = n
    BY DEF Inv, State, TypeOK
  <1>5. Running(t)'
    BY RunningOthers
  <1>6. Coroutine(t)'
    BY <1>1, <1>4, <1>5 DEF Coroutine, Relocates
  <1>7. "cur" \in Kinds \ {"none"}
    BY DEF Kinds
  <1>8. Childless(t)
    BY NoChildren DEF Inv
  <1> QED
    BY <1>1, <1>3, <1>6, <1>7, <1>8, Passed

\* A task that does not run stays suspended, or new, somewhere else.
LEMMA Forwarded ==
  ASSUME Inv, LanesApart',
         NEW w \in Workers, NEW t \in Tasks, NEW n \in Contexts, NEW k \in {"lane", "retry", "net"},
         phase[t] = "pending", ~Running(t), ctx[t].waits # "future",
         k # "lane" => t \in Movable /\ n.worker = w,
         n.parent = ctx[t].parent, n.waits = ctx[t].waits, n.pc = ctx[t].pc,
         n.started = ctx[t].started,
         ctx' = [ctx EXCEPT ![t] = n], Relocates(t, k, w),
         lane' \in [Workers -> Seq(Tasks)], timed' \in [Workers -> SUBSET Tasks],
         blocked' \in [Workers -> SUBSET Tasks], retry' \in [Workers -> SUBSET Tasks],
         net' \subseteq Tasks,
         UNCHANGED <<phase, cur, event, container, moves>>
  PROVE  Inv'
  <1>1. TypeOK'
    BY DEF Inv, State, TypeOK
  <1>2. ctx'[t] = n
    BY DEF Inv, State, TypeOK
  <1>3. ~Running(t)'
    BY RunningOthers
  <1>4. Coroutine(t)
    BY DEF Inv, State, Coroutines
  <1>5. \A name : Reached(t, name)' <=> Reached(t, name)
    BY <1>2 DEF Reached
  <1>6. Coroutine(t)'
    <2>1. phase'[t] = "new" => ctx'[t] = NewContext
      OBVIOUS
    <2>2. \A v \in Workers : t \notin timed'[v] /\ t \notin blocked'[v] /\ cur'[v] # t
      BY DEF Relocates
    <2>3. \A v \in Workers : t \in retry'[v] => k = "retry" /\ v = w
      BY DEF Relocates
    <2>4. t \in net' => k = "net"
      BY DEF Relocates
    <2> QED
      BY <1>2, <1>3, <1>4, <1>5, <2>1, <2>2, <2>3, <2>4 DEF Coroutine
  <1>7. k \in Kinds \ {"none"} /\ k # "cur"
    BY DEF Kinds
  <1>8. Childless(t)
    BY NoChildren DEF Inv
  <1> QED
    BY <1>1, <1>2, <1>6, <1>7, <1>8, Passed

\* t left the queues of its worker and is nowhere else.
Vacated(t) ==
  /\ \A u \in Tasks, v \in Workers : u # t =>
       /\ Holds(lane'[v], u) <=> Holds(lane[v], u)
       /\ u \in timed'[v] <=> u \in timed[v]
       /\ u \in blocked'[v] <=> u \in blocked[v]
  /\ \A v \in Workers :
       /\ ~Holds(lane'[v], t) /\ t \notin timed'[v] /\ t \notin blocked'[v]
       /\ t \notin retry[v] /\ cur[v] # t
  /\ t \notin net

\* RouteTask runs the task, keeps it or hands it to the network.
LEMMA Routed ==
  ASSUME Sequential, Inv, LanesApart',
         NEW w \in Workers, NEW t \in Tasks, NEW c \in Contexts,
         cur[w] = None, phase[t] = "pending", ctx[t].waits # "future",
         c.worker = w, c.parent = ctx[t].parent, c.waits = ctx[t].waits, c.pc = ctx[t].pc,
         c.started = ctx[t].started,
         RouteTask(w, t, c, ctx[t].started), Vacated(t),
         lane' \in [Workers -> Seq(Tasks)], timed' \in [Workers -> SUBSET Tasks],
         blocked' \in [Workers -> SUBSET Tasks],
         UNCHANGED <<phase, event, container, moves>>
  PROVE  Inv'
  <1> DEFINE r == [c EXCEPT !.routed = TRUE]
  <1>0. /\ r \in Contexts /\ r.worker = w /\ r.parent = c.parent /\ r.waits = c.waits
        /\ r.pc = c.pc /\ r.started = c.started
    BY DEF Contexts
  <1> HIDE DEF r
  <1>1. ~Running(t)
    BY DEF Vacated, Running
  <1>2. /\ retry \in [Workers -> SUBSET Tasks] /\ net \subseteq Tasks
        /\ cur \in [Workers -> Tasks \cup {None}] /\ ctx[t].started \in BOOLEAN
    BY ContextFacts DEF Inv, State, TypeOK
  <1>3. ASSUME NEW d \in Contexts, d.worker = w, ExecTask(w, t, ctx[t].started, d),
               UNCHANGED <<retry, net>>
        PROVE  Inv'
    <2>1. PICK n : Begins(t, d, n) /\ ctx' = [ctx EXCEPT ![t] = n]
      BY <1>3 DEF ExecTask, Begins
    <2>2. cur' = [cur EXCEPT ![w] = t]
      BY <1>3 DEF ExecTask
    <2>3. Relocates(t, "cur", w)
      BY <1>2, <1>3, <2>2, WorkerAssumption DEF Relocates, Vacated
    <2> QED
      BY <1>1, <1>2, <1>3, <2>1, <2>2, <2>3, Executed
  <1>4. CASE net' = net \cup {t} /\ ctx' = [ctx EXCEPT ![t] = r] /\ UNCHANGED <<retry, cur>>
             /\ t \in Movable
    <2>1. Relocates(t, "net", w)
      BY <1>4 DEF Relocates, Vacated
    <2> QED
      BY <1>0, <1>1, <1>2, <1>4, <2>1, Forwarded
  <1>5. CASE retry' = [retry EXCEPT ![w] = @ \cup {t}] /\ ctx' = [ctx EXCEPT ![t] = r]
             /\ UNCHANGED <<net, cur>> /\ t \in Movable
    <2>1. Relocates(t, "retry", w)
      BY <1>2, <1>5 DEF Relocates, Vacated
    <2>2. retry' \in [Workers -> SUBSET Tasks]
      BY <1>2, <1>5
    <2> QED
      BY <1>0, <1>1, <1>2, <1>5, <2>1, <2>2, Forwarded
  <1> QED
    BY <1>0, <1>3, <1>4, <1>5 DEF RouteTask, Elsewhere, Unavailable, r

\* RouteTask puts the task into the lane of another worker.
LEMMA RoutedAway ==
  ASSUME Inv, LanesApart',
         NEW w \in Workers, NEW d \in Workers, NEW t \in Tasks, NEW c \in Contexts,
         phase[t] = "pending", ~Running(t), ctx[t].waits # "future",
         c.parent = ctx[t].parent, c.waits = ctx[t].waits, c.pc = ctx[t].pc,
         c.started = ctx[t].started,
         Forwards(w, t, c, d), Relocates(t, "lane", d),
         lane' \in [Workers -> Seq(Tasks)], timed' \in [Workers -> SUBSET Tasks],
         blocked' \in [Workers -> SUBSET Tasks],
         UNCHANGED <<phase, event, container, moves>>
  PROVE  Inv'
  <1> DEFINE r == [c EXCEPT !.routed = TRUE]
  <1>0. /\ r \in Contexts /\ r.parent = c.parent /\ r.waits = c.waits
        /\ r.pc = c.pc /\ r.started = c.started
    BY DEF Contexts
  <1>1. ctx' = [ctx EXCEPT ![t] = r] /\ UNCHANGED <<retry, net, cur>>
    BY DEF Forwards
  <1> HIDE DEF r
  <1>2. retry \in [Workers -> SUBSET Tasks] /\ net \subseteq Tasks
    BY DEF Inv, State, TypeOK
  <1> QED
    BY <1>0, <1>1, <1>2, Forwarded

-----------------------------------------------------------------------------
(* The queues of a worker.                                                 *)

\* A task that is in some queue was sent, does not run and awaits nothing.
LEMMA Queued ==
  ASSUME Inv, NEW at, NEW on, Located(at, on), Accounted(at), NEW t \in Tasks,
         at[t] \notin {"none", "cur"}
  PROVE  /\ phase[t] = "pending" /\ ctx[t].waits # "future" /\ ~Running(t)
         /\ ctx[t] \in Contexts /\ (ctx[t].started <=> ctx[t].waits # "no")
  <1>1. phase[t] = "pending" /\ ctx[t].waits # "future"
    BY DEF Accounted
  <1>2. ~Running(t)
    BY DEF Located, Running
  <1>3. ctx[t] \in Contexts /\ Coroutine(t)
    BY DEF Inv, State, TypeOK, Coroutines
  <1> QED
    BY <1>1, <1>2, <1>3 DEF Coroutine

\* ProcessNewTask preserves the invariant.
LEMMA ProcessNewTaskInv ==
  ASSUME Sequential, Inv, NEW w \in Workers, ProcessNewTask(w) PROVE Inv'
  <1>1. PICK t : t = Head(lane[w])
    OBVIOUS
  <1>2. PICK c : c = ContextOn(w, t)
    OBVIOUS
  <1>3. PICK at, on : Located(at, on) /\ Accounted(at)
    BY DEF Inv, Placed
  <1>4. /\ lane \in [Workers -> Seq(Tasks)] /\ timed \in [Workers -> SUBSET Tasks]
        /\ blocked \in [Workers -> SUBSET Tasks] /\ cur[w] = None /\ lane[w] # <<>>
        /\ UNCHANGED <<phase, event, timed, blocked, container, moves>>
    BY DEF Inv, State, TypeOK, ProcessNewTask
  <1>5. \A v \in Workers : Len(lane[v]) <= LaneDepth /\ NoRepeats(lane[v])
    BY DEF Inv, State, LanesApart
  <1>6. /\ t \in Tasks /\ Holds(lane[w], t) /\ Tail(lane[w]) \in Seq(Tasks)
        /\ NoRepeats(Tail(lane[w])) /\ Len(Tail(lane[w])) <= Len(lane[w]) /\ Len(lane[w]) \in Nat
        /\ \A u : Holds(Tail(lane[w]), u) <=> Holds(lane[w], u) /\ u # t
    BY <1>1, <1>4, <1>5, HoldsTail
  <1>7. at[t] = "lane" /\ on[t] = w
    BY <1>3, <1>6 DEF Located
  <1>8. /\ phase[t] = "pending" /\ ctx[t].waits # "future" /\ ~Running(t) /\ ctx[t] \in Contexts
    BY <1>3, <1>6, <1>7, Queued
  <1>9. /\ c \in Contexts /\ c.worker = w /\ c.parent = ctx[t].parent /\ c.waits = ctx[t].waits
        /\ c.pc = ctx[t].pc /\ c.started = ctx[t].started
    BY <1>2, <1>8 DEF ContextOn, Contexts
  <1>10. LaneDepth \in Nat /\ Len(Tail(lane[w])) \in Nat
    BY <1>6, LenProperties, WorkerAssumption
  <1>11. CASE RouteTask(w, t, c, ctx[t].started) /\ lane' = [lane EXCEPT ![w] = Tail(@)]
    <2>1. lane' \in [Workers -> Seq(Tasks)]
      BY <1>4, <1>6, <1>11
    <2>2. LanesApart'
      BY <1>4, <1>5, <1>6, <1>10, <1>11, LenProperties DEF LanesApart
    <2>3. Vacated(t)
      BY <1>3, <1>4, <1>6, <1>7, <1>11 DEF Vacated, Located
    <2> QED
      BY <1>4, <1>6, <1>8, <1>9, <1>11, <2>1, <2>2, <2>3, Routed
  <1>12. ASSUME NEW d \in Workers, Forwards(w, t, c, d),
                lane' = [[lane EXCEPT ![w] = Tail(@)] EXCEPT ![d] = Append(@, t)]
         PROVE  Inv'
    <2>1. d # w /\ Len(lane[d]) < LaneDepth /\ UNCHANGED <<retry, net, cur>>
      BY <1>12 DEF Forwards
    <2>2. ~Holds(lane[d], t)
      BY <1>3, <1>6, <1>7, <2>1 DEF Located
    <2>3. /\ Append(lane[d], t) \in Seq(Tasks) /\ NoRepeats(Append(lane[d], t))
          /\ Len(lane[d]) \in Nat /\ Len(Append(lane[d], t)) = Len(lane[d]) + 1
          /\ \A u : Holds(Append(lane[d], t), u) <=> Holds(lane[d], u) \/ u = t
      BY <1>4, <1>5, <1>6, <2>2, HoldsAppend
    <2>4. /\ lane'[d] = Append(lane[d], t) /\ lane'[w] = Tail(lane[w])
          /\ \A v \in Workers : v # d /\ v # w => lane'[v] = lane[v]
      BY <1>4, <1>12, <2>1
    <2>5. lane' \in [Workers -> Seq(Tasks)]
      BY <1>4, <1>6, <1>12, <2>1, <2>3
    <2>6. LanesApart'
      <3> SUFFICES ASSUME NEW v \in Workers
                   PROVE  Len(lane'[v]) <= LaneDepth /\ NoRepeats(lane'[v])
        BY DEF LanesApart
      <3>1. CASE v = d
        <4>1. Len(Append(lane[d], t)) <= LaneDepth
          BY <1>10, <2>1, <2>3
        <4> QED
          BY <2>3, <2>4, <3>1, <4>1
      <3>2. CASE v = w
        <4>1. Len(Tail(lane[w])) <= LaneDepth
          BY <1>5, <1>6, <1>10
        <4> QED
          BY <1>6, <2>4, <3>2, <4>1
      <3>3. CASE v # d /\ v # w
        BY <1>5, <2>4, <3>3
      <3> QED
        BY <3>1, <3>2, <3>3
    <2>7. Relocates(t, "lane", d)
      <3>1. \A v \in Workers, u \in Tasks : u # t => (Holds(lane'[v], u) <=> Holds(lane[v], u))
        BY <1>6, <2>3, <2>4
      <3>2. \A v \in Workers : Holds(lane'[v], t) <=> v = d
        <4>1. \A v \in Workers : v # w => ~Holds(lane[v], t)
          BY <1>3, <1>6, <1>7 DEF Located
        <4>2. ~Holds(lane'[w], t) /\ Holds(lane'[d], t)
          BY <1>6, <2>3, <2>4
        <4>3. \A v \in Workers : v # w /\ v # d => ~Holds(lane'[v], t)
          BY <2>4, <4>1
        <4> QED
          BY <2>1, <4>2, <4>3
      <3> QED
        BY <1>3, <1>4, <1>6, <1>7, <2>1, <3>1, <3>2 DEF Relocates, Located
    <2> QED
      BY <1>4, <1>6, <1>8, <1>9, <1>12, <2>5, <2>6, <2>7, RoutedAway
  <1> QED
    BY <1>1, <1>2, <1>11, <1>12 DEF ProcessNewTask

\* ProcessPeriodicQueue preserves the invariant.
LEMMA ProcessPeriodicQueueInv ==
  ASSUME Sequential, Inv, NEW w \in Workers, NEW t \in Tasks, ProcessPeriodicQueue(w, t)
  PROVE  Inv'
  <1>2. PICK c : c = [ctx[t] EXCEPT !.routed = FALSE]
    OBVIOUS
  <1>3. PICK at, on : Located(at, on) /\ Accounted(at)
    BY DEF Inv, Placed
  <1>4. /\ lane \in [Workers -> Seq(Tasks)] /\ timed \in [Workers -> SUBSET Tasks]
        /\ blocked \in [Workers -> SUBSET Tasks] /\ cur[w] = None /\ t \in timed[w]
        /\ UNCHANGED <<phase, event, blocked, container, moves>>
        /\ timed' = [timed EXCEPT ![w] = @ \ {t}]
    BY DEF Inv, State, TypeOK, ProcessPeriodicQueue
  <1>5. \A v \in Workers : Len(lane[v]) <= LaneDepth /\ NoRepeats(lane[v])
    BY DEF Inv, State, LanesApart
  <1>7. at[t] = "timed" /\ on[t] = w
    BY <1>3, <1>4 DEF Located
  <1>8. /\ phase[t] = "pending" /\ ctx[t].waits # "future" /\ ~Running(t) /\ ctx[t] \in Contexts
    BY <1>3, <1>7, Queued
  <1>9. /\ c \in Contexts /\ c.worker = w /\ c.parent = ctx[t].parent /\ c.waits = ctx[t].waits
        /\ c.pc = ctx[t].pc /\ c.started = ctx[t].started
    <2>1. ctx[t].worker = w
      BY <1>4 DEF Inv, State, Coroutines, Coroutine
    <2>2. c \in Contexts
      BY <1>2, <1>8, Zenon DEF Contexts
    <2> QED
      BY <1>2, <1>8, <2>1, <2>2 DEF Contexts
  <1>10. timed' \in [Workers -> SUBSET Tasks]
    BY <1>4
  <1>11. CASE RouteTask(w, t, c, ctx[t].started) /\ UNCHANGED lane
    <2>1. LanesApart'
      BY <1>5, <1>11 DEF LanesApart
    <2>2. Vacated(t)
      BY <1>3, <1>4, <1>7, <1>11 DEF Vacated, Located
    <2> QED
      BY <1>4, <1>8, <1>9, <1>10, <1>11, <2>1, <2>2, Routed
  <1>12. ASSUME NEW d \in Workers, Forwards(w, t, c, d),
                lane' = [lane EXCEPT ![d] = Append(@, t)]
         PROVE  Inv'
    <2>1. d # w /\ Len(lane[d]) < LaneDepth /\ UNCHANGED <<retry, net, cur>>
      BY <1>12 DEF Forwards
    <2>2. ~Holds(lane[d], t)
      BY <1>3, <1>7, <2>1 DEF Located
    <2>3. /\ Append(lane[d], t) \in Seq(Tasks) /\ NoRepeats(Append(lane[d], t))
          /\ Len(lane[d]) \in Nat /\ Len(Append(lane[d], t)) = Len(lane[d]) + 1
          /\ \A u : Holds(Append(lane[d], t), u) <=> Holds(lane[d], u) \/ u = t
      BY <1>4, <1>5, <2>2, HoldsAppend
    <2>4. lane' \in [Workers -> Seq(Tasks)]
      BY <1>4, <1>12, <2>3
    <2>5. LanesApart'
      BY <1>4, <1>5, <1>12, <2>1, <2>3, WorkerAssumption DEF LanesApart
    <2>6. Relocates(t, "lane", d)
      BY <1>3, <1>4, <1>7, <1>12, <2>1, <2>3 DEF Relocates, Located
    <2> QED
      BY <1>4, <1>8, <1>9, <1>10, <1>12, <2>4, <2>5, <2>6, RoutedAway
  <1> QED
    BY <1>2, <1>11, <1>12 DEF ProcessPeriodicQueue

\* ProcessBlockedQueue preserves the invariant: no entry is discarded.
LEMMA ProcessBlockedQueueInv ==
  ASSUME Sequential, Inv, NEW w \in Workers, NEW t \in Tasks, ProcessBlockedQueue(w, t)
  PROVE  Inv'
  <1>1. PICK at, on : Located(at, on) /\ Accounted(at)
    BY DEF Inv, Placed
  <1>2. /\ lane \in [Workers -> Seq(Tasks)] /\ timed \in [Workers -> SUBSET Tasks]
        /\ blocked \in [Workers -> SUBSET Tasks] /\ retry \in [Workers -> SUBSET Tasks]
        /\ cur \in [Workers -> Tasks \cup {None}]
        /\ cur[w] = None /\ t \in blocked[w]
        /\ UNCHANGED <<phase, lane, event, timed, retry, net, container, moves>>
        /\ blocked' = [blocked EXCEPT ![w] = @ \ {t}]
    BY DEF Inv, State, TypeOK, ProcessBlockedQueue
  <1>3. at[t] = "blocked" /\ on[t] = w
    BY <1>1, <1>2 DEF Located
  <1>4. /\ phase[t] = "pending" /\ ctx[t].waits # "future" /\ ~Running(t)
        /\ ctx[t] \in Contexts /\ (ctx[t].started <=> ctx[t].waits # "no")
    BY <1>1, <1>3, Queued
  <1>5. ctx[t].worker = w
    BY <1>2 DEF Inv, State, Coroutines, Coroutine
  <1>6. ExecTask(w, t, ctx[t].started, ctx[t])
    BY <1>4 DEF ProcessBlockedQueue
  <1>7. PICK n, c : n = ctx'[t] /\ c = ctx[t]
    OBVIOUS
  <1>8. Begins(t, c, n) /\ ctx' = [ctx EXCEPT ![t] = n] /\ cur' = [cur EXCEPT ![w] = t]
    BY <1>6, <1>7 DEF ExecTask, Begins, Inv, State, TypeOK
  <1>9. Relocates(t, "cur", w)
    BY <1>1, <1>2, <1>3, <1>8, WorkerAssumption DEF Relocates, Located
  <1>10. LanesApart'
    BY <1>2 DEF Inv, State, LanesApart
  <1>11. blocked' \in [Workers -> SUBSET Tasks]
    BY <1>2
  <1> QED
    BY <1>2, <1>4, <1>5, <1>7, <1>8, <1>9, <1>10, <1>11, Executed

\* ProcessRetryQueue preserves the invariant: what it starts was not started.
LEMMA ProcessRetryQueueInv ==
  ASSUME Sequential, Inv, NEW w \in Workers, NEW t \in Tasks, ProcessRetryQueue(w, t)
  PROVE  Inv'
  <1>1. PICK at, on : Located(at, on) /\ Accounted(at)
    BY DEF Inv, Placed
  <1>2. /\ lane \in [Workers -> Seq(Tasks)] /\ timed \in [Workers -> SUBSET Tasks]
        /\ blocked \in [Workers -> SUBSET Tasks] /\ retry \in [Workers -> SUBSET Tasks]
        /\ cur \in [Workers -> Tasks \cup {None}] /\ net \subseteq Tasks
        /\ cur[w] = None /\ t \in retry[w]
        /\ UNCHANGED <<phase, lane, event, timed, blocked, container, moves>>
        /\ retry' = [retry EXCEPT ![w] = @ \ {t}]
    BY DEF Inv, State, TypeOK, ProcessRetryQueue
  <1>3. at[t] = "retry" /\ on[t] = w
    BY <1>1, <1>2 DEF Located
  <1>4. /\ phase[t] = "pending" /\ ctx[t].waits # "future" /\ ~Running(t)
        /\ ctx[t] \in Contexts /\ (ctx[t].started <=> ctx[t].waits # "no")
    BY <1>1, <1>3, Queued
  <1>5. ctx[t].worker = w /\ t \in Movable /\ (ctx[t].waits = "timer" => Reached(t, "yield"))
    BY <1>2 DEF Inv, State, Coroutines, Coroutine
  <1>6. ~ctx[t].started
    <2>1. ~Reached(t, "yield")
      BY <1>5, SequentialOp DEF Reached
    <2> QED
      BY <1>4, <1>5, <2>1, ContextFacts
  <1>7. LanesApart'
    BY <1>2 DEF Inv, State, LanesApart
  <1>8. retry' \in [Workers -> SUBSET Tasks]
    BY <1>2
  <1>9. PICK n, c : n = ctx'[t] /\ c = ctx[t]
    OBVIOUS
  <1>10. CASE Elsewhere(t)
    <2>1. net' = net \cup {t} /\ UNCHANGED <<cur, ctx>>
      BY <1>10 DEF ProcessRetryQueue
    <2>2. Relocates(t, "net", w)
      BY <1>1, <1>2, <1>3, <2>1 DEF Relocates, Located
    <2>3. ctx' = [ctx EXCEPT ![t] = c] /\ net' \subseteq Tasks
      BY <1>2, <1>9, <2>1 DEF Inv, State, TypeOK
    <2> QED
      BY <1>2, <1>4, <1>5, <1>7, <1>8, <1>9, <2>1, <2>2, <2>3, Forwarded
  <1>11. CASE ~Elsewhere(t)
    <2>1. ExecTask(w, t, FALSE, ctx[t]) /\ UNCHANGED net
      BY <1>11 DEF ProcessRetryQueue
    <2>2. Begins(t, c, n) /\ ctx' = [ctx EXCEPT ![t] = n] /\ cur' = [cur EXCEPT ![w] = t]
      BY <1>6, <1>9, <2>1 DEF ExecTask, Begins, Inv, State, TypeOK
    <2>3. Relocates(t, "cur", w)
      BY <1>1, <1>2, <1>3, <2>1, <2>2, WorkerAssumption DEF Relocates, Located
    <2> QED
      BY <1>2, <1>4, <1>5, <1>7, <1>8, <1>9, <2>1, <2>2, <2>3, Executed
  <1> QED
    BY <1>10, <1>11
-----------------------------------------------------------------------------
(* The operations of a coroutine that runs.                                *)

\* The coroutine that a worker runs.
LEMMA Runs ==
  ASSUME Inv, NEW at, NEW on, Located(at, on), Accounted(at),
         NEW w \in Workers, NEW t, t = cur[w], t # None
  PROVE  /\ t \in Tasks /\ at[t] = "cur" /\ on[t] = w /\ Running(t)
         /\ phase[t] = "pending" /\ ctx[t] \in Contexts
         /\ ctx[t].started /\ ctx[t].waits = "no" /\ ctx[t].pc \in Nat \ {0}
         /\ ctx[t].worker = w
  <1>1. t \in Tasks /\ Running(t)
    BY DEF Inv, State, TypeOK, Running
  <1>2. at[t] = "cur" /\ on[t] = w
    BY <1>1 DEF Located
  <1>3. phase[t] = "pending"
    BY <1>1, <1>2 DEF Accounted
  <1>4. ctx[t] \in Contexts /\ Coroutine(t)
    BY <1>1 DEF Inv, State, TypeOK, Coroutines
  <1>5. ctx[t].started /\ ctx[t].waits = "no" /\ ctx[t].pc >= 1 /\ ctx[t].worker = w
    BY <1>1, <1>4 DEF Coroutine
  <1> QED
    BY <1>1, <1>2, <1>3, <1>4, <1>5, ContextFacts

\* The operation at which the running coroutine is.
LEMMA AtOpFacts ==
  ASSUME NEW w \in Workers, NEW t \in Tasks, t = cur[w], ctx[t].pc \in Nat \ {0},
         NEW names, AtOp(w, names)
  PROVE  /\ ctx[t].pc \in 1 .. Len(Program[t]) /\ Program[t][ctx[t].pc].op \in names
         /\ Sub(w) = Program[t][ctx[t].pc].sub
  BY OpFacts DEF AtOp, Sub

\* YieldTask preserves the invariant.
LEMMA YieldTaskInv ==
  ASSUME Sequential, Inv, NEW w \in Workers, YieldTask(w) PROVE Inv'
  <1>1. PICK at, on : Located(at, on) /\ Accounted(at)
    BY DEF Inv, Placed
  <1>2. PICK t : t = cur[w]
    OBVIOUS
  <1>3. /\ t \in Tasks /\ at[t] = "cur" /\ on[t] = w /\ Running(t)
        /\ phase[t] = "pending" /\ ctx[t] \in Contexts
        /\ ctx[t].started /\ ctx[t].waits = "no" /\ ctx[t].pc \in Nat \ {0}
        /\ ctx[t].worker = w
    BY <1>1, <1>2, Runs DEF YieldTask, AtOp
  <1>4. ctx[t].pc \in 1 .. Len(Program[t]) /\ Program[t][ctx[t].pc].op = "yield"
    <2>1. ctx[t].pc \in 1 .. Len(Program[t]) /\ Program[t][ctx[t].pc].op \in {"yield", "yield0"}
      BY <1>2, <1>3, AtOpFacts DEF YieldTask
    <2> QED
      BY <1>3, <2>1, SequentialOp
  <1>5. AtOp(w, {"yield"})
    BY <1>2, <1>4 DEF YieldTask, AtOp
  <1> DEFINE n == [ctx[t] EXCEPT !.waits = "timer"]
  <1>6. /\ ctx' = [ctx EXCEPT ![t] = n] /\ cur' = [cur EXCEPT ![w] = None]
        /\ timed' = [timed EXCEPT ![w] = @ \cup {t}]
        /\ UNCHANGED <<phase, lane, event, blocked, retry, net, container, moves>>
    BY <1>2, <1>5 DEF YieldTask, Suspend
  <1>7. /\ n \in Contexts /\ n.waits = "timer" /\ n.pc = ctx[t].pc
        /\ n.parent = ctx[t].parent /\ n.worker = w
    BY <1>3 DEF Contexts
  <1>8. n.started
    <2>1. n.started = ctx[t].started
      BY <1>3 DEF Contexts
    <2> QED
      BY <1>3, <2>1
  <1> HIDE DEF n
  <1>9. /\ timed \in [Workers -> SUBSET Tasks] /\ cur \in [Workers -> Tasks \cup {None}]
        /\ ctx \in [Tasks -> Contexts]
    BY DEF Inv, State, TypeOK
  <1>10. Relocates(t, "timed", w)
    BY <1>1, <1>3, <1>6, <1>9, WorkerAssumption DEF Relocates, Located
  <1>11. TypeOK'
    <2>1. timed' \in [Workers -> SUBSET Tasks] /\ cur' \in [Workers -> Tasks \cup {None}]
      BY <1>3, <1>6, <1>9
    <2>2. ctx' \in [Tasks -> Contexts]
      BY <1>6, <1>7, <1>9
    <2> QED
      BY <1>6, <2>1, <2>2 DEF Inv, State, TypeOK
  <1>12. LanesApart'
    BY <1>6 DEF Inv, State, LanesApart
  <1>13. ctx'[t] = n
    BY <1>3, <1>6, <1>9
  <1>14. Coroutine(t)'
    <2>1. ~Running(t)'
      BY <1>3, <1>10, RunningOthers
    <2>2. Reached(t, "yield")'
      BY <1>4, <1>7, <1>13 DEF Reached
    <2> QED
      BY <1>3, <1>6, <1>7, <1>8, <1>10, <1>13, <2>1, <2>2 DEF Coroutine, Relocates
  <1>15. Childless(t)
    <2>1. ~Reached(t, "await")
      BY <1>4 DEF Reached
    <2> QED
      BY <1>3, <2>1, NoChildren DEF Inv
  <1>16. "timed" \in Kinds \ {"none"}
    BY DEF Kinds
  <1> QED
    BY <1>3, <1>6, <1>7, <1>10, <1>11, <1>12, <1>14, <1>15, <1>16, Passed

\* The operation behind a co_await is not a co_await.
LEMMA NoTwoAwaits ==
  ASSUME Sequential, NEW t \in Tasks, NEW i \in 1 .. Len(Program[t]),
         Program[t][i].op = "await"
  PROVE  ~(i + 1 \in 1 .. Len(Program[t]) /\ Program[t][i + 1].op = "await")
  <1> SUFFICES ASSUME i + 1 \in 1 .. Len(Program[t]), Program[t][i + 1].op = "await"
               PROVE  FALSE
    OBVIOUS
  <1>1. Program[t][(i + 1) - 1].op = "send"
    BY SequentialOp
  <1>2. (i + 1) - 1 = i
    OBVIOUS
  <1> QED
    BY <1>1, <1>2

\* A running coroutine goes on behind its operation, which leaves no subtask that
\* reports to it, to one that is not a co_await.
LEMMA WentOn ==
  ASSUME Inv, NEW at, NEW on, Located(at, on), Accounted(at),
         NEW w \in Workers, NEW t, t = cur[w], t # None, Childless(t), Goes(w),
         ~(ctx[t].pc + 1 \in 1 .. Len(Program[t]) /\ Program[t][ctx[t].pc + 1].op = "await"),
         UNCHANGED <<phase, queues, cur, net, container, moves>>
  PROVE  Inv'
  <1>1. /\ t \in Tasks /\ at[t] = "cur" /\ on[t] = w /\ Running(t)
        /\ phase[t] = "pending" /\ ctx[t] \in Contexts
        /\ ctx[t].started /\ ctx[t].waits = "no" /\ ctx[t].pc \in Nat \ {0}
        /\ ctx[t].worker = w
    BY Runs
  <1> DEFINE n == [ctx[t] EXCEPT !.pc = @ + 1]
  <1>2. ctx' = [ctx EXCEPT ![t] = n] /\ ctx \in [Tasks -> Contexts]
    BY <1>1 DEF Goes, Inv, State, TypeOK
  <1>3. n.waits = "no" /\ n.pc = ctx[t].pc + 1 /\ n.parent = ctx[t].parent /\ n.worker = w
    BY <1>1 DEF Contexts
  <1>4. n.started = ctx[t].started
    BY <1>1 DEF Contexts
  <1>5. n \in Contexts
    <2>1. ctx[t].pc + 1 \in Nat
      BY <1>1
    <2> QED
      BY <1>1, <2>1 DEF Contexts
  <1> HIDE DEF n
  <1>6. ctx'[t] = n
    BY <1>1, <1>2
  <1>7. Relocates(t, "cur", w)
    BY <1>1 DEF Relocates, Located, queues
  <1>8. TypeOK'
    <2>1. ctx' \in [Tasks -> Contexts]
      BY <1>2, <1>5
    <2> QED
      BY <2>1 DEF Inv, State, TypeOK, queues
  <1>9. LanesApart'
    BY DEF Inv, State, LanesApart, queues
  <1>10. n.pc >= 1
    BY <1>1, <1>3
  <1>13. n.started
    BY <1>1, <1>4
  <1>11. Coroutine(t)'
    <2>1. Running(t)'
      BY <1>1, <1>7, RunningOthers
    <2> QED
      BY <1>1, <1>3, <1>6, <1>7, <1>10, <1>13, <2>1 DEF Coroutine, Relocates
  <1>12. "cur" \in Kinds \ {"none"}
    BY DEF Kinds
  <1>14. ~(n.pc \in 1 .. Len(Program[t]) /\ Program[t][n.pc].op = "await")
    BY <1>3
  <1>15. phase' = phase /\ event' = event /\ n.waits # "future"
    BY <1>3 DEF queues
  <1> QED
    BY <1>1, <1>2, <1>3, <1>5, <1>7, <1>8, <1>9, <1>11, <1>12, <1>14, <1>15, Passed

\* A running coroutine is suspended at a co_await of a subtask that reports.
LEMMA Suspended ==
  ASSUME Inv, NEW at, NEW on, Located(at, on), Accounted(at),
         NEW w \in Workers, NEW t, t = cur[w], t # None, Reached(t, "await"),
         NEW s, s = Program[t][ctx[t].pc].sub, s \notin FireForget,
         Suspend(w, "future"), UNCHANGED <<phase, queues, net, container, moves>>
  PROVE  Inv'
  <1> USE DEF Inv, State
  <1>1. /\ t \in Tasks /\ at[t] = "cur" /\ on[t] = w /\ Running(t)
        /\ phase[t] = "pending" /\ ctx[t] \in Contexts
        /\ ctx[t].started /\ ctx[t].waits = "no" /\ ctx[t].pc \in Nat \ {0}
        /\ ctx[t].worker = w
    BY Runs
  <1> DEFINE n == [ctx[t] EXCEPT !.waits = "future"]
  <1>2. /\ ctx' = [ctx EXCEPT ![t] = n] /\ ctx \in [Tasks -> Contexts]
        /\ cur' = [cur EXCEPT ![w] = None] /\ cur \in [Workers -> Tasks \cup {None}]
    BY <1>1 DEF Suspend, TypeOK
  <1>3. /\ n.waits = "future" /\ n.pc = ctx[t].pc /\ n.parent = ctx[t].parent /\ n.worker = w
        /\ n \in Contexts
    BY <1>1 DEF Contexts
  <1>4. n.started = ctx[t].started
    BY <1>1 DEF Contexts
  <1> HIDE DEF n
  <1>5. ctx'[t] = n /\ \A u \in Tasks : u # t => ctx'[u] = ctx[u]
    BY <1>1, <1>2
  <1>6. Relocates(t, "none", w)
    BY <1>1, <1>2, WorkerAssumption DEF Relocates, Located, queues
  <1>7. TypeOK'
    <2>1. ctx' \in [Tasks -> Contexts]
      BY <1>2, <1>3
    <2>2. cur' \in [Workers -> Tasks \cup {None}]
      BY <1>2
    <2> QED
      BY <2>1, <2>2 DEF TypeOK, queues
  <1>8. LanesApart'
    BY DEF LanesApart, queues
  <1>9. /\ \A u \in Tasks : u # t => (Running(u)' <=> Running(u))
        /\ ~Running(t)'
    BY <1>1, <1>6, RunningOthers
  <1>10. /\ \A u \in Tasks : ctx'[u].parent = ctx[u].parent /\ (Reports(u)' <=> Reports(u))
         /\ \A u \in Tasks : ctx'[u].worker = ctx[u].worker
    BY <1>1, <1>3, <1>5 DEF Reports
  <1>11. \A u \in Tasks : /\ \A name : Reached(u, name)' <=> Reached(u, name)
                          /\ ctx'[u].pc = ctx[u].pc
    BY <1>3, <1>5 DEF Reached
  <1>12. Coroutines'
    <2>1. Coroutine(t)'
      BY <1>1, <1>3, <1>4, <1>5, <1>6, <1>9, <1>11 DEF Coroutine, Relocates
    <2>2. \A u \in Tasks : u # t => Coroutine(u)'
      BY <1>1, <1>5, <1>6, CoroutineOthers DEF Coroutines
    <2> QED
      BY <2>1, <2>2 DEF Coroutines
  <1>13. Families'
    <2> SUFFICES ASSUME NEW x \in Tasks
                 PROVE  /\ Reports(x)' =>
                             LET p == ctx[x].parent
                             IN /\ phase[p] = "pending"
                                /\ Reached(p, "await")' /\ Program[p][ctx'[p].pc].sub = x
                                /\ Running(p)' \/ ctx'[p].waits = "future"
                        /\ phase[x] = "ended" => Reports(x)'
                        /\ x \in Roots => ctx[x].parent = None
      BY <1>10 DEF Families
    <2>1. ASSUME Reports(x)' PROVE ctx[x].parent \in Tasks
      BY <1>10, <2>1, ParentIsTask
    <2> QED
      BY <1>3, <1>5, <1>9, <1>10, <1>11, <2>1 DEF Families
  <1>14. Awaiting'
    <2> SUFFICES ASSUME NEW p \in Tasks, phase[p] = "pending", Reached(p, "await")',
                        Running(p)' \/ ctx'[p].waits = "future",
                        NEW x, x = Program[p][ctx'[p].pc].sub
                 PROVE  /\ x \in Tasks
                        /\ x \notin FireForget => Reports(x)' /\ ctx'[x].parent = p
                        /\ ctx'[p].waits = "future" => x \notin FireForget
      BY DEF Awaiting
    <2>1. CASE p = t
      BY <1>1, <1>10, <1>11, <2>1 DEF Awaiting
    <2>2. CASE p # t
      BY <1>5, <1>9, <1>10, <1>11, <2>2 DEF Awaiting
    <2> QED
      BY <2>1, <2>2
  <1>15. Events'
    <2>1. ASSUME NEW v \in Workers, NEW x \in Tasks, Holds(event[v], x)
          PROVE  phase[x] = "ended" /\ ctx'[ctx'[x].parent].worker = v
      <3>1. phase[x] = "ended" /\ ctx[ctx[x].parent].worker = v
        BY <2>1 DEF Events
      <3>2. Reports(x)
        BY <3>1 DEF Families
      <3> QED
        BY <1>10, <3>1, <3>2, ParentIsTask
    <2>2. event' = event /\ phase' = phase
      BY DEF queues
    <2> QED
      BY <2>1, <2>2 DEF Events
  <1>16. Placed'
    <2>1. Located([at EXCEPT ![t] = "none"], [on EXCEPT ![t] = w])'
      BY <1>1, <1>6, Relocated DEF Kinds
    <2>2. Accounted([at EXCEPT ![t] = "none"])'
      BY <1>1, <1>3, <1>5 DEF Accounted, Located
    <2> QED
      BY <2>1, <2>2 DEF Placed
  <1> QED
    BY <1>7, <1>8, <1>12, <1>13, <1>14, <1>15, <1>16

\* WaitFuture preserves the invariant: it passes only what nobody waits for.
LEMMA WaitFutureInv ==
  ASSUME Sequential, Inv, NEW w \in Workers, WaitFuture(w) PROVE Inv'
  <1>1. PICK at, on : Located(at, on) /\ Accounted(at)
    BY DEF Inv, Placed
  <1>2. PICK t : t = cur[w]
    OBVIOUS
  <1>3. /\ t \in Tasks /\ t # None /\ Running(t) /\ phase[t] = "pending"
        /\ ctx[t].waits = "no" /\ ctx[t].pc \in Nat \ {0}
    BY <1>1, <1>2, Runs DEF WaitFuture, AtOp
  <1>4. /\ ctx[t].pc \in 1 .. Len(Program[t]) /\ Program[t][ctx[t].pc].op = "await"
        /\ Sub(w) = Program[t][ctx[t].pc].sub
    <2>1. /\ ctx[t].pc \in 1 .. Len(Program[t])
          /\ Program[t][ctx[t].pc].op \in {"await", "poll"}
          /\ Sub(w) = Program[t][ctx[t].pc].sub
      BY <1>2, <1>3, AtOpFacts DEF WaitFuture
    <2> QED
      BY <1>3, <2>1, SequentialOp
  <1>5. ~AtOp(w, {"poll"})
    BY <1>2, <1>4 DEF AtOp
  <1>6. PICK s : s = Sub(w)
    OBVIOUS
  <1>7. Reached(t, "await")
    BY <1>4 DEF Reached
  <1>8. s \in Tasks /\ (s \notin FireForget => Reports(s) /\ ctx[s].parent = t)
    BY <1>3, <1>4, <1>6, <1>7 DEF Inv, State, Awaiting
  <1>9. CASE s \in FireForget
    <2>1. Goes(w) /\ UNCHANGED <<phase, queues, cur, net, container, moves>>
      BY <1>6, <1>9 DEF WaitFuture, queues
    <2>2. Childless(t)
      <3> SUFFICES ASSUME NEW x \in Tasks, Reports(x), ctx[x].parent = t PROVE FALSE
        BY DEF Childless
      <3>1. x = s
        BY <1>4, <1>6 DEF Inv, State, Families
      <3> QED
        BY <1>9, <3>1 DEF Reports
    <2> QED
      BY <1>1, <1>2, <1>3, <1>4, <2>1, <2>2, NoTwoAwaits, WentOn
  <1>10. CASE s \notin FireForget
    <2>1. ~IsComplete(s)
      BY <1>8, <1>10 DEF IsComplete, Reports
    <2>2. Suspend(w, "future") /\ UNCHANGED <<phase, queues, net, container, moves>>
      BY <1>5, <1>6, <1>10, <2>1 DEF WaitFuture, queues
    <2> QED
      BY <1>1, <1>2, <1>3, <1>4, <1>6, <1>7, <1>10, <2>2, Suspended
  <1> QED
    BY <1>9, <1>10

-----------------------------------------------------------------------------
(* The end of a task.                                                      *)

\* The worker that the parent of a reporting subtask belongs to.
LEMMA ParentWorker ==
  ASSUME State, NEW s \in Tasks, Reports(s)
  PROVE  /\ ctx[s].parent \in Tasks /\ ctx[ctx[s].parent].worker \in Workers
         /\ phase[ctx[s].parent] = "pending"
  <1>1. PICK p : p = ctx[s].parent
    OBVIOUS
  <1>2. p \in Tasks /\ phase[p] = "pending" /\ (Running(p) \/ ctx[p].waits = "future")
    BY <1>1, ParentIsTask DEF State, Families
  <1>3. Coroutine(p)
    BY <1>2 DEF State, Coroutines
  <1>4. ctx[p].worker \in Workers
    BY <1>2, <1>3 DEF Coroutine, Running
  <1> QED
    BY <1>1, <1>2, <1>4

\* The event queue that gets the report of t, if t has a parent that waits.
Reported(t) ==
  event' = IF Finished(t) # "ended" THEN event
           ELSE [event EXCEPT ![ctx[ctx[t].parent].worker] = Append(@, t)]

\* A task that is not periodic and has no subtask that reports to it ends.
LEMMA Ended ==
  ASSUME Inv, NEW at, NEW on, Located(at, on), Accounted(at),
         NEW h \in Workers, NEW t \in Tasks, phase[t] = "pending", Childless(t),
         Relocates(t, "none", h), phase' = [phase EXCEPT ![t] = Finished(t)], Reported(t),
         cur' \in [Workers -> Tasks \cup {None}], net' \subseteq Tasks,
         UNCHANGED <<ctx, lane, timed, blocked, retry, container, moves>>
  PROVE  Inv'
  <1> USE DEF Inv, State
  <1>0. PICK ph : ph = Finished(t)
    OBVIOUS
  <1>1. /\ ph \in {"freed", "ended", "complete"}
        /\ ph = "ended" <=> t \notin FireForget /\ ctx[t].parent # None
    BY <1>0 DEF Finished
  <1>2. phase'[t] = ph /\ \A u \in Tasks : u # t => phase'[u] = phase[u]
    BY <1>0 DEF TypeOK
  <1>3. ph = "ended" => Reports(t)
    BY <1>1 DEF Reports
  <1>4. \A u \in Tasks : u # t => (Reports(u)' <=> Reports(u))
    BY <1>2 DEF Reports
  <1>5. Reports(t)' <=> ph = "ended"
    BY <1>1, <1>2 DEF Reports
  <1>6. /\ \A u \in Tasks : u # t => (Running(u)' <=> Running(u))
        /\ ~Running(t)'
    BY RunningOthers
  <1>7. \A u \in Tasks : \A name : Reached(u, name)' <=> Reached(u, name)
    BY DEF Reached
  <1>8. ~\E v \in Workers : Holds(event[v], t)
    BY DEF Events
  <1>9. event \in [Workers -> Seq(Tasks)] /\ phase' \in [Tasks -> Phases]
    BY <1>0, <1>1 DEF TypeOK, Phases
  <1>10. /\ event' \in [Workers -> Seq(Tasks)]
         /\ \A v \in Workers : NoRepeats(event'[v])
         /\ \A v \in Workers, u \in Tasks : Holds(event'[v], u) =>
              \/ u # t /\ Holds(event[v], u)
              \/ u = t /\ ph = "ended" /\ v = ctx[ctx[t].parent].worker
    <2>1. CASE ph # "ended"
      BY <1>0, <1>8, <1>9, <2>1 DEF Reported, Events
    <2>2. CASE ph = "ended"
      <3>1. PICK e : e = ctx[ctx[t].parent].worker
        OBVIOUS
      <3>2. e \in Workers
        BY <1>3, <2>2, <3>1, ParentWorker
      <3>3. event' = [event EXCEPT ![e] = Append(@, t)]
        BY <1>0, <2>2, <3>1 DEF Reported
      <3>4. /\ Append(event[e], t) \in Seq(Tasks) /\ NoRepeats(Append(event[e], t))
            /\ \A u : Holds(Append(event[e], t), u) <=> Holds(event[e], u) \/ u = t
        BY <1>8, <1>9, <3>2, HoldsAppend DEF Events
      <3>5. event'[e] = Append(event[e], t) /\ \A v \in Workers : v # e => event'[v] = event[v]
        BY <1>9, <3>2, <3>3
      <3>6. event' \in [Workers -> Seq(Tasks)]
        BY <1>9, <3>2, <3>3, <3>4
      <3>7. \A v \in Workers : NoRepeats(event'[v])
        <4>1. \A v \in Workers : NoRepeats(event[v])
          BY DEF Events
        <4> QED
          BY <3>4, <3>5, <4>1
      <3> QED
        BY <1>8, <2>2, <3>1, <3>4, <3>5, <3>6, <3>7
    <2> QED
      BY <2>1, <2>2
  <1>11. TypeOK'
    BY <1>9, <1>10 DEF TypeOK
  <1>12. LanesApart'
    BY DEF LanesApart
  <1>13. Coroutines'
    <2>1. Coroutine(t)'
      <3>1. Coroutine(t)
        BY DEF Coroutines
      <3>2. phase'[t] # "new" /\ phase'[t] # "pending"
        BY <1>1, <1>2
      <3> QED
        BY <1>6, <1>7, <3>1, <3>2 DEF Coroutine, Relocates
    <2>2. \A u \in Tasks : u # t => Coroutine(u)'
      BY <1>2, CoroutineOthers DEF Coroutines
    <2> QED
      BY <2>1, <2>2 DEF Coroutines
  <1>14. Families'
    <2> SUFFICES ASSUME NEW x \in Tasks
                 PROVE  /\ Reports(x)' =>
                             LET p == ctx[x].parent
                             IN /\ phase'[p] = "pending"
                                /\ Reached(p, "await")' /\ Program[p][ctx[p].pc].sub = x
                                /\ Running(p)' \/ ctx[p].waits = "future"
                        /\ phase'[x] = "ended" => Reports(x)'
                        /\ x \in Roots => ctx[x].parent = None
      BY DEF Families
    <2>1. ASSUME Reports(x)'
          PROVE  Reports(x) /\ ctx[x].parent \in Tasks /\ ctx[x].parent # t
      <3>1. Reports(x)
        BY <1>3, <1>4, <1>5, <2>1
      <3> QED
        BY <3>1, ParentIsTask DEF Childless
    <2>2. phase'[x] = "ended" => Reports(x)'
      BY <1>2, <1>4, <1>5 DEF Families
    <2> QED
      BY <1>2, <1>6, <1>7, <2>1, <2>2 DEF Families
  <1>15. Awaiting'
    <2> SUFFICES ASSUME NEW p \in Tasks, phase'[p] = "pending", Reached(p, "await")',
                        Running(p)' \/ ctx[p].waits = "future",
                        NEW x, x = Program[p][ctx[p].pc].sub
                 PROVE  /\ x \in Tasks
                        /\ x \notin FireForget => Reports(x)' /\ ctx[x].parent = p
                        /\ ctx[p].waits = "future" => x \notin FireForget
      BY DEF Awaiting
    <2>1. p # t /\ phase[p] = "pending" /\ Reached(p, "await") /\ (Running(p) \/ ctx[p].waits = "future")
      BY <1>1, <1>2, <1>6, <1>7
    <2>2. /\ x \in Tasks
          /\ x \notin FireForget => Reports(x) /\ ctx[x].parent = p
          /\ ctx[p].waits = "future" => x \notin FireForget
      BY <2>1 DEF Awaiting
    <2>3. ASSUME x \notin FireForget PROVE Reports(x)'
      <3>1. CASE x = t
        BY <1>1, <1>5, <2>2, <2>3, <3>1 DEF Reports
      <3>2. CASE x # t
        BY <1>4, <2>2, <2>3, <3>2
      <3> QED
        BY <3>1, <3>2
    <2> QED
      BY <2>2, <2>3
  <1>16. Events'
    <2>1. ASSUME NEW v \in Workers, NEW u \in Tasks, Holds(event'[v], u)
          PROVE  phase'[u] = "ended" /\ ctx[ctx[u].parent].worker = v
      <3>1. CASE u # t /\ Holds(event[v], u)
        BY <1>2, <3>1 DEF Events
      <3>2. CASE u = t /\ ph = "ended" /\ v = ctx[ctx[t].parent].worker
        BY <1>2, <3>2
      <3> QED
        BY <1>10, <2>1, <3>1, <3>2
    <2> QED
      BY <1>10, <2>1 DEF Events
  <1>17. Placed'
    <2>1. Located([at EXCEPT ![t] = "none"], [on EXCEPT ![t] = h])'
      BY Relocated DEF Kinds
    <2>2. Accounted([at EXCEPT ![t] = "none"])'
      BY <1>1, <1>2 DEF Accounted, Located
    <2> QED
      BY <2>1, <2>2 DEF Placed
  <1> QED
    BY <1>11, <1>12, <1>13, <1>14, <1>15, <1>16, <1>17

\* RecvOut preserves the invariant: what is in the network is not periodic.
LEMMA RecvOutInv ==
  ASSUME Sequential, Inv, NEW t \in Tasks, RecvOut(t) PROVE Inv'
  <1>1. PICK at, on : Located(at, on) /\ Accounted(at)
    BY DEF Inv, Placed
  <1>2. t \in net /\ net' = net \ {t} /\ UNCHANGED cur /\ EndTask(NetWorker, t)
    BY DEF RecvOut
  <1>3. at[t] = "net"
    BY <1>1, <1>2 DEF Located
  <1>4. phase[t] = "pending" /\ ctx[t].waits # "future" /\ ~Running(t)
    BY <1>1, <1>3, Queued
  <1>5. t \notin Periodic
    BY <1>2 DEF Inv, State, Coroutines, Coroutine, Sequential
  <1>6. /\ phase' = [phase EXCEPT ![t] = Finished(t)] /\ Reported(t)
        /\ UNCHANGED <<ctx, timed, blocked, lane, retry, container, moves>>
    BY <1>2, <1>5 DEF EndTask, Reported
  <1>7. Relocates(t, "none", NetWorker) /\ NetWorker \in Workers
    BY <1>1, <1>2, <1>3, <1>6, WorkerAssumption DEF Relocates, Located
  <1>8. Childless(t)
    BY <1>4, NoChildren DEF Inv
  <1>9. cur' \in [Workers -> Tasks \cup {None}] /\ net' \subseteq Tasks
    BY <1>2 DEF Inv, State, TypeOK
  <1> QED
    BY <1>1, <1>4, <1>6, <1>7, <1>8, <1>9, Ended

\* Return preserves the invariant: a periodic task goes back to a queue of its
\* worker, another one ends.
LEMMA ReturnInv ==
  ASSUME Sequential, Inv, NEW w \in Workers, Return(w) PROVE Inv'
  <1>1. PICK at, on : Located(at, on) /\ Accounted(at)
    BY DEF Inv, Placed
  <1>2. PICK t : t = cur[w]
    OBVIOUS
  <1>3. /\ t \in Tasks /\ at[t] = "cur" /\ on[t] = w /\ Running(t)
        /\ phase[t] = "pending" /\ ctx[t] \in Contexts
        /\ ctx[t].started /\ ctx[t].waits = "no" /\ ctx[t].pc \in Nat \ {0}
        /\ ctx[t].worker = w
    BY <1>1, <1>2, Runs DEF Return
  <1>4. /\ ctx[t].pc > Len(Program[t]) /\ EndTask(w, t)
        /\ cur' = [cur EXCEPT ![w] = None] /\ UNCHANGED net
    BY <1>2 DEF Return
  <1>5. Childless(t)
    <2>1. ctx[t].pc \notin 1 .. Len(Program[t])
      BY <1>3, <1>4, OpFacts
    <2>2. ~Reached(t, "await")
      BY <2>1 DEF Reached
    <2> QED
      BY <1>3, <2>2, NoChildren DEF Inv
  <1>6. /\ cur \in [Workers -> Tasks \cup {None}] /\ net \subseteq Tasks
        /\ timed \in [Workers -> SUBSET Tasks] /\ blocked \in [Workers -> SUBSET Tasks]
        /\ ctx \in [Tasks -> Contexts]
    BY DEF Inv, State, TypeOK
  <1>7. cur' \in [Workers -> Tasks \cup {None}] /\ net' \subseteq Tasks
    BY <1>4, <1>6
  <1>8. CASE t \notin Periodic
    <2>1. /\ phase' = [phase EXCEPT ![t] = Finished(t)] /\ Reported(t)
          /\ UNCHANGED <<ctx, timed, blocked, lane, retry, container, moves>>
      BY <1>4, <1>8 DEF EndTask, Reported
    <2>2. Relocates(t, "none", w)
      BY <1>1, <1>3, <1>4, <1>6, <2>1, WorkerAssumption DEF Relocates, Located
    <2> QED
      BY <1>1, <1>3, <1>5, <1>7, <2>1, <2>2, Ended
  <1>9. CASE t \in Periodic
    <2> DEFINE m == [ctx[t] EXCEPT !.started = FALSE]
               n == [m EXCEPT !.pc = 0]
    <2>1. /\ ctx' = [ctx EXCEPT ![t].started = FALSE, ![t].pc = 0]
          /\ UNCHANGED <<phase, event, lane, retry, container, moves>>
      BY <1>4, <1>9 DEF EndTask
    <2>2. m \in Contexts /\ m.waits = ctx[t].waits /\ m.parent = ctx[t].parent /\ m.worker = ctx[t].worker
          /\ ~m.started
      BY <1>3, Zenon DEF Contexts
    <2>3. ctx' = [ctx EXCEPT ![t] = n]
      BY <1>3, <1>6, <2>1
    <2> HIDE DEF m
    <2>4. n.waits = "no" /\ n.parent = ctx[t].parent /\ n.worker = w /\ n.pc = 0
      BY <1>3, <2>2 DEF Contexts
    <2>5. n.started = m.started
      BY <2>2 DEF Contexts
    <2>6. n \in Contexts
      BY <2>2 DEF Contexts
    <2>7. ~n.started
      BY <2>2, <2>5
    <2> HIDE DEF n
    <2>8. ctx'[t] = n /\ ctx' \in [Tasks -> Contexts]
      BY <1>3, <1>6, <2>3, <2>6
    <2>9. LanesApart'
      BY <2>1 DEF Inv, State, LanesApart
    <2>10. ASSUME NEW k \in {"timed", "blocked"}, Relocates(t, k, w),
                  timed' \in [Workers -> SUBSET Tasks], blocked' \in [Workers -> SUBSET Tasks]
           PROVE  Inv'
      <3>1. TypeOK'
        BY <1>7, <2>1, <2>8, <2>10 DEF Inv, State, TypeOK
      <3>2. k \in Kinds \ {"none"} /\ k # "cur"
        BY DEF Kinds
      <3>3. ~Running(t)'
        BY <1>3, <2>10, <3>2, RunningOthers
      <3>4. Coroutine(t)'
        BY <1>3, <2>1, <2>4, <2>7, <2>8, <2>10, <3>3 DEF Coroutine, Relocates
      <3> QED
        BY <1>3, <1>5, <2>1, <2>3, <2>4, <2>6, <2>9, <2>10, <3>1, <3>2, <3>4, Passed
    <2>11. CASE t \in ZeroPeriod
      <3>1. blocked' = [blocked EXCEPT ![w] = @ \cup {t}] /\ UNCHANGED timed
        BY <1>4, <1>9, <2>11 DEF EndTask
      <3>2. Relocates(t, "blocked", w)
        BY <1>1, <1>3, <1>4, <1>6, <2>1, <3>1, WorkerAssumption DEF Relocates, Located
      <3>3. timed' \in [Workers -> SUBSET Tasks] /\ blocked' \in [Workers -> SUBSET Tasks]
        BY <1>3, <1>6, <3>1
      <3> QED
        BY <2>10, <3>2, <3>3
    <2>12. CASE t \notin ZeroPeriod
      <3>1. timed' = [timed EXCEPT ![w] = @ \cup {t}] /\ UNCHANGED blocked
        BY <1>4, <1>9, <2>12 DEF EndTask
      <3>2. Relocates(t, "timed", w)
        BY <1>1, <1>3, <1>4, <1>6, <2>1, <3>1, WorkerAssumption DEF Relocates, Located
      <3>3. timed' \in [Workers -> SUBSET Tasks] /\ blocked' \in [Workers -> SUBSET Tasks]
        BY <1>3, <1>6, <3>1
      <3> QED
        BY <2>10, <3>2, <3>3
    <2> QED
      BY <2>11, <2>12
  <1> QED
    BY <1>8, <1>9

-----------------------------------------------------------------------------
(* Sending a task.                                                         *)

\* A task that was not sent is nowhere, and nobody waits for it.
LEMMA NotSent ==
  ASSUME Inv, NEW at, NEW on, Located(at, on), Accounted(at),
         NEW t \in Tasks, phase[t] = "new"
  PROVE  /\ ctx[t] = NewContext /\ at[t] = "none" /\ ~Running(t)
         /\ ~Reports(t) /\ Childless(t)
  <1>1. ctx[t] = NewContext
    BY DEF Inv, State, Coroutines, Coroutine
  <1>2. at[t] = "none"
    BY DEF Accounted
  <1>3. ~Running(t)
    BY <1>2 DEF Located, Running
  <1>4. ~Reports(t)
    BY DEF Reports
  <1>5. Childless(t)
    BY DEF Inv, State, Families, Childless
  <1> QED
    BY <1>1, <1>2, <1>3, <1>4, <1>5

\* A client thread's task enters a lane or the network, or is dropped.
LEMMA Entered ==
  ASSUME Inv, TypeOK', LanesApart', NEW at, NEW on, Located(at, on), Accounted(at),
         NEW t \in Roots, phase[t] = "new", NEW h \in Workers,
         NEW k \in {"lane", "net", "none"}, NEW ph \in {"pending", "dropped"},
         k = "none" <=> ph = "dropped", k = "net" => t \in Movable, Relocates(t, k, h),
         NEW n \in Contexts, n.parent = None, n.waits = "no", n.pc = 0, ~n.started,
         ctx' = [ctx EXCEPT ![t] = n], phase' = [phase EXCEPT ![t] = ph], event' = event
  PROVE  Inv'
  <1> USE DEF Inv, State
  <1>0. t \in Tasks /\ k \in Kinds /\ k # "cur"
    BY WorkerAssumption DEF Kinds
  <1>1. ctx[t] = NewContext /\ at[t] = "none" /\ ~Running(t) /\ ~Reports(t) /\ Childless(t)
    BY <1>0, NotSent
  <1>2. /\ ctx'[t] = n /\ \A u \in Tasks : u # t => ctx'[u] = ctx[u]
        /\ phase'[t] = ph /\ \A u \in Tasks : u # t => phase'[u] = phase[u]
    BY <1>0 DEF TypeOK
  <1>3. ~Reports(t)' /\ \A u \in Tasks : u # t => (Reports(u)' <=> Reports(u))
    BY <1>2 DEF Reports
  <1>4. \A u \in Tasks : ctx'[u].parent = ctx[u].parent
    BY <1>1, <1>2 DEF NewContext
  <1>5. /\ \A u \in Tasks : u # t => (Running(u)' <=> Running(u))
        /\ ~Running(t)'
    BY <1>0, RunningOthers
  <1>6. \A u \in Tasks : \A name : u # t => (Reached(u, name)' <=> Reached(u, name))
    BY <1>2 DEF Reached
  <1>7. Coroutines'
    <2>1. Coroutine(t)'
      BY <1>0, <1>2, <1>5 DEF Coroutine, Relocates
    <2>2. \A u \in Tasks : u # t => Coroutine(u)'
      BY <1>0, <1>2, CoroutineOthers DEF Coroutines
    <2> QED
      BY <2>1, <2>2 DEF Coroutines
  <1>8. Families'
    <2> SUFFICES ASSUME NEW x \in Tasks
                 PROVE  /\ Reports(x)' =>
                             LET p == ctx[x].parent
                             IN /\ phase'[p] = "pending"
                                /\ Reached(p, "await")' /\ Program[p][ctx'[p].pc].sub = x
                                /\ Running(p)' \/ ctx'[p].waits = "future"
                        /\ phase'[x] = "ended" => Reports(x)'
                        /\ x \in Roots => ctx[x].parent = None
      BY <1>4 DEF Families
    <2>1. ASSUME Reports(x)'
          PROVE  Reports(x) /\ ctx[x].parent \in Tasks /\ ctx[x].parent # t
      BY <1>1, <1>3, <2>1, ParentIsTask DEF Childless
    <2>2. phase'[x] = "ended" => Reports(x)'
      BY <1>2, <1>3 DEF Families
    <2> QED
      BY <1>2, <1>5, <1>6, <2>1, <2>2 DEF Families
  <1>9. Awaiting'
    <2> SUFFICES ASSUME NEW p \in Tasks, phase'[p] = "pending", Reached(p, "await")',
                        Running(p)' \/ ctx'[p].waits = "future",
                        NEW x, x = Program[p][ctx'[p].pc].sub
                 PROVE  /\ x \in Tasks
                        /\ x \notin FireForget => Reports(x)' /\ ctx'[x].parent = p
                        /\ ctx'[p].waits = "future" => x \notin FireForget
      BY DEF Awaiting
    <2>1. p # t
      BY <1>2, <1>5
    <2>2. /\ x \in Tasks
          /\ x \notin FireForget => Reports(x) /\ ctx[x].parent = p
          /\ ctx[p].waits = "future" => x \notin FireForget
      BY <1>2, <1>5, <1>6, <2>1 DEF Awaiting
    <2> QED
      BY <1>1, <1>2, <1>3, <1>4, <2>1, <2>2
  <1>10. Events'
    <2>1. ASSUME NEW v \in Workers, NEW x \in Tasks, Holds(event[v], x)
          PROVE  phase'[x] = "ended" /\ ctx'[ctx'[x].parent].worker = v
      <3>1. phase[x] = "ended" /\ ctx[ctx[x].parent].worker = v
        BY <2>1 DEF Events
      <3>2. Reports(x)
        BY <3>1 DEF Families
      <3> QED
        BY <1>2, <1>4, <3>1, <3>2, ParentIsTask, <1>1 DEF Childless
    <2> QED
      BY <2>1 DEF Events
  <1>11. Placed'
    <2>1. Located([at EXCEPT ![t] = k], [on EXCEPT ![t] = h])'
      BY <1>0, Relocated
    <2>2. Accounted([at EXCEPT ![t] = k])'
      BY <1>0, <1>2 DEF Accounted, Located
    <2> QED
      BY <2>1, <2>2 DEF Placed
  <1> QED
    BY <1>7, <1>8, <1>9, <1>10, <1>11

\* A lane that gets one more task.
LEMMA LaneGrows ==
  ASSUME Inv, NEW d \in Workers, NEW t \in Tasks, \A v \in Workers : ~Holds(lane[v], t),
         Len(lane[d]) < LaneDepth, lane' = [lane EXCEPT ![d] = Append(@, t)]
  PROVE  /\ lane' \in [Workers -> Seq(Tasks)] /\ LanesApart'
         /\ \A v \in Workers, u \in Tasks : u # t => (Holds(lane'[v], u) <=> Holds(lane[v], u))
         /\ \A v \in Workers : Holds(lane'[v], t) <=> v = d
  <1>1. /\ lane \in [Workers -> Seq(Tasks)] /\ LaneDepth \in Nat
        /\ \A v \in Workers : Len(lane[v]) <= LaneDepth /\ NoRepeats(lane[v])
    BY WorkerAssumption DEF Inv, State, TypeOK, LanesApart
  <1>2. /\ Append(lane[d], t) \in Seq(Tasks) /\ NoRepeats(Append(lane[d], t))
        /\ Len(lane[d]) \in Nat /\ Len(Append(lane[d], t)) = Len(lane[d]) + 1
        /\ \A u : Holds(Append(lane[d], t), u) <=> Holds(lane[d], u) \/ u = t
    BY <1>1, HoldsAppend
  <1>3. lane'[d] = Append(lane[d], t) /\ \A v \in Workers : v # d => lane'[v] = lane[v]
    BY <1>1
  <1>4. lane' \in [Workers -> Seq(Tasks)]
    BY <1>1, <1>2
  <1>5. LanesApart'
    BY <1>1, <1>2, <1>3 DEF LanesApart
  <1> QED
    BY <1>2, <1>3, <1>4, <1>5

\* SendRuntime preserves the invariant.
LEMMA SendRuntimeInv ==
  ASSUME Inv, NEW t \in Tasks, SendRuntime(t) PROVE Inv'
  <1>1. PICK at, on : Located(at, on) /\ Accounted(at)
    BY DEF Inv, Placed
  <1>2. /\ t \in Roots /\ phase[t] = "new"
        /\ ctx' = [ctx EXCEPT ![t] = [NewContext EXCEPT !.routed = TRUE]]
        /\ UNCHANGED <<event, timed, blocked, retry, cur, container, moves>>
    BY DEF SendRuntime
  <1>3. at[t] = "none"
    BY <1>1, <1>2, NotSent
  <1> DEFINE n == [NewContext EXCEPT !.routed = TRUE]
  <1>4. /\ n \in Contexts /\ n.parent = None /\ n.waits = "no" /\ n.pc = 0 /\ ~n.started
    <2>1. NewContext \in Contexts /\ ~NewContext.started
      BY DEF NewContext, Contexts
    <2>2. n \in Contexts
      BY <2>1, Zenon DEF Contexts
    <2>3. n.parent = None /\ n.waits = "no" /\ n.pc = 0
      BY DEF NewContext
    <2>4. n.started = NewContext.started
      BY <2>1, Zenon DEF Contexts
    <2> QED
      BY <2>1, <2>2, <2>3, <2>4
  <1>5. ctx' = [ctx EXCEPT ![t] = n]
    BY <1>2
  <1> HIDE DEF n
  <1>6. /\ ctx \in [Tasks -> Contexts] /\ phase \in [Tasks -> Phases] /\ net \subseteq Tasks
        /\ lane \in [Workers -> Seq(Tasks)] /\ SchedWorker \in Workers
        /\ {"pending", "dropped"} \subseteq Phases
    BY WorkerAssumption DEF Inv, State, TypeOK, Phases
  <1>7. ctx' \in [Tasks -> Contexts]
    BY <1>4, <1>5, <1>6
  <1>8. CASE Unavailable(t) /\ phase' = [phase EXCEPT ![t] = "dropped"] /\ UNCHANGED <<lane, net>>
    <2>1. TypeOK'
      BY <1>2, <1>6, <1>7, <1>8 DEF Inv, State, TypeOK
    <2>2. LanesApart'
      BY <1>8 DEF Inv, State, LanesApart
    <2>3. Relocates(t, "none", SchedWorker)
      BY <1>1, <1>2, <1>3, <1>8 DEF Relocates, Located
    <2> QED
      BY <1>1, <1>2, <1>4, <1>5, <1>6, <1>8, <2>1, <2>2, <2>3, Entered
  <1>9. CASE Elsewhere(t) /\ phase' = [phase EXCEPT ![t] = "pending"] /\ net' = net \cup {t}
             /\ UNCHANGED lane
    <2>1. TypeOK'
      BY <1>2, <1>6, <1>7, <1>9 DEF Inv, State, TypeOK
    <2>2. LanesApart'
      BY <1>9 DEF Inv, State, LanesApart
    <2>3. Relocates(t, "net", SchedWorker)
      BY <1>1, <1>2, <1>3, <1>9 DEF Relocates, Located
    <2>4. t \in Movable
      BY <1>9 DEF Elsewhere
    <2> QED
      BY <1>1, <1>2, <1>4, <1>5, <1>6, <1>9, <2>1, <2>2, <2>3, <2>4, Entered
  <1>10. ASSUME NEW d \in Workers, Len(lane[d]) < LaneDepth,
                lane' = [lane EXCEPT ![d] = Append(@, t)],
                phase' = [phase EXCEPT ![t] = "pending"], UNCHANGED net
         PROVE  Inv'
    <2>1. \A v \in Workers : ~Holds(lane[v], t)
      BY <1>1, <1>3 DEF Located
    <2>2. /\ lane' \in [Workers -> Seq(Tasks)] /\ LanesApart'
          /\ \A v \in Workers, u \in Tasks : u # t => (Holds(lane'[v], u) <=> Holds(lane[v], u))
          /\ \A v \in Workers : Holds(lane'[v], t) <=> v = d
      BY <1>10, <2>1, LaneGrows
    <2>3. TypeOK'
      BY <1>2, <1>6, <1>7, <1>10, <2>2 DEF Inv, State, TypeOK
    <2>4. Relocates(t, "lane", d)
      BY <1>1, <1>2, <1>3, <1>10, <2>2 DEF Relocates, Located
    <2> QED
      BY <1>1, <1>2, <1>4, <1>5, <1>6, <1>10, <2>2, <2>3, <2>4, Entered
  <1>11. RuntimeMapTask(t) \subseteq Workers
    BY WorkerAssumption DEF RuntimeMapTask
  <1> QED
    BY <1>8, <1>9, <1>10, <1>11 DEF SendRuntime

\* SendRuntimeClient preserves the invariant: the subtask reports to the running
\* coroutine, which is at the co_await for it.
LEMMA SendRuntimeClientInv ==
  ASSUME Sequential, Inv, NEW w \in Workers, SendRuntimeClient(w) PROVE Inv'
  <1> USE DEF Inv, State
  <1>1. PICK at, on : Located(at, on) /\ Accounted(at)
    BY DEF Placed
  <1>2. PICK p, s : p = cur[w] /\ s = Sub(w)
    OBVIOUS
  <1>3. /\ p \in Tasks /\ at[p] = "cur" /\ on[p] = w /\ Running(p)
        /\ phase[p] = "pending" /\ ctx[p] \in Contexts
        /\ ctx[p].started /\ ctx[p].waits = "no" /\ ctx[p].pc \in Nat \ {0}
        /\ ctx[p].worker = w
    BY <1>1, <1>2, Runs DEF SendRuntimeClient, AtOp
  <1>4. /\ ctx[p].pc \in 1 .. Len(Program[p]) /\ Program[p][ctx[p].pc].op = "send"
        /\ s = Program[p][ctx[p].pc].sub
    BY <1>2, <1>3, AtOpFacts DEF SendRuntimeClient
  <1>5. /\ s \in Tasks /\ s \notin Roots
        /\ s \notin FireForget =>
             /\ ctx[p].pc + 1 \in 1 .. Len(Program[p])
             /\ Program[p][ctx[p].pc + 1].op = "await"
             /\ Program[p][ctx[p].pc + 1].sub = s
    BY <1>3, <1>4, SequentialOp
  <1>6. ASSUME ctx[p].pc + 1 \in 1 .. Len(Program[p]), Program[p][ctx[p].pc + 1].op = "await"
        PROVE  Program[p][ctx[p].pc + 1].sub = s
    <2>1. Program[p][(ctx[p].pc + 1) - 1].sub = Program[p][ctx[p].pc + 1].sub
      BY <1>3, <1>6, SequentialOp
    <2>2. (ctx[p].pc + 1) - 1 = ctx[p].pc
      BY <1>3
    <2> QED
      BY <1>4, <2>1, <2>2
  <1>7. /\ phase[s] = "new" /\ Len(lane[SchedWorker]) < LaneDepth
        /\ lane' = [lane EXCEPT ![SchedWorker] = Append(@, s)]
        /\ phase' = [phase EXCEPT ![s] = "pending"]
        /\ ctx' = [ctx EXCEPT ![s] = SubContext(w), ![p].pc = @ + 1]
        /\ UNCHANGED <<event, timed, blocked, retry, cur, net, container, moves>>
    BY <1>2 DEF SendRuntimeClient
  <1>8. s # p /\ SchedWorker \in Workers
    BY <1>3, <1>7, WorkerAssumption
  <1>9. ctx[s] = NewContext /\ at[s] = "none" /\ ~Running(s) /\ ~Reports(s) /\ Childless(s)
    BY <1>1, <1>5, <1>7, NotSent
  <1>10. Childless(p)
    <2>1. ~Reached(p, "await")
      BY <1>4 DEF Reached
    <2> QED
      BY <1>3, <2>1, NoChildren
  <1> DEFINE c == SubContext(w)
             n == [ctx[p] EXCEPT !.pc = @ + 1]
  <1>11. c \in Contexts /\ c.parent = p /\ c.waits = "no" /\ ~c.started
    BY <1>2, <1>3, WorkerAssumption DEF SubContext, NewContext, Contexts
  <1>12. n.waits = "no" /\ n.pc = ctx[p].pc + 1 /\ n.parent = ctx[p].parent /\ n.worker = w
    BY <1>3 DEF Contexts
  <1>13. n.started
    <2>1. n.started = ctx[p].started
      BY <1>3 DEF Contexts
    <2> QED
      BY <1>3, <2>1
  <1>14. n \in Contexts /\ n.pc >= 1
    <2>1. ctx[p].pc + 1 \in Nat /\ ctx[p].pc + 1 >= 1
      BY <1>3
    <2> QED
      BY <1>3, <1>12, <2>1 DEF Contexts
  <1>15. /\ ctx'[s] = c /\ ctx'[p] = n /\ \A u \in Tasks : u # s /\ u # p => ctx'[u] = ctx[u]
         /\ ctx' = [[ctx EXCEPT ![s] = c] EXCEPT ![p] = n]
    BY <1>3, <1>5, <1>7, <1>8 DEF TypeOK
  <1> HIDE DEF c, n
  <1>16. phase'[s] = "pending" /\ \A u \in Tasks : u # s => phase'[u] = phase[u]
    BY <1>5, <1>7 DEF TypeOK
  <1>17. /\ lane' \in [Workers -> Seq(Tasks)] /\ LanesApart'
         /\ \A v \in Workers, u \in Tasks : u # s => (Holds(lane'[v], u) <=> Holds(lane[v], u))
         /\ \A v \in Workers : Holds(lane'[v], s) <=> v = SchedWorker
    <2>1. \A v \in Workers : ~Holds(lane[v], s)
      BY <1>1, <1>5, <1>9 DEF Located
    <2> QED
      BY <1>5, <1>7, <1>8, <2>1, LaneGrows
  <1>18. TypeOK'
    <2>1. ctx' \in [Tasks -> Contexts]
      BY <1>11, <1>14, <1>15 DEF TypeOK
    <2>2. phase' \in [Tasks -> Phases]
      BY <1>7 DEF TypeOK, Phases
    <2> QED
      BY <1>7, <1>17, <2>1, <2>2 DEF TypeOK
  <1>19. Relocates(s, "lane", SchedWorker)
    BY <1>1, <1>5, <1>7, <1>9, <1>17 DEF Relocates, Located
  <1>20. /\ \A u \in Tasks : u # s => (Running(u)' <=> Running(u))
         /\ ~Running(s)' /\ Running(p)'
    BY <1>3, <1>5, <1>8, <1>19, RunningOthers
  <1>21. \A u \in Tasks : \A name : u # s /\ u # p => (Reached(u, name)' <=> Reached(u, name))
    BY <1>15 DEF Reached
  <1>22. \A u \in Tasks : u # s => ctx'[u].parent = ctx[u].parent /\ ctx'[u].worker = ctx[u].worker
    BY <1>3, <1>12, <1>15
  <1>23. /\ \A u \in Tasks : u # s => (Reports(u)' <=> Reports(u))
         /\ Reports(s)' <=> s \notin FireForget
    <2>1. p # None
      BY <1>3, WorkerAssumption
    <2> QED
      BY <1>11, <1>15, <1>16, <1>22, <2>1 DEF Reports
  <1>24. Coroutines'
    <2>1. Coroutine(s)'
      BY <1>11, <1>15, <1>16, <1>19, <1>20 DEF Coroutine, Relocates
    <2>2. Coroutine(p)'
      <3>1. \A v \in Workers : p \in timed'[v] \/ p \in blocked'[v] \/ p \in retry'[v] \/ cur'[v] = p
              => v = w
        BY <1>1, <1>3, <1>7 DEF Located
      <3>2. \A v \in Workers : p \notin retry'[v]
        BY <1>1, <1>3, <1>7 DEF Located
      <3>3. p \notin net'
        BY <1>1, <1>3, <1>7 DEF Located
      <3> QED
        BY <1>3, <1>8, <1>12, <1>13, <1>14, <1>15, <1>16, <1>20, <3>1, <3>2, <3>3 DEF Coroutine
    <2>3. \A u \in Tasks : u # s /\ u # p => Coroutine(u)'
      BY <1>5, <1>8, <1>15, <1>16, <1>19, CoroutineOthers DEF Coroutines
    <2> QED
      BY <2>1, <2>2, <2>3 DEF Coroutines
  <1>25. Families'
    <2> SUFFICES ASSUME NEW x \in Tasks, NEW q, q = ctx'[x].parent
                 PROVE  /\ Reports(x)' =>
                             /\ phase'[q] = "pending"
                             /\ Reached(q, "await")' /\ Program[q][ctx'[q].pc].sub = x
                             /\ Running(q)' \/ ctx'[q].waits = "future"
                        /\ phase'[x] = "ended" => Reports(x)'
                        /\ x \in Roots => ctx'[x].parent = None
      BY DEF Families
    <2>1. CASE x = s
      <3>1. s \notin FireForget => Reached(p, "await")' /\ Program[p][ctx'[p].pc].sub = s
        BY <1>5, <1>12, <1>15 DEF Reached
      <3> QED
        BY <1>3, <1>5, <1>8, <1>11, <1>15, <1>16, <1>20, <1>23, <2>1, <3>1
    <2>2. CASE x # s
      <3>1. ASSUME Reports(x)'
            PROVE  Reports(x) /\ ctx[x].parent \in Tasks /\ ctx[x].parent # s /\ ctx[x].parent # p
        BY <1>9, <1>10, <1>23, <2>2, <3>1, ParentIsTask DEF Childless
      <3>2. phase'[x] = "ended" => Reports(x)'
        BY <1>16, <1>23, <2>2 DEF Families
      <3>3. q = ctx[x].parent
        BY <1>22, <2>2
      <3>4. ASSUME Reports(x)'
            PROVE  /\ phase'[q] = "pending" /\ Reached(q, "await")'
                   /\ Program[q][ctx'[q].pc].sub = x
                   /\ Running(q)' \/ ctx'[q].waits = "future"
        <4>1. q \in Tasks /\ q # s /\ q # p /\ Reports(x)
          BY <3>1, <3>3, <3>4
        <4>2. /\ phase[q] = "pending" /\ Reached(q, "await")
              /\ Program[q][ctx[q].pc].sub = x
              /\ Running(q) \/ ctx[q].waits = "future"
          BY <3>3, <4>1 DEF Families
        <4> QED
          BY <1>15, <1>16, <1>20, <1>21, <4>1, <4>2
      <3>5. x \in Roots => q = None
        BY <3>3 DEF Families
      <3> QED
        BY <3>2, <3>4, <3>5
    <2> QED
      BY <2>1, <2>2
  <1>26. Awaiting'
    <2> SUFFICES ASSUME NEW q \in Tasks, phase'[q] = "pending", Reached(q, "await")',
                        Running(q)' \/ ctx'[q].waits = "future",
                        NEW x, x = Program[q][ctx'[q].pc].sub
                 PROVE  /\ x \in Tasks
                        /\ x \notin FireForget => Reports(x)' /\ ctx'[x].parent = q
                        /\ ctx'[q].waits = "future" => x \notin FireForget
      BY DEF Awaiting
    <2>1. q # s
      BY <1>11, <1>15, <1>20
    <2>2. CASE q = p
      <3>1. x = s
        BY <1>6, <1>12, <1>15, <2>2 DEF Reached
      <3> QED
        BY <1>5, <1>11, <1>12, <1>15, <1>23, <2>2, <3>1
    <2>3. CASE q # p
      <3>1. /\ x \in Tasks
            /\ x \notin FireForget => Reports(x) /\ ctx[x].parent = q
            /\ ctx[q].waits = "future" => x \notin FireForget
        BY <1>15, <1>16, <1>20, <1>21, <2>1, <2>3 DEF Awaiting
      <3> QED
        BY <1>9, <1>15, <1>22, <1>23, <2>1, <2>3, <3>1
    <2> QED
      BY <2>2, <2>3
  <1>27. Events'
    <2>1. ASSUME NEW v \in Workers, NEW x \in Tasks, Holds(event[v], x)
          PROVE  phase'[x] = "ended" /\ ctx'[ctx'[x].parent].worker = v
      <3>1. phase[x] = "ended" /\ ctx[ctx[x].parent].worker = v
        BY <2>1 DEF Events
      <3>2. Reports(x) /\ x # s
        BY <1>7, <3>1 DEF Families
      <3>3. ctx[x].parent \in Tasks /\ ctx[x].parent # s
        BY <1>9, <3>2, ParentIsTask DEF Childless
      <3> QED
        BY <1>16, <1>22, <3>1, <3>2, <3>3
    <2> QED
      BY <1>7, <2>1 DEF Events
  <1>28. Placed'
    <2>1. Located([at EXCEPT ![s] = "lane"], [on EXCEPT ![s] = SchedWorker])'
      BY <1>1, <1>5, <1>8, <1>19, Relocated DEF Kinds
    <2>2. Accounted([at EXCEPT ![s] = "lane"])'
      <3> SUFFICES ASSUME NEW u \in Tasks
                   PROVE  [at EXCEPT ![s] = "lane"][u] = "none"
                            <=> (phase'[u] # "pending" \/ ctx'[u].waits = "future")
        BY DEF Accounted
      <3>1. ctx'[p].waits = ctx[p].waits /\ ctx'[s].waits = "no"
        BY <1>3, <1>11, <1>12, <1>15
      <3>2. at \in [Tasks -> Kinds]
        BY <1>1 DEF Located
      <3>3. CASE u = s
        BY <1>5, <1>16, <3>1, <3>2, <3>3
      <3>4. CASE u # s
        <4>1. phase'[u] = phase[u] /\ ctx'[u].waits = ctx[u].waits
          BY <1>15, <1>16, <3>1, <3>4
        <4> QED
          BY <1>1, <3>2, <3>4, <4>1 DEF Accounted
      <3> QED
        BY <3>3, <3>4
    <2> QED
      BY <2>1, <2>2 DEF Placed
  <1> QED
    BY <1>17, <1>18, <1>24, <1>25, <1>26, <1>27, <1>28

-----------------------------------------------------------------------------
(* The report of a subtask.                                                *)

\* The parent of the first report in the event queue of w is suspended at the
\* co_await for it, and w is its worker.
LEMMA FirstReport ==
  ASSUME Inv, NEW w \in Workers, cur[w] = None, event[w] # <<>>,
         NEW s, s = Head(event[w]), NEW p, p = ctx[s].parent
  PROVE  /\ s \in Tasks /\ phase[s] = "ended" /\ Reports(s) /\ p \in Tasks /\ p # s
         /\ phase[p] = "pending" /\ ~Running(p) /\ ctx[p] \in Contexts
         /\ ctx[p].waits = "future" /\ ctx[p].started /\ ctx[p].worker = w
         /\ ctx[p].pc \in 1 .. Len(Program[p])
         /\ Program[p][ctx[p].pc].op = "await" /\ Program[p][ctx[p].pc].sub = s
  <1> USE DEF Inv, State
  <1>1. event[w] \in Seq(Tasks) /\ NoRepeats(event[w])
    BY DEF TypeOK, Events
  <1>2. s \in Tasks /\ Holds(event[w], s)
    BY <1>1, HoldsTail
  <1>3. phase[s] = "ended" /\ ctx[p].worker = w
    BY <1>2 DEF Events
  <1>4. Reports(s)
    BY <1>2, <1>3 DEF Families
  <1>5. p \in Tasks
    BY <1>2, <1>4, ParentIsTask
  <1>6. /\ phase[p] = "pending" /\ Reached(p, "await") /\ Program[p][ctx[p].pc].sub = s
        /\ Running(p) \/ ctx[p].waits = "future"
    BY <1>2, <1>4 DEF Families
  <1>7. Coroutine(p) /\ ctx[p] \in Contexts
    BY <1>5 DEF Coroutines, TypeOK
  <1>8. ~Running(p)
    BY <1>3, <1>5, <1>7, WorkerAssumption DEF Coroutine, Running
  <1>9. ctx[p].waits = "future" /\ ctx[p].started
    BY <1>6, <1>7, <1>8 DEF Coroutine
  <1> QED
    BY <1>2, <1>3, <1>4, <1>5, <1>6, <1>7, <1>8, <1>9 DEF Reached

\* ProcessEventQueue preserves the invariant: it resumes the parent, which goes
\* on behind the co_await, and deletes the subtask.
LEMMA ProcessEventQueueInv ==
  ASSUME Sequential, Inv, NEW w \in Workers, ProcessEventQueue(w) PROVE Inv'
  <1> USE DEF Inv, State
  <1>1. PICK at, on : Located(at, on) /\ Accounted(at)
    BY DEF Placed
  <1>2. PICK s : s = Head(event[w])
    OBVIOUS
  <1>3. PICK p : p = ctx[s].parent
    OBVIOUS
  <1>4. /\ cur[w] = None /\ event[w] # <<>> /\ event' = [event EXCEPT ![w] = Tail(@)]
        /\ UNCHANGED <<lane, timed, blocked, retry, net, container, moves>>
    BY DEF ProcessEventQueue
  <1>5. /\ s \in Tasks /\ phase[s] = "ended" /\ Reports(s) /\ p \in Tasks /\ p # s
        /\ phase[p] = "pending" /\ ~Running(p) /\ ctx[p] \in Contexts
        /\ ctx[p].waits = "future" /\ ctx[p].started /\ ctx[p].worker = w
        /\ ctx[p].pc \in 1 .. Len(Program[p])
        /\ Program[p][ctx[p].pc].op = "await" /\ Program[p][ctx[p].pc].sub = s
    BY <1>2, <1>3, <1>4, FirstReport
  <1>6. /\ ResumeParent(w, p)
        /\ phase' = Consume([phase EXCEPT ![s] = IF @ = "ended" THEN "complete" ELSE @], s)
    BY <1>2, <1>3, <1>5 DEF ProcessEventQueue, HasHandle
  <1>7. phase' = [phase EXCEPT ![s] = "freed"]
    BY <1>5, <1>6 DEF Consume, TypeOK
  <1>8. phase'[s] = "freed" /\ \A u \in Tasks : u # s => phase'[u] = phase[u]
    BY <1>5, <1>7 DEF TypeOK
  <1>9. ctx[p].pc \in Nat \ {0} /\ Len(Program[p]) \in Nat
    BY <1>5, ContextFacts, OpFacts
  <1> DEFINE m == [ctx[p] EXCEPT !.waits = "no", !.pc = @ + 1]
             n == [m EXCEPT !.routed = ctx[p].routed, !.worker = ctx[p].worker]
  <1>10. /\ cur' = [cur EXCEPT ![w] = p] /\ ctx' = [ctx EXCEPT ![p] = n]
    <2>1. Resumed(p) = m
      BY <1>5 DEF Resumed
    <2> QED
      BY <1>6, <2>1 DEF ResumeParent, ExecTask
  <1>11. m \in Contexts /\ m.waits = "no" /\ m.pc = ctx[p].pc + 1 /\ m.parent = ctx[p].parent
    <2>1. ctx[p].pc + 1 \in Nat
      BY <1>9
    <2> QED
      BY <1>5, <2>1 DEF Contexts
  <1>12. m.started = ctx[p].started
    BY <1>5 DEF Contexts
  <1> HIDE DEF m
  <1>13. n.waits = "no" /\ n.pc = ctx[p].pc + 1 /\ n.parent = ctx[p].parent /\ n.worker = w
    BY <1>5, <1>11 DEF Contexts
  <1>14. n.started
    <2>1. n.started = m.started
      BY <1>11 DEF Contexts
    <2> QED
      BY <1>5, <1>12, <2>1
  <1>15. n \in Contexts
    <2>1. ctx[p].routed \in BOOLEAN /\ ctx[p].worker \in Workers \cup {None}
      BY <1>5, ContextFacts
    <2> QED
      BY <1>11, <2>1 DEF Contexts
  <1> HIDE DEF n
  <1>16. n.pc >= 1
    BY <1>9, <1>13
  <1>17. ctx'[p] = n /\ \A u \in Tasks : u # p => ctx'[u] = ctx[u]
    BY <1>5, <1>10 DEF TypeOK
  <1>18. cur \in [Workers -> Tasks \cup {None}] /\ event \in [Workers -> Seq(Tasks)]
    BY DEF TypeOK
  <1>19. /\ Tail(event[w]) \in Seq(Tasks) /\ NoRepeats(Tail(event[w]))
         /\ \A u : Holds(Tail(event[w]), u) <=> Holds(event[w], u) /\ u # s
    BY <1>2, <1>4, <1>18, HoldsTail DEF Events
  <1>20. event'[w] = Tail(event[w]) /\ \A v \in Workers : v # w => event'[v] = event[v]
    BY <1>4, <1>18
  <1>21. TypeOK'
    <2>1. ctx' \in [Tasks -> Contexts]
      BY <1>10, <1>15 DEF TypeOK
    <2>2. phase' \in [Tasks -> Phases]
      BY <1>7 DEF TypeOK, Phases
    <2>3. event' \in [Workers -> Seq(Tasks)] /\ cur' \in [Workers -> Tasks \cup {None}]
      BY <1>4, <1>5, <1>10, <1>18, <1>19
    <2> QED
      BY <1>4, <2>1, <2>2, <2>3 DEF TypeOK
  <1>22. LanesApart'
    BY <1>4 DEF LanesApart
  <1>23. at[p] = "none"
    BY <1>1, <1>5 DEF Accounted
  <1>24. Relocates(p, "cur", w)
    <2> HIDE DEF Inv, State
    <2>1. \A v \in Workers, u \in Tasks : cur'[v] = u <=> (IF v = w THEN u = p ELSE cur[v] = u)
      BY <1>10, <1>18
    <2>2. \A u \in Tasks : cur[w] # u
      BY <1>4, WorkerAssumption
    <2>3. \A v \in Workers : cur[v] # p
      BY <1>1, <1>5, <1>23 DEF Located
    <2>4. \A v \in Workers :
            ~Holds(lane[v], p) /\ p \notin timed[v] /\ p \notin blocked[v] /\ p \notin retry[v]
      BY <1>1, <1>5, <1>23 DEF Located
    <2>5. p \notin net
      BY <1>1, <1>5, <1>23 DEF Located
    <2> QED
      BY <1>4, <1>5, <2>1, <2>2, <2>3, <2>4, <2>5 DEF Relocates
  <1>25. /\ \A u \in Tasks : u # p => (Running(u)' <=> Running(u))
         /\ Running(p)'
    BY <1>5, <1>24, RunningOthers
  <1>26. \A u \in Tasks : \A name : u # p => (Reached(u, name)' <=> Reached(u, name))
    BY <1>17 DEF Reached
  <1>27. \A u \in Tasks : ctx'[u].parent = ctx[u].parent /\ ctx'[u].worker = ctx[u].worker
    BY <1>5, <1>13, <1>17
  <1>28. ~Reports(s)' /\ \A u \in Tasks : u # s => (Reports(u)' <=> Reports(u))
    BY <1>8, <1>27 DEF Reports
  <1>29. ~Reached(p, "await")'
    BY <1>5, <1>13, <1>17, NoTwoAwaits DEF Reached
  <1>30. Coroutines'
    <2>1. Coroutine(p)'
      BY <1>5, <1>8, <1>13, <1>14, <1>16, <1>17, <1>24, <1>25 DEF Coroutine, Relocates
    <2>2. Coroutine(s)'
      <3>1. Coroutine(s)
        BY <1>5 DEF Coroutines
      <3>2. phase'[s] # "new" /\ phase'[s] # "pending" /\ ctx'[s] = ctx[s]
        BY <1>5, <1>8, <1>17
      <3> QED
        BY <1>5, <1>24, <1>25, <1>26, <3>1, <3>2 DEF Coroutine, Relocates
    <2>3. \A u \in Tasks : u # p /\ u # s => Coroutine(u)'
      BY <1>5, <1>8, <1>17, <1>24, CoroutineOthers DEF Coroutines
    <2> QED
      BY <2>1, <2>2, <2>3 DEF Coroutines
  <1>31. Families'
    <2> SUFFICES ASSUME NEW x \in Tasks, NEW q, q = ctx[x].parent
                 PROVE  /\ Reports(x)' =>
                             /\ phase'[q] = "pending"
                             /\ Reached(q, "await")' /\ Program[q][ctx'[q].pc].sub = x
                             /\ Running(q)' \/ ctx'[q].waits = "future"
                        /\ phase'[x] = "ended" => Reports(x)'
                        /\ x \in Roots => q = None
      BY <1>27 DEF Families
    <2>1. ASSUME Reports(x)'
          PROVE  /\ phase'[q] = "pending" /\ Reached(q, "await")'
                 /\ Program[q][ctx'[q].pc].sub = x
                 /\ Running(q)' \/ ctx'[q].waits = "future"
      <3>1. x # s /\ Reports(x)
        BY <1>28, <2>1
      <3>2. /\ q \in Tasks /\ phase[q] = "pending" /\ Reached(q, "await")
            /\ Program[q][ctx[q].pc].sub = x
            /\ Running(q) \/ ctx[q].waits = "future"
        BY <3>1, ParentIsTask DEF Families
      <3>3. q # p /\ q # s
        BY <1>5, <3>1, <3>2
      <3> QED
        BY <1>8, <1>17, <1>25, <1>26, <3>2, <3>3
    <2>2. phase'[x] = "ended" => Reports(x)'
      BY <1>8, <1>28 DEF Families
    <2>3. x \in Roots => q = None
      BY DEF Families
    <2> QED
      BY <2>1, <2>2, <2>3
  <1>32. Awaiting'
    <2> SUFFICES ASSUME NEW q \in Tasks, phase'[q] = "pending", Reached(q, "await")',
                        Running(q)' \/ ctx'[q].waits = "future",
                        NEW x, x = Program[q][ctx'[q].pc].sub
                 PROVE  /\ x \in Tasks
                        /\ x \notin FireForget => Reports(x)' /\ ctx'[x].parent = q
                        /\ ctx'[q].waits = "future" => x \notin FireForget
      BY DEF Awaiting
    <2>1. q # s /\ q # p
      BY <1>8, <1>29
    <2>2. /\ x \in Tasks
          /\ x \notin FireForget => Reports(x) /\ ctx[x].parent = q
          /\ ctx[q].waits = "future" => x \notin FireForget
      BY <1>8, <1>17, <1>25, <1>26, <2>1 DEF Awaiting
    <2>3. x \notin FireForget => x # s
      BY <1>3, <2>1, <2>2
    <2> QED
      BY <1>17, <1>27, <1>28, <2>1, <2>2, <2>3
  <1>33. Events'
    <2>1. ASSUME NEW v \in Workers, NEW x \in Tasks, Holds(event'[v], x)
          PROVE  phase'[x] = "ended" /\ ctx'[ctx'[x].parent].worker = v
      <3>1. Holds(event[v], x) /\ (v = w => x # s)
        BY <1>19, <1>20, <2>1
      <3>2. phase[x] = "ended" /\ ctx[ctx[x].parent].worker = v
        BY <3>1 DEF Events
      <3>3. Reports(x) /\ x # s
        BY <1>3, <1>5, <3>1, <3>2 DEF Families
      <3> QED
        BY <1>8, <1>27, <3>2, <3>3, ParentIsTask
    <2>2. \A v \in Workers : NoRepeats(event'[v])
      <3>1. \A v \in Workers : NoRepeats(event[v])
        BY DEF Events
      <3> QED
        BY <1>19, <1>20, <3>1
    <2> QED
      BY <2>1, <2>2 DEF Events
  <1>34. Placed'
    <2>1. Located([at EXCEPT ![p] = "cur"], [on EXCEPT ![p] = w])'
      BY <1>1, <1>5, <1>24, Relocated DEF Kinds
    <2>2. Accounted([at EXCEPT ![p] = "cur"])'
      <3>1. at \in [Tasks -> Kinds]
        BY <1>1 DEF Located
      <3>2. \A u \in Tasks : u # s /\ u # p => phase'[u] = phase[u] /\ ctx'[u].waits = ctx[u].waits
        BY <1>8, <1>17
      <3>3. phase'[p] = "pending" /\ ctx'[p].waits = "no" /\ phase'[s] = "freed"
        BY <1>5, <1>8, <1>13, <1>17
      <3> QED
        BY <1>1, <1>5, <3>1, <3>2, <3>3 DEF Accounted
    <2> QED
      BY <2>1, <2>2 DEF Placed
  <1> QED
    BY <1>21, <1>22, <1>30, <1>31, <1>32, <1>33, <1>34

-----------------------------------------------------------------------------
(* The invariant.                                                          *)

\* The container that leaves or comes back touches no task.
LEMMA Untouched ==
  ASSUME Inv, UNCHANGED <<phase, ctx, queues, cur, net>>,
         container' \in {"here", "plugged", "stuck", "away", "absent"},
         moves' \in 0 .. MaxMoves
  PROVE  Inv'
  <1>1. UNCHANGED <<phase, ctx, lane, event, timed, blocked, retry, cur, net>>
    BY DEF queues
  <1>2. TypeOK'
    BY <1>1 DEF Inv, State, TypeOK
  <1>3. LanesApart'
    BY <1>1 DEF Inv, State, LanesApart
  <1>4. Coroutines'
    BY <1>1 DEF Inv, State, Coroutines, Coroutine, Running, Reached
  <1>5. Families' /\ Awaiting'
    BY <1>1 DEF Inv, State, Families, Awaiting, Reports, Running, Reached
  <1>6. Events'
    BY <1>1 DEF Inv, State, Events
  <1>7. Placed'
    BY <1>1 DEF Inv, Placed, Located, Accounted
  <1> QED
    BY <1>2, <1>3, <1>4, <1>5, <1>6, <1>7 DEF Inv, State

\* Wait preserves the invariant.
LEMMA WaitInv ==
  ASSUME Inv, NEW t \in Tasks, Wait(t) PROVE Inv'
  <1> USE DEF Inv, State
  <1>1. /\ phase[t] = "complete" /\ phase' = [phase EXCEPT ![t] = "freed"]
        /\ UNCHANGED <<ctx, lane, event, timed, blocked, retry, cur, net, container, moves>>
    BY DEF Wait, Consume, queues
  <1>2. phase'[t] = "freed" /\ \A u \in Tasks : u # t => phase'[u] = phase[u]
    BY <1>1 DEF TypeOK
  <1>3. \A u \in Tasks : /\ Reports(u)' <=> Reports(u)
                         /\ Running(u)' <=> Running(u)
                         /\ \A name : Reached(u, name)' <=> Reached(u, name)
    BY <1>1, <1>2 DEF Reports, Running, Reached
  <1>4. TypeOK'
    <2>1. phase' \in [Tasks -> Phases]
      BY <1>1 DEF TypeOK, Phases
    <2> QED
      BY <1>1, <2>1 DEF TypeOK
  <1>5. LanesApart'
    BY <1>1 DEF LanesApart
  <1>6. Coroutines'
    <2> SUFFICES ASSUME NEW u \in Tasks PROVE Coroutine(u)'
      BY DEF Coroutines
    <2>1. Coroutine(u)
      BY DEF Coroutines
    <2>2. phase'[u] = phase[u] \/ phase'[u] = "freed"
      BY <1>2
    <2> QED
      BY <1>1, <1>3, <2>1, <2>2 DEF Coroutine
  <1>7. Families'
    <2> SUFFICES ASSUME NEW s \in Tasks, NEW p, p = ctx[s].parent
                 PROVE  /\ Reports(s)' =>
                             /\ phase'[p] = "pending"
                             /\ Reached(p, "await")' /\ Program[p][ctx[p].pc].sub = s
                             /\ Running(p)' \/ ctx[p].waits = "future"
                        /\ phase'[s] = "ended" => Reports(s)'
                        /\ s \in Roots => p = None
      BY <1>1 DEF Families
    <2>1. phase'[s] = "ended" => Reports(s)'
      BY <1>2, <1>3 DEF Families
    <2>2. ASSUME Reports(s)'
          PROVE  /\ phase'[p] = "pending"
                 /\ Reached(p, "await")' /\ Program[p][ctx[p].pc].sub = s
                 /\ Running(p)' \/ ctx[p].waits = "future"
      <3>1. /\ p \in Tasks /\ phase[p] = "pending"
            /\ Reached(p, "await") /\ Program[p][ctx[p].pc].sub = s
            /\ Running(p) \/ ctx[p].waits = "future"
        BY <1>3, <2>2, ParentIsTask DEF Families
      <3> QED
        BY <1>1, <1>2, <1>3, <3>1
    <2> QED
      BY <2>1, <2>2 DEF Families
  <1>8. Awaiting'
    <2> SUFFICES ASSUME NEW p \in Tasks, phase'[p] = "pending", Reached(p, "await")',
                        Running(p)' \/ ctx[p].waits = "future",
                        NEW s, s = Program[p][ctx[p].pc].sub
                 PROVE  /\ s \in Tasks
                        /\ s \notin FireForget => Reports(s)' /\ ctx[s].parent = p
                        /\ ctx[p].waits = "future" => s \notin FireForget
      BY <1>1 DEF Awaiting
    <2>1. phase[p] = "pending" /\ Reached(p, "await") /\ (Running(p) \/ ctx[p].waits = "future")
      BY <1>2, <1>3
    <2> QED
      BY <1>3, <2>1 DEF Awaiting
  <1>9. Events'
    BY <1>1, <1>2 DEF Events
  <1>10. Placed'
    <2>1. PICK at, on : Located(at, on) /\ Accounted(at)
      BY DEF Placed
    <2>2. Located(at, on)'
      BY <1>1, <2>1 DEF Located
    <2>3. Accounted(at)'
      BY <1>1, <1>2, <2>1 DEF Accounted
    <2> QED
      BY <2>2, <2>3 DEF Placed
  <1> QED
    BY <1>4, <1>5, <1>6, <1>7, <1>8, <1>9, <1>10

\* Every step of sequential handlers preserves the invariant.
LEMMA NextInv == Sequential /\ Inv /\ [Next]_vars => Inv'
  <1> SUFFICES ASSUME Sequential, Inv, [Next]_vars PROVE Inv'
    OBVIOUS
  <1>0. /\ container \in {"here", "plugged", "stuck", "away", "absent"}
        /\ moves \in 0 .. MaxMoves /\ MaxMoves \in Nat
    BY WorkerAssumption DEF Inv, State, TypeOK
  <1>1. ASSUME NEW t \in Tasks, SendRuntime(t) PROVE Inv'
    BY <1>1, SendRuntimeInv
  <1>2. ASSUME NEW w \in Workers, ProcessNewTask(w) PROVE Inv'
    BY <1>2, ProcessNewTaskInv
  <1>3. ASSUME NEW w \in Workers, ProcessEventQueue(w) PROVE Inv'
    BY <1>3, ProcessEventQueueInv
  <1>4. ASSUME NEW w \in Workers, RunStep(w) PROVE Inv'
    BY <1>4, SendRuntimeClientInv, WaitFutureInv, YieldTaskInv, ReturnInv DEF RunStep
  <1>5. ASSUME NEW w \in Workers, NEW t \in Tasks,
               ProcessPeriodicQueue(w, t) \/ ProcessBlockedQueue(w, t) \/ ProcessRetryQueue(w, t)
        PROVE  Inv'
    BY <1>5, ProcessPeriodicQueueInv, ProcessBlockedQueueInv, ProcessRetryQueueInv
  <1>6. ASSUME NEW t \in Tasks, RecvOut(t) \/ Wait(t) PROVE Inv'
    BY <1>6, RecvOutInv, WaitInv
  <1>7. CASE PlugContainer
    <2>1. moves' \in 0 .. MaxMoves
      BY <1>0, <1>7 DEF PlugContainer
    <2> QED
      BY <1>7, <2>1, Untouched DEF PlugContainer
  <1>8. CASE MigrateContainer
    BY <1>0, <1>8, Untouched DEF MigrateContainer
  <1>9. CASE AssignContainer
    BY <1>0, <1>9, Untouched DEF AssignContainer
  <1>10. CASE RegisterContainer
    BY <1>0, <1>10, Untouched DEF RegisterContainer
  <1>11. CASE UNCHANGED vars
    BY <1>0, <1>11, Untouched DEF vars, queues
  <1> QED
    BY <1>1, <1>2, <1>3, <1>4, <1>5, <1>6, <1>7, <1>8, <1>9, <1>10, <1>11 DEF Next

\* A task has no place, or one.
LEMMA OnePlace ==
  ASSUME Inv, NEW at, NEW on, Located(at, on), NEW t \in Tasks
  PROVE  /\ at[t] = "none" => Places(t) = {}
         /\ at[t] # "none" => \E x : Places(t) = {x}
  <1>1. /\ at[t] \in Kinds /\ on[t] \in Workers
        /\ t \in net <=> at[t] = "net"
        /\ \A w \in Workers :
             /\ Holds(lane[w], t) <=> at[t] = "lane" /\ on[t] = w
             /\ t \in timed[w] <=> at[t] = "timed" /\ on[t] = w
             /\ t \in blocked[w] <=> at[t] = "blocked" /\ on[t] = w
             /\ t \in retry[w] <=> at[t] = "retry" /\ on[t] = w
             /\ cur[w] = t <=> at[t] = "cur" /\ on[t] = w
    BY DEF Located
  <1>2. /\ LaneDepth \in Nat
        /\ \A w \in Workers : /\ Len(lane[w]) \in Nat /\ Len(lane[w]) <= LaneDepth
                              /\ NoRepeats(lane[w])
    BY WorkerAssumption, LenProperties DEF Inv, State, TypeOK, LanesApart
  <1> DEFINE InLane == { x \in Workers \X (1 .. LaneDepth) :
                           x[2] <= Len(lane[x[1]]) /\ lane[x[1]][x[2]] = t }
             A == { <<"lane", p[1], p[2]>> : p \in InLane }
             B == { <<"timed", w, 0>> : w \in { x \in Workers : t \in timed[x] } }
             C == { <<"blocked", w, 0>> : w \in { x \in Workers : t \in blocked[x] } }
             D == { <<"retry", w, 0>> : w \in { x \in Workers : t \in retry[x] } }
             E == { <<"cur", w, 0>> : w \in { x \in Workers : cur[x] = t } }
             F == { <<"net", None, 0>> : x \in net \cap {t} }
  <1>3. Places(t) = A \cup B \cup C \cup D \cup E \cup F
    BY DEF Places
  <1>4. at[t] # "lane" => A = {}
    <2>1. \A x \in InLane : Holds(lane[x[1]], t) /\ x[1] \in Workers
      BY <1>2 DEF Holds
    <2> QED
      BY <1>1, <2>1
  <1>5. at[t] = "lane" => \E x : A = {x}
    <2> SUFFICES ASSUME at[t] = "lane" PROVE \E x : A = {x}
      OBVIOUS
    <2>1. PICK i \in 1 .. Len(lane[on[t]]) : lane[on[t]][i] = t
      BY <1>1 DEF Holds
    <2>2. i \in 1 .. LaneDepth /\ i <= Len(lane[on[t]])
      BY <1>1, <1>2, <2>1
    <2>3. <<on[t], i>> \in InLane
      BY <1>1, <2>1, <2>2
    <2>4. ASSUME NEW x \in InLane PROVE x[1] = on[t] /\ x[2] = i
      <3>1. x[1] \in Workers /\ x[2] \in 1 .. Len(lane[x[1]]) /\ lane[x[1]][x[2]] = t
        BY <1>2, <2>4
      <3>2. x[1] = on[t]
        BY <1>1, <3>1 DEF Holds
      <3> QED
        BY <1>1, <1>2, <2>1, <3>1, <3>2 DEF NoRepeats
    <2>5. A = {<<"lane", on[t], i>>}
      BY <2>3, <2>4
    <2> QED
      BY <2>5
  <1>6. /\ at[t] # "timed" => B = {}
        /\ at[t] = "timed" => B = {<<"timed", on[t], 0>>}
        /\ at[t] # "blocked" => C = {}
        /\ at[t] = "blocked" => C = {<<"blocked", on[t], 0>>}
        /\ at[t] # "retry" => D = {}
        /\ at[t] = "retry" => D = {<<"retry", on[t], 0>>}
        /\ at[t] # "cur" => E = {}
        /\ at[t] = "cur" => E = {<<"cur", on[t], 0>>}
        /\ at[t] # "net" => F = {}
        /\ at[t] = "net" => F = {<<"net", None, 0>>}
    BY <1>1
  <1> HIDE DEF A, B, C, D, E, F
  <1> QED
    BY <1>1, <1>3, <1>4, <1>5, <1>6 DEF Kinds

\* The invariant says what WorkerInv says.
LEMMA InvImplies == Inv => WorkerInv
  <1> SUFFICES ASSUME Inv PROVE WorkerInv
    OBVIOUS
  <1>1. PICK at, on : Located(at, on) /\ Accounted(at)
    BY DEF Inv, Placed
  <1>2. HeldOnce
    <2> SUFFICES ASSUME NEW t \in Tasks
                 PROVE  IF phase[t] = "pending"
                          THEN Cardinality(Places(t)) = IF AwaitsSub(t) THEN 0 ELSE 1
                          ELSE Places(t) = {}
      BY DEF HeldOnce
    <2>1. /\ at[t] = "none" => Places(t) = {}
          /\ at[t] # "none" => \E x : Places(t) = {x}
      BY <1>1, OnePlace
    <2>2. at[t] = "none" <=> (phase[t] # "pending" \/ ctx[t].waits = "future")
      BY <1>1 DEF Accounted
    <2>3. CASE phase[t] # "pending"
      BY <2>1, <2>2, <2>3
    <2>4. CASE phase[t] = "pending" /\ ctx[t].waits = "future"
      <3>1. Reached(t, "await")
        BY <2>4 DEF Inv, State, Coroutines, Coroutine
      <3>2. PICK s : s = Program[t][ctx[t].pc].sub
        OBVIOUS
      <3>3. Reports(s) /\ ctx[s].parent = t
        BY <2>4, <3>1, <3>2 DEF Inv, State, Awaiting
      <3>4. AwaitsSub(t)
        BY <2>4, <3>2, <3>3 DEF AwaitsSub, Reports
      <3> QED
        BY <2>1, <2>2, <2>4, <3>4, FS_EmptySet
    <2>5. CASE phase[t] = "pending" /\ ctx[t].waits # "future"
      <3>1. ~AwaitsSub(t)
        BY <2>5 DEF AwaitsSub
      <3>2. PICK x : Places(t) = {x}
        BY <2>1, <2>2, <2>5
      <3>3. Cardinality({x}) = 1
        BY FS_Singleton
      <3> QED
        BY <2>5, <3>1, <3>2, <3>3
    <2> QED
      BY <2>3, <2>4, <2>5
  <1>3. ParentAlive
    <2> SUFFICES ASSUME NEW s \in Tasks \ FireForget, ctx[s].parent # None,
                        \/ phase[s] \in {"pending", "ended"}
                        \/ \E w \in Workers : \E i \in 1 .. Len(event[w]) : event[w][i] = s
                 PROVE  phase[ctx[s].parent] = "pending"
      BY DEF ParentAlive
    <2>1. phase[s] \in {"pending", "ended"}
      BY DEF Inv, State, Events, Holds
    <2>2. Reports(s)
      BY <2>1 DEF Reports
    <2> QED
      BY <2>2 DEF Inv, State, Families
  <1>4. RunsAtHome
    <2>1. \A w \in Workers : cur[w] # None => cur[w] \in Tasks
      BY DEF Inv, State, TypeOK
    <2> QED
      BY <2>1 DEF Inv, State, Coroutines, Coroutine, RunsAtHome
  <1> QED
    BY <1>2, <1>3, <1>4 DEF WorkerInv, Inv, State

\* The inductive invariant holds in every behaviour of sequential handlers.
LEMMA Invariant == ASSUME Sequential PROVE Spec => []Inv
  <1>1. Init => Inv
    BY InitInv
  <1>2. Inv /\ [Next]_vars => Inv'
    BY NextInv
  <1> QED
    BY <1>1, <1>2, PTL DEF Spec

\* Worker::ProcessNewTask, EndTask and the queues, for handlers that await what
\* they send: a task that was sent and has not ended is in exactly one queue, on
\* one worker, in the network, or waits for a subtask that is itself on its way;
\* the parent of a subtask that can report was not deleted; and a coroutine runs
\* on the worker to whose event queue its subtasks report.
THEOREM TasksHeldOnce == ASSUME Sequential PROVE Spec => []WorkerInv
  BY Invariant, InvImplies, PTL

-----------------------------------------------------------------------------
(* What a step may never do.                                               *)

\* No step deletes a subtask that has not ended.
DeletesEnded ==
  \A s \in Tasks \ FireForget :
    phase[s] # "freed" /\ phase'[s] = "freed" => phase[s] \in {"ended", "complete"}

\* Of the actions that delete a task, ProcessEventQueue takes one that ended,
\* WaitFuture and Wait one that is complete, EndTask a fire-and-forget one.
LEMMA StepDeletesEnded == Sequential /\ Inv /\ [Next]_vars => DeletesEnded
  <1> SUFFICES ASSUME Sequential, Inv, [Next]_vars PROVE DeletesEnded
    OBVIOUS
  <1> USE DEF DeletesEnded
  <1>0. phase \in [Tasks -> Phases]
    BY DEF Inv, State, TypeOK
  <1>1. CASE UNCHANGED phase
    BY <1>1
  <1>2. ASSUME NEW t \in Tasks, NEW ph \in Phases \ {"freed"}, phase' = [phase EXCEPT ![t] = ph]
        PROVE  DeletesEnded
    BY <1>0, <1>2
  <1>3. ASSUME NEW t \in Tasks, t \in FireForget \/ phase[t] \in {"ended", "complete"},
               phase' = [phase EXCEPT ![t] = "freed"]
        PROVE  DeletesEnded
    BY <1>0, <1>3
  <1>4. ASSUME NEW t \in Tasks, NEW w \in Workers, EndTask(w, t) PROVE DeletesEnded
    <2>1. CASE t \in Periodic
      BY <1>1, <1>4, <2>1 DEF EndTask
    <2>2. CASE t \notin Periodic
      <3>1. phase' = [phase EXCEPT ![t] = Finished(t)]
        BY <1>4, <2>2 DEF EndTask
      <3> QED
        BY <1>2, <1>3, <3>1 DEF Finished, Phases
    <2> QED
      BY <2>1, <2>2
  <1>5. ASSUME NEW t \in Tasks, SendRuntime(t) PROVE DeletesEnded
    BY <1>2, <1>5 DEF SendRuntime, Phases
  <1>6. ASSUME NEW w \in Workers, ProcessEventQueue(w) PROVE DeletesEnded
    <2>1. PICK s : s = Head(event[w])
      OBVIOUS
    <2>2. PICK p : p = ctx[s].parent
      OBVIOUS
    <2>3. /\ s \in Tasks /\ phase[s] = "ended" /\ p # s /\ HasHandle(p)
          /\ ctx[p].waits = "future" /\ Program[p][ctx[p].pc].sub = s
      <3>1. cur[w] = None /\ event[w] # <<>>
        BY <1>6 DEF ProcessEventQueue
      <3> QED
        BY <2>1, <2>2, <3>1, FirstReport DEF HasHandle
    <2>4. phase' = Consume([phase EXCEPT ![s] = IF @ = "ended" THEN "complete" ELSE @], s)
      BY <1>6, <2>1, <2>2, <2>3 DEF ProcessEventQueue
    <2>5. phase' = [phase EXCEPT ![s] = "freed"]
      BY <1>0, <2>3, <2>4 DEF Consume
    <2> QED
      BY <1>3, <2>3, <2>5
  <1>7. ASSUME NEW w \in Workers, RunStep(w) PROVE DeletesEnded
    <2>1. cur[w] \in Tasks \cup {None}
      BY DEF Inv, State, TypeOK
    <2>2. CASE SendRuntimeClient(w)
      <3>1. phase' = [phase EXCEPT ![Sub(w)] = "pending"]
        BY <2>2 DEF SendRuntimeClient
      <3> QED
        BY <1>0, <3>1
    <2>3. CASE WaitFuture(w)
      <3>1. PICK s : s = Sub(w)
        OBVIOUS
      <3>2. phase' = phase \/ (phase[s] = "complete" /\ phase' = [phase EXCEPT ![s] = "freed"])
        BY <2>3, <3>1 DEF WaitFuture, Consume, IsComplete
      <3> QED
        BY <1>0, <3>2
    <2>4. CASE YieldTask(w)
      BY <1>1, <2>4 DEF YieldTask
    <2>5. CASE Return(w)
      BY <1>4, <2>1, <2>5 DEF Return
    <2> QED
      BY <1>7, <2>2, <2>3, <2>4, <2>5 DEF RunStep
  <1>8. ASSUME NEW t \in Tasks, RecvOut(t) PROVE DeletesEnded
    BY <1>4, <1>8, WorkerAssumption DEF RecvOut
  <1>9. ASSUME NEW t \in Tasks, Wait(t) PROVE DeletesEnded
    BY <1>3, <1>9 DEF Wait, Consume
  <1>10. ASSUME NEW w \in Workers,
                \/ ProcessNewTask(w)
                \/ \E t \in Tasks : \/ ProcessPeriodicQueue(w, t)
                                    \/ ProcessBlockedQueue(w, t)
                                    \/ ProcessRetryQueue(w, t)
         PROVE  DeletesEnded
    BY <1>1, <1>10 DEF ProcessNewTask, ProcessPeriodicQueue, ProcessBlockedQueue, ProcessRetryQueue
  <1>11. CASE PlugContainer \/ MigrateContainer \/ AssignContainer \/ RegisterContainer
              \/ UNCHANGED vars
    BY <1>1, <1>11
       DEF PlugContainer, MigrateContainer, AssignContainer, RegisterContainer, vars
  <1> QED
    BY <1>5, <1>6, <1>7, <1>8, <1>9, <1>10, <1>11 DEF Next

\* Future::await_resume, for handlers that await what they send: a subtask is
\* deleted only after it ended, so no handler reads the outputs of one that runs.
THEOREM DeletedAfterEnd == ASSUME Sequential PROVE Spec => AwaitedEnded
  <1>1. Inv /\ [Next]_vars =>
          [\A s \in Tasks \ FireForget :
             phase[s] # "freed" /\ phase'[s] = "freed"
               => phase[s] \in {"ended", "complete"}]_vars
    BY StepDeletesEnded DEF DeletesEnded
  <1> QED
    BY <1>1, Invariant, PTL DEF Spec, AwaitedEnded

\* A coroutine that is resumed is behind the operation that suspended it.
GoesOn(t) == ctx[t].waits # "no" /\ ctx'[t].waits = "no" => ctx'[t].pc = Resumed(t).pc

\* A step that gives one task a new RunContext.
LEMMA OneContext ==
  ASSUME Inv, NEW t \in Tasks, NEW n, ctx' = [ctx EXCEPT ![t] = n],
         ctx[t].waits = "no" \/ n.waits = ctx[t].waits \/ n.pc = Resumed(t).pc
  PROVE  \A u \in Tasks : GoesOn(u)
  BY DEF Inv, State, TypeOK, GoesOn

\* ExecTask resumes what was suspended and starts what was not.
LEMMA ExecGoesOn ==
  ASSUME Inv, NEW w \in Workers, NEW t \in Tasks, NEW c \in Contexts,
         ctx[t].started <=> ctx[t].waits # "no", ExecTask(w, t, ctx[t].started, c)
  PROVE  \A u \in Tasks : GoesOn(u)
  <1>0. ctx[t] \in Contexts
    BY DEF Inv, State, TypeOK
  <1>1. PICK n : Begins(t, c, n) /\ ctx' = [ctx EXCEPT ![t] = n]
    BY DEF ExecTask, Begins
  <1>2. CASE ctx[t].waits = "no"
    BY <1>1, <1>2, OneContext
  <1>3. CASE ctx[t].waits # "no"
    <2>1. n = [Resumed(t) EXCEPT !.routed = c.routed, !.worker = c.worker]
      BY <1>1, <1>3 DEF Begins
    <2>2. n.pc = Resumed(t).pc
      BY <1>0, <2>1 DEF Resumed, Contexts
    <2> QED
      BY <1>1, <2>2, OneContext
  <1> QED
    BY <1>2, <1>3

\* Routing runs a task or leaves it suspended.
LEMMA RouteGoesOn ==
  ASSUME Inv, NEW w \in Workers, NEW d \in Workers, NEW t \in Tasks, NEW c \in Contexts,
         ctx[t].started <=> ctx[t].waits # "no", c.waits = ctx[t].waits,
         RouteTask(w, t, c, ctx[t].started) \/ Forwards(w, t, c, d)
  PROVE  \A u \in Tasks : GoesOn(u)
  <1> DEFINE r == [c EXCEPT !.routed = TRUE]
  <1>1. r \in Contexts /\ r.waits = ctx[t].waits
    BY DEF Contexts
  <1>2. \/ ExecTask(w, t, ctx[t].started, c) \/ ExecTask(w, t, ctx[t].started, r)
        \/ ctx' = [ctx EXCEPT ![t] = r]
    BY DEF RouteTask, Forwards
  <1> HIDE DEF r
  <1> QED
    BY <1>1, <1>2, ExecGoesOn, OneContext

\* No step takes a suspended handler back to an operation that it has done.
LEMMA StepGoesOn == Sequential /\ Inv /\ [Next]_vars => \A u \in Tasks : GoesOn(u)
  <1> SUFFICES ASSUME Sequential, Inv, [Next]_vars PROVE \A u \in Tasks : GoesOn(u)
    OBVIOUS
  <1>1. PICK at, on : Located(at, on) /\ Accounted(at)
    BY DEF Inv, Placed
  <1>2. ASSUME UNCHANGED ctx PROVE \A u \in Tasks : GoesOn(u)
    BY <1>2 DEF GoesOn
  <1>3. ASSUME NEW w \in Workers, ProcessNewTask(w) PROVE \A u \in Tasks : GoesOn(u)
    <2>1. PICK t : t = Head(lane[w])
      OBVIOUS
    <2>2. PICK c : c = ContextOn(w, t)
      OBVIOUS
    <2>3. lane[w] # <<>>
      BY <1>3 DEF ProcessNewTask
    <2>4. t \in Tasks /\ Holds(lane[w], t)
      BY <2>1, <2>3, HoldsTail DEF Inv, State, TypeOK, LanesApart
    <2>5. at[t] = "lane"
      BY <1>1, <2>4 DEF Located
    <2>6. ctx[t] \in Contexts /\ (ctx[t].started <=> ctx[t].waits # "no")
      BY <1>1, <2>4, <2>5, Queued
    <2>7. c \in Contexts /\ c.waits = ctx[t].waits
      BY <2>2, <2>6 DEF ContextOn, Contexts
    <2>8. RouteTask(w, t, c, ctx[t].started) \/ \E d \in Workers : Forwards(w, t, c, d)
      BY <1>3, <2>1, <2>2 DEF ProcessNewTask
    <2> QED
      BY <2>4, <2>6, <2>7, <2>8, RouteGoesOn
  <1>4. ASSUME NEW w \in Workers, NEW t \in Tasks, ProcessPeriodicQueue(w, t)
        PROVE  \A u \in Tasks : GoesOn(u)
    <2>1. at[t] = "timed"
      BY <1>1, <1>4 DEF ProcessPeriodicQueue, Located
    <2>2. ctx[t] \in Contexts /\ (ctx[t].started <=> ctx[t].waits # "no")
      BY <1>1, <2>1, Queued
    <2>3. PICK c : c = [ctx[t] EXCEPT !.routed = FALSE]
      OBVIOUS
    <2>4. c \in Contexts
      BY <2>2, <2>3, Zenon DEF Contexts
    <2>5. c.waits = ctx[t].waits
      BY <2>2, <2>3 DEF Contexts
    <2>6. RouteTask(w, t, c, ctx[t].started) \/ \E d \in Workers : Forwards(w, t, c, d)
      BY <1>4, <2>3 DEF ProcessPeriodicQueue
    <2> QED
      BY <2>2, <2>4, <2>5, <2>6, RouteGoesOn
  <1>5. ASSUME NEW w \in Workers, NEW t \in Tasks, ProcessBlockedQueue(w, t)
        PROVE  \A u \in Tasks : GoesOn(u)
    <2>1. at[t] = "blocked"
      BY <1>1, <1>5 DEF ProcessBlockedQueue, Located
    <2>2. ctx[t] \in Contexts /\ (ctx[t].started <=> ctx[t].waits # "no")
      BY <1>1, <2>1, Queued
    <2> QED
      BY <1>2, <1>5, <2>2, ExecGoesOn DEF ProcessBlockedQueue
  <1>6. ASSUME NEW w \in Workers, NEW t \in Tasks, ProcessRetryQueue(w, t)
        PROVE  \A u \in Tasks : GoesOn(u)
    <2>1. at[t] = "retry" /\ t \in Movable
      BY <1>1, <1>6 DEF ProcessRetryQueue, Located, Inv, State, Coroutines, Coroutine
    <2>2. ctx[t] \in Contexts /\ ctx[t].waits # "future"
      BY <1>1, <2>1, Queued
    <2>3. ctx[t].waits = "no"
      <3>1. ~Reached(t, "yield")
        BY <2>1, SequentialOp DEF Reached
      <3> QED
        BY <2>2, <3>1, ContextFacts DEF Inv, State, Coroutines, Coroutine
    <2>4. UNCHANGED ctx \/ \E n : ctx' = [ctx EXCEPT ![t] = n]
      BY <1>6 DEF ProcessRetryQueue, ExecTask
    <2> QED
      BY <1>2, <2>3, <2>4, OneContext
  <1>7. ASSUME NEW w \in Workers, ProcessEventQueue(w) PROVE \A u \in Tasks : GoesOn(u)
    <2>1. PICK s : s = Head(event[w])
      OBVIOUS
    <2>2. PICK p : p = ctx[s].parent
      OBVIOUS
    <2>3. cur[w] = None /\ event[w] # <<>>
      BY <1>7 DEF ProcessEventQueue
    <2>4. /\ p \in Tasks /\ ctx[p] \in Contexts /\ HasHandle(p) /\ ctx[p].waits # "no"
          /\ ctx[p].started
      BY <2>1, <2>2, <2>3, FirstReport DEF HasHandle
    <2>5. ExecTask(w, p, TRUE, ctx[p])
      BY <1>7, <2>1, <2>2, <2>4 DEF ProcessEventQueue, ResumeParent
    <2>6. ExecTask(w, p, ctx[p].started, ctx[p])
      BY <2>4, <2>5 DEF ExecTask
    <2> QED
      BY <2>4, <2>6, ExecGoesOn
  <1>8. ASSUME NEW w \in Workers, RunStep(w) PROVE \A u \in Tasks : GoesOn(u)
    <2>1. PICK t : t = cur[w]
      OBVIOUS
    <2>2. t # None
      BY <1>8, <2>1 DEF RunStep, SendRuntimeClient, WaitFuture, YieldTask, Return, AtOp
    <2>3. t \in Tasks /\ ctx[t].waits = "no" /\ ctx[t] \in Contexts
      BY <1>1, <2>1, <2>2, Runs
    <2>4. ctx \in [Tasks -> Contexts]
      BY DEF Inv, State, TypeOK
    <2>5. CASE SendRuntimeClient(w)
      <3>1. PICK s, c : s = Sub(w) /\ c = SubContext(w)
        OBVIOUS
      <3>2. phase[s] = "new" /\ ctx' = [ctx EXCEPT ![s] = c, ![t].pc = @ + 1]
        BY <2>1, <2>5, <3>1 DEF SendRuntimeClient
      <3>3. s \in Tasks => ctx[s].waits = "no"
        BY <3>2 DEF Inv, State, Coroutines, Coroutine, NewContext
      <3>4. \A u \in Tasks : u # s /\ u # t => ctx'[u] = ctx[u]
        BY <2>4, <3>2
      <3> QED
        BY <2>3, <3>3, <3>4 DEF GoesOn
    <2>6. CASE WaitFuture(w)
      <3>1. Goes(w) \/ \E why : Suspend(w, why)
        BY <2>6 DEF WaitFuture
      <3> QED
        BY <2>1, <2>3, <2>4, <3>1 DEF Goes, Suspend, GoesOn
    <2>7. CASE YieldTask(w)
      BY <2>1, <2>3, <2>4, <2>7 DEF YieldTask, Suspend, GoesOn
    <2>8. CASE Return(w)
      <3>1. \A u \in Tasks : u # t => ctx'[u] = ctx[u]
        BY <2>1, <2>3, <2>4, <2>8 DEF Return, EndTask
      <3> QED
        BY <2>3, <3>1 DEF GoesOn
    <2> QED
      BY <1>8, <2>5, <2>6, <2>7, <2>8 DEF RunStep
  <1>9. ASSUME NEW t \in Tasks, SendRuntime(t) PROVE \A u \in Tasks : GoesOn(u)
    <2>1. ctx[t].waits = "no"
      BY <1>9 DEF SendRuntime, Inv, State, Coroutines, Coroutine, NewContext
    <2> QED
      BY <1>9, <2>1, OneContext DEF SendRuntime
  <1>10. ASSUME NEW t \in Tasks, RecvOut(t) PROVE \A u \in Tasks : GoesOn(u)
    <2>1. t \notin Periodic
      BY <1>10 DEF RecvOut, Sequential, Inv, State, Coroutines, Coroutine
    <2> QED
      BY <1>2, <1>10, <2>1 DEF RecvOut, EndTask
  <1>11. ASSUME \/ \E t \in Tasks : Wait(t)
                \/ PlugContainer \/ MigrateContainer \/ AssignContainer \/ RegisterContainer
                \/ UNCHANGED vars
         PROVE  \A u \in Tasks : GoesOn(u)
    BY <1>2, <1>11
       DEF Wait, PlugContainer, MigrateContainer, AssignContainer, RegisterContainer, vars
  <1> QED
    BY <1>3, <1>4, <1>5, <1>6, <1>7, <1>8, <1>9, <1>10, <1>11 DEF Next

\* Worker::ExecTask, for handlers that await what they send: a suspended handler
\* that runs again, on whatever queue it came, goes on behind the operation that
\* suspended it, so nothing it did is done twice.
THEOREM ResumesInPlace == ASSUME Sequential PROVE Spec => NoRestart
  <1>1. Inv /\ [Next]_vars =>
          [\A t \in Tasks :
             ctx[t].waits # "no" /\ ctx'[t].waits = "no"
               => ctx'[t].pc = Resumed(t).pc]_vars
    BY StepGoesOn DEF GoesOn
  <1> QED
    BY <1>1, Invariant, PTL DEF Spec, NoRestart
=============================================================================
