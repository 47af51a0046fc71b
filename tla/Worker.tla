------------------------------- MODULE Worker -------------------------------
(***************************************************************************)
(* The workers of one node: how a task is sent, routed to a worker, run as *)
(* a coroutine, suspended, resumed and ended.                              *)
(*                                                                         *)
(*   worker.cc          ProcessNewTask, ExecTask, EndTask, the queues      *)
(*   ipc_manager.cc     SendRuntime, SendRuntimeClient, RouteTask          *)
(*   default_sched.cc   ClientMapTask, RuntimeMapTask                      *)
(*   task.h             Future and YieldAwaiter as awaitables              *)
(*                                                                         *)
(* A handler is abstracted to its Program: the subtasks it sends, the      *)
(* futures it awaits and the points where it yields.  A worker runs one    *)
(* coroutine at a time and interleaves with the others between any two     *)
(* operations of the handler.                                              *)
(*                                                                         *)
(* One container of the node can be migrated away and given back; Movable  *)
(* are the tasks that are addressed to it.  The worker that the scheduler  *)
(* picks for a large I/O is one of IoWorkers (a round robin in the code).  *)
(* Time is left out: an entry of a periodic queue may be due at any time.  *)
(***************************************************************************)
EXTENDS Naturals, Sequences, FiniteSets

CONSTANTS Workers,      \* the worker threads
          SchedWorker,  \* scheduler_worker_, worker 0
          NetWorker,    \* net_worker_, which runs Send and Recv
          IoWorkers,    \* io_workers_
          Tasks,        \* the tasks of a behaviour
          Roots,        \* those that client threads submit
          Periodic,     \* those with TASK_PERIODIC
          ZeroPeriod,   \* those of them whose period is 0
          NetTasks,     \* those of them that are the admin's Send and Recv
          Large,        \* those with io_size_ >= kLargeIOThreshold
          FireForget,   \* those with TASK_FIRE_AND_FORGET
          Movable,      \* those of the container that may be migrated
          Program,      \* what the handler of each task does
          LaneDepth,    \* entries a lane holds
          MaxMoves,     \* migrations in a behaviour
          MigrateFails, \* may ChangeAddressTable fail?
          None          \* no task

\* The operations of a handler on the runtime.
Send(s)  == [op |-> "send", sub |-> s]
Await(s) == [op |-> "await", sub |-> s]
Poll(s)  == [op |-> "poll", sub |-> s]
Yield    == [op |-> "yield", sub |-> None]
YieldNow == [op |-> "yield0", sub |-> None]
Ops == { Send(s) : s \in Tasks } \cup { Await(s) : s \in Tasks }
         \cup { Poll(s) : s \in Tasks } \cup { Yield, YieldNow }

ASSUME WorkerAssumption ==
  /\ SchedWorker \in Workers /\ NetWorker \in Workers
  /\ IoWorkers \subseteq Workers
  /\ Roots \subseteq Tasks /\ Periodic \subseteq Roots
  /\ ZeroPeriod \subseteq Periodic /\ NetTasks \subseteq Periodic
  /\ Large \subseteq Tasks /\ FireForget \subseteq Tasks
  /\ Movable \subseteq Tasks
  /\ Program \in [Tasks -> Seq(Ops)]
  /\ LaneDepth \in Nat \ {0} /\ MaxMoves \in Nat
  /\ MigrateFails \in BOOLEAN
  /\ None \notin Tasks \cup Workers

\* What a handler has to keep to.  A subtask that reports is awaited in the
\* operation after the one that sends it, no handler polls or yields without a
\* time, a handler of the container that moves does not yield, and the
\* periodic tasks are of containers that stay.
Sequential ==
  /\ Movable \cap Periodic = {}
  /\ \A t \in Tasks : \A i \in 1 .. Len(Program[t]) :
       LET o == Program[t][i]
       IN /\ o.op \in {"send", "await", "yield"}
          /\ o.op = "send" =>
               /\ o.sub \notin Roots
               /\ o.sub \notin FireForget =>
                    i < Len(Program[t]) /\ Program[t][i + 1] = Await(o.sub)
          /\ o.op = "await" => i > 1 /\ Program[t][i - 1] = Send(o.sub)
          /\ o.op = "yield" => t \notin Movable

VARIABLES phase,      \* what became of each task
          ctx,        \* each task's RunContext and flags
          lane,       \* each worker's lane of the worker queues
          event,      \* each worker's event queue: subtasks that ended
          timed,      \* each worker's periodic queues
          blocked,    \* each worker's blocked queues
          retry,      \* each worker's retry queue
          cur,        \* the task each worker is running
          net,        \* tasks handed to the network
          container,  \* where the migratable container is
          moves       \* migrations so far

vars == <<phase, ctx, lane, event, timed, blocked, retry, cur, net,
          container, moves>>

queues == <<lane, event, timed, blocked, retry>>

\* "pending": sent and not ended; "ended": its future is in the parent's event
\* queue; "complete": FUTURE_COMPLETE is set; "freed": the task was deleted;
\* "dropped": SendRuntime found no place for it.
Phases == {"new", "pending", "ended", "complete", "freed", "dropped"}

\* worker stands for worker_id_, lane_ and event_queue_, which change together.
\* waits says what the suspended coroutine waits for.
Contexts == [worker : Workers \cup {None}, parent : Tasks \cup {None},
             pc : Nat, started : BOOLEAN, routed : BOOLEAN,
             waits : {"no", "future", "timer"}]

NewContext == [worker |-> None, parent |-> None, pc |-> 0, started |-> FALSE,
               routed |-> FALSE, waits |-> "no"]

Init ==
  /\ phase = [t \in Tasks |-> "new"]
  /\ ctx = [t \in Tasks |-> NewContext]
  /\ lane = [w \in Workers |-> <<>>]
  /\ event = [w \in Workers |-> <<>>]
  /\ timed = [w \in Workers |-> {}]
  /\ blocked = [w \in Workers |-> {}]
  /\ retry = [w \in Workers |-> {}]
  /\ cur = [w \in Workers |-> None]
  /\ net = {}
  /\ container = "here"
  /\ moves = 0

---------------------------------------------------------------------------
(***************************************************************************)
(* Routing.                                                                *)
(***************************************************************************)

\* DefaultScheduler::RuntimeMapTask: Send and Recv to the network worker, large
\* I/O to an I/O worker, the rest to the scheduler worker.
RuntimeMapTask(t) ==
  IF t \in NetTasks THEN {NetWorker}
  ELSE IF t \in Large /\ IoWorkers # {} THEN IoWorkers ELSE {SchedWorker}

\* GetContainer for the task: plugged or not registered, IsTaskLocal false.
Unavailable(t) == t \in Movable /\ container \in {"plugged", "stuck", "absent"}
Elsewhere(t)   == t \in Movable /\ container = "away"

\* The coroutine of t runs on w.  StartCoroutine begins at the first operation;
\* ResumeCoroutine goes on behind the one that suspended it, except that a
\* polling loop looks at its future again, and does nothing without a handle.
Resumed(t) ==
  [ctx[t] EXCEPT !.waits = "no",
     !.pc = IF ctx[t].waits = "no" \/ Program[t][@].op = "poll"
              THEN @ ELSE @ + 1]

Started(t) == [ctx[t] EXCEPT !.waits = "no", !.pc = 1, !.started = TRUE]

ExecTask(w, t, isStarted, c) ==
  /\ cur' = [cur EXCEPT ![w] = t]
  /\ ctx' = [ctx EXCEPT ![t] =
       [(IF isStarted THEN Resumed(t) ELSE Started(t))
          EXCEPT !.routed = c.routed, !.worker = c.worker]]

\* IpcManager::RouteTask on worker w for a task whose context is c: run it
\* here, put it into another worker's lane, keep it for a retry, or hand it to
\* the network.
RouteTask(w, t, c, isStarted) ==
  \/ /\ c.routed
     /\ ExecTask(w, t, isStarted, c)
     /\ UNCHANGED <<retry, net>>
  \/ /\ ~c.routed /\ Elsewhere(t)
     /\ net' = net \cup {t}
     /\ ctx' = [ctx EXCEPT ![t] = [c EXCEPT !.routed = TRUE]]
     /\ UNCHANGED <<retry, cur>>
  \/ /\ ~c.routed /\ Unavailable(t)
     /\ retry' = [retry EXCEPT ![w] = @ \cup {t}]
     /\ ctx' = [ctx EXCEPT ![t] = [c EXCEPT !.routed = TRUE]]
     /\ UNCHANGED <<net, cur>>
  \/ /\ ~c.routed /\ ~Elsewhere(t) /\ ~Unavailable(t)
     /\ w \in RuntimeMapTask(t)
     /\ ExecTask(w, t, isStarted, [c EXCEPT !.routed = TRUE])
     /\ UNCHANGED <<retry, net>>

\* The lane that RouteLocal enqueues the task to, if not run here.
Forwards(w, t, c, d) ==
  /\ ~c.routed /\ ~Elsewhere(t) /\ ~Unavailable(t)
  /\ d \in RuntimeMapTask(t) \ {w}
  /\ Len(lane[d]) < LaneDepth
  /\ ctx' = [ctx EXCEPT ![t] = [c EXCEPT !.routed = TRUE]]
  /\ UNCHANGED <<retry, net, cur>>

---------------------------------------------------------------------------
(***************************************************************************)
(* The loop of a worker takes work from its lane and its queues when it    *)
(* is not inside a coroutine.                                              *)
(***************************************************************************)

\* IpcManager::SendRuntime on a thread that is no worker.  RouteLocal puts the
\* task into a lane even when no worker asked; with no worker at hand it has
\* no retry queue to put it into either.
SendRuntime(t) ==
  /\ t \in Roots /\ phase[t] = "new"
  /\ ctx' = [ctx EXCEPT ![t] = [NewContext EXCEPT !.routed = TRUE]]
  /\ \/ /\ Unavailable(t)
        /\ phase' = [phase EXCEPT ![t] = "dropped"]
        /\ UNCHANGED <<lane, net>>
     \/ /\ Elsewhere(t)
        /\ phase' = [phase EXCEPT ![t] = "pending"]
        /\ net' = net \cup {t}
        /\ UNCHANGED lane
     \/ /\ ~Unavailable(t) /\ ~Elsewhere(t)
        /\ \E d \in RuntimeMapTask(t) :
             /\ Len(lane[d]) < LaneDepth
             /\ lane' = [lane EXCEPT ![d] = Append(@, t)]
        /\ phase' = [phase EXCEPT ![t] = "pending"]
        /\ UNCHANGED net
  /\ UNCHANGED <<event, timed, blocked, retry, cur, container, moves>>

\* The RunContext is moved to this worker, so that subtasks report to its event
\* queue.
ContextKept(w, t) == [ctx[t] EXCEPT !.worker = IF @ = None THEN w ELSE @]
ContextOn(w, t) == [ctx[t] EXCEPT !.worker = w]

\* Worker::ProcessNewTask.
ProcessNewTask(w) ==
  /\ cur[w] = None /\ lane[w] # <<>>
  /\ LET t == Head(lane[w])
         c == ContextOn(w, t)
         rest == [lane EXCEPT ![w] = Tail(@)]
     IN \/ /\ RouteTask(w, t, c, ctx[t].started)
           /\ lane' = rest
        \/ \E d \in Workers :
             /\ Forwards(w, t, c, d)
             /\ lane' = [rest EXCEPT ![d] = Append(@, t)]
  /\ UNCHANGED <<phase, event, timed, blocked, container, moves>>

\* Worker::ProcessPeriodicQueue: an entry that is due loses TASK_ROUTED and is
\* routed again, whether its coroutine was started or not.
ProcessPeriodicQueue(w, t) ==
  /\ cur[w] = None /\ t \in timed[w]
  /\ timed' = [timed EXCEPT ![w] = @ \ {t}]
  /\ LET c == [ctx[t] EXCEPT !.routed = FALSE]
     IN \/ /\ RouteTask(w, t, c, ctx[t].started)
           /\ UNCHANGED lane
        \/ \E d \in Workers :
             /\ Forwards(w, t, c, d)
             /\ lane' = [lane EXCEPT ![d] = Append(@, t)]
  /\ UNCHANGED <<phase, event, blocked, container, moves>>

\* Worker::ProcessBlockedQueue: run without routing; an entry whose coroutine
\* is over is discarded.
ProcessBlockedQueue(w, t) ==
  /\ cur[w] = None /\ t \in blocked[w]
  /\ blocked' = [blocked EXCEPT ![w] = @ \ {t}]
  /\ IF ctx[t].started /\ ctx[t].waits = "no"
       THEN UNCHANGED <<cur, ctx>>
       ELSE ExecTask(w, t, ctx[t].started, ctx[t])
  /\ UNCHANGED <<phase, lane, event, timed, retry, net, container, moves>>

\* Worker::ProcessRetryQueue: an entry whose container is still unavailable goes
\* back; the others start from the beginning, here or on another node.
ProcessRetryQueueWaits(w, t) ==
  /\ cur[w] = None /\ t \in retry[w] /\ ~Unavailable(t) /\ ~Elsewhere(t)
  /\ retry' = [retry EXCEPT ![w] = @ \ {t}]
  /\ ExecTask(w, t, FALSE, ctx[t])
  /\ UNCHANGED <<phase, lane, event, timed, blocked, net, container, moves>>

ProcessRetryQueue(w, t) ==
  /\ cur[w] = None /\ t \in retry[w] /\ ~Unavailable(t)
  /\ retry' = [retry EXCEPT ![w] = @ \ {t}]
  /\ IF Elsewhere(t)
       THEN /\ net' = net \cup {t}
            /\ UNCHANGED <<cur, ctx>>
       ELSE /\ ExecTask(w, t, FALSE, ctx[t])
            /\ UNCHANGED net
  /\ UNCHANGED <<phase, lane, event, timed, blocked, container, moves>>

\* Future::await_resume and the end of a polling loop: the subtask is deleted.
Consume(ph, s) == [ph EXCEPT ![s] = "freed"]

\* Worker::ProcessEventQueue: the subtask's future is completed and the parent's
\* coroutine is resumed, wherever it is suspended.
HasHandle(p) == phase[p] = "pending" /\ ctx[p].started /\ ctx[p].waits # "no"

RestartParent(w, p) == ExecTask(w, p, FALSE, ctx[p])
ResumeParent(w, p) == ExecTask(w, p, TRUE, ctx[p])

ProcessEventQueue(w) ==
  /\ cur[w] = None /\ event[w] # <<>>
  /\ LET s == Head(event[w])
         p == ctx[s].parent
         done == [phase EXCEPT ![s] = IF @ = "ended" THEN "complete" ELSE @]
     IN IF HasHandle(p)
          THEN /\ ResumeParent(w, p)
               /\ phase' = IF ctx[p].waits = "future"
                             THEN Consume(done, Program[p][ctx[p].pc].sub)
                             ELSE done
          ELSE /\ phase' = done
               /\ UNCHANGED <<cur, ctx>>
  /\ event' = [event EXCEPT ![w] = Tail(@)]
  /\ UNCHANGED <<lane, timed, blocked, retry, net, container, moves>>

---------------------------------------------------------------------------
(***************************************************************************)
(* The operations of the coroutine that a worker is running.               *)
(***************************************************************************)

AtOp(w, names) ==
  /\ cur[w] # None
  /\ ctx[cur[w]].pc <= Len(Program[cur[w]])
  /\ Program[cur[w]][ctx[cur[w]].pc].op \in names

Sub(w) == Program[cur[w]][ctx[cur[w]].pc].sub

Goes(w) == ctx' = [ctx EXCEPT ![cur[w]].pc = @ + 1]

\* The coroutine leaves the worker; why is kept in its RunContext.
Suspend(w, why) ==
  /\ ctx' = [ctx EXCEPT ![cur[w]].waits = why]
  /\ cur' = [cur EXCEPT ![w] = None]

\* The subtask reports to the coroutine that runs on this worker.
ContextOfWorker(w) == [NewContext EXCEPT !.worker = w, !.parent = w]
SubContext(w) == [NewContext EXCEPT !.worker = w, !.parent = cur[w]]

\* IpcManager::SendRuntimeClient: the subtask goes to the lane that ClientMapTask
\* picks, the scheduler worker's.
SendRuntimeClient(w) ==
  /\ AtOp(w, {"send"})
  /\ LET s == Sub(w)
     IN /\ phase[s] = "new"
        /\ Len(lane[SchedWorker]) < LaneDepth
        /\ lane' = [lane EXCEPT ![SchedWorker] = Append(@, s)]
        /\ phase' = [phase EXCEPT ![s] = "pending"]
        /\ ctx' = [ctx EXCEPT ![s] = SubContext(w), ![cur[w]].pc = @ + 1]
  /\ UNCHANGED <<event, timed, blocked, retry, cur, net, container, moves>>

\* Future::IsComplete.
IsEnded(s) == phase[s] \in {"ended", "complete"}
IsComplete(s) == phase[s] = "complete"

\* co_await of a future: go on if it is complete, suspend otherwise.  A poll,
\*   while (!future.IsComplete()) { if (timeout) break; co_await yield(us); }
\* suspends on the timer instead, and may give up.
WaitFuture(w) ==
  /\ AtOp(w, {"await", "poll"})
  /\ LET s == Sub(w)
         polls == AtOp(w, {"poll"})
     IN IF IsComplete(s) \/ s \in FireForget
          THEN /\ phase' = IF s \in FireForget THEN phase ELSE Consume(phase, s)
               /\ Goes(w) /\ UNCHANGED <<cur, timed>>
          ELSE \E timeout \in IF polls THEN BOOLEAN ELSE {FALSE} :
                 /\ IF timeout
                      THEN Goes(w) /\ UNCHANGED cur
                      ELSE Suspend(w, IF polls THEN "timer" ELSE "future")
                 /\ timed' = IF polls /\ ~timeout
                               THEN [timed EXCEPT ![w] = @ \cup {cur[w]}]
                               ELSE timed
                 /\ UNCHANGED phase
  /\ UNCHANGED <<lane, event, blocked, retry, net, container, moves>>

\* co_await chi::yield(us): ExecTask puts the task into a periodic queue if the
\* time is not 0.
YieldTask(w) ==
  /\ AtOp(w, {"yield", "yield0"})
  /\ Suspend(w, "timer")
  /\ timed' = IF AtOp(w, {"yield"})
                THEN [timed EXCEPT ![w] = @ \cup {cur[w]}] ELSE timed
  /\ UNCHANGED <<phase, lane, event, blocked, retry, net, container, moves>>

\* What EndTask makes of a task that is not periodic: nobody waits for it, its
\* parent does, or a client thread.
FinishedDeletes(t) ==
  IF t \in FireForget \/ ctx[t].parent = None THEN "freed" ELSE "ended"
Finished(t) == IF t \in FireForget THEN "freed"
               ELSE IF ctx[t].parent # None THEN "ended" ELSE "complete"

\* Worker::EndTask on worker w: a periodic task is rescheduled, a subtask goes to
\* its parent's event queue.
EndTask(w, t) ==
  /\ IF t \in Periodic
       THEN /\ ctx' = [ctx EXCEPT ![t].started = FALSE, ![t].pc = 0]
            /\ IF t \in ZeroPeriod
                 THEN /\ blocked' = [blocked EXCEPT ![w] = @ \cup {t}]
                      /\ UNCHANGED timed
                 ELSE /\ timed' = [timed EXCEPT ![w] = @ \cup {t}]
                      /\ UNCHANGED blocked
            /\ UNCHANGED <<phase, event>>
       ELSE /\ phase' = [phase EXCEPT ![t] = Finished(t)]
            /\ event' = IF Finished(t) # "ended" THEN event
                        ELSE [event EXCEPT ![ctx[ctx[t].parent].worker] =
                                Append(@, t)]
            /\ UNCHANGED <<ctx, timed, blocked>>
  /\ UNCHANGED <<lane, retry, container, moves>>

\* The coroutine returned.
Return(w) ==
  /\ cur[w] # None
  /\ ctx[cur[w]].pc > Len(Program[cur[w]])
  /\ EndTask(w, cur[w])
  /\ cur' = [cur EXCEPT ![w] = None]
  /\ UNCHANGED net

\* The answers of the other node arrived: RecvOut ends the task on the network
\* worker.
RecvOutKeeps(t) ==
  /\ cur[NetWorker] = None /\ t \in net
  /\ EndTask(NetWorker, t)
  /\ UNCHANGED <<cur, net>>

RecvOut(t) ==
  /\ cur[NetWorker] = None /\ t \in net
  /\ net' = net \ {t}
  /\ EndTask(NetWorker, t)
  /\ UNCHANGED cur

\* Future::Wait on the client thread: the task is deleted once it is complete.
Wait(t) ==
  /\ t \in Roots /\ phase[t] = "complete"
  /\ phase' = Consume(phase, t)
  /\ UNCHANGED <<ctx, queues, cur, net, container, moves>>

---------------------------------------------------------------------------
(***************************************************************************)
(* The container leaves and comes back: MigrateContainers and the recovery *)
(* of a dead node's containers.                                            *)
(***************************************************************************)

\* PlugContainer: every container reports no remaining work, so nothing is
\* waited for.
PlugContainer ==
  /\ container \in {"here", "stuck"} /\ moves < MaxMoves
  /\ container' = "plugged"
  /\ moves' = moves + 1
  /\ UNCHANGED <<phase, ctx, queues, cur, net>>

\* ChangeAddressTable succeeded everywhere, and UnregisterContainer; or it failed
\* on some node, and the container stays as it is.
MigrateContainer ==
  /\ container = "plugged"
  /\ \E ok \in IF MigrateFails THEN BOOLEAN ELSE {TRUE} :
       container' = IF ok THEN "away" ELSE "stuck"
  /\ UNCHANGED <<phase, ctx, queues, cur, net, moves>>

\* The address table names this node again, and then RegisterContainer.
AssignContainer ==
  /\ container = "away"
  /\ container' = "absent"
  /\ UNCHANGED <<phase, ctx, queues, cur, net, moves>>

RegisterContainer ==
  /\ container = "absent"
  /\ container' = "here"
  /\ UNCHANGED <<phase, ctx, queues, cur, net, moves>>

---------------------------------------------------------------------------
RunStep(w) ==
  \/ SendRuntimeClient(w)
  \/ WaitFuture(w)
  \/ YieldTask(w)
  \/ Return(w)

Next ==
  \/ \E t \in Tasks : SendRuntime(t)
  \/ \E w \in Workers :
       \/ ProcessNewTask(w)
       \/ ProcessEventQueue(w)
       \/ RunStep(w)
       \/ \E t \in Tasks :
            \/ ProcessPeriodicQueue(w, t)
            \/ ProcessBlockedQueue(w, t)
            \/ ProcessRetryQueue(w, t)
  \/ \E t \in Tasks : RecvOut(t) \/ Wait(t)
  \/ PlugContainer
  \/ MigrateContainer
  \/ AssignContainer
  \/ RegisterContainer

\* A thread takes task t out of the place where it waits.
Take(t) ==
  \/ RecvOut(t)
  \/ \E w \in Workers :
       \/ lane[w] # <<>> /\ Head(lane[w]) = t /\ ProcessNewTask(w)
       \/ event[w] # <<>> /\ Head(event[w]) = t /\ ProcessEventQueue(w)
       \/ ProcessPeriodicQueue(w, t)
       \/ ProcessBlockedQueue(w, t)
       \/ ProcessRetryQueue(w, t)

\* Every worker goes round its queues for ever, timers expire, answers arrive,
\* the operations of a coroutine end, and so does a migration that began.
Fairness ==
  /\ \A w \in Workers : WF_vars(RunStep(w))
  /\ \A t \in Tasks : SF_vars(Take(t))
  /\ WF_vars(MigrateContainer) /\ WF_vars(RegisterContainer)

Spec == Init /\ [][Next]_vars /\ Fairness

---------------------------------------------------------------------------
(***************************************************************************)
(* Properties.                                                             *)
(***************************************************************************)

TypeOK ==
  /\ phase \in [Tasks -> Phases]
  /\ ctx \in [Tasks -> Contexts]
  /\ lane \in [Workers -> Seq(Tasks)]
  /\ event \in [Workers -> Seq(Tasks)]
  /\ timed \in [Workers -> SUBSET Tasks]
  /\ blocked \in [Workers -> SUBSET Tasks]
  /\ retry \in [Workers -> SUBSET Tasks]
  /\ cur \in [Workers -> Tasks \cup {None}]
  /\ net \subseteq Tasks
  /\ container \in {"here", "plugged", "stuck", "away", "absent"}
  /\ moves \in 0 .. MaxMoves

\* The places that hold a task so that some thread will act on it.
Places(t) ==
  { <<"lane", p[1], p[2]>> : p \in
      { x \in Workers \X (1 .. LaneDepth) :
          x[2] <= Len(lane[x[1]]) /\ lane[x[1]][x[2]] = t } }
    \cup { <<"timed", w, 0>> : w \in { x \in Workers : t \in timed[x] } }
    \cup { <<"blocked", w, 0>> : w \in { x \in Workers : t \in blocked[x] } }
    \cup { <<"retry", w, 0>> : w \in { x \in Workers : t \in retry[x] } }
    \cup { <<"cur", w, 0>> : w \in { x \in Workers : cur[x] = t } }
    \cup { <<"net", None, 0>> : x \in net \cap {t} }

\* t is suspended on a future whose subtask will report to t.
AwaitsSub(t) ==
  /\ ctx[t].waits = "future"
  /\ LET s == Program[t][ctx[t].pc].sub
     IN ctx[s].parent = t /\ phase[s] \in {"pending", "ended"}

\* A task that was sent and has not ended is in exactly one queue, on one worker
\* or in the network, or its coroutine waits for a subtask that is itself on its
\* way: it is never lost, never run twice at a time.  A task that ended, or was
\* deleted, is in none.
HeldOnce ==
  \A t \in Tasks :
    IF phase[t] = "pending"
      THEN Cardinality(Places(t)) = IF AwaitsSub(t) THEN 0 ELSE 1
      ELSE Places(t) = {}

\* While a subtask can still report, or its report is still in an event queue,
\* the RunContext it reports to belongs to a task that was not deleted (the
\* comment in ProcessEventQueue).  A fire-and-forget task never reports.
ParentAlive ==
  \A s \in Tasks \ FireForget :
    /\ ctx[s].parent # None
    /\ \/ phase[s] \in {"pending", "ended"}
       \/ \E w \in Workers : \E i \in 1 .. Len(event[w]) : event[w][i] = s
    => phase[ctx[s].parent] = "pending"

\* A worker runs a coroutine only while the RunContext names that worker, so the
\* events of its subtasks come to the thread that suspended it.
RunsAtHome == \A w \in Workers : cur[w] # None => ctx[cur[w]].worker = w

\* A coroutine passes a co_await only when the awaited subtask has ended: await
\* resumes delete the subtask.
AwaitedEnded ==
  [][\A s \in Tasks \ FireForget :
       phase[s] # "freed" /\ phase'[s] = "freed"
         => phase[s] \in {"ended", "complete"}]_vars

\* A suspended handler that runs again goes on behind the operation where it was
\* suspended: what it did before is not done again.
NoRestart ==
  [][\A t \in Tasks :
       ctx[t].waits # "no" /\ ctx'[t].waits = "no"
         => ctx'[t].pc = Resumed(t).pc]_vars

\* No client thread's task is dropped between SendRuntime and a lane.
NoneDropped == \A t \in Tasks : phase[t] # "dropped"

\* Every task that was sent ends; a periodic task runs again and again.
Served ==
  /\ \A t \in Tasks \ Periodic :
       (phase[t] = "pending") ~> (phase[t] \in {"complete", "freed"})
  /\ \A t \in Periodic :
       (phase[t] = "pending") ~> (\E w \in Workers : cur[w] = t)

\* The state is well formed, every coroutine is in one place, a subtask that ends
\* finds its parent, and a coroutine runs on the worker its subtasks report to.
WorkerInv == TypeOK /\ HeldOnce /\ ParentAlive /\ RunsAtHome
=============================================================================
