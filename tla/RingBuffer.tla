----------------------------- MODULE RingBuffer -----------------------------
(***************************************************************************)
(* The shared-memory ring buffer (ring_buffer.h) that every queue of the   *)
(* runtime is made of: the workers' lanes, their event queues, the network *)
(* queues and, in the circular variant, the telemetry logs; together with  *)
(* the protocol by which its users wake the worker that drains it.         *)
(*                                                                         *)
(* Any number of threads push.  Each push is the sequence of atomic        *)
(* operations of Emplace, between the caller's test of Empty() and its     *)
(* call of AwakenWorker.  One thread pops: a worker that sleeps in         *)
(* EventManager::Wait when a pass over its lane found nothing.             *)
(*                                                                         *)
(* mode is the space policy of the buffer: "wait" (the task queues),       *)
(* "error" (one producer) or "circular" (the telemetry logs).  Every push  *)
(* carries a number of its own.  MaxPush is the only bound added.          *)
(***************************************************************************)
EXTENDS Integers, Sequences

CONSTANTS
    Producers,   \* threads that push
    Depth,       \* capacity asked for at construction
    Modes,       \* space policies considered
    Periodic,    \* whether the worker runs periodic tasks, and so sleeps with a timeout
    MaxPush      \* bound: pushes in one behaviour

ASSUME DepthAssumption == Depth \in Nat \ {0}
ASSUME ModesAssumption == Modes \subseteq {"wait", "error", "circular"}
ASSUME RunAssumption == Periodic \in BOOLEAN /\ MaxPush \in Nat

VARIABLES
    mode,
    head, tail,  \* head_ and tail_, never reduced modulo the size
    slot,        \* queue_: the entries
    pc,          \* where each producer's push stands
    wasEmpty,    \* the caller's was_empty
    seen,        \* the head the producer loaded
    ticket,      \* the tail it was given by fetch_add
    val,         \* what it pushes
    cpc,         \* where the worker stands
    got,         \* what Pop read
    signal,      \* SIGUSR1 pending at the worker's signalfd
    made,        \* history: pushes begun
    pushed,      \* history: values in the order of their tickets
    taken        \* history: values popped

ring == <<head, tail, slot>>
producer == <<pc, wasEmpty, seen, ticket, val>>
consumer == <<cpc, got, taken>>
vars == <<mode, ring, producer, consumer, signal, made, pushed>>

Size == Depth + 1
Idx(t) == t % Size
Empty == head = tail

-----------------------------------------------------------------------------
Init ==
    /\ mode \in Modes
    /\ head = 0 /\ tail = 0
    /\ slot = [i \in 0 .. Depth |-> [ready |-> FALSE, data |-> 0]]
    /\ pc = [p \in Producers |-> "idle"]
    /\ wasEmpty = [p \in Producers |-> FALSE]
    /\ seen = [p \in Producers |-> 0]
    /\ ticket = [p \in Producers |-> 0]
    /\ val = [p \in Producers |-> 0]
    /\ cpc = "pop" /\ got = 0
    /\ signal = FALSE
    /\ made = 0 /\ pushed = <<>> /\ taken = <<>>

Goto(p, l) == pc' = [pc EXCEPT ![p] = l]

-----------------------------------------------------------------------------
(* A push: Send, RouteLocal, EnqueueNetTask, EndTask around Emplace.       *)

\* The caller looks whether the queue is empty.  The "error" variant has one
\* producer.
BeginPush(p) ==
    /\ pc[p] = "idle"
    /\ made < MaxPush
    /\ mode = "error" => \A q \in Producers : pc[q] = "idle"
    /\ made' = made + 1
    /\ val' = [val EXCEPT ![p] = made + 1]
    /\ wasEmpty' = [wasEmpty EXCEPT ![p] = Empty]
    /\ Goto(p, "load")
    /\ UNCHANGED <<mode, ring, seen, ticket, consumer, signal, pushed>>

LoadHead(p) ==
    /\ pc[p] = "load"
    /\ seen' = [seen EXCEPT ![p] = head]
    /\ Goto(p, "add")
    /\ UNCHANGED <<mode, ring, wasEmpty, ticket, val, consumer, signal, made, pushed>>

\* tail_.fetch_add(1): the slot is the producer's from here on.
FetchAdd(p) ==
    /\ pc[p] = "add"
    /\ ticket' = [ticket EXCEPT ![p] = tail]
    /\ tail' = tail + 1
    /\ pushed' = Append(pushed, val[p])
    /\ Goto(p, IF mode = "circular" THEN "write" ELSE "space")
    /\ UNCHANGED <<mode, head, slot, wasEmpty, seen, val, consumer, signal, made>>

\* Mutant: the entry to be written is not counted and equality is allowed.
NoSpaceOffByOne(p) == ticket[p] - seen[p] > Size

NoSpace(p) == ticket[p] - seen[p] + 1 >= Size

HasSpace(p) ==
    /\ pc[p] = "space"
    /\ ~ NoSpace(p)
    /\ Goto(p, "write")
    /\ UNCHANGED <<mode, ring, wasEmpty, seen, ticket, val, consumer, signal, made, pushed>>

\* One turn of the loop that waits for the consumer.
WaitForSpace(p) ==
    /\ pc[p] = "space"
    /\ NoSpace(p)
    /\ mode = "wait"
    /\ seen' = [seen EXCEPT ![p] = head]
    /\ UNCHANGED <<mode, ring, pc, wasEmpty, ticket, val, consumer, signal, made, pushed>>

\* Push returns false: the ticket is given back.
ErrorOnNoSpace(p) ==
    /\ pc[p] = "space"
    /\ NoSpace(p)
    /\ mode = "error"
    /\ tail' = tail - 1
    /\ pushed' = SubSeq(pushed, 1, Len(pushed) - 1)
    /\ Goto(p, "idle")
    /\ UNCHANGED <<mode, head, slot, wasEmpty, seen, ticket, val, consumer, signal, made>>

WriteData(p) ==
    /\ pc[p] = "write"
    /\ slot' = [slot EXCEPT ![Idx(ticket[p])].data = val[p]]
    /\ Goto(p, "ready")
    /\ UNCHANGED <<mode, head, tail, wasEmpty, seen, ticket, val, consumer, signal, made, pushed>>

SetReady(p) ==
    /\ pc[p] = "ready"
    /\ slot' = [slot EXCEPT ![Idx(ticket[p])].ready = TRUE]
    /\ Goto(p, "wake")
    /\ UNCHANGED <<mode, head, tail, wasEmpty, seen, ticket, val, consumer, signal, made, pushed>>

\* AwakenWorker, if the queue was empty when the caller looked.
Awaken(p) ==
    /\ pc[p] = "wake"
    /\ signal' = (signal \/ wasEmpty[p])
    /\ Goto(p, "idle")
    /\ UNCHANGED <<mode, ring, wasEmpty, seen, ticket, val, consumer, made, pushed>>

-----------------------------------------------------------------------------
(* The worker: Pop in ProcessNewTasks, then SuspendMe.                     *)

\* Mutant: the cursor moves before the entry is looked at.
PopSkips ==
    /\ cpc = "pop"
    /\ head >= tail \/ ~ slot[Idx(head)].ready
    /\ head' = head + 1
    /\ cpc' = "idle"
    /\ UNCHANGED <<mode, tail, slot, producer, got, taken, signal, made, pushed>>

\* Nothing is queued, or the oldest entry is not ready yet: Pop returns false.
PopNothing ==
    /\ cpc = "pop"
    /\ head >= tail \/ ~ slot[Idx(head)].ready
    /\ cpc' = "idle"
    /\ UNCHANGED <<mode, ring, producer, got, taken, signal, made, pushed>>

\* Mutant: the entry is looked up at the wrong end.
PopNewest ==
    /\ cpc = "pop"
    /\ head < tail
    /\ slot[Idx(head)].ready
    /\ got' = slot[Idx(tail - 1)].data
    /\ cpc' = "clear"
    /\ UNCHANGED <<mode, ring, producer, taken, signal, made, pushed>>

PopData ==
    /\ cpc = "pop"
    /\ head < tail
    /\ slot[Idx(head)].ready
    /\ got' = slot[Idx(head)].data
    /\ cpc' = "clear"
    /\ UNCHANGED <<mode, ring, producer, taken, signal, made, pushed>>

ClearReady ==
    /\ cpc = "clear"
    /\ slot' = [slot EXCEPT ![Idx(head)].ready = FALSE]
    /\ cpc' = "advance"
    /\ UNCHANGED <<mode, head, tail, producer, got, taken, signal, made, pushed>>

\* head_.fetch_add(1): the slot is free for the producers.
Advance ==
    /\ cpc = "advance"
    /\ head' = head + 1
    /\ taken' = Append(taken, got)
    /\ cpc' = "pop"
    /\ UNCHANGED <<mode, tail, slot, producer, got, signal, made, pushed>>

\* SuspendMe within first_busy_wait: poll again.
BusyWait ==
    /\ cpc = "idle"
    /\ cpc' = "pop"
    /\ UNCHANGED <<mode, ring, producer, got, taken, signal, made, pushed>>

\* SuspendMe after first_busy_wait.
Sleep ==
    /\ cpc = "idle"
    /\ cpc' = "asleep"
    /\ UNCHANGED <<mode, ring, producer, got, taken, signal, made, pushed>>

\* Mutant: only a signal ends the wait.
WakeBySignal ==
    /\ cpc = "asleep"
    /\ signal
    /\ signal' = FALSE
    /\ cpc' = "pop"
    /\ UNCHANGED <<mode, ring, producer, got, taken, made, pushed>>

\* EventManager::Wait returns: a signal, which it reads, or the timeout
\* GetSuspendPeriod took from the periodic tasks.
Wake ==
    /\ cpc = "asleep"
    /\ signal \/ Periodic
    /\ signal' = FALSE
    /\ cpc' = "pop"
    /\ UNCHANGED <<mode, ring, producer, got, taken, made, pushed>>

Push(p) ==
    \/ LoadHead(p)
    \/ FetchAdd(p)
    \/ HasSpace(p)
    \/ WaitForSpace(p)
    \/ ErrorOnNoSpace(p)
    \/ WriteData(p)
    \/ SetReady(p)
    \/ Awaken(p)

Worker ==
    \/ PopNothing
    \/ PopData
    \/ ClearReady
    \/ Advance
    \/ BusyWait
    \/ Sleep
    \/ Wake

Next == (\E p \in Producers : BeginPush(p) \/ Push(p)) \/ Worker

Spec == Init /\ [][Next]_vars

\* No thread is stopped for ever in the middle of a push, and the worker runs.
FairSpec ==
    /\ Spec
    /\ \A p \in Producers : WF_vars(Push(p))
    /\ WF_vars(Worker)
-----------------------------------------------------------------------------
(* Properties.                                                             *)

Labels == {"idle", "load", "add", "space", "write", "ready", "wake"}

\* Types; the cursors never cross.
TypeOK ==
    /\ mode \in Modes
    /\ head \in Nat /\ tail \in Nat /\ head <= tail
    /\ slot \in [0 .. Depth -> [ready : BOOLEAN, data : 0 .. MaxPush]]
    /\ pc \in [Producers -> Labels]
    /\ wasEmpty \in [Producers -> BOOLEAN]
    /\ seen \in [Producers -> Nat]
    /\ ticket \in [Producers -> Nat]
    /\ val \in [Producers -> 0 .. MaxPush]
    /\ cpc \in {"pop", "clear", "advance", "idle", "asleep"}
    /\ got \in 0 .. MaxPush
    /\ signal \in BOOLEAN
    /\ made \in 0 .. MaxPush
    /\ pushed \in Seq(1 .. MaxPush)
    /\ taken \in Seq(0 .. MaxPush)

\* Whatever the producers' steps interleave with, and although a producer may
\* hold a ticket beyond the capacity, the buffer is a queue: every value comes
\* out once, in the order of the tickets, and is the one its producer wrote.
Queue ==
    INSTANCE Fifo WITH
        Values <- 1 .. MaxPush,
        queue <- SubSeq(pushed, head + 1, Len(pushed)),
        taken <- taken
IsFifo == Queue!Spec

\* Two producers never write the same slot at once, and none writes a slot the
\* worker has not emptied: a full buffer makes producers wait, never overwrite.
Writing(p) == pc[p] \in {"write", "ready"}
NoOverwrite ==
    \A p \in Producers : Writing(p) =>
        /\ ~ slot[Idx(ticket[p])].ready
        /\ cpc \in {"clear", "advance"} => Idx(ticket[p]) # Idx(head)
        /\ \A q \in Producers : q # p /\ Writing(q) => Idx(ticket[p]) # Idx(ticket[q])

\* What was pushed is processed, although the worker goes to sleep between the
\* producer's look at the queue and its push.
Delivered ==
    \A v \in 1 .. MaxPush :
        (\E i \in 1 .. Len(pushed) : pushed[i] = v) ~>
            \/ \E i \in 1 .. Len(taken) : taken[i] = v
            \/ mode = "error" /\ \A i \in 1 .. Len(pushed) : pushed[i] # v

\* "Circular queue automatically overwrites oldest entries when full"
\* (LogTelemetry): what is read out is in the order in which it was logged.
InOrder == \A i, j \in 1 .. Len(taken) : i < j => taken[i] < taken[j]

\* "oldest valid event ID" (GetHead): the entry at an index between head_ and
\* tail_ that Peek reports is the entry that was pushed as that index.
PeekOwn ==
    \A i \in head .. tail - 1 :
        slot[Idx(i)].ready =>
            \/ slot[Idx(i)].data = pushed[i + 1]
            \/ \E p \in Producers : Writing(p) /\ Idx(ticket[p]) = Idx(i)

\* The cursors never cross and no entry is overwritten before Pop has read it.
RingInv == TypeOK /\ NoOverwrite
=============================================================================
