------------------------------ MODULE CoRwLock ------------------------------
(***************************************************************************)
(* The reader-writer lock of the storage engine's maps: chi::CoRwLock      *)
(* (corwlock.h), which lets its write holder lock again, over hshm::RwLock *)
(* (rwlock.h), which is made of five atomics.  Every load, fetch_add and   *)
(* compare_exchange is a step of its own; all are sequentially consistent. *)
(* A weak compare_exchange that fails for no reason only repeats the loop  *)
(* and is left out.                                                        *)
(*                                                                         *)
(* A thread stands for a worker with the task it runs (LockOwnerId).  The  *)
(* guards are scoped, so the outermost write guard is released last, and a *)
(* task that holds a read guard does not ask for a write guard.            *)
(***************************************************************************)
EXTENDS Integers, FiniteSets

CONSTANTS
    Threads,
    Width,      \* values of cur_writer_, an unsigned: 2^32 in the program
    MaxCalls    \* bound: guards taken by each thread

ASSUME LockAssumption == IsFiniteSet(Threads) /\ Width \in Nat \ {0} /\ MaxCalls \in Nat

Free == "free"
ASSUME FreeIsNoThread == Free \notin Threads

VARIABLES
    mode_, readers_, writers_, cur_writer_, ticket_,    \* hshm::RwLock
    holder_, write_depth_, read_depth_,                 \* chi::CoRwLock
    pc,         \* where each thread is
    call,       \* the call it is in: read or write
    mode,       \* the local variable of ReadLock and WriteLock
    tkt,        \* the local variable of WriteLock
    reads,      \* history: read guards of each thread that are in scope
    writes,     \* history: write guards of each thread that are in scope
    calls       \* history: guards taken by each thread

atomics == <<mode_, readers_, writers_, cur_writer_, ticket_>>
wrapper == <<holder_, write_depth_, read_depth_>>
history == <<reads, writes, calls>>
vars == <<atomics, wrapper, pc, call, mode, tkt, history>>

Init ==
    /\ mode_ = "none" /\ readers_ = 0 /\ writers_ = 0
    /\ cur_writer_ = 0 /\ ticket_ = 0
    /\ holder_ = Free /\ write_depth_ = 0 /\ read_depth_ = 0
    /\ pc = [t \in Threads |-> "idle"]
    /\ call = [t \in Threads |-> "read"]
    /\ mode = [t \in Threads |-> "none"]
    /\ tkt = [t \in Threads |-> 0]
    /\ reads = [t \in Threads |-> 0]
    /\ writes = [t \in Threads |-> 0]
    /\ calls = [t \in Threads |-> 0]

GoTo(t, l) == pc' = [pc EXCEPT ![t] = l]
Called(t) == calls' = [calls EXCEPT ![t] = @ + 1]
-----------------------------------------------------------------------------
(* RwLock::UpdateMode.                                                     *)

Load(t) ==
    /\ pc[t] = "load"
    /\ mode' = [mode EXCEPT ![t] = mode_]
    /\ GoTo(t, "check")
    /\ UNCHANGED <<atomics, wrapper, call, tkt, history>>

\* Only one of the two counters matters for a given mode.
Check(t) ==
    /\ pc[t] = "check"
    /\ LET idle == \/ readers_ = 0 /\ mode[t] = "read"
                   \/ writers_ = 0 /\ mode[t] = "write"
       IN  GoTo(t, IF idle THEN "reset" ELSE "test")
    /\ UNCHANGED <<atomics, wrapper, call, mode, tkt, history>>

\* The compare_exchange to kNone; the local mode changes only if it fails.
Reset(t) ==
    /\ pc[t] = "reset"
    /\ mode_' = IF mode_ = mode[t] THEN "none" ELSE mode_
    /\ mode' = IF mode_ = mode[t] THEN mode ELSE [mode EXCEPT ![t] = mode_]
    /\ GoTo(t, "test")
    /\ UNCHANGED <<readers_, writers_, cur_writer_, ticket_, wrapper, call, tkt, history>>
-----------------------------------------------------------------------------
(* ReadLock and ReadUnlock.                                                *)

\* CoRwLock::ReadLock of the write holder.
ReadAgain(t) ==
    /\ pc[t] = "idle" /\ calls[t] < MaxCalls /\ holder_ = t
    /\ read_depth_' = read_depth_ + 1
    /\ reads' = [reads EXCEPT ![t] = @ + 1]
    /\ Called(t)
    /\ UNCHANGED <<atomics, holder_, write_depth_, pc, call, mode, tkt, writes>>

ReadLock(t) ==
    /\ pc[t] = "idle" /\ calls[t] < MaxCalls /\ holder_ # t
    /\ readers_' = readers_ + 1
    /\ call' = [call EXCEPT ![t] = "read"]
    /\ GoTo(t, "load") /\ Called(t)
    /\ UNCHANGED <<mode_, writers_, cur_writer_, ticket_, wrapper, mode, tkt, reads, writes>>

\* The rest of the loop: the lock is taken in mode kRead, or in kNone if the
\* compare_exchange to kRead succeeds.
ReadTest(t) ==
    /\ pc[t] = "test" /\ call[t] = "read"
    /\ LET taken == mode[t] = "read" \/ (mode[t] = "none" /\ mode_ = "none")
       IN  /\ mode_' = IF mode[t] = "none" /\ mode_ = "none" THEN "read" ELSE mode_
           /\ reads' = IF taken THEN [reads EXCEPT ![t] = @ + 1] ELSE reads
           /\ GoTo(t, IF taken THEN "idle" ELSE "load")
    /\ UNCHANGED <<readers_, writers_, cur_writer_, ticket_, wrapper, call, mode, tkt,
                   writes, calls>>

\* Mutants: a reader that is not the holder stays counted, and the depth is
\* counted down whoever holds the lock.
ReadUnlockDepth(t) ==
    /\ pc[t] = "idle" /\ reads[t] > 0
    /\ reads' = [reads EXCEPT ![t] = @ - 1]
    /\ read_depth_' = IF holder_ = t THEN read_depth_ - 1 ELSE read_depth_
    /\ UNCHANGED <<atomics, holder_, write_depth_, pc, call, mode, tkt, writes, calls>>
ReadUnlockAnyone(t) ==
    /\ pc[t] = "idle" /\ reads[t] > 0
    /\ reads' = [reads EXCEPT ![t] = @ - 1]
    /\ read_depth_' = read_depth_ - 1
    /\ UNCHANGED <<atomics, holder_, write_depth_, pc, call, mode, tkt, writes, calls>>

ReadUnlock(t) ==
    /\ pc[t] = "idle" /\ reads[t] > 0
    /\ reads' = [reads EXCEPT ![t] = @ - 1]
    /\ \/ /\ holder_ = t /\ read_depth_ > 0
          /\ read_depth_' = read_depth_ - 1
          /\ UNCHANGED readers_
       \/ /\ ~(holder_ = t /\ read_depth_ > 0)
          /\ readers_' = readers_ - 1
          /\ UNCHANGED read_depth_
    /\ UNCHANGED <<mode_, writers_, cur_writer_, ticket_, holder_, write_depth_, pc, call,
                   mode, tkt, writes, calls>>
-----------------------------------------------------------------------------
(* WriteLock and WriteUnlock.                                              *)

\* CoRwLock::WriteLock of the write holder.
WriteAgain(t) ==
    /\ pc[t] = "idle" /\ calls[t] < MaxCalls /\ holder_ = t
    /\ write_depth_' = write_depth_ + 1
    /\ writes' = [writes EXCEPT ![t] = @ + 1]
    /\ Called(t)
    /\ UNCHANGED <<atomics, holder_, read_depth_, pc, call, mode, tkt, reads>>

WriteLock(t) ==
    /\ pc[t] = "idle" /\ calls[t] < MaxCalls /\ holder_ # t /\ reads[t] = 0
    /\ writers_' = writers_ + 1
    /\ call' = [call EXCEPT ![t] = "write"]
    /\ GoTo(t, "ticket") /\ Called(t)
    /\ UNCHANGED <<mode_, readers_, cur_writer_, ticket_, wrapper, mode, tkt, reads, writes>>

TakeTicket(t) ==
    /\ pc[t] = "ticket"
    /\ tkt' = [tkt EXCEPT ![t] = ticket_]
    /\ ticket_' = ticket_ + 1
    /\ GoTo(t, "load")
    /\ UNCHANGED <<mode_, readers_, writers_, cur_writer_, wrapper, call, mode, history>>

\* The compare_exchange to kWrite, if the mode was kNone.
WriteTest(t) ==
    /\ pc[t] = "test" /\ call[t] = "write"
    /\ mode_' = IF mode[t] = "none" /\ mode_ = "none" THEN "write" ELSE mode_
    /\ GoTo(t, [none |-> "reload", write |-> "turn", read |-> "load"][mode[t]])
    /\ UNCHANGED <<readers_, writers_, cur_writer_, ticket_, wrapper, call, mode, tkt, history>>

Reload(t) ==
    /\ pc[t] = "reload"
    /\ mode' = [mode EXCEPT ![t] = mode_]
    /\ GoTo(t, IF mode_ = "write" THEN "turn" ELSE "load")
    /\ UNCHANGED <<atomics, wrapper, call, tkt, history>>

\* Mutant: the mode is enough.
TurnAny(t) ==
    /\ pc[t] = "turn"
    /\ holder_' = t /\ write_depth_' = 1
    /\ writes' = [writes EXCEPT ![t] = @ + 1]
    /\ GoTo(t, "idle")
    /\ UNCHANGED <<atomics, read_depth_, call, mode, tkt, reads, calls>>

\* The turn of the ticket, and what CoRwLock::WriteLock does once it has come.
Turn(t) ==
    /\ pc[t] = "turn"
    /\ \/ /\ cur_writer_ = tkt[t]
          /\ holder_' = t /\ write_depth_' = 1
          /\ writes' = [writes EXCEPT ![t] = @ + 1]
          /\ GoTo(t, "idle")
       \/ /\ cur_writer_ # tkt[t]
          /\ GoTo(t, "load")
          /\ UNCHANGED <<holder_, write_depth_, writes>>
    /\ UNCHANGED <<atomics, read_depth_, call, mode, tkt, reads, calls>>

\* Mutant: an inner write guard releases the lock.
WriteUnlockAll(t) ==
    /\ pc[t] = "idle" /\ writes[t] > 0 /\ (writes[t] > 1 \/ reads[t] = 0)
    /\ writes' = [writes EXCEPT ![t] = @ - 1]
    /\ write_depth_' = write_depth_ - 1
    /\ holder_' = Free /\ writers_' = writers_ - 1
    /\ GoTo(t, "release")
    /\ UNCHANGED <<mode_, readers_, cur_writer_, ticket_, read_depth_, call, mode, tkt,
                   reads, calls>>

WriteUnlock(t) ==
    /\ pc[t] = "idle" /\ writes[t] > 0 /\ (writes[t] > 1 \/ reads[t] = 0)
    /\ writes' = [writes EXCEPT ![t] = @ - 1]
    /\ write_depth_' = write_depth_ - 1
    /\ \/ /\ write_depth_ = 1 /\ read_depth_ = 0
          /\ holder_' = Free
          /\ writers_' = writers_ - 1
          /\ GoTo(t, "release")
       \/ /\ ~(write_depth_ = 1 /\ read_depth_ = 0)
          /\ UNCHANGED <<holder_, writers_, pc>>
    /\ UNCHANGED <<mode_, readers_, cur_writer_, ticket_, read_depth_, call, mode, tkt,
                   reads, calls>>

\* Mutant: the next ticket is not called.
ReleaseNobody(t) ==
    /\ pc[t] = "release"
    /\ GoTo(t, "idle")
    /\ UNCHANGED <<atomics, wrapper, call, mode, tkt, history>>

\* The second half of RwLock::WriteUnlock.
Release(t) ==
    /\ pc[t] = "release"
    /\ cur_writer_' = (cur_writer_ + 1) % Width
    /\ GoTo(t, "idle")
    /\ UNCHANGED <<mode_, readers_, writers_, ticket_, wrapper, call, mode, tkt, history>>

\* What a thread does without taking another guard.
Step(t) ==
    \/ Load(t) \/ Check(t) \/ Reset(t)
    \/ ReadTest(t) \/ ReadUnlock(t)
    \/ TakeTicket(t) \/ WriteTest(t) \/ Reload(t) \/ Turn(t)
    \/ WriteUnlock(t) \/ Release(t)

Next ==
    \E t \in Threads :
        Step(t) \/ ReadAgain(t) \/ ReadLock(t) \/ WriteAgain(t) \/ WriteLock(t)

Spec == Init /\ [][Next]_vars

\* Every thread is scheduled again and again and leaves its guards' scopes.
FairSpec == Spec /\ \A t \in Threads : WF_vars(Step(t))
-----------------------------------------------------------------------------
Labels == {"idle", "load", "check", "reset", "test", "ticket", "reload", "turn", "release"}
Modes == {"none", "read", "write"}

\* Types: the unsigned depths never fall below zero (the counters are the
\* subject of CountersExact).
TypeOK ==
    /\ mode_ \in Modes /\ readers_ \in Int /\ writers_ \in Int
    /\ cur_writer_ \in 0 .. Width - 1 /\ ticket_ \in Nat
    /\ holder_ \in Threads \cup {Free}
    /\ write_depth_ \in Nat /\ read_depth_ \in Nat
    /\ pc \in [Threads -> Labels]
    /\ call \in [Threads -> {"read", "write"}]
    /\ mode \in [Threads -> Modes]
    /\ tkt \in [Threads -> Nat]
    /\ reads \in [Threads -> Nat] /\ writes \in [Threads -> Nat]
    /\ calls \in [Threads -> Nat]

\* readers_ and writers_, on which UpdateMode decides that a mode is over, count
\* the tasks that hold or wait for the inner lock, and nothing is counted twice
\* or not at all when the holder locks again.
CountersExact ==
    LET calling(t, c) == pc[t] \notin {"idle", "release"} /\ call[t] = c
        inner(t) == IF holder_ = t THEN 0 ELSE reads[t]
    IN  /\ readers_ = Cardinality({t \in Threads : calling(t, "read")})
                     + Cardinality({p \in Threads \X (1 .. MaxCalls) : p[2] <= inner(p[1])})
        /\ writers_ = Cardinality({t \in Threads : writes[t] > 0 \/ calling(t, "write")})

\* Two tasks never both have a write guard: tickets are handed out once and
\* called up one at a time, also when the unsigned cur_writer_ wraps around.
WritersExclude ==
    \A t, u \in Threads : writes[t] > 0 /\ writes[u] > 0 => t = u

\* The holder and the depths are those of the guards in scope: no guard of a
\* task that locks again is counted for another task or releases the lock early.
DepthsExact ==
    /\ \A t \in Threads : holder_ = t <=> writes[t] > 0
    /\ holder_ = Free => write_depth_ = 0 /\ read_depth_ = 0
    /\ holder_ # Free => write_depth_ = writes[holder_] /\ read_depth_ = reads[holder_]

\* A write guard is in scope only when no other task has a guard.
ReadersExclude ==
    \A t, u \in Threads : writes[t] > 0 /\ reads[u] > 0 => t = u

\* Every call returns.
Returns == \A t \in Threads : pc[t] # "idle" ~> pc[t] = "idle"
=============================================================================
