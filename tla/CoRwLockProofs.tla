--------------------------- MODULE CoRwLockProofs ---------------------------
(***************************************************************************)
(* Exclusion of writers and exactness of the depths of CoRwLock, for any   *)
(* number of threads, any width of cur_writer_ and any number of calls.    *)
(*                                                                         *)
(* The argument does not look at the mode or at the two counters: a ticket *)
(* belongs to one thread only, and a thread is inside only while           *)
(* cur_writer_ shows its ticket.  Only the thread inside changes           *)
(* cur_writer_, and it is outside when it has done so.                     *)
(***************************************************************************)
EXTENDS CoRwLock, FiniteSetTheorems, TLAPS

\* Inside WriteLock with a ticket; past it, until cur_writer_ has moved on.
Waiting(t) == call[t] = "write" /\ pc[t] \in {"load", "check", "reset", "test", "reload", "turn"}
Inside(t) == writes[t] > 0 \/ pc[t] = "release"
Ticketed(t) == Waiting(t) \/ Inside(t)

TicketsOnce ==
    /\ \A t \in Threads : Ticketed(t) => tkt[t] < ticket_
    /\ \A t, u \in Threads : Ticketed(t) /\ Ticketed(u) /\ tkt[t] = tkt[u] => t = u

InsideInTurn == \A t \in Threads : Inside(t) => tkt[t] = cur_writer_

\* Where a thread may be when it has guards, and which call it is in.
Places ==
    \A t \in Threads :
        /\ writes[t] > 0 => pc[t] = "idle"
        /\ pc[t] # "idle" /\ call[t] = "write" => reads[t] = 0
        /\ pc[t] \in {"ticket", "reload", "turn"} => call[t] = "write"

\* The inductive invariant.
LockInv == TypeOK /\ DepthsExact /\ TicketsOnce /\ InsideInTurn /\ Places
-----------------------------------------------------------------------------
\* The lock starts free, with no guard in scope and no ticket taken.
LEMMA InitInv == Init => LockInv
<1> SUFFICES ASSUME Init PROVE LockInv
  OBVIOUS
<1>1. TypeOK
  BY LockAssumption DEF Init, TypeOK, Labels, Modes
<1>2. DepthsExact
  BY FreeIsNoThread DEF Init, DepthsExact
<1>3. TicketsOnce /\ InsideInTurn /\ Places
  BY DEF Init, TicketsOnce, InsideInTurn, Places, Ticketed, Waiting, Inside
<1> QED
  BY <1>1, <1>2, <1>3 DEF LockInv

\* UpdateMode reads the mode.
LEMMA LoadInv ==
    ASSUME LockInv, NEW t \in Threads, Load(t) PROVE LockInv'
<1> USE DEF LockInv
<1>1. TypeOK'
  BY DEF TypeOK, Labels, Load, GoTo, atomics, wrapper, history
<1>2. DepthsExact'
  BY DEF DepthsExact, Load, wrapper, history
<1>3. TicketsOnce'
  BY DEF TicketsOnce, Ticketed, Waiting, Inside, Load, GoTo, atomics, history
<1>4. InsideInTurn'
  BY DEF InsideInTurn, Inside, Load, GoTo, atomics, history
<1>5. Places'
  BY DEF Places, Load, GoTo, history
<1> QED
  BY <1>1, <1>2, <1>3, <1>4, <1>5

\* UpdateMode looks at the counters.
LEMMA CheckInv ==
    ASSUME LockInv, NEW t \in Threads, Check(t) PROVE LockInv'
<1> USE DEF LockInv
<1>1. TypeOK'
  BY DEF TypeOK, Labels, Check, GoTo, atomics, wrapper, history
<1>2. DepthsExact'
  BY DEF DepthsExact, Check, wrapper, history
<1>3. TicketsOnce'
  BY DEF TicketsOnce, Ticketed, Waiting, Inside, Check, GoTo, atomics, history
<1>4. InsideInTurn'
  BY DEF InsideInTurn, Inside, Check, GoTo, atomics, history
<1>5. Places'
  BY DEF Places, Check, GoTo, history
<1> QED
  BY <1>1, <1>2, <1>3, <1>4, <1>5

\* UpdateMode ends a mode.
LEMMA ResetInv ==
    ASSUME LockInv, NEW t \in Threads, Reset(t) PROVE LockInv'
<1> USE DEF LockInv
<1>1. TypeOK'
  BY DEF TypeOK, Labels, Modes, Reset, GoTo, wrapper, history
<1>2. DepthsExact'
  BY DEF DepthsExact, Reset, wrapper, history
<1>3. TicketsOnce'
  BY DEF TicketsOnce, Ticketed, Waiting, Inside, Reset, GoTo, history
<1>4. InsideInTurn'
  BY DEF InsideInTurn, Inside, Reset, GoTo, history
<1>5. Places'
  BY DEF Places, Reset, GoTo, history
<1> QED
  BY <1>1, <1>2, <1>3, <1>4, <1>5

\* A reader tries the mode it has seen.
LEMMA ReadTestInv ==
    ASSUME LockInv, NEW t \in Threads, ReadTest(t) PROVE LockInv'
<1> USE DEF LockInv
<1>1. TypeOK'
  BY DEF TypeOK, Labels, Modes, ReadTest, GoTo, wrapper
<1>2. DepthsExact'
  BY DEF DepthsExact, Places, ReadTest, wrapper
<1>3. TicketsOnce'
  BY DEF TicketsOnce, Ticketed, Waiting, Inside, ReadTest, GoTo
<1>4. InsideInTurn'
  BY DEF InsideInTurn, Inside, ReadTest, GoTo
<1>5. Places'
  BY DEF Places, ReadTest, GoTo
<1> QED
  BY <1>1, <1>2, <1>3, <1>4, <1>5

\* A read guard leaves its scope: the wrapper's if the thread is the holder, the
\* inner lock's if not.
LEMMA ReadUnlockInv ==
    ASSUME LockInv, NEW t \in Threads, ReadUnlock(t) PROVE LockInv'
<1> USE DEF LockInv
<1>1. TypeOK'
  BY DEF TypeOK, ReadUnlock
<1>2. DepthsExact'
  BY DEF DepthsExact, TypeOK, ReadUnlock
<1>3. TicketsOnce'
  BY DEF TicketsOnce, Ticketed, Waiting, Inside, ReadUnlock
<1>4. InsideInTurn'
  BY DEF InsideInTurn, Inside, ReadUnlock
<1>5. Places'
  BY DEF Places, ReadUnlock
<1> QED
  BY <1>1, <1>2, <1>3, <1>4, <1>5

\* A new ticket is larger than every ticket in use.
LEMMA TakeTicketInv ==
    ASSUME LockInv, NEW t \in Threads, TakeTicket(t) PROVE LockInv'
<1> USE DEF LockInv
<1>1. TypeOK'
  BY DEF TypeOK, Labels, TakeTicket, GoTo, wrapper, history
<1>2. DepthsExact'
  BY DEF DepthsExact, TakeTicket, wrapper, history
<1>3. TicketsOnce'
  BY DEF TicketsOnce, TypeOK, Ticketed, Waiting, Inside, TakeTicket, GoTo, history
<1>4. InsideInTurn'
  BY DEF InsideInTurn, Places, Inside, TakeTicket, GoTo, history
<1>5. Places'
  BY DEF Places, TakeTicket, GoTo, history
<1> QED
  BY <1>1, <1>2, <1>3, <1>4, <1>5

\* A writer tries to begin the mode kWrite.
LEMMA WriteTestInv ==
    ASSUME LockInv, NEW t \in Threads, WriteTest(t) PROVE LockInv'
<1> USE DEF LockInv
<1>1. TypeOK'
  BY DEF TypeOK, Labels, Modes, WriteTest, GoTo, wrapper, history
<1>2. DepthsExact'
  BY DEF DepthsExact, WriteTest, wrapper, history
<1>3. TicketsOnce'
  BY DEF TicketsOnce, Ticketed, Waiting, Inside, WriteTest, GoTo, history
<1>4. InsideInTurn'
  <2>1. \A u \in Threads : pc'[u] = "release" => pc[u] = "release"
    BY DEF WriteTest, GoTo, TypeOK, Modes
  <2>2. QED
    BY <2>1 DEF InsideInTurn, Inside, WriteTest, history
<1>5. Places'
  BY DEF Places, WriteTest, GoTo, history
<1> QED
  BY <1>1, <1>2, <1>3, <1>4, <1>5

\* It looks at the mode again.
LEMMA ReloadInv ==
    ASSUME LockInv, NEW t \in Threads, Reload(t) PROVE LockInv'
<1> USE DEF LockInv
<1>1. TypeOK'
  BY DEF TypeOK, Labels, Reload, GoTo, atomics, wrapper, history
<1>2. DepthsExact'
  BY DEF DepthsExact, Reload, wrapper, history
<1>3. TicketsOnce'
  BY DEF TicketsOnce, Ticketed, Waiting, Inside, Reload, GoTo, atomics, history
<1>4. InsideInTurn'
  BY DEF InsideInTurn, Inside, Reload, GoTo, atomics, history
<1>5. Places'
  BY DEF Places, Reload, GoTo, history
<1> QED
  BY <1>1, <1>2, <1>3, <1>4, <1>5

\* The ticket shown by cur_writer_ admits its only owner: nobody is inside.
LEMMA TurnInv ==
    ASSUME LockInv, NEW t \in Threads, Turn(t) PROVE LockInv'
<1> USE DEF LockInv
<1>1. TypeOK'
  BY DEF TypeOK, Labels, Turn, GoTo, atomics
<1>2. DepthsExact'
  <2>1. CASE cur_writer_ = tkt[t]
    <3>1. Waiting(t) /\ ~Inside(t) /\ reads[t] = 0
      BY DEF Turn, Places, Waiting, Inside
    <3>2. \A u \in Threads : ~Inside(u)
      BY <2>1, <3>1 DEF TicketsOnce, InsideInTurn, Ticketed
    <3>3. \A u \in Threads : writes[u] = 0
      BY <3>2 DEF Inside, TypeOK
    <3>4. holder_ = Free /\ read_depth_ = 0
      BY <3>3 DEF DepthsExact, TypeOK
    <3>5. QED
      BY <2>1, <3>1, <3>3, <3>4 DEF DepthsExact, TypeOK, Turn
  <2>2. CASE cur_writer_ # tkt[t]
    BY <2>2 DEF DepthsExact, Turn
  <2>3. QED
    BY <2>1, <2>2
<1>3. TicketsOnce'
  BY DEF TicketsOnce, Places, TypeOK, Ticketed, Waiting, Inside, Turn, GoTo, atomics
<1>4. InsideInTurn'
  BY DEF InsideInTurn, TypeOK, Inside, Turn, GoTo, atomics
<1>5. Places'
  BY DEF Places, TypeOK, Turn, GoTo
<1> QED
  BY <1>1, <1>2, <1>3, <1>4, <1>5

\* A write guard leaves its scope; only the outermost one clears the holder.
LEMMA WriteUnlockInv ==
    ASSUME LockInv, NEW t \in Threads, WriteUnlock(t) PROVE LockInv'
<1> USE DEF LockInv
<1>1. TypeOK'
  <2>1. write_depth_' \in Nat /\ read_depth_' \in Nat
    BY FreeIsNoThread DEF TypeOK, DepthsExact, WriteUnlock
  <2>2. QED
    BY <2>1 DEF TypeOK, Labels, WriteUnlock, GoTo
<1>2. DepthsExact'
  <2>1. holder_ = t /\ write_depth_ = writes[t] /\ read_depth_ = reads[t]
    BY FreeIsNoThread DEF WriteUnlock, DepthsExact
  <2>2. \A u \in Threads : u # t => writes[u] = 0
    BY <2>1 DEF DepthsExact, TypeOK
  <2>3. CASE write_depth_ = 1 /\ read_depth_ = 0
    BY <2>1, <2>2, <2>3, FreeIsNoThread DEF DepthsExact, TypeOK, WriteUnlock
  <2>4. CASE ~(write_depth_ = 1 /\ read_depth_ = 0)
    BY <2>1, <2>2, <2>4 DEF DepthsExact, TypeOK, WriteUnlock
  <2>5. QED
    BY <2>3, <2>4
<1>3. TicketsOnce'
  BY DEF TicketsOnce, TypeOK, Ticketed, Waiting, Inside, WriteUnlock, GoTo
<1>4. InsideInTurn'
  BY DEF InsideInTurn, TypeOK, Inside, WriteUnlock, GoTo
<1>5. Places'
  BY DEF Places, DepthsExact, TypeOK, WriteUnlock, GoTo
<1> QED
  BY <1>1, <1>2, <1>3, <1>4, <1>5

\* The thread inside moves cur_writer_ on; nobody is inside then.
LEMMA ReleaseInv ==
    ASSUME LockInv, NEW t \in Threads, Release(t) PROVE LockInv'
<1> USE DEF LockInv
<1>1. TypeOK'
  BY LockAssumption DEF TypeOK, Labels, Release, GoTo, wrapper, history
<1>2. DepthsExact'
  BY DEF DepthsExact, Release, wrapper, history
<1>3. TicketsOnce'
  BY DEF TicketsOnce, Ticketed, Waiting, Inside, Release, GoTo, history
<1>4. InsideInTurn'
  <2>1. \A u \in Threads : u # t => ~Inside(u)
    BY DEF Release, TicketsOnce, InsideInTurn, Ticketed, Inside
  <2>2. writes[t] = 0
    BY DEF Release, Places, TypeOK
  <2>3. QED
    BY <2>1, <2>2 DEF InsideInTurn, Inside, TypeOK, Release, GoTo, history
<1>5. Places'
  BY DEF Places, Release, GoTo, history
<1> QED
  BY <1>1, <1>2, <1>3, <1>4, <1>5

\* The holder takes a read guard.
LEMMA ReadAgainInv ==
    ASSUME LockInv, NEW t \in Threads, ReadAgain(t) PROVE LockInv'
<1> USE DEF LockInv
<1>1. TypeOK'
  BY DEF TypeOK, ReadAgain, Called, atomics
<1>2. DepthsExact'
  BY FreeIsNoThread DEF DepthsExact, TypeOK, ReadAgain
<1>3. TicketsOnce'
  BY DEF TicketsOnce, Ticketed, Waiting, Inside, ReadAgain, atomics
<1>4. InsideInTurn'
  BY DEF InsideInTurn, Inside, ReadAgain, atomics
<1>5. Places'
  BY DEF Places, ReadAgain
<1> QED
  BY <1>1, <1>2, <1>3, <1>4, <1>5

\* A reader counts itself.
LEMMA ReadLockInv ==
    ASSUME LockInv, NEW t \in Threads, ReadLock(t) PROVE LockInv'
<1> USE DEF LockInv
<1>1. TypeOK'
  BY DEF TypeOK, Labels, ReadLock, GoTo, Called, wrapper
<1>2. DepthsExact'
  BY DEF DepthsExact, ReadLock, wrapper
<1>3. TicketsOnce'
  BY DEF TicketsOnce, TypeOK, Ticketed, Waiting, Inside, ReadLock, GoTo
<1>4. InsideInTurn'
  BY DEF InsideInTurn, Inside, ReadLock, GoTo
<1>5. Places'
  BY DEF Places, DepthsExact, TypeOK, ReadLock, GoTo
<1> QED
  BY <1>1, <1>2, <1>3, <1>4, <1>5

\* The holder takes another write guard.
LEMMA WriteAgainInv ==
    ASSUME LockInv, NEW t \in Threads, WriteAgain(t) PROVE LockInv'
<1> USE DEF LockInv
<1>1. TypeOK'
  BY DEF TypeOK, WriteAgain, Called, atomics
<1>2. DepthsExact'
  BY FreeIsNoThread DEF DepthsExact, TypeOK, WriteAgain
<1>3. TicketsOnce'
  BY DEF TicketsOnce, DepthsExact, Ticketed, Waiting, Inside, WriteAgain, atomics
<1>4. InsideInTurn'
  BY DEF InsideInTurn, DepthsExact, Inside, WriteAgain, atomics
<1>5. Places'
  BY DEF Places, WriteAgain
<1> QED
  BY <1>1, <1>2, <1>3, <1>4, <1>5

\* A writer counts itself.
LEMMA WriteLockInv ==
    ASSUME LockInv, NEW t \in Threads, WriteLock(t) PROVE LockInv'
<1> USE DEF LockInv
<1>1. TypeOK'
  BY DEF TypeOK, Labels, WriteLock, GoTo, Called, wrapper
<1>2. DepthsExact'
  BY DEF DepthsExact, WriteLock, wrapper
<1>3. TicketsOnce'
  BY DEF TicketsOnce, Ticketed, Waiting, Inside, WriteLock, GoTo
<1>4. InsideInTurn'
  BY DEF InsideInTurn, Inside, WriteLock, GoTo
<1>5. Places'
  BY DEF Places, DepthsExact, TypeOK, WriteLock, GoTo
<1> QED
  BY <1>1, <1>2, <1>3, <1>4, <1>5

-----------------------------------------------------------------------------
\* A step of any thread preserves the invariant, and so does a stuttering step.
LEMMA NextInv == LockInv /\ [Next]_vars => LockInv'
<1> SUFFICES ASSUME LockInv, [Next]_vars PROVE LockInv'
  OBVIOUS
<1>1. CASE Next
  <2> PICK t \in Threads :
        Step(t) \/ ReadAgain(t) \/ ReadLock(t) \/ WriteAgain(t) \/ WriteLock(t)
    BY <1>1 DEF Next
  <2>1. CASE Step(t)
    BY <2>1, LoadInv, CheckInv, ResetInv, ReadTestInv, ReadUnlockInv, TakeTicketInv,
       WriteTestInv, ReloadInv, TurnInv, WriteUnlockInv, ReleaseInv DEF Step
  <2>2. QED
    BY <2>1, ReadAgainInv, ReadLockInv, WriteAgainInv, WriteLockInv
<1>2. CASE UNCHANGED vars
  BY <1>2 DEF LockInv, TypeOK, DepthsExact, TicketsOnce, InsideInTurn, Places, Ticketed,
              Waiting, Inside, vars, atomics, wrapper, history
<1>3. QED
  BY <1>1, <1>2

\* The inductive invariant holds in every reachable state.
LEMMA LockInvariant == Spec => []LockInv
  BY InitInv, NextInv, PTL DEF Spec

\* Type correctness of CoRwLock: in particular the unsigned depths never wrap
\* below zero and cur_writer_ stays within its width.
THEOREM TypeCorrect == Spec => []TypeOK
<1>1. LockInv => TypeOK
  BY DEF LockInv
<1> QED
  BY <1>1, LockInvariant, PTL

\* The holder and the depths of CoRwLock are those of the guards in scope.
THEOREM Depths == Spec => []DepthsExact
<1>1. LockInv => DepthsExact
  BY DEF LockInv
<1> QED
  BY <1>1, LockInvariant, PTL

\* Two threads never both have a write guard of the CoRwLock.
THEOREM Exclusion == Spec => []WritersExclude
<1>1. LockInv => WritersExclude
  BY DEF LockInv, WritersExclude, TicketsOnce, InsideInTurn, Ticketed, Inside
<1> QED
  BY <1>1, LockInvariant, PTL

-----------------------------------------------------------------------------
(* The counters on which UpdateMode decides.                               *)

Calling(t, c) == pc[t] \notin {"idle", "release"} /\ call[t] = c
Inner(t) == IF holder_ = t THEN 0 ELSE reads[t]

\* Threads that wait to read; read guards that the inner lock counts; threads
\* that have a write guard or wait for one.
Readers == {t \in Threads : Calling(t, "read")}
Guards == {p \in Threads \X (1 .. MaxCalls) : p[2] <= Inner(p[1])}
Writers == {t \in Threads : writes[t] > 0 \/ Calling(t, "write")}

\* A thread has no more read guards than it has asked for.
Budget ==
    \A t \in Threads :
        /\ reads[t] + (IF Calling(t, "read") THEN 1 ELSE 0) <= calls[t]
        /\ calls[t] <= MaxCalls

Counted ==
    /\ readers_ = Cardinality(Readers) + Cardinality(Guards)
    /\ writers_ = Cardinality(Writers)

CountInv == LockInv /\ Budget /\ Counted

\* All sets that are counted are finite.
LEMMA FiniteCounts ==
    /\ IsFiniteSet(Readers) /\ Cardinality(Readers) \in Nat
    /\ IsFiniteSet(Guards) /\ Cardinality(Guards) \in Nat
    /\ IsFiniteSet(Writers) /\ Cardinality(Writers) \in Nat
<1>1. IsFiniteSet(Threads) /\ IsFiniteSet(1 .. MaxCalls)
  BY LockAssumption, FS_Interval
<1>2. IsFiniteSet(Threads \X (1 .. MaxCalls))
  BY <1>1, FS_Product
<1>3. /\ Readers \subseteq Threads /\ Writers \subseteq Threads
      /\ Guards \subseteq Threads \X (1 .. MaxCalls)
  BY DEF Readers, Writers, Guards
<1>4. IsFiniteSet(Readers) /\ IsFiniteSet(Guards) /\ IsFiniteSet(Writers)
  BY <1>1, <1>2, <1>3, FS_Subset
<1> QED
  BY <1>4, FS_CardinalityType

\* Nothing is counted in the free lock.
LEMMA InitCount == Init => CountInv
<1> SUFFICES ASSUME Init PROVE CountInv
  OBVIOUS
<1>1. Readers = {} /\ Writers = {}
  BY DEF Init, Readers, Writers, Calling
<1>2. Guards = {}
  BY FreeIsNoThread DEF Init, Guards, Inner
<1>3. Counted
  BY <1>1, <1>2, FS_EmptySet DEF Init, Counted
<1>4. Budget
  BY LockAssumption DEF Init, Budget, Calling
<1> QED
  BY <1>3, <1>4, InitInv DEF CountInv

\* The steps inside a call change nothing that is counted.
LEMMA QuietCount ==
    ASSUME LockInv, Budget, Counted, NEW t \in Threads,
           Load(t) \/ Check(t) \/ Reset(t) \/ TakeTicket(t) \/ WriteTest(t) \/ Reload(t) \/ Release(t)
    PROVE  Budget' /\ Counted'
<1>1. UNCHANGED <<readers_, writers_, holder_, call, reads, writes, calls>>
  BY DEF Load, Check, Reset, TakeTicket, WriteTest, Reload, Release, atomics, wrapper, history
<1>2. /\ pc \in [Threads -> Labels] /\ mode \in [Threads -> Modes]
      /\ \E l \in Labels : pc' = [pc EXCEPT ![t] = l]
                           /\ (l \in {"idle", "release"} <=> pc[t] \in {"idle", "release"})
  BY DEF LockInv, TypeOK, Load, Check, Reset, TakeTicket, WriteTest, Reload, Release, GoTo, Labels, Modes
<1>3. \A u \in Threads, c \in {"read", "write"} : Calling(u, c)' <=> Calling(u, c)
  BY <1>1, <1>2 DEF Calling
<1>4. Readers' = Readers /\ Writers' = Writers
  BY <1>1, <1>3 DEF Readers, Writers
<1>5. Guards' = Guards
  BY <1>1 DEF Guards, Inner
<1>6. Budget'
  BY <1>1, <1>3 DEF Budget
<1> QED
  BY <1>1, <1>4, <1>5, <1>6 DEF Counted

\* A reader that gets in is a guard instead of a thread that waits.
LEMMA ReadTestCount ==
    ASSUME LockInv, Budget, Counted, NEW t \in Threads, ReadTest(t)
    PROVE  Budget' /\ Counted'
<1>0. /\ pc \in [Threads -> Labels] /\ reads \in [Threads -> Nat] /\ calls \in [Threads -> Nat] /\ MaxCalls \in Nat
      /\ holder_ # t /\ Calling(t, "read") /\ UNCHANGED <<readers_, writers_, holder_, call, writes, calls>>
  BY LockAssumption DEF ReadTest, LockInv, TypeOK, DepthsExact, Places, Calling, wrapper
<1>1. CASE pc' = [pc EXCEPT ![t] = "load"] /\ reads' = reads
  <2>1. \A u \in Threads, c \in {"read", "write"} : Calling(u, c)' <=> Calling(u, c)
    BY <1>0, <1>1 DEF Calling
  <2>2. Readers' = Readers /\ Writers' = Writers /\ Guards' = Guards
    BY <1>0, <1>1, <2>1 DEF Readers, Writers, Guards, Inner
  <2>3. Budget'
    BY <1>0, <1>1, <2>1 DEF Budget
  <2> QED
    BY <1>0, <2>2, <2>3 DEF Counted
<1>2. CASE pc' = [pc EXCEPT ![t] = "idle"] /\ reads' = [reads EXCEPT ![t] = @ + 1]
  <2>1. \A u \in Threads : u # t => /\ (Calling(u, "read")' <=> Calling(u, "read"))
                                    /\ (Calling(u, "write")' <=> Calling(u, "write"))
                                    /\ reads'[u] = reads[u]
    BY <1>0, <1>2 DEF Calling
  <2>2. ~ Calling(t, "read")' /\ ~ Calling(t, "write")' /\ ~ Calling(t, "write") /\ reads'[t] = reads[t] + 1
    BY <1>0, <1>2 DEF Calling
  <2>3. Readers' = Readers \ {t} /\ t \in Readers /\ Writers' = Writers
    BY <1>0, <2>1, <2>2 DEF Readers, Writers
  <2>4. reads[t] + 1 \in 1 .. MaxCalls
    BY <1>0 DEF Budget
  <2>5. Guards' = Guards \cup {<<t, reads[t] + 1>>} /\ <<t, reads[t] + 1>> \notin Guards
    <3>1. Inner(t) = reads[t] /\ Inner(t)' = reads[t] + 1 /\ \A u \in Threads : u # t => Inner(u)' = Inner(u)
      BY <1>0, <2>1, <2>2 DEF Inner
    <3>2. ASSUME NEW u \in Threads, NEW i \in 1 .. MaxCalls
          PROVE  i <= Inner(u)' <=> (i <= Inner(u) \/ <<u, i>> = <<t, reads[t] + 1>>)
      <4>1. CASE u = t
        BY <1>0, <3>1, <4>1
      <4>2. CASE u # t
        BY <3>1, <4>2
      <4> QED
        BY <4>1, <4>2
    <3> QED
      BY <1>0, <2>4, <3>1, <3>2 DEF Guards
  <2>6. /\ Cardinality(Readers \ {t}) = Cardinality(Readers) - 1
        /\ Cardinality(Guards \cup {<<t, reads[t] + 1>>}) = Cardinality(Guards) + 1
    BY <2>3, <2>5, FiniteCounts, FS_AddElement, FS_RemoveElement
  <2>7. Counted'
    BY <1>0, <2>3, <2>5, <2>6, FiniteCounts DEF Counted
  <2>8. Budget'
    <3> SUFFICES ASSUME NEW u \in Threads
                 PROVE  /\ reads'[u] + (IF Calling(u, "read")' THEN 1 ELSE 0) <= calls'[u]
                        /\ calls'[u] <= MaxCalls
      BY DEF Budget
    <3>1. CASE u = t
      BY <1>0, <2>2, <3>1 DEF Budget
    <3>2. CASE u # t
      BY <1>0, <2>1, <3>2 DEF Budget
    <3> QED
      BY <3>1, <3>2
  <2> QED
    BY <2>7, <2>8
<1> QED
  BY <1>1, <1>2 DEF ReadTest, GoTo

\* A reader counts itself.
LEMMA ReadLockCount ==
    ASSUME LockInv, Budget, Counted, NEW t \in Threads, ReadLock(t)
    PROVE  Budget' /\ Counted'
<1>0. /\ pc \in [Threads -> Labels] /\ call \in [Threads -> {"read", "write"}]
      /\ reads \in [Threads -> Nat] /\ calls \in [Threads -> Nat] /\ MaxCalls \in Nat
      /\ calls[t] < MaxCalls /\ pc[t] = "idle"
      /\ pc' = [pc EXCEPT ![t] = "load"] /\ call' = [call EXCEPT ![t] = "read"]
      /\ calls' = [calls EXCEPT ![t] = @ + 1]
      /\ readers_' = readers_ + 1 /\ UNCHANGED <<writers_, holder_, reads, writes>>
  BY LockAssumption DEF ReadLock, LockInv, TypeOK, wrapper, GoTo, Called
<1>1. \A u \in Threads : u # t => /\ (Calling(u, "read")' <=> Calling(u, "read"))
                                  /\ (Calling(u, "write")' <=> Calling(u, "write"))
                                  /\ calls'[u] = calls[u]
  BY <1>0 DEF Calling
<1>2. /\ Calling(t, "read")' /\ ~ Calling(t, "write")' /\ ~ Calling(t, "read") /\ ~ Calling(t, "write")
      /\ calls'[t] = calls[t] + 1
  BY <1>0 DEF Calling
<1>3. Readers' = Readers \cup {t} /\ t \notin Readers /\ Writers' = Writers /\ Guards' = Guards
  BY <1>0, <1>1, <1>2 DEF Readers, Writers, Guards, Inner
<1>4. Cardinality(Readers \cup {t}) = Cardinality(Readers) + 1
  BY <1>3, FiniteCounts, FS_AddElement
<1>5. Counted'
  BY <1>0, <1>3, <1>4, FiniteCounts DEF Counted
<1>6. Budget'
  <2> SUFFICES ASSUME NEW u \in Threads
               PROVE  /\ reads'[u] + (IF Calling(u, "read")' THEN 1 ELSE 0) <= calls'[u]
                      /\ calls'[u] <= MaxCalls
    BY DEF Budget
  <2>1. CASE u = t
    BY <1>0, <1>2, <2>1 DEF Budget
  <2>2. CASE u # t
    BY <1>0, <1>1, <2>2 DEF Budget
  <2> QED
    BY <2>1, <2>2
<1> QED
  BY <1>5, <1>6

\* The holder's guards are counted by the wrapper only.
LEMMA AgainCount ==
    ASSUME LockInv, Budget, Counted, NEW t \in Threads, ReadAgain(t) \/ WriteAgain(t)
    PROVE  Budget' /\ Counted'
<1>0. /\ reads \in [Threads -> Nat] /\ calls \in [Threads -> Nat] /\ writes \in [Threads -> Nat] /\ MaxCalls \in Nat
      /\ calls[t] < MaxCalls /\ holder_ = t /\ writes[t] > 0
      /\ calls' = [calls EXCEPT ![t] = @ + 1]
      /\ reads' = reads \/ reads' = [reads EXCEPT ![t] = @ + 1]
      /\ writes' = writes \/ writes' = [writes EXCEPT ![t] = @ + 1]
      /\ UNCHANGED <<readers_, writers_, holder_, pc, call>>
  BY LockAssumption DEF ReadAgain, WriteAgain, LockInv, TypeOK, DepthsExact, atomics, Called
<1>1. \A u \in Threads, c \in {"read", "write"} : Calling(u, c)' <=> Calling(u, c)
  BY <1>0 DEF Calling
<1>2. /\ \A u \in Threads : u # t => reads'[u] = reads[u] /\ calls'[u] = calls[u] /\ writes'[u] = writes[u]
      /\ reads'[t] <= reads[t] + 1 /\ reads'[t] \in Nat /\ calls'[t] = calls[t] + 1 /\ writes'[t] > 0
  BY <1>0
<1>3. Readers' = Readers /\ Writers' = Writers
  BY <1>0, <1>1, <1>2 DEF Readers, Writers
<1>4. Guards' = Guards
  <2>1. \A u \in Threads : Inner(u)' = Inner(u)
    BY <1>0, <1>2 DEF Inner
  <2> QED
    BY <2>1 DEF Guards
<1>5. Budget'
  <2> SUFFICES ASSUME NEW u \in Threads
               PROVE  /\ reads'[u] + (IF Calling(u, "read")' THEN 1 ELSE 0) <= calls'[u]
                      /\ calls'[u] <= MaxCalls
    BY DEF Budget
  <2>1. CASE u = t
    BY <1>0, <1>1, <1>2, <2>1 DEF Budget
  <2>2. CASE u # t
    BY <1>0, <1>1, <1>2, <2>2 DEF Budget
  <2> QED
    BY <2>1, <2>2
<1> QED
  BY <1>0, <1>3, <1>4, <1>5 DEF Counted

\* A read guard of the inner lock leaves its scope.
LEMMA ReadUnlockCount ==
    ASSUME LockInv, Budget, Counted, NEW t \in Threads, ReadUnlock(t)
    PROVE  Budget' /\ Counted'
<1>0. /\ reads \in [Threads -> Nat] /\ calls \in [Threads -> Nat] /\ MaxCalls \in Nat
      /\ reads[t] > 0 /\ reads' = [reads EXCEPT ![t] = @ - 1]
      /\ UNCHANGED <<writers_, holder_, pc, call, writes, calls>>
      /\ \/ holder_ = t /\ readers_' = readers_
         \/ holder_ # t /\ readers_' = readers_ - 1
  BY LockAssumption, FreeIsNoThread DEF ReadUnlock, LockInv, TypeOK, DepthsExact
<1>1. \A u \in Threads, c \in {"read", "write"} : Calling(u, c)' <=> Calling(u, c)
  BY <1>0 DEF Calling
<1>2. reads'[t] = reads[t] - 1 /\ reads'[t] \in Nat /\ \A u \in Threads : u # t => reads'[u] = reads[u]
  BY <1>0
<1>3. Readers' = Readers /\ Writers' = Writers
  BY <1>0, <1>1 DEF Readers, Writers
<1>4. Budget'
  <2> SUFFICES ASSUME NEW u \in Threads
               PROVE  /\ reads'[u] + (IF Calling(u, "read")' THEN 1 ELSE 0) <= calls'[u]
                      /\ calls'[u] <= MaxCalls
    BY DEF Budget
  <2>1. CASE u = t
    BY <1>0, <1>1, <1>2, <2>1 DEF Budget
  <2>2. CASE u # t
    BY <1>0, <1>1, <1>2, <2>2 DEF Budget
  <2> QED
    BY <2>1, <2>2
<1>5. CASE holder_ = t /\ readers_' = readers_
  <2>1. \A u \in Threads : Inner(u)' = Inner(u)
    BY <1>0, <1>2, <1>5 DEF Inner
  <2>2. Guards' = Guards
    BY <2>1 DEF Guards
  <2> QED
    BY <1>0, <1>3, <1>4, <1>5, <2>2 DEF Counted
<1>6. CASE holder_ # t /\ readers_' = readers_ - 1
  <2>1. Inner(t) = reads[t] /\ Inner(t)' = reads[t] - 1 /\ \A u \in Threads : u # t => Inner(u)' = Inner(u)
    BY <1>0, <1>2, <1>6 DEF Inner
  <2>2. reads[t] \in 1 .. MaxCalls
    BY <1>0 DEF Budget
  <2>3. ASSUME NEW u \in Threads, NEW i \in 1 .. MaxCalls
        PROVE  i <= Inner(u)' <=> (i <= Inner(u) /\ <<u, i>> # <<t, reads[t]>>)
    <3>1. CASE u = t
      BY <1>0, <2>1, <3>1
    <3>2. CASE u # t
      BY <2>1, <3>2
    <3> QED
      BY <3>1, <3>2
  <2>4. Guards' = Guards \ {<<t, reads[t]>>} /\ <<t, reads[t]>> \in Guards
    BY <1>0, <2>1, <2>2, <2>3 DEF Guards
  <2>5. Cardinality(Guards \ {<<t, reads[t]>>}) = Cardinality(Guards) - 1
    BY <2>4, FiniteCounts, FS_RemoveElement
  <2> QED
    BY <1>0, <1>3, <1>4, <1>6, <2>4, <2>5, FiniteCounts DEF Counted
<1> QED
  BY <1>0, <1>5, <1>6

\* A writer counts itself.
LEMMA WriteLockCount ==
    ASSUME LockInv, Budget, Counted, NEW t \in Threads, WriteLock(t)
    PROVE  Budget' /\ Counted'
<1>0. /\ pc \in [Threads -> Labels] /\ call \in [Threads -> {"read", "write"}]
      /\ reads \in [Threads -> Nat] /\ calls \in [Threads -> Nat] /\ writes \in [Threads -> Nat] /\ MaxCalls \in Nat
      /\ calls[t] < MaxCalls /\ pc[t] = "idle" /\ ~ (writes[t] > 0)
      /\ pc' = [pc EXCEPT ![t] = "ticket"] /\ call' = [call EXCEPT ![t] = "write"]
      /\ calls' = [calls EXCEPT ![t] = @ + 1]
      /\ writers_' = writers_ + 1 /\ UNCHANGED <<readers_, holder_, reads, writes>>
  BY LockAssumption DEF WriteLock, LockInv, TypeOK, DepthsExact, wrapper, GoTo, Called
<1>1. \A u \in Threads : u # t => /\ (Calling(u, "read")' <=> Calling(u, "read"))
                                  /\ (Calling(u, "write")' <=> Calling(u, "write"))
                                  /\ calls'[u] = calls[u]
  BY <1>0 DEF Calling
<1>2. /\ Calling(t, "write")' /\ ~ Calling(t, "read")' /\ ~ Calling(t, "read") /\ ~ Calling(t, "write")
      /\ calls'[t] = calls[t] + 1
  BY <1>0 DEF Calling
<1>3. Writers' = Writers \cup {t} /\ t \notin Writers /\ Readers' = Readers /\ Guards' = Guards
  BY <1>0, <1>1, <1>2 DEF Readers, Writers, Guards, Inner
<1>4. Cardinality(Writers \cup {t}) = Cardinality(Writers) + 1
  BY <1>3, FiniteCounts, FS_AddElement
<1>5. Counted'
  BY <1>0, <1>3, <1>4, FiniteCounts DEF Counted
<1>6. Budget'
  <2> SUFFICES ASSUME NEW u \in Threads
               PROVE  /\ reads'[u] + (IF Calling(u, "read")' THEN 1 ELSE 0) <= calls'[u]
                      /\ calls'[u] <= MaxCalls
    BY DEF Budget
  <2>1. CASE u = t
    BY <1>0, <1>2, <2>1 DEF Budget
  <2>2. CASE u # t
    BY <1>0, <1>1, <2>2 DEF Budget
  <2> QED
    BY <2>1, <2>2
<1> QED
  BY <1>5, <1>6

\* A writer whose turn has come is counted once, as before.
LEMMA TurnCount ==
    ASSUME LockInv, Budget, Counted, NEW t \in Threads, Turn(t)
    PROVE  Budget' /\ Counted'
<1>0. /\ pc \in [Threads -> Labels] /\ writes \in [Threads -> Nat]
      /\ pc[t] = "turn" /\ call[t] = "write" /\ reads[t] = 0
      /\ UNCHANGED <<readers_, writers_, call, reads, calls>>
  BY DEF Turn, LockInv, TypeOK, Places, atomics
<1>1. \A u \in Threads : Calling(u, "read")' <=> Calling(u, "read")
  BY <1>0 DEF Turn, GoTo, Calling
<1>2. Budget' /\ Readers' = Readers
  BY <1>0, <1>1 DEF Budget, Readers
<1>3. Writers' = Writers
  <2>1. t \in Writers /\ t \in Writers'
    BY <1>0 DEF Turn, GoTo, Calling, Writers
  <2>2. \A u \in Threads : u # t => (u \in Writers' <=> u \in Writers)
    BY <1>0 DEF Turn, GoTo, Calling, Writers
  <2>3. Writers \subseteq Threads /\ Writers' \subseteq Threads
    BY DEF Writers
  <2> QED
    BY <2>1, <2>2, <2>3
<1>4. Guards' = Guards
  <2>1. CASE holder_' = holder_
    BY <1>0, <2>1 DEF Guards, Inner
  <2>2. CASE cur_writer_ = tkt[t] /\ holder_' = t
    <3>1. Waiting(t) /\ ~Inside(t)
      BY <1>0 DEF LockInv, Places, Waiting, Inside
    <3>2. \A u \in Threads : ~Inside(u)
      BY <2>2, <3>1 DEF LockInv, TicketsOnce, InsideInTurn, Ticketed
    <3>3. holder_ = Free
      BY <3>2 DEF Inside, LockInv, TypeOK, DepthsExact
    <3>4. \A u \in Threads : Inner(u)' = Inner(u)
      BY <1>0, <2>2, <3>3, FreeIsNoThread DEF Inner
    <3> QED
      BY <3>4 DEF Guards
  <2> QED
    BY <2>1, <2>2 DEF Turn
<1> QED
  BY <1>0, <1>2, <1>3, <1>4 DEF Counted

\* The outermost write guard is the one that the inner lock has counted.
LEMMA WriteUnlockCount ==
    ASSUME LockInv, Budget, Counted, NEW t \in Threads, WriteUnlock(t)
    PROVE  Budget' /\ Counted'
<1>0. /\ pc \in [Threads -> Labels] /\ writes \in [Threads -> Nat] /\ reads \in [Threads -> Nat]
      /\ pc[t] = "idle" /\ writes[t] > 0 /\ (writes[t] > 1 \/ reads[t] = 0)
      /\ writes' = [writes EXCEPT ![t] = @ - 1]
      /\ UNCHANGED <<readers_, call, reads, calls>>
      /\ holder_ = t /\ write_depth_ = writes[t] /\ read_depth_ = reads[t]
  BY FreeIsNoThread DEF WriteUnlock, LockInv, TypeOK, DepthsExact
<1>1. writes'[t] = writes[t] - 1 /\ \A u \in Threads : u # t => writes'[u] = writes[u]
  BY <1>0
<1>2. \A u \in Threads, c \in {"read", "write"} : Calling(u, c)' <=> Calling(u, c)
  BY <1>0 DEF WriteUnlock, GoTo, Calling
<1>3. Budget' /\ Readers' = Readers
  BY <1>0, <1>2 DEF Budget, Readers
<1>4. CASE write_depth_ = 1 /\ read_depth_ = 0 /\ holder_' = Free /\ writers_' = writers_ - 1
  <2>1. Writers' = Writers \ {t} /\ t \in Writers
    <3>1. ~ Calling(t, "write") /\ ~ (writes'[t] > 0)
      BY <1>0, <1>1, <1>4 DEF Calling
    <3> QED
      BY <1>0, <1>1, <1>2, <3>1 DEF Writers
  <2>2. \A u \in Threads : Inner(u)' = Inner(u)
    BY <1>0, <1>4, FreeIsNoThread DEF Inner
  <2>3. Guards' = Guards
    BY <2>2 DEF Guards
  <2>4. Cardinality(Writers \ {t}) = Cardinality(Writers) - 1
    BY <2>1, FiniteCounts, FS_RemoveElement
  <2> QED
    BY <1>0, <1>3, <1>4, <2>1, <2>3, <2>4, FiniteCounts DEF Counted
<1>5. CASE ~ (write_depth_ = 1 /\ read_depth_ = 0) /\ UNCHANGED <<holder_, writers_>>
  <2>1. writes[t] > 1 /\ writes'[t] > 0
    BY <1>0, <1>1, <1>5
  <2>2. Writers' = Writers
    BY <1>0, <1>1, <1>2, <2>1 DEF Writers
  <2>3. Guards' = Guards
    BY <1>0, <1>5 DEF Guards, Inner
  <2> QED
    BY <1>0, <1>3, <1>5, <2>2, <2>3 DEF Counted
<1> QED
  BY <1>4, <1>5 DEF WriteUnlock

\* Every step keeps the counters exact.
LEMMA NextCount == CountInv /\ [Next]_vars => CountInv'
<1> SUFFICES ASSUME CountInv, [Next]_vars PROVE CountInv'
  OBVIOUS
<1>0. LockInv /\ Budget /\ Counted
  BY DEF CountInv
<1>1. LockInv'
  BY <1>0, NextInv
<1>2. CASE Next
  <2> PICK t \in Threads :
        Step(t) \/ ReadAgain(t) \/ ReadLock(t) \/ WriteAgain(t) \/ WriteLock(t)
    BY <1>2 DEF Next
  <2>1. CASE Step(t)
    BY <1>0, <1>1, <2>1, QuietCount, ReadTestCount, ReadUnlockCount, TurnCount, WriteUnlockCount
    DEF Step, CountInv
  <2>2. QED
    BY <1>0, <1>1, <2>1, AgainCount, ReadLockCount, WriteLockCount DEF CountInv
<1>3. CASE UNCHANGED vars
  BY <1>0, <1>1, <1>3 DEF CountInv, Budget, Counted, Readers, Guards, Writers, Calling, Inner,
                         vars, atomics, wrapper, history
<1> QED
  BY <1>2, <1>3

\* For any number of threads and calls: readers_ and writers_ of the inner lock,
\* on which UpdateMode ends a mode, count the threads that hold or wait for it,
\* each guard once, also when the write holder locks again.
THEOREM Counters == Spec => []CountersExact
<1>1. CountInv => CountersExact
  BY DEF CountInv, Counted, CountersExact, Readers, Guards, Writers, Calling, Inner
<1>2. Spec => []CountInv
  BY InitCount, NextCount, PTL DEF Spec
<1> QED
  BY <1>1, <1>2, PTL
=============================================================================
