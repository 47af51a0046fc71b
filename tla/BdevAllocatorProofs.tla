------------------------ MODULE BdevAllocatorProofs ------------------------
(***************************************************************************)
(* The block allocator never hands out a byte twice and never hands out a  *)
(* byte beyond the device, and loses none but at the block limit, for any  *)
(* number of workers, clients, categories, any alignment and device size.  *)
(***************************************************************************)
EXTENDS BdevAllocator, WellFoundedInduction, SequenceTheorems, FiniteSetTheorems, TLAPS

\* Division with remainder over the naturals, as AlignUp and Division use it.
LEMMA NatDiv ==
    ASSUME NEW a \in Nat, NEW b \in Nat \ {0}
    PROVE  /\ a \div b \in Nat
           /\ a % b \in 0 .. b - 1
           /\ a = b * (a \div b) + (a % b)
  BY SMT

\* Rounding up to the alignment gives a number that is no smaller.
LEMMA AlignUpCovers ==
    ASSUME NEW n \in Nat
    PROVE  AlignUp(n) \in Nat /\ AlignUp(n) >= n
<1> DEFINE m == n + Alignment - 1
           q == m \div Alignment
           r == m % Alignment
<1>0. Alignment \in Nat \ {0} /\ m \in Nat
  BY DeviceAssumption
<1>1. q \in Nat /\ r \in 0 .. Alignment - 1 /\ m = Alignment * q + r
  BY <1>0, NatDiv
<1> HIDE DEF q, r
<1>2. q * Alignment \in Nat /\ q * Alignment = m - r
  BY <1>0, <1>1
<1>3. AlignUp(n) = q * Alignment
  BY DEF AlignUp, q
<1> QED
  BY <1>0, <1>1, <1>2, <1>3

\* A division is never larger than the largest category.
LEMMA DivisionFits ==
    ASSUME NEW n \in Nat, NEW i \in Nat
    PROVE  Division(n, i) \in 0 .. kMaxBlock
<1>1. kMaxBlock \in Nat \ {0}
  BY BlockSizesAssumption DEF kMaxBlock
<1>2. n % kMaxBlock \in 0 .. kMaxBlock - 1
  BY <1>1, NatDiv
<1> QED
  BY <1>1, <1>2 DEF Division

\* Every nonempty set of naturals has a least member.
LEMMA LeastMember ==
    ASSUME NEW T \in SUBSET Nat, T # {}
    PROVE  \E i \in T : \A j \in T : i <= j
<1>1. PICK i \in T : \A j \in T : ~ (<<j, i>> \in OpToRel(<, Nat))
  BY WFMin, NatLessThanWellFounded
<1>2. \A j \in T : ~ (j < i)
  BY <1>1 DEF OpToRel
<1> QED
  BY <1>2

\* The scan of kBlockSizes finds a category for every division.
LEMMA CategoryFound ==
    ASSUME NEW n \in 0 .. kMaxBlock
    PROVE  /\ FindBlockTypeForSize(n) \in BlockTypes
           /\ n <= BlockSizes[FindBlockTypeForSize(n)]
<1> DEFINE Fits == {i \in BlockTypes : n <= BlockSizes[i]}
<1>1. Fits \in SUBSET Nat /\ Fits # {}
  <2>1. Len(BlockSizes) \in BlockTypes
    BY BlockSizesAssumption DEF BlockTypes
  <2> QED
    BY <2>1 DEF kMaxBlock, BlockTypes
<1>2. \E i \in Fits : \A j \in Fits : i <= j
  BY <1>1, LeastMember
<1> QED
  BY <1>2 DEF FindBlockTypeForSize

-----------------------------------------------------------------------------
(* Type correctness.                                                       *)

\* What a search uses: a worker to probe, a category, and a size that fits.
LEMMA SearchTypes ==
    ASSUME TypeOK, NEW t \in Tasks
    PROVE  /\ ProbedWorker(t) \in Workers
           /\ IoSize(t) \in Nat
           /\ IoType(t) \in BlockTypes
           /\ IoSize(t) <= BlockSizes[IoType(t)]
           /\ BlockSizes[IoType(t)] \in Nat
<1>1. ProbedWorker(t) \in Workers
  <2>1. worker[t] + probe[t] \in Nat /\ NumWorkers \in Nat \ {0}
    BY WorkersAssumption DEF TypeOK, Workers, ProbeLimit
  <2>2. (worker[t] + probe[t]) % NumWorkers \in 0 .. NumWorkers - 1
    BY <2>1, NatDiv
  <2> QED
    BY <2>2 DEF ProbedWorker, Workers
<1>2. IoSize(t) \in 0 .. kMaxBlock
  <2>1. want[t] \in Nat /\ Len(blocks[t]) + 1 \in Nat
    BY DEF TypeOK
  <2> QED
    BY <2>1, DivisionFits DEF IoSize
<1>3. kMaxBlock \in Nat
  BY BlockSizesAssumption DEF kMaxBlock
<1>4. IoType(t) \in BlockTypes /\ IoSize(t) <= BlockSizes[IoType(t)]
  BY <1>2, CategoryFound DEF IoType
<1> QED
  BY <1>1, <1>2, <1>3, <1>4, BlockSizesAssumption DEF BlockTypes

\* Taking a block keeps the types.
LEMMA AcceptTypes ==
    ASSUME TypeOK, NEW t \in Tasks, NEW b \in Block, Accept(t, b)
    PROVE  /\ pc' \in [Tasks -> Running \cup {"idle", "held"}]
           /\ blocks' \in [Tasks -> Seq(Block)]
           /\ probe' \in [Tasks -> 0 .. ProbeLimit]
           /\ rc' \in [Tasks -> 0 .. 2]
           /\ lost' \in Nat
<1>1. b.size \in Nat
  BY DEF Block
<1>2. 0 \in 0 .. ProbeLimit
  BY WorkersAssumption DEF ProbeLimit
<1>3. CASE Len(blocks[t]) >= MaxBlocks
  <2>1. /\ pc' = [pc EXCEPT ![t] = "undo"]
        /\ rc' = [rc EXCEPT ![t] = 2]
        /\ lost' = lost + b.size
        /\ blocks' = blocks
        /\ probe' = probe
    BY <1>3 DEF Accept
  <2>2. rc' \in [Tasks -> 0 .. 2]
    BY <2>1 DEF TypeOK
  <2>3. pc' \in [Tasks -> Running \cup {"idle", "held"}]
    BY <2>1 DEF TypeOK, Running
  <2> QED
    BY <1>1, <2>1, <2>2, <2>3 DEF TypeOK
<1>4. CASE ~ (Len(blocks[t]) >= MaxBlocks)
  <2>1. Append(blocks[t], b) \in Seq(Block)
    BY DEF TypeOK
  <2> QED
    BY <1>2, <1>4, <2>1 DEF TypeOK, Accept, Running
<1> QED
  BY <1>3, <1>4

LEMMA TypeInductive == TypeOK /\ [Next]_vars => TypeOK'
<1> SUFFICES ASSUME TypeOK, [Next]_vars PROVE TypeOK'
  OBVIOUS
<1> USE DEF TypeOK
<1>0. ProbeLimit \in Nat
  BY WorkersAssumption DEF ProbeLimit
<1>1. ASSUME NEW t \in Tasks, NEW w \in Workers, NEW n \in Sizes, AllocateBlocks(t, w, n)
      PROVE  TypeOK'
  <2>1. n \in Nat /\ <<>> \in Seq(Block)
    BY DeviceAssumption
  <2> QED
    BY <1>0, <1>1, <2>1 DEF AllocateBlocks, Running
<1>2. ASSUME NEW t \in Tasks, NEW w \in Workers, FreeBlocks(t, w)
      PROVE  TypeOK'
  BY <1>2 DEF FreeBlocks, Running
<1>3. ASSUME NEW t \in Tasks, TakeRecycled(t)
      PROVE  TypeOK'
  <2> DEFINE w == ProbedWorker(t)
             k == IoType(t)
  <2>1. w \in Workers /\ k \in BlockTypes
    BY SearchTypes
  <2>2. free[w][k] \in Seq(Block) /\ free[w][k] # <<>>
    BY <1>3, <2>1 DEF TakeRecycled
  <2>3. Head(free[w][k]) \in Block /\ Tail(free[w][k]) \in Seq(Block)
    BY <2>2, HeadTailProperties
  <2>4. Accept(t, Head(free[w][k]))
    BY <1>3 DEF TakeRecycled
  <2>5. free' \in [Workers -> [BlockTypes -> Seq(Block)]]
    BY <1>3, <2>1, <2>3 DEF TakeRecycled
  <2> QED
    BY <1>3, <2>3, <2>4, <2>5, AcceptTypes DEF TakeRecycled
<1>4. ASSUME NEW t \in Tasks, MissRecycled(t)
      PROVE  TypeOK'
  <2>1. probe' \in [Tasks -> 0 .. ProbeLimit]
    <3>1. CASE probe[t] < ProbeLimit
      <4>1. probe' = [probe EXCEPT ![t] = probe[t] + 1]
        BY <1>4, <3>1 DEF MissRecycled
      <4>2. probe[t] + 1 \in 0 .. ProbeLimit
        BY <1>0, <3>1
      <4> QED
        BY <4>1, <4>2
    <3>2. CASE ~ (probe[t] < ProbeLimit)
      BY <1>4, <3>2 DEF MissRecycled
    <3> QED
      BY <3>1, <3>2
  <2>2. pc' \in [Tasks -> Running \cup {"idle", "held"}]
    BY <1>4 DEF MissRecycled, Running
  <2> QED
    BY <1>4, <2>1, <2>2 DEF MissRecycled
<1>5. ASSUME NEW t \in Tasks, HeapAllocate(t)
      PROVE  TypeOK'
  <2> DEFINE n == AlignUp(BlockSizes[IoType(t)])
             b == [offset |-> heap, size |-> n, type |-> IoType(t)]
  <2>1. n \in Nat /\ b \in Block
    BY SearchTypes, AlignUpCovers DEF Block
  <2>2. CASE heap + n > TotalSize
    <3>1. pc' \in [Tasks -> Running \cup {"idle", "held"}]
      BY <1>5, <2>2 DEF HeapAllocate, Running
    <3>2. rc' = [rc EXCEPT ![t] = 1] /\ heap' = heap + n
      BY <1>5, <2>2 DEF HeapAllocate
    <3>3. UNCHANGED <<free, worker, want, blocks, probe, lost, issued>>
      BY <1>5, <2>2 DEF HeapAllocate
    <3>4. rc' \in [Tasks -> 0 .. 2] /\ heap' \in Nat
      BY <2>1, <3>2
    <3> QED
      BY <3>1, <3>3, <3>4
  <2>3. CASE ~ (heap + n > TotalSize)
    <3>1. Accept(t, b)
      BY <1>5, <2>3 DEF HeapAllocate
    <3>2. heap' \in Nat /\ UNCHANGED <<free, worker, want, issued>>
      BY <1>5, <2>1 DEF HeapAllocate
    <3> HIDE DEF b
    <3> QED
      BY <2>1, <3>1, <3>2, AcceptTypes
  <2> QED
    BY <2>2, <2>3
<1>6. ASSUME NEW t \in Tasks, FreeBlock(t)
      PROVE  TypeOK'
  <2> DEFINE b == Head(blocks[t])
  <2>1. b \in Block /\ Tail(blocks[t]) \in Seq(Block)
    BY <1>6, HeadTailProperties DEF FreeBlock
  <2>2. worker[t] \in Workers /\ b.type \in BlockTypes
    BY <2>1 DEF Block
  <2>3. Append(free[worker[t]][b.type], b) \in Seq(Block)
    BY <2>1, <2>2
  <2> QED
    BY <1>6, <2>1, <2>2, <2>3 DEF FreeBlock
<1>7. ASSUME NEW t \in Tasks, Return(t)
      PROVE  TypeOK'
  BY <1>7 DEF Return
<1>8. CASE UNCHANGED vars
  BY <1>8 DEF vars
<1> QED
  BY <1>1, <1>2, <1>3, <1>4, <1>5, <1>6, <1>7, <1>8 DEF Next, Step

\* Every variable keeps its type in every behaviour of the allocator.
THEOREM TypeCorrect == Spec => []TypeOK
<1>1. Init => TypeOK
  BY WorkersAssumption DEF Init, TypeOK, Workers, ProbeLimit, Running
<1> QED
  BY <1>1, TypeInductive, PTL DEF Spec

-----------------------------------------------------------------------------
(* The inductive invariant.  NoOverlap alone is not inductive: a block      *)
(* fresh from the heap is disjoint from the others only because they all    *)
(* end at or below the cursor, and a recycled block covers a division only  *)
(* because every list holds blocks of its own category.                     *)

Placed(b, cursor) ==
    /\ b.offset + b.size <= cursor
    /\ b.offset + b.size <= TotalSize
    /\ BlockSizes[b.type] <= b.size

FreeWell ==
    \A w \in Workers : \A k \in BlockTypes : \A i \in 1 .. Len(free[w][k]) :
        Placed(free[w][k][i], heap) /\ free[w][k][i].type = k
HeldWell ==
    \A t \in Tasks : \A i \in 1 .. Len(blocks[t]) : Placed(blocks[t][i], heap)
Covering ==
    \A t \in Tasks : pc[t] \in {"map", "heap", "held"} =>
        \A i \in 1 .. Len(blocks[t]) : blocks[t][i].size >= Division(want[t], i)
Complete ==
    \A t \in Tasks : pc[t] = "held" => Len(blocks[t]) = NumDivisions(want[t])

Inv == TypeOK /\ NoOverlap /\ FreeWell /\ HeldWell /\ Covering /\ Complete

\* Disjointness does not depend on the order of the two blocks.
LEMMA DisjointSym ==
    ASSUME NEW a \in Block, NEW b \in Block, Disjoint(a, b)
    PROVE  Disjoint(b, a)
  BY DEF Disjoint

\* The lists are disjoint as long as no list changes.
LEMMA FreeFreeStays ==
    ASSUME FreeFree, free' = free
    PROVE  FreeFree'
<1> DEFINE D(f) ==
        \A w1, w2 \in Workers : \A k1, k2 \in BlockTypes :
            \A i \in 1 .. Len(f[w1][k1]) : \A j \in 1 .. Len(f[w2][k2]) :
                \/ w1 = w2 /\ k1 = k2 /\ i = j
                \/ Disjoint(f[w1][k1][i], f[w2][k2][j])
<1>1. D(free)
  BY DEF FreeFree
<1>2. D(free') => FreeFree'
  BY Zenon DEF FreeFree, Disjoint
<1> HIDE DEF D
<1> QED
  BY <1>1, <1>2

\* The cursor never moves back, so a block that is well placed stays so.
LEMMA PlacedStays ==
    ASSUME NEW b \in Block, Placed(b, heap), heap \in Nat, heap' \in Nat, heap' >= heap
    PROVE  Placed(b, heap')
<1>1. b.offset \in Nat /\ b.size \in Nat
  BY DEF Block
<1> QED
  BY <1>1, DeviceAssumption DEF Placed

\* Taking block b keeps what is said of the blocks in clients' hands, when b is
\* well placed, large enough, and disjoint from all of those blocks.
LEMMA AcceptKeeps ==
    ASSUME TypeOK, HeldHeld, HeldWell, Covering, Complete,
           NEW t \in Tasks, NEW b \in Block,
           Accept(t, b), pc[t] \in {"map", "heap"},
           want' = want, heap' \in Nat, heap' >= heap,
           Placed(b, heap'), b.size >= IoSize(t),
           \A u \in Tasks : \A j \in 1 .. Len(blocks[u]) : Disjoint(b, blocks[u][j])
    PROVE  /\ HeldHeld' /\ HeldWell' /\ Covering' /\ Complete'
           /\ \A u \in Tasks : \A j \in 1 .. Len(blocks'[u]) :
                 blocks'[u][j] = b \/ (j \in 1 .. Len(blocks[u]) /\ blocks'[u][j] = blocks[u][j])
<1>0. heap \in Nat /\ TotalSize \in Nat
  BY DeviceAssumption DEF TypeOK
<1>1. CASE Len(blocks[t]) >= MaxBlocks
  <2>1. blocks' = blocks /\ pc' = [pc EXCEPT ![t] = "undo"]
    BY <1>1 DEF Accept
  <2>2. HeldHeld'
    BY <2>1 DEF HeldHeld, Disjoint
  <2>3. HeldWell'
    <3>1. \A u \in Tasks : \A j \in 1 .. Len(blocks[u]) : blocks[u][j] \in Block
      BY DEF TypeOK
    <3>2. \A u \in Tasks : \A j \in 1 .. Len(blocks[u]) : Placed(blocks[u][j], heap')
      BY <1>0, <3>1, PlacedStays DEF HeldWell
    <3> QED
      BY <2>1, <3>2 DEF HeldWell, Placed
  <2>4. Covering' /\ Complete'
    BY <2>1 DEF Covering, Complete, TypeOK
  <2> QED
    BY <2>1, <2>2, <2>3, <2>4
<1>2. CASE ~ (Len(blocks[t]) >= MaxBlocks)
  <2> DEFINE len == Len(blocks[t])
  <2>1. /\ blocks' = [blocks EXCEPT ![t] = Append(blocks[t], b)]
        /\ pc' = [pc EXCEPT ![t] =
                     IF len + 1 = NumDivisions(want[t]) THEN "held" ELSE "map"]
    BY <1>2 DEF Accept
  <2>2. /\ blocks[t] \in Seq(Block) /\ len \in Nat
        /\ blocks'[t] = Append(blocks[t], b)
        /\ Len(blocks'[t]) = len + 1
        /\ blocks'[t][len + 1] = b
        /\ \A i \in 1 .. len : blocks'[t][i] = blocks[t][i]
        /\ \A u \in Tasks \ {t} : blocks'[u] = blocks[u]
    BY <2>1 DEF TypeOK
  <2>3. \A u \in Tasks : blocks[u] \in Seq(Block)
    BY DEF TypeOK
  <2>4. \A u \in Tasks : \A j \in 1 .. Len(blocks[u]) :
          blocks[u][j] \in Block /\ Disjoint(blocks[u][j], b)
    BY <2>3, DisjointSym
  <2> HIDE DEF len
  <2>5. HeldHeld'
    <3> SUFFICES ASSUME NEW u \in Tasks, NEW v \in Tasks,
                        NEW i \in 1 .. Len(blocks'[u]), NEW j \in 1 .. Len(blocks'[v]),
                        ~ (u = v /\ i = j)
                 PROVE  Disjoint(blocks'[u][i], blocks'[v][j])
      BY DEF HeldHeld, Disjoint
    <3>1. CASE u = t /\ i = len + 1
      <4>1. j \in 1 .. Len(blocks[v]) /\ blocks'[v][j] = blocks[v][j]
        BY <2>2, <3>1 DEF len
      <4> QED
        BY <2>2, <3>1, <4>1
    <3>2. CASE v = t /\ j = len + 1
      <4>1. i \in 1 .. Len(blocks[u]) /\ blocks'[u][i] = blocks[u][i]
        BY <2>2, <3>2 DEF len
      <4> QED
        BY <2>2, <2>4, <3>2, <4>1
    <3>3. CASE ~ (u = t /\ i = len + 1) /\ ~ (v = t /\ j = len + 1)
      <4>1. i \in 1 .. Len(blocks[u]) /\ blocks'[u][i] = blocks[u][i]
        BY <2>2, <3>3 DEF len
      <4>2. j \in 1 .. Len(blocks[v]) /\ blocks'[v][j] = blocks[v][j]
        <5>1. CASE v = t
          BY <2>2, <3>3, <5>1 DEF len
        <5>2. CASE v # t
          BY <2>2, <5>2
        <5> QED
          BY <5>1, <5>2
      <4> QED
        BY <4>1, <4>2 DEF HeldHeld
    <3> QED
      BY <3>1, <3>2, <3>3
  <2>6. \A u \in Tasks : \A j \in 1 .. Len(blocks'[u]) :
           blocks'[u][j] = b \/ (j \in 1 .. Len(blocks[u]) /\ blocks'[u][j] = blocks[u][j])
    BY <2>2 DEF len
  <2>7. HeldWell'
    <3>1. \A u \in Tasks : \A j \in 1 .. Len(blocks[u]) : Placed(blocks[u][j], heap')
      BY <1>0, <2>4, PlacedStays DEF HeldWell
    <3> QED
      BY <2>6, <3>1 DEF HeldWell, Placed
  <2>8. Covering'
    <3>1. IoSize(t) = Division(want[t], len + 1)
      BY DEF IoSize, len
    <3>2. \A u \in Tasks \ {t} : pc'[u] = pc[u]
      BY <2>1 DEF TypeOK
    <3> SUFFICES ASSUME NEW u \in Tasks, pc'[u] \in {"map", "heap", "held"},
                        NEW i \in 1 .. Len(blocks'[u])
                 PROVE  blocks'[u][i].size >= Division(want[u], i)
      BY DEF Covering
    <3>3. CASE u # t
      BY <2>2, <3>2, <3>3 DEF Covering
    <3>4. CASE u = t /\ i = len + 1
      BY <2>2, <3>1, <3>4
    <3>5. CASE u = t /\ i # len + 1
      <4>1. i \in 1 .. Len(blocks[t])
        BY <2>2, <3>5 DEF len
      <4> QED
        BY <2>2, <3>5, <4>1 DEF Covering, len
    <3> QED
      BY <3>3, <3>4, <3>5
  <2>9. Complete'
    BY <2>1, <2>2 DEF Complete, TypeOK, len
  <2> QED
    BY <2>5, <2>6, <2>7, <2>8, <2>9
<1> QED
  BY <1>1, <1>2

\* Taking a recycled block moves it from one list to one task.
LEMMA TakeRecycledKeeps ==
    ASSUME Inv, TypeOK', NEW t \in Tasks, TakeRecycled(t)
    PROVE  Inv'
<1> USE DEF Inv, NoOverlap
<1> DEFINE w == ProbedWorker(t)
           k == IoType(t)
           s == free[w][k]
           b == Head(s)
<1>1. /\ w \in Workers /\ k \in BlockTypes
      /\ IoSize(t) \in Nat /\ IoSize(t) <= BlockSizes[k] /\ BlockSizes[k] \in Nat
  BY SearchTypes
<1>2. s \in Seq(Block) /\ s # <<>>
  BY <1>1 DEF TakeRecycled, TypeOK
<1>3. /\ Len(s) \in Nat /\ Len(s) > 0 /\ b = s[1] /\ b \in Block
      /\ Len(Tail(s)) = Len(s) - 1
      /\ \A i \in 1 .. Len(Tail(s)) : Tail(s)[i] = s[i + 1]
  BY <1>2, HeadTailProperties
<1>4. free' = [free EXCEPT ![w][k] = Tail(s)]
  BY DEF TakeRecycled
<1>5. Accept(t, b) /\ UNCHANGED <<heap, want>> /\ pc[t] = "map"
  BY DEF TakeRecycled
<1>6. heap \in Nat /\ free \in [Workers -> [BlockTypes -> Seq(Block)]]
  BY DEF TypeOK
<1> DEFINE at(v, l, i) == IF v = w /\ l = k THEN i + 1 ELSE i
<1>7. \A v \in Workers : \A l \in BlockTypes : \A i \in 1 .. Len(free'[v][l]) :
        /\ at(v, l, i) \in 1 .. Len(free[v][l])
        /\ free'[v][l][i] = free[v][l][at(v, l, i)]
        /\ ~ (v = w /\ l = k /\ at(v, l, i) = 1)
  <2> SUFFICES ASSUME NEW v \in Workers, NEW l \in BlockTypes,
                      NEW i \in 1 .. Len(free'[v][l])
               PROVE  /\ at(v, l, i) \in 1 .. Len(free[v][l])
                      /\ free'[v][l][i] = free[v][l][at(v, l, i)]
                      /\ ~ (v = w /\ l = k /\ at(v, l, i) = 1)
    OBVIOUS
  <2>1. CASE v = w /\ l = k
    <3>1. free'[v][l] = Tail(s)
      BY <1>1, <1>4, <1>6, <2>1
    <3> QED
      BY <1>3, <2>1, <3>1
  <2>2. CASE ~ (v = w /\ l = k)
    <3>1. free'[v][l] = free[v][l]
      BY <1>1, <1>4, <1>6, <2>2
    <3> QED
      BY <2>2, <3>1
  <2> QED
    BY <2>1, <2>2
<1> HIDE DEF at, w, k, s, b
<1>8. b.type = k /\ Placed(b, heap) /\ b.size \in Nat
  BY <1>1, <1>3 DEF FreeWell, s, Block
<1>9. \A u \in Tasks : \A j \in 1 .. Len(blocks[u]) : Disjoint(b, blocks[u][j])
  BY <1>1, <1>3 DEF FreeHeld, s
<1>10. b.size >= IoSize(t)
  BY <1>1, <1>8 DEF Placed
<1>11. /\ HeldHeld' /\ HeldWell' /\ Covering' /\ Complete'
       /\ \A u \in Tasks : \A j \in 1 .. Len(blocks'[u]) :
             \/ blocks'[u][j] = b
             \/ j \in 1 .. Len(blocks[u]) /\ blocks'[u][j] = blocks[u][j]
  BY <1>3, <1>5, <1>6, <1>8, <1>9, <1>10, AcceptKeeps
<1>12. FreeFree'
  <2> SUFFICES ASSUME NEW w1 \in Workers, NEW w2 \in Workers,
                      NEW k1 \in BlockTypes, NEW k2 \in BlockTypes,
                      NEW i \in 1 .. Len(free'[w1][k1]), NEW j \in 1 .. Len(free'[w2][k2]),
                      ~ (w1 = w2 /\ k1 = k2 /\ i = j)
               PROVE  Disjoint(free'[w1][k1][i], free'[w2][k2][j])
    BY DEF FreeFree, Disjoint
  <2>1. ~ (w1 = w2 /\ k1 = k2 /\ at(w1, k1, i) = at(w2, k2, j))
    BY DEF at
  <2>2. /\ at(w1, k1, i) \in 1 .. Len(free[w1][k1])
        /\ free'[w1][k1][i] = free[w1][k1][at(w1, k1, i)]
    BY <1>7
  <2>3. /\ at(w2, k2, j) \in 1 .. Len(free[w2][k2])
        /\ free'[w2][k2][j] = free[w2][k2][at(w2, k2, j)]
    BY <1>7
  <2>4. Disjoint(free[w1][k1][at(w1, k1, i)], free[w2][k2][at(w2, k2, j)])
    BY <2>1, <2>2, <2>3 DEF FreeFree
  <2> QED
    BY <2>2, <2>3, <2>4
<1>13. FreeHeld'
  <2> SUFFICES ASSUME NEW v \in Workers, NEW l \in BlockTypes, NEW u \in Tasks,
                      NEW i \in 1 .. Len(free'[v][l]), NEW j \in 1 .. Len(blocks'[u])
               PROVE  Disjoint(free'[v][l][i], blocks'[u][j])
    BY DEF FreeHeld, Disjoint
  <2>1. CASE blocks'[u][j] = b
    <3>1. Disjoint(free[v][l][at(v, l, i)], free[w][k][1])
      BY <1>1, <1>3, <1>7 DEF FreeFree, s
    <3> QED
      BY <1>3, <1>7, <2>1, <3>1 DEF s
  <2>2. CASE j \in 1 .. Len(blocks[u]) /\ blocks'[u][j] = blocks[u][j]
    BY <1>7, <2>2 DEF FreeHeld
  <2> QED
    BY <1>11, <2>1, <2>2
<1>14. FreeWell'
  BY <1>5, <1>7 DEF FreeWell
<1> QED
  BY <1>11, <1>12, <1>13, <1>14

\* A block fresh from the heap begins where every other block has ended.
LEMMA HeapAllocateKeeps ==
    ASSUME Inv, TypeOK', NEW t \in Tasks, HeapAllocate(t)
    PROVE  Inv'
<1> USE DEF Inv, NoOverlap
<1> DEFINE n == AlignUp(BlockSizes[IoType(t)])
           b == [offset |-> heap, size |-> n, type |-> IoType(t)]
<1>1. /\ IoType(t) \in BlockTypes /\ IoSize(t) \in Nat
      /\ IoSize(t) <= BlockSizes[IoType(t)] /\ BlockSizes[IoType(t)] \in Nat
  BY SearchTypes
<1>2. n \in Nat /\ n >= BlockSizes[IoType(t)]
  BY <1>1, AlignUpCovers
<1>3. heap \in Nat /\ heap' = heap + n /\ UNCHANGED <<free, want>> /\ pc[t] = "heap"
  BY DEF HeapAllocate, TypeOK
<1>4. b \in Block /\ b.offset = heap /\ b.size = n /\ b.type = IoType(t)
  BY <1>1, <1>2, <1>3 DEF Block
<1>5. \A v \in Workers : \A l \in BlockTypes : \A i \in 1 .. Len(free[v][l]) :
        free[v][l][i] \in Block
  BY DEF TypeOK
<1>6. \A u \in Tasks : \A j \in 1 .. Len(blocks[u]) : blocks[u][j] \in Block
  BY DEF TypeOK
<1>7. heap' \in Nat /\ heap' >= heap
  BY <1>2, <1>3
<1>8. FreeWell'
  <2>1. \A v \in Workers : \A l \in BlockTypes : \A i \in 1 .. Len(free[v][l]) :
          Placed(free[v][l][i], heap')
    BY <1>3, <1>5, <1>7, PlacedStays DEF FreeWell
  <2> QED
    BY <1>3, <2>1 DEF FreeWell
<1>9. CASE heap + n > TotalSize
  <2>1. blocks' = blocks /\ pc' = [pc EXCEPT ![t] = "undo"]
    BY <1>9 DEF HeapAllocate
  <2>2. NoOverlap'
    <3>1. FreeFree'
      BY <1>3, FreeFreeStays
    <3>2. FreeHeld'
      BY <1>3, <2>1 DEF FreeHeld, Disjoint
    <3>3. HeldHeld'
      BY <2>1 DEF HeldHeld, Disjoint
    <3> QED
      BY <3>1, <3>2, <3>3
  <2>3. HeldWell'
    <3>1. \A u \in Tasks : \A j \in 1 .. Len(blocks[u]) : Placed(blocks[u][j], heap')
      BY <1>3, <1>6, <1>7, PlacedStays DEF HeldWell
    <3> QED
      BY <2>1, <3>1 DEF HeldWell
  <2>4. Covering' /\ Complete'
    BY <1>3, <2>1 DEF Covering, Complete, TypeOK
  <2> QED
    BY <1>8, <2>2, <2>3, <2>4
<1>10. CASE ~ (heap + n > TotalSize)
  <2>1. Accept(t, b)
    BY <1>10 DEF HeapAllocate
  <2> HIDE DEF b, n
  <2>2. Placed(b, heap') /\ b.size >= IoSize(t)
    BY <1>1, <1>2, <1>3, <1>4, <1>10, DeviceAssumption DEF Placed
  <2>3. \A u \in Tasks : \A j \in 1 .. Len(blocks[u]) : Disjoint(b, blocks[u][j])
    BY <1>4 DEF HeldWell, Placed, Disjoint
  <2>4. \A v \in Workers : \A l \in BlockTypes : \A i \in 1 .. Len(free[v][l]) :
          Disjoint(free[v][l][i], b)
    BY <1>4 DEF FreeWell, Placed, Disjoint
  <2>5. /\ HeldHeld' /\ HeldWell' /\ Covering' /\ Complete'
        /\ \A u \in Tasks : \A j \in 1 .. Len(blocks'[u]) :
              \/ blocks'[u][j] = b
              \/ j \in 1 .. Len(blocks[u]) /\ blocks'[u][j] = blocks[u][j]
    BY <1>3, <1>4, <1>7, <2>1, <2>2, <2>3, AcceptKeeps
  <2>6. FreeFree'
    BY <1>3, FreeFreeStays
  <2>7. FreeHeld'
    <3> SUFFICES ASSUME NEW v \in Workers, NEW l \in BlockTypes, NEW u \in Tasks,
                        NEW i \in 1 .. Len(free'[v][l]), NEW j \in 1 .. Len(blocks'[u])
                 PROVE  Disjoint(free'[v][l][i], blocks'[u][j])
      BY DEF FreeHeld, Disjoint
    <3> QED
      BY <1>3, <2>4, <2>5 DEF FreeHeld
  <2> QED
    BY <1>8, <2>5, <2>6, <2>7
<1> QED
  BY <1>9, <1>10

\* Giving a block back moves it from one task to one list.
LEMMA FreeBlockKeeps ==
    ASSUME Inv, TypeOK', NEW t \in Tasks, FreeBlock(t)
    PROVE  Inv'
<1> USE DEF Inv, NoOverlap
<1> DEFINE s == blocks[t]
           b == Head(s)
           w == worker[t]
           k == b.type
           f == free[w][k]
<1>1. s \in Seq(Block) /\ s # <<>>
  BY DEF FreeBlock, TypeOK
<1>2. /\ Len(s) \in Nat /\ Len(s) > 0 /\ b = s[1] /\ b \in Block
      /\ Len(Tail(s)) = Len(s) - 1
      /\ \A i \in 1 .. Len(Tail(s)) : Tail(s)[i] = s[i + 1]
  BY <1>1, HeadTailProperties
<1>3. w \in Workers /\ k \in BlockTypes /\ f \in Seq(Block) /\ Len(f) \in Nat
  <2>1. w \in Workers
    BY DEF TypeOK
  <2>2. k \in BlockTypes
    BY <1>2 DEF Block
  <2>3. f \in Seq(Block)
    BY <2>1, <2>2 DEF TypeOK
  <2>4. Len(f) \in Nat
    <3> HIDE DEF f
    <3> QED  BY <2>3
  <2> QED
    BY <2>1, <2>2, <2>3, <2>4
<1>4. /\ free' = [free EXCEPT ![w][k] = Append(f, b)]
      /\ blocks' = [blocks EXCEPT ![t] = Tail(s)]
      /\ UNCHANGED <<heap, pc, want>>
      /\ pc[t] \in {"undo", "free"}
  BY DEF FreeBlock
<1>5. /\ free \in [Workers -> [BlockTypes -> Seq(Block)]]
      /\ blocks \in [Tasks -> Seq(Block)]
  BY DEF TypeOK
<1> DEFINE Fresh(v, l, i) == v = w /\ l = k /\ i = Len(f) + 1
<1>6. \A v \in Workers : \A l \in BlockTypes : \A i \in 1 .. Len(free'[v][l]) :
        \/ Fresh(v, l, i) /\ free'[v][l][i] = b
        \/ i \in 1 .. Len(free[v][l]) /\ free'[v][l][i] = free[v][l][i]
  <2> SUFFICES ASSUME NEW v \in Workers, NEW l \in BlockTypes,
                      NEW i \in 1 .. Len(free'[v][l])
               PROVE  \/ Fresh(v, l, i) /\ free'[v][l][i] = b
                      \/ i \in 1 .. Len(free[v][l]) /\ free'[v][l][i] = free[v][l][i]
    OBVIOUS
  <2>1. CASE v = w /\ l = k
    <3>1. free'[v][l] = Append(f, b)
      BY <1>3, <1>4, <1>5, <2>1
    <3>2. /\ Len(Append(f, b)) = Len(f) + 1
          /\ Append(f, b)[Len(f) + 1] = b
          /\ \A j \in 1 .. Len(f) : Append(f, b)[j] = f[j]
      <4> HIDE DEF f, b
      <4> QED
        BY <1>2, <1>3, AppendProperties
    <3>3. i \in 1 .. Len(f) + 1
      BY <3>1, <3>2
    <3>4. CASE i = Len(f) + 1
      BY <2>1, <3>1, <3>2, <3>4
    <3>5. CASE i # Len(f) + 1
      <4>1. i \in 1 .. Len(f)
        <5> HIDE DEF f
        <5> QED
          BY <1>3, <3>3, <3>5
      <4> QED
        BY <2>1, <3>1, <3>2, <4>1
    <3> QED
      BY <3>4, <3>5
  <2>2. CASE ~ (v = w /\ l = k)
    <3>1. free'[v][l] = free[v][l]
      BY <1>3, <1>4, <1>5, <2>2
    <3> QED
      BY <3>1
  <2> QED
    BY <2>1, <2>2
<1> DEFINE at(u, j) == IF u = t THEN j + 1 ELSE j
<1>7. \A u \in Tasks : \A j \in 1 .. Len(blocks'[u]) :
        /\ at(u, j) \in 1 .. Len(blocks[u])
        /\ blocks'[u][j] = blocks[u][at(u, j)]
        /\ ~ (u = t /\ at(u, j) = 1)
  <2> SUFFICES ASSUME NEW u \in Tasks, NEW j \in 1 .. Len(blocks'[u])
               PROVE  /\ at(u, j) \in 1 .. Len(blocks[u])
                      /\ blocks'[u][j] = blocks[u][at(u, j)]
                      /\ ~ (u = t /\ at(u, j) = 1)
    OBVIOUS
  <2>1. CASE u = t
    <3>1. blocks'[u] = Tail(s)
      BY <1>4, <1>5, <2>1
    <3> QED
      BY <1>2, <2>1, <3>1
  <2>2. CASE u # t
    <3>1. blocks'[u] = blocks[u]
      BY <1>4, <1>5, <2>2
    <3> QED
      BY <2>2, <3>1
  <2> QED
    BY <2>1, <2>2
<1>8. \A v \in Workers : \A l \in BlockTypes : \A i \in 1 .. Len(free[v][l]) :
        free[v][l][i] \in Block /\ Disjoint(free[v][l][i], b)
  BY <1>2, <1>5 DEF FreeHeld
<1> HIDE DEF at, Fresh, s, w, k, f, b
<1>9. FreeFree'
  <2> SUFFICES ASSUME NEW w1 \in Workers, NEW w2 \in Workers,
                      NEW k1 \in BlockTypes, NEW k2 \in BlockTypes,
                      NEW i \in 1 .. Len(free'[w1][k1]), NEW j \in 1 .. Len(free'[w2][k2]),
                      ~ (w1 = w2 /\ k1 = k2 /\ i = j)
               PROVE  Disjoint(free'[w1][k1][i], free'[w2][k2][j])
    BY DEF FreeFree, Disjoint
  <2>1. CASE Fresh(w1, k1, i) /\ free'[w1][k1][i] = b
    <3>1. ~ Fresh(w2, k2, j)
      BY <2>1 DEF Fresh
    <3>2. j \in 1 .. Len(free[w2][k2]) /\ free'[w2][k2][j] = free[w2][k2][j]
      BY <1>6, <3>1
    <3> QED
      BY <1>2, <1>8, <2>1, <3>2, DisjointSym
  <2>2. CASE i \in 1 .. Len(free[w1][k1]) /\ free'[w1][k1][i] = free[w1][k1][i]
    <3>1. CASE Fresh(w2, k2, j) /\ free'[w2][k2][j] = b
      BY <1>8, <2>2, <3>1
    <3>2. CASE j \in 1 .. Len(free[w2][k2]) /\ free'[w2][k2][j] = free[w2][k2][j]
      BY <2>2, <3>2 DEF FreeFree
    <3> QED
      BY <1>6, <3>1, <3>2
  <2> QED
    BY <1>6, <2>1, <2>2
<1>10. FreeHeld'
  <2> SUFFICES ASSUME NEW v \in Workers, NEW l \in BlockTypes, NEW u \in Tasks,
                      NEW i \in 1 .. Len(free'[v][l]), NEW j \in 1 .. Len(blocks'[u])
               PROVE  Disjoint(free'[v][l][i], blocks'[u][j])
    BY DEF FreeHeld, Disjoint
  <2>1. /\ at(u, j) \in 1 .. Len(blocks[u])
        /\ blocks'[u][j] = blocks[u][at(u, j)]
        /\ ~ (u = t /\ at(u, j) = 1)
    BY <1>7
  <2>2. CASE free'[v][l][i] = b
    <3>1. Disjoint(blocks[t][1], blocks[u][at(u, j)])
      BY <1>2, <2>1 DEF HeldHeld, s
    <3> QED
      BY <1>2, <2>1, <2>2, <3>1 DEF s
  <2>3. CASE i \in 1 .. Len(free[v][l]) /\ free'[v][l][i] = free[v][l][i]
    BY <2>1, <2>3 DEF FreeHeld
  <2> QED
    BY <1>6, <2>2, <2>3
<1>11. HeldHeld'
  <2> SUFFICES ASSUME NEW u \in Tasks, NEW v \in Tasks,
                      NEW i \in 1 .. Len(blocks'[u]), NEW j \in 1 .. Len(blocks'[v]),
                      ~ (u = v /\ i = j)
               PROVE  Disjoint(blocks'[u][i], blocks'[v][j])
    BY DEF HeldHeld, Disjoint
  <2>1. at(u, i) \in 1 .. Len(blocks[u]) /\ blocks'[u][i] = blocks[u][at(u, i)]
    BY <1>7
  <2>2. at(v, j) \in 1 .. Len(blocks[v]) /\ blocks'[v][j] = blocks[v][at(v, j)]
    BY <1>7
  <2>3. ~ (u = v /\ at(u, i) = at(v, j))
    BY DEF at
  <2>4. Disjoint(blocks[u][at(u, i)], blocks[v][at(v, j)])
    BY <2>1, <2>2, <2>3 DEF HeldHeld
  <2> QED
    BY <2>1, <2>2, <2>4
<1>12. FreeWell'
  <2>1. Placed(b, heap) /\ b.type = k
    BY <1>2 DEF HeldWell, s, k
  <2> QED
    BY <1>4, <1>6, <2>1 DEF FreeWell, Fresh
<1>13. HeldWell'
  BY <1>4, <1>7 DEF HeldWell
<1>14. Covering' /\ Complete'
  <2>1. \A u \in Tasks \ {t} : blocks'[u] = blocks[u]
    BY <1>4, <1>5
  <2>2. pc'[t] \notin {"map", "heap", "held"}
    BY <1>4
  <2> QED
    BY <1>4, <2>1, <2>2 DEF Covering, Complete
<1> QED
  BY <1>9, <1>10, <1>11, <1>12, <1>13, <1>14

\* The steps that move no block.
LEMMA OthersKeep ==
    ASSUME Inv, TypeOK', NEW t \in Tasks,
           MissRecycled(t) \/ Return(t) \/ \E w \in Workers : FreeBlocks(t, w)
    PROVE  Inv'
<1> USE DEF Inv, NoOverlap
<1>1. /\ UNCHANGED <<heap, free, blocks, want>>
      /\ \A u \in Tasks \ {t} : pc'[u] = pc[u]
      /\ pc'[t] \in {"map", "heap"} => pc[t] \in {"map", "heap"}
      /\ pc'[t] # "held"
  BY DEF MissRecycled, Return, FreeBlocks, TypeOK
<1>2. FreeFree'
  BY <1>1, FreeFreeStays
<1>3. FreeHeld'
  BY <1>1 DEF FreeHeld, Disjoint
<1>4. HeldHeld'
  BY <1>1 DEF HeldHeld, Disjoint
<1>5. FreeWell' /\ HeldWell'
  BY <1>1 DEF FreeWell, HeldWell, Placed
<1>6. Covering' /\ Complete'
  BY <1>1 DEF Covering, Complete
<1> QED
  BY <1>2, <1>3, <1>4, <1>5, <1>6

\* A new request starts with an empty vector.
LEMMA AllocateBlocksKeeps ==
    ASSUME Inv, TypeOK', NEW t \in Tasks, NEW w \in Workers, NEW n \in Sizes,
           AllocateBlocks(t, w, n)
    PROVE  Inv'
<1> USE DEF Inv, NoOverlap
<1>1. /\ UNCHANGED <<heap, free>>
      /\ blocks'[t] = <<>> /\ Len(blocks'[t]) = 0 /\ want'[t] = n
      /\ \A u \in Tasks \ {t} : /\ blocks'[u] = blocks[u]
                                /\ pc'[u] = pc[u] /\ want'[u] = want[u]
      /\ pc'[t] = "held" => n = 0
  BY DEF AllocateBlocks, TypeOK
<1>2. \A u \in Tasks : \A j \in 1 .. Len(blocks'[u]) : u # t /\ blocks'[u] = blocks[u]
  BY <1>1
<1>3. FreeFree'
  BY <1>1, FreeFreeStays
<1>4. FreeHeld'
  <2> SUFFICES ASSUME NEW v \in Workers, NEW l \in BlockTypes, NEW u \in Tasks,
                      NEW i \in 1 .. Len(free'[v][l]), NEW j \in 1 .. Len(blocks'[u])
               PROVE  Disjoint(free'[v][l][i], blocks'[u][j])
    BY DEF FreeHeld, Disjoint
  <2> QED
    BY <1>1, <1>2 DEF FreeHeld
<1>5. HeldHeld'
  BY <1>2 DEF HeldHeld, Disjoint
<1>6. FreeWell' /\ HeldWell'
  BY <1>1, <1>2 DEF FreeWell, HeldWell, Placed
<1>7. Covering'
  BY <1>1, <1>2 DEF Covering
<1>8. Complete'
  <2>1. kMaxBlock \in Nat \ {0}
    BY BlockSizesAssumption DEF kMaxBlock
  <2>2. NumDivisions(0) = 0
    BY <2>1 DEF NumDivisions
  <2> QED
    BY <1>1, <2>2 DEF Complete
<1> QED
  BY <1>3, <1>4, <1>5, <1>6, <1>7, <1>8

\* The strengthened invariant holds in every reachable state.
THEOREM InvHolds == Spec => []Inv
<1>1. Init => Inv
  <2> SUFFICES ASSUME Init PROVE Inv
    OBVIOUS
  <2>1. TypeOK
    BY WorkersAssumption DEF Init, TypeOK, Workers, ProbeLimit, Running
  <2>2. /\ \A w \in Workers : \A k \in BlockTypes : Len(free[w][k]) = 0
        /\ \A t \in Tasks : Len(blocks[t]) = 0 /\ pc[t] = "idle"
    BY DEF Init
  <2> QED
    BY <2>1, <2>2 DEF Inv, NoOverlap, FreeFree, FreeHeld, HeldHeld, FreeWell,
                      HeldWell, Covering, Complete
<1>2. Inv /\ [Next]_vars => Inv'
  <2> SUFFICES ASSUME Inv, [Next]_vars PROVE Inv'
    OBVIOUS
  <2>1. TypeOK'
    BY TypeInductive DEF Inv
  <2>2. CASE UNCHANGED vars
    <3>1. NoOverlap'
      BY <2>2 DEF vars, Inv, NoOverlap, FreeFree, FreeHeld, HeldHeld, Disjoint
    <3>2. FreeWell' /\ HeldWell' /\ Covering' /\ Complete'
      BY <2>2 DEF vars, Inv, FreeWell, HeldWell, Covering, Complete, Placed
    <3> QED
      BY <2>1, <3>1, <3>2 DEF Inv
  <2>3. CASE Next
    <3> SUFFICES ASSUME NEW t \in Tasks,
                        \/ \E w \in Workers, n \in Sizes : AllocateBlocks(t, w, n)
                        \/ \E w \in Workers : FreeBlocks(t, w)
                        \/ Step(t)
                 PROVE  Inv'
      BY <2>3 DEF Next
    <3> QED
      BY <2>1, TakeRecycledKeeps, HeapAllocateKeeps, FreeBlockKeeps, OthersKeep,
         AllocateBlocksKeeps DEF Step
  <2> QED
    BY <2>2, <2>3
<1> QED
  BY <1>1, <1>2, PTL DEF Spec

\* GlobalBlockMap and Heap together hand no byte of the device to two blocks,
\* however the handlers of any number of workers interleave.
THEOREM NoOverlapHolds == Spec => []NoOverlap
<1>1. Inv => NoOverlap
  BY DEF Inv
<1> QED
  BY <1>1, InvHolds, PTL

\* No client is handed a byte beyond the end of the device, although the cursor
\* of the heap itself runs past it.
THEOREM WithinDeviceHolds == Spec => []WithinDevice
<1>1. Inv => WithinDevice
  BY DEF Inv, HeldWell, Placed, WithinDevice
<1> QED
  BY <1>1, InvHolds, PTL

\* Every successful AllocateBlocks covers its request, division by division.
THEOREM SufficientHolds == Spec => []Sufficient
<1>1. Inv => Sufficient
  BY DEF Inv, Covering, Complete, Sufficient
<1> QED
  BY <1>1, InvHolds, PTL

-----------------------------------------------------------------------------
(* No byte is lost.  Conservation needs that a task that starts a request  *)
(* has no blocks left, or its vector would be dropped with them.           *)

IdleEmpty == \A t \in Tasks : pc[t] = "idle" => blocks[t] = <<>>

Bytes(b) == b.offset .. (b.offset + b.size - 1)

\* Adding n bytes that were not there adds n to their number.
LEMMA AddBytes ==
    ASSUME NEW S, IsFiniteSet(S), NEW a \in Nat, NEW n \in Nat,
           S \cap (a .. (a + n - 1)) = {}
    PROVE  Cardinality(S \cup (a .. (a + n - 1))) = Cardinality(S) + n
<1> DEFINE T == a .. (a + n - 1)
<1>1. IsFiniteSet(T) /\ Cardinality(T) = n
  BY FS_Interval
<1>2. Cardinality(S) \in Nat /\ Cardinality({}) = 0
  BY FS_CardinalityType, FS_EmptySet
<1>3. S \cap T = {}
  OBVIOUS
<1> HIDE DEF T
<1>4. Cardinality(S \cup T) = Cardinality(S) + Cardinality(T) - Cardinality(S \cap T)
  BY <1>1, FS_Union
<1>5. Cardinality(S \cap T) = 0
  BY <1>2, <1>3
<1>6. Cardinality(S \cup T) = Cardinality(S) + n
  BY <1>1, <1>2, <1>4, <1>5
<1> QED
  BY <1>6 DEF T

\* There are finitely many bytes below the cursor.
LEMMA MissingFinite ==
    ASSUME heap \in Nat
    PROVE  IsFiniteSet(Missing)
<1>1. IsFiniteSet(0 .. heap - 1)
  BY FS_Interval
<1>2. Missing \in SUBSET (0 .. heap - 1)
  BY DEF Missing
<1> QED
  BY <1>1, <1>2, FS_Subset

\* A byte of a sequence is in its head or in its tail.
LEMMA WithinTail ==
    ASSUME NEW s \in Seq(Block), s # <<>>, NEW x \in Nat
    PROVE  Within(s, x) <=> Has(Head(s), x) \/ Within(Tail(s), x)
<1>1. /\ Len(s) \in Nat /\ Len(s) > 0 /\ Len(Tail(s)) = Len(s) - 1
      /\ Head(s) = s[1]
      /\ \A i \in 1 .. Len(s) - 1 : Tail(s)[i] = s[i + 1]
  OBVIOUS
<1>2. ASSUME Within(s, x) PROVE Has(Head(s), x) \/ Within(Tail(s), x)
  <2>1. PICK i \in 1 .. Len(s) : Has(s[i], x)
    BY <1>2 DEF Within
  <2>2. CASE i = 1
    BY <1>1, <2>1, <2>2
  <2>3. CASE i # 1
    <3>1. i - 1 \in 1 .. Len(Tail(s)) /\ Tail(s)[i - 1] = s[i]
      BY <1>1, <2>3
    <3> QED
      BY <2>1, <3>1 DEF Within
  <2> QED
    BY <2>2, <2>3
<1>3. ASSUME Has(Head(s), x) \/ Within(Tail(s), x) PROVE Within(s, x)
  <2>1. CASE Has(Head(s), x)
    BY <1>1, <2>1 DEF Within
  <2>2. CASE Within(Tail(s), x)
    <3>1. PICK i \in 1 .. Len(Tail(s)) : Has(Tail(s)[i], x)
      BY <2>2 DEF Within
    <3>2. i + 1 \in 1 .. Len(s) /\ Tail(s)[i] = s[i + 1]
      BY <1>1
    <3> QED
      BY <3>1, <3>2 DEF Within
  <2> QED
    BY <1>3, <2>1, <2>2
<1> QED
  BY <1>2, <1>3

\* A byte of a sequence with one more block is in that block or was there before.
LEMMA WithinAppend ==
    ASSUME NEW s \in Seq(Block), NEW b \in Block, NEW x \in Nat
    PROVE  Within(Append(s, b), x) <=> Within(s, x) \/ Has(b, x)
<1>1. /\ Len(s) \in Nat /\ Len(Append(s, b)) = Len(s) + 1
      /\ Append(s, b)[Len(s) + 1] = b
      /\ \A i \in 1 .. Len(s) : Append(s, b)[i] = s[i]
  OBVIOUS
<1>2. \A i \in 1 .. Len(Append(s, b)) : i \in 1 .. Len(s) \/ i = Len(s) + 1
  BY <1>1
<1>3. Within(Append(s, b), x) => Within(s, x) \/ Has(b, x)
  BY <1>1, <1>2 DEF Within
<1>4. Len(s) + 1 \in 1 .. Len(Append(s, b))
      /\ \A i \in 1 .. Len(s) : i \in 1 .. Len(Append(s, b))
  BY <1>1
<1>5. Within(s, x) \/ Has(b, x) => Within(Append(s, b), x)
  BY <1>1, <1>4 DEF Within
<1> QED
  BY <1>3, <1>5

\* When one list and one task's vector change, the byte x is kept as before, unless
\* they lose it (Q).
LEMMA KeptStays ==
    ASSUME NEW w \in Workers, NEW k \in BlockTypes, NEW t \in Tasks, NEW x,
           \A v \in Workers : \A l \in BlockTypes :
               (v = w /\ l = k) \/ free'[v][l] = free[v][l],
           \A u \in Tasks \ {t} : blocks'[u] = blocks[u],
           NEW Q \in BOOLEAN,
           Within(free[w][k], x) \/ Within(blocks[t], x)
             <=> Within(free'[w][k], x) \/ Within(blocks'[t], x) \/ Q
    PROVE  Kept(x) <=> Kept(x)' \/ Q
<1>1. Kept(x)' <=> \/ \E v \in Workers : \E l \in BlockTypes : Within(free'[v][l], x)
                   \/ \E u \in Tasks : Within(blocks'[u], x)
  BY DEF Kept, Within, Has
<1>2. \A v \in Workers : \A l \in BlockTypes :
         (v = w /\ l = k) \/ (Within(free'[v][l], x) <=> Within(free[v][l], x))
  OBVIOUS
<1>3. \A u \in Tasks : u = t \/ (Within(blocks'[u], x) <=> Within(blocks[u], x))
  OBVIOUS
<1> QED
  BY Zenon, <1>1, <1>2, <1>3 DEF Kept

\* A byte that is kept is below the cursor.
LEMMA KeptBelow ==
    ASSUME Inv, NEW x \in Nat, Kept(x)
    PROVE  x < heap
<1>1. \A b \in Block : Has(b, x) /\ Placed(b, heap) => x < heap
  <2> SUFFICES ASSUME NEW b \in Block, Has(b, x), Placed(b, heap) PROVE x < heap
    OBVIOUS
  <2>1. b.offset \in Nat /\ b.size \in Nat /\ heap \in Nat
    BY DEF Block, Inv, TypeOK
  <2> QED
    BY <2>1 DEF Has, Placed
<1>2. CASE \E w \in Workers : \E k \in BlockTypes : Within(free[w][k], x)
  <2>1. PICK w \in Workers, k \in BlockTypes : Within(free[w][k], x)
    BY <1>2
  <2>2. PICK i \in 1 .. Len(free[w][k]) : Has(free[w][k][i], x)
    BY <2>1 DEF Within
  <2>3. free[w][k] \in Seq(Block)
    BY DEF Inv, TypeOK
  <2>4. free[w][k][i] \in Block /\ Placed(free[w][k][i], heap)
    BY <2>3 DEF Inv, FreeWell
  <2> QED
    BY <1>1, <2>2, <2>4
<1>3. CASE \E t \in Tasks : Within(blocks[t], x)
  <2>1. PICK t \in Tasks : Within(blocks[t], x)
    BY <1>3
  <2>2. PICK i \in 1 .. Len(blocks[t]) : Has(blocks[t][i], x)
    BY <2>1 DEF Within
  <2>3. blocks[t] \in Seq(Block)
    BY DEF Inv, TypeOK
  <2>4. blocks[t][i] \in Block /\ Placed(blocks[t][i], heap)
    BY <2>3 DEF Inv, HeldWell
  <2> QED
    BY <1>1, <2>2, <2>4
<1> QED
  BY <1>2, <1>3 DEF Kept

\* Nothing is missing that was not before when the same bytes are kept.
LEMMA MissingStays ==
    ASSUME heap' = heap, \A x \in Nat : Kept(x) <=> Kept(x)'
    PROVE  Missing' = Missing
<1>1. Missing' = {x \in 0 .. heap' - 1 : ~ Kept(x)'}
  BY DEF Missing
<1> QED
  BY <1>1 DEF Missing

\* What a task takes is added to its vector, or dropped at the limit.
LEMMA AcceptMoves ==
    ASSUME TypeOK, NEW t \in Tasks, NEW b \in Block, Accept(t, b)
    PROVE  /\ \A u \in Tasks \ {t} : blocks'[u] = blocks[u]
           /\ \/ blocks'[t] = Append(blocks[t], b) /\ lost' = lost
              \/ blocks' = blocks /\ lost' = lost + b.size
           /\ pc'[t] # "idle"
           /\ \A u \in Tasks \ {t} : pc'[u] = pc[u]
<1>1. CASE Len(blocks[t]) >= MaxBlocks
  <2>1. /\ pc' = [pc EXCEPT ![t] = "undo"]
        /\ lost' = lost + b.size
        /\ blocks' = blocks
    BY <1>1 DEF Accept
  <2> QED
    BY <2>1 DEF TypeOK
<1>2. CASE ~ (Len(blocks[t]) >= MaxBlocks)
  <2>1. /\ blocks' = [blocks EXCEPT ![t] = Append(@, b)]
        /\ pc' = [pc EXCEPT ![t] = IF Len(blocks[t]) + 1 = NumDivisions(want[t])
                                   THEN "held" ELSE "map"]
        /\ lost' = lost
    BY <1>2 DEF Accept
  <2> QED
    BY <2>1 DEF TypeOK
<1> QED
  BY <1>1, <1>2

\* The head of a recycled list shares no byte with what is kept elsewhere.
LEMMA HeadAlone ==
    ASSUME Inv, NEW w \in Workers, NEW k \in BlockTypes, free[w][k] # <<>>,
           NEW x \in Nat, Has(Head(free[w][k]), x)
    PROVE  /\ \A v \in Workers : \A l \in BlockTypes :
                 (v = w /\ l = k) \/ ~ Within(free[v][l], x)
           /\ ~ Within(Tail(free[w][k]), x)
           /\ \A u \in Tasks : ~ Within(blocks[u], x)
<1> DEFINE s == free[w][k]
           b == Head(s)
<1>1. /\ s \in Seq(Block) /\ Len(s) \in Nat /\ Len(s) > 0 /\ b = s[1]
      /\ Len(Tail(s)) = Len(s) - 1
      /\ \A i \in 1 .. Len(s) - 1 : Tail(s)[i] = s[i + 1]
  BY DEF Inv, TypeOK
<1>2. b \in Block /\ 1 \in 1 .. Len(s)
  BY <1>1
<1>3. \A c \in Block : Disjoint(b, c) => ~ Has(c, x)
  <2> SUFFICES ASSUME NEW c \in Block, Disjoint(b, c), Has(c, x) PROVE FALSE
    OBVIOUS
  <2>1. b.offset \in Nat /\ b.size \in Nat /\ c.offset \in Nat /\ c.size \in Nat
    BY <1>2 DEF Block
  <2> QED
    BY <2>1 DEF Has, Disjoint
<1>4. ASSUME NEW v \in Workers, NEW l \in BlockTypes, ~ (v = w /\ l = k)
      PROVE  ~ Within(free[v][l], x)
  <2> SUFFICES ASSUME NEW i \in 1 .. Len(free[v][l]) PROVE ~ Has(free[v][l][i], x)
    BY DEF Within
  <2>1. free[v][l] \in Seq(Block)
    BY DEF Inv, TypeOK
  <2>2. Disjoint(b, free[v][l][i])
    BY <1>1, <1>2, <1>4 DEF Inv, NoOverlap, FreeFree
  <2> QED
    BY <1>3, <2>1, <2>2
<1>5. ~ Within(Tail(s), x)
  <2> SUFFICES ASSUME NEW i \in 1 .. Len(Tail(s)) PROVE ~ Has(Tail(s)[i], x)
    BY DEF Within
  <2>1. i + 1 \in 1 .. Len(s) /\ i + 1 # 1 /\ Tail(s)[i] = s[i + 1]
    BY <1>1
  <2>2. Disjoint(b, s[i + 1])
    BY <1>1, <1>2, <2>1 DEF Inv, NoOverlap, FreeFree
  <2>3. s[i + 1] \in Block
    BY <1>1, <2>1
  <2> QED
    BY <1>3, <2>1, <2>2, <2>3
<1>6. ASSUME NEW u \in Tasks PROVE ~ Within(blocks[u], x)
  <2> SUFFICES ASSUME NEW i \in 1 .. Len(blocks[u]) PROVE ~ Has(blocks[u][i], x)
    BY DEF Within
  <2>1. blocks[u] \in Seq(Block)
    BY DEF Inv, TypeOK
  <2>2. Disjoint(b, blocks[u][i])
    BY <1>1, <1>2 DEF Inv, NoOverlap, FreeHeld
  <2> QED
    BY <1>3, <2>1, <2>2
<1> QED
  BY <1>4, <1>5, <1>6

\* A recycled block moves to the task, or its bytes go missing and are counted.
LEMMA TakeRecycledConserves ==
    ASSUME Inv, Conservation, NEW t \in Tasks, TakeRecycled(t)
    PROVE  Conservation'
<1> DEFINE w == ProbedWorker(t)
           k == IoType(t)
           s == free[w][k]
           b == Head(s)
<1>1. w \in Workers /\ k \in BlockTypes
  BY SearchTypes DEF Inv
<1>2. /\ heap' = heap /\ s # <<>> /\ Accept(t, b)
      /\ free' = [free EXCEPT ![w][k] = Tail(@)]
  BY DEF TakeRecycled
<1>3. /\ s \in Seq(Block) /\ b \in Block /\ heap \in Nat
      /\ free \in [Workers -> [BlockTypes -> Seq(Block)]] /\ blocks[t] \in Seq(Block)
  <2>1. s \in Seq(Block)
    BY <1>1 DEF Inv, TypeOK
  <2> QED
    BY <1>1, <1>2, <2>1 DEF Inv, TypeOK
<1> HIDE DEF w, k
<1>4. /\ \A v \in Workers : \A l \in BlockTypes : (v = w /\ l = k) \/ free'[v][l] = free[v][l]
      /\ free'[w][k] = Tail(s)
  BY <1>1, <1>2, <1>3
<1>5. /\ \A u \in Tasks \ {t} : blocks'[u] = blocks[u]
      /\ \/ blocks'[t] = Append(blocks[t], b) /\ lost' = lost
         \/ blocks' = blocks /\ lost' = lost + b.size
  BY <1>2, <1>3, AcceptMoves DEF Inv
<1>6. CASE blocks'[t] = Append(blocks[t], b) /\ lost' = lost
  <2>1. ASSUME NEW x \in Nat PROVE Kept(x) <=> Kept(x)'
    <3>1. Within(s, x) <=> Has(b, x) \/ Within(Tail(s), x)
      BY <1>2, <1>3, WithinTail
    <3>2. Within(blocks'[t], x) <=> Within(blocks[t], x) \/ Has(b, x)
      BY <1>3, <1>6, WithinAppend
    <3>3. Kept(x) <=> Kept(x)' \/ FALSE
      <4>1. Within(s, x) \/ Within(blocks[t], x)
              <=> Within(free'[w][k], x) \/ Within(blocks'[t], x) \/ FALSE
        BY <1>4, <3>1, <3>2
      <4> QED
        BY <1>1, <1>4, <1>5, <4>1, KeptStays
    <3> QED
      BY <3>3
  <2>2. Missing' = Missing
    BY <1>2, <2>1, MissingStays
  <2> QED
    BY <1>2, <1>6, <2>2 DEF Conservation
<1>7. CASE blocks' = blocks /\ lost' = lost + b.size
  <2>1. ASSUME NEW x \in Nat
        PROVE  /\ Kept(x) <=> Kept(x)' \/ Has(b, x)
               /\ ~ (Kept(x)' /\ Has(b, x))
    <3>1. Within(s, x) <=> Has(b, x) \/ Within(Tail(s), x)
      BY <1>2, <1>3, WithinTail
    <3>2. Kept(x) <=> Kept(x)' \/ Has(b, x)
      <4>1. Within(s, x) \/ Within(blocks[t], x)
              <=> Within(free'[w][k], x) \/ Within(blocks'[t], x) \/ Has(b, x)
        BY <1>4, <1>7, <3>1
      <4>2. Has(b, x) \in BOOLEAN
        BY DEF Has
      <4> QED
        BY <1>1, <1>4, <1>5, <4>1, <4>2, KeptStays
    <3>3. ASSUME Has(b, x) PROVE ~ Kept(x)'
      <4>1. /\ \A v \in Workers : \A l \in BlockTypes : (v = w /\ l = k) \/ ~ Within(free[v][l], x)
            /\ ~ Within(Tail(s), x)
            /\ \A u \in Tasks : ~ Within(blocks[u], x)
        BY <1>1, <1>2, <3>3, HeadAlone
      <4>2. /\ \A v \in Workers : \A l \in BlockTypes : ~ Within(free'[v][l], x)
            /\ \A u \in Tasks : ~ Within(blocks'[u], x)
        BY <1>4, <1>7, <4>1
      <4>3. Kept(x)' <=> \/ \E v \in Workers : \E l \in BlockTypes : Within(free'[v][l], x)
                         \/ \E u \in Tasks : Within(blocks'[u], x)
        BY DEF Kept, Within, Has
      <4> QED
        BY <4>2, <4>3
    <3> QED
      BY <3>2, <3>3
  <2>2. b.offset \in Nat /\ b.size \in Nat
    BY <1>3 DEF Block
  <2>3. \A x \in Nat : x \in Bytes(b) <=> Has(b, x)
    BY <2>2 DEF Bytes, Has
  <2>4. \A x \in Bytes(b) : x \in Nat /\ Kept(x) /\ x < heap
    <3> SUFFICES ASSUME NEW x \in Bytes(b) PROVE x \in Nat /\ Kept(x) /\ x < heap
      OBVIOUS
    <3>1. x \in Nat
      BY <2>2 DEF Bytes
    <3>2. Kept(x)
      BY <2>1, <2>3, <3>1
    <3> QED
      BY <3>1, <3>2, KeptBelow
  <2>5. Missing' = Missing \cup Bytes(b)
    <3>1. Missing' = {x \in 0 .. heap - 1 : ~ Kept(x)'}
      BY <1>2 DEF Missing
    <3>2. \A x \in 0 .. heap - 1 : x \in Nat
      BY <1>3
    <3>3. \A x \in 0 .. heap - 1 : ~ Kept(x)' <=> ~ Kept(x) \/ x \in Bytes(b)
      BY <2>1, <2>3, <3>2
    <3>4. \A x \in Bytes(b) : x \in 0 .. heap - 1
      BY <1>3, <2>4
    <3> QED
      BY <3>1, <3>3, <3>4 DEF Missing
  <2>6. Missing \cap Bytes(b) = {}
    BY <2>4 DEF Missing
  <2>7. Cardinality(Missing') = Cardinality(Missing) + b.size
    BY <1>3, <2>2, <2>5, <2>6, MissingFinite, AddBytes DEF Bytes
  <2> QED
    BY <1>2, <1>7, <2>7 DEF Conservation
<1> QED
  BY <1>5, <1>6, <1>7

\* A fresh block has the bytes the cursor passes.
LEMMA HeapAllocateConserves ==
    ASSUME Inv, Conservation, NEW t \in Tasks, HeapAllocate(t)
    PROVE  Conservation'
<1> DEFINE n == AlignUp(BlockSizes[IoType(t)])
           b == [offset |-> heap, size |-> n, type |-> IoType(t)]
<1>1. IoType(t) \in BlockTypes /\ n \in Nat /\ heap \in Nat /\ TotalSize \in Nat
  BY SearchTypes, AlignUpCovers, DeviceAssumption DEF Inv, TypeOK
<1>2. heap' = heap + n /\ free' = free
  BY DEF HeapAllocate
<1>3. CASE heap + n > TotalSize
  BY <1>1, <1>2, <1>3 DEF Conservation
<1>4. CASE ~ (heap + n > TotalSize)
  <2>1. Accept(t, b)
    BY <1>4 DEF HeapAllocate
  <2>2. b \in Block /\ b.offset = heap /\ b.size = n /\ blocks[t] \in Seq(Block)
    BY <1>1 DEF Block, Inv, TypeOK
  <2> HIDE DEF n, b
  <2>3. /\ \A u \in Tasks \ {t} : blocks'[u] = blocks[u]
        /\ \/ blocks'[t] = Append(blocks[t], b) /\ lost' = lost
           \/ blocks' = blocks /\ lost' = lost + n
    BY <2>1, <2>2, AcceptMoves DEF Inv
  <2>4. heap <= TotalSize /\ Cardinality(Missing) = lost
    BY <1>1, <1>4 DEF Conservation
  <2>5. \A x \in Nat : Has(b, x) <=> heap <= x /\ x < heap + n
    BY <2>2 DEF Has
  <2>6. \A x \in Nat : Kept(x) => x < heap
    BY KeptBelow
  <2>7. \A x \in Nat : Kept(x)' <=> \/ \E v \in Workers : \E l \in BlockTypes : Within(free[v][l], x)
                                    \/ \E u \in Tasks : Within(blocks'[u], x)
    BY <1>2 DEF Kept, Within, Has
  <2>8. Missing' = {x \in 0 .. heap + n - 1 : ~ Kept(x)'}
    <3>1. Missing' = {x \in 0 .. heap' - 1 : ~ Kept(x)'}
      BY DEF Missing
    <3>2. 0 .. heap' - 1 = 0 .. heap + n - 1
      BY <1>1, <1>2
    <3> QED
      BY <3>1, <3>2, Zenon
  <2>9. CASE blocks'[t] = Append(blocks[t], b) /\ lost' = lost
    <3>1. ASSUME NEW x \in Nat PROVE Kept(x)' <=> Kept(x) \/ Has(b, x)
      <4>1. Within(blocks'[t], x) <=> Within(blocks[t], x) \/ Has(b, x)
        BY <2>2, <2>9, WithinAppend
      <4>2. \A u \in Tasks : u = t \/ (Within(blocks'[u], x) <=> Within(blocks[u], x))
        BY <2>3
      <4>3. (\E u \in Tasks : Within(blocks'[u], x)) <=> (\E u \in Tasks : Within(blocks[u], x)) \/ Has(b, x)
        BY <4>1, <4>2
      <4> QED
        BY <2>7, <4>3 DEF Kept
    <3>2. \A x \in 0 .. heap + n - 1 : x \in Nat /\ (x < heap \/ Has(b, x))
      BY <1>1, <2>5
    <3>3. \A x \in 0 .. heap - 1 : x \in Nat /\ ~ Has(b, x)
      BY <1>1, <2>5
    <3>4. Missing' \subseteq Missing
      <4> SUFFICES ASSUME NEW x \in 0 .. heap + n - 1, ~ Kept(x)' PROVE x \in Missing
        BY <2>8
      <4>1. x \in Nat /\ x < heap /\ ~ Kept(x)
        BY <3>1, <3>2
      <4> QED
        BY <1>1, <4>1 DEF Missing
    <3>5. Missing \subseteq Missing'
      <4> SUFFICES ASSUME NEW x \in 0 .. heap - 1, ~ Kept(x) PROVE x \in Missing'
        BY DEF Missing
      <4>1. ~ Kept(x)'
        BY <3>1, <3>3
      <4>2. x \in 0 .. heap + n - 1
        BY <1>1
      <4> QED
        BY <2>8, <4>1, <4>2
    <3> QED
      BY <2>4, <2>9, <3>4, <3>5 DEF Conservation
  <2>10. CASE blocks' = blocks /\ lost' = lost + n
    <3>1. \A x \in Nat : Kept(x)' <=> Kept(x)
      BY <2>7, <2>10 DEF Kept
    <3>2. \A x \in heap .. (heap + n - 1) : x \in Nat /\ ~ Kept(x)
      BY <1>1, <2>6
    <3>3. Missing' \subseteq Missing \cup (heap .. (heap + n - 1))
      <4> SUFFICES ASSUME NEW x \in 0 .. heap + n - 1, ~ Kept(x)', x \notin heap .. (heap + n - 1)
                   PROVE  x \in Missing
        BY <2>8
      <4>1. x \in 0 .. heap - 1 /\ x \in Nat
        BY <1>1
      <4> QED
        BY <3>1, <4>1 DEF Missing
    <3>4. Missing \cup (heap .. (heap + n - 1)) \subseteq Missing'
      <4>1. ASSUME NEW x \in 0 .. heap - 1, ~ Kept(x) PROVE x \in Missing'
        <5>1. x \in 0 .. heap + n - 1 /\ x \in Nat
          BY <1>1
        <5> QED
          BY <2>8, <3>1, <4>1, <5>1
      <4>2. ASSUME NEW x \in heap .. (heap + n - 1) PROVE x \in Missing'
        <5>1. x \in 0 .. heap + n - 1 /\ x \in Nat
          BY <1>1
        <5> QED
          BY <2>8, <3>1, <3>2, <5>1
      <4> QED
        BY <4>1, <4>2 DEF Missing
    <3>5. Missing \cap (heap .. (heap + n - 1)) = {}
      BY <1>1 DEF Missing
    <3>6. Missing' = Missing \cup (heap .. (heap + n - 1))
      BY <3>3, <3>4
    <3>7. Cardinality(Missing') = Cardinality(Missing) + n
      BY <1>1, <3>5, <3>6, MissingFinite, AddBytes
    <3> QED
      BY <2>4, <2>10, <3>7 DEF Conservation
  <2> QED
    BY <2>3, <2>9, <2>10
<1> QED
  BY <1>3, <1>4

\* A block that is freed moves from the vector to a list.
LEMMA FreeBlockConserves ==
    ASSUME Inv, Conservation, NEW t \in Tasks, FreeBlock(t)
    PROVE  Conservation'
<1> DEFINE s == blocks[t]
           b == Head(s)
           w == worker[t]
           k == b.type
<1>1. s \in Seq(Block) /\ s # <<>> /\ w \in Workers
  BY DEF FreeBlock, Inv, TypeOK
<1>2. b \in Block /\ k \in BlockTypes
  <2>1. b \in Block
    BY <1>1
  <2> HIDE DEF b
  <2> QED
    BY <2>1 DEF Block
<1>3. /\ free' = [free EXCEPT ![w][k] = Append(@, b)]
      /\ blocks' = [blocks EXCEPT ![t] = Tail(@)]
      /\ heap' = heap /\ lost' = lost
  BY DEF FreeBlock
<1>4. /\ free \in [Workers -> [BlockTypes -> Seq(Block)]]
      /\ blocks \in [Tasks -> Seq(Block)]
  BY DEF Inv, TypeOK
<1> HIDE DEF w, k
<1>5. /\ \A v \in Workers : \A l \in BlockTypes : (v = w /\ l = k) \/ free'[v][l] = free[v][l]
      /\ free'[w][k] = Append(free[w][k], b) /\ free[w][k] \in Seq(Block)
      /\ \A u \in Tasks \ {t} : blocks'[u] = blocks[u]
      /\ blocks'[t] = Tail(s)
  BY <1>1, <1>2, <1>3, <1>4
<1>6. ASSUME NEW x \in Nat PROVE Kept(x) <=> Kept(x)'
  <2>1. Within(s, x) <=> Has(b, x) \/ Within(Tail(s), x)
    BY <1>1, WithinTail
  <2>2. Within(free'[w][k], x) <=> Within(free[w][k], x) \/ Has(b, x)
    BY <1>2, <1>5, WithinAppend
  <2>3. Within(free[w][k], x) \/ Within(s, x)
          <=> Within(free'[w][k], x) \/ Within(blocks'[t], x) \/ FALSE
    BY <1>5, <2>1, <2>2
  <2>4. Kept(x) <=> Kept(x)' \/ FALSE
    BY <1>1, <1>2, <1>5, <2>3, KeptStays
  <2> QED
    BY <2>4
<1>7. Missing' = Missing
  BY <1>3, <1>6, MissingStays
<1> QED
  BY <1>3, <1>7 DEF Conservation

\* The other steps move no block: a request starts with a vector that is empty.
LEMMA OthersConserve ==
    ASSUME Inv, Conservation, UNCHANGED <<heap, free, blocks, lost>>
    PROVE  Conservation'
<1>1. Missing' = Missing
  BY DEF Missing, Kept, Within, Has
<1> QED
  BY <1>1 DEF Conservation

LEMMA StartConserves ==
    ASSUME Inv, Conservation, IdleEmpty, NEW t \in Tasks, NEW w \in Workers, NEW n \in Sizes,
           AllocateBlocks(t, w, n)
    PROVE  Conservation'
<1>1. blocks \in [Tasks -> Seq(Block)] /\ blocks[t] = <<>>
  BY DEF Inv, TypeOK, IdleEmpty, AllocateBlocks
<1>2. blocks' = [blocks EXCEPT ![t] = <<>>] /\ UNCHANGED <<heap, free, lost>>
  BY DEF AllocateBlocks
<1>3. blocks' = blocks
  BY <1>1, <1>2
<1> QED
  BY <1>2, <1>3, OthersConserve

\* A task becomes idle by Return, with an empty vector.
LEMMA IdleInductive ==
    ASSUME Inv, IdleEmpty, [Next]_vars
    PROVE  IdleEmpty'
<1> USE DEF Inv
<1>1. CASE UNCHANGED vars
  BY <1>1 DEF vars, IdleEmpty
<1>2. CASE Next
  <2>1. PICK t \in Tasks : \/ \E w \in Workers, n \in Sizes : AllocateBlocks(t, w, n)
                           \/ \E w \in Workers : FreeBlocks(t, w)
                           \/ Step(t)
    BY <1>2 DEF Next
  <2>2. SUFFICES /\ \A u \in Tasks \ {t} : pc'[u] = pc[u] /\ blocks'[u] = blocks[u]
                 /\ pc'[t] = "idle" => blocks'[t] = <<>>
    BY DEF IdleEmpty
  <2>3. CASE \E w \in Workers, n \in Sizes : AllocateBlocks(t, w, n)
    BY <2>3 DEF AllocateBlocks, TypeOK
  <2>4. CASE \E w \in Workers : FreeBlocks(t, w)
    BY <2>4 DEF FreeBlocks, TypeOK
  <2>5. CASE TakeRecycled(t)
    <3>1. ProbedWorker(t) \in Workers /\ IoType(t) \in BlockTypes
      BY SearchTypes
    <3> DEFINE s == free[ProbedWorker(t)][IoType(t)]
    <3>2. s \in Seq(Block) /\ s # <<>> /\ Accept(t, Head(s))
      BY <2>5, <3>1 DEF TakeRecycled, TypeOK
    <3>3. Head(s) \in Block
      BY <3>2
    <3> HIDE DEF s
    <3> QED
      BY <3>2, <3>3, AcceptMoves
  <2>6. CASE MissRecycled(t)
    BY <2>6 DEF MissRecycled, TypeOK
  <2>7. CASE HeapAllocate(t)
    <3> DEFINE n == AlignUp(BlockSizes[IoType(t)])
               b == [offset |-> heap, size |-> n, type |-> IoType(t)]
    <3>1. IoType(t) \in BlockTypes /\ n \in Nat /\ heap \in Nat
      BY SearchTypes, AlignUpCovers DEF TypeOK
    <3>2. b \in Block
      BY <3>1 DEF Block
    <3>3. \/ Accept(t, b)
          \/ pc' = [pc EXCEPT ![t] = "undo"] /\ blocks' = blocks
      BY <2>7 DEF HeapAllocate
    <3> HIDE DEF b
    <3>4. CASE Accept(t, b)
      BY <3>2, <3>4, AcceptMoves
    <3>5. CASE pc' = [pc EXCEPT ![t] = "undo"] /\ blocks' = blocks
      BY <3>5 DEF TypeOK
    <3> QED
      BY <3>3, <3>4, <3>5
  <2>8. CASE FreeBlock(t)
    BY <2>8 DEF FreeBlock, TypeOK
  <2>9. CASE Return(t)
    BY <2>9 DEF Return, TypeOK
  <2> QED
    BY <2>1, <2>3, <2>4, <2>5, <2>6, <2>7, <2>8, <2>9 DEF Step
<1> QED
  BY <1>1, <1>2

\* As long as every request fitted, allocation, clean-up and FreeBlocks lose no byte
\* but those dropped at max_blocks_per_operation_: with NoOverlap, the sizes of all
\* blocks and what was dropped add up to what Heap::Allocate gave out.
THEOREM NoByteLost == Spec => []Conservation
<1>1. Init => Conservation /\ IdleEmpty
  <2> SUFFICES ASSUME Init PROVE Conservation /\ IdleEmpty
    OBVIOUS
  <2>1. heap = 0 /\ lost = 0 /\ IdleEmpty
    BY DEF Init, IdleEmpty
  <2>2. Missing = {}
    BY <2>1 DEF Missing
  <2> QED
    BY <2>1, <2>2, FS_EmptySet DEF Conservation
<1>2. Inv /\ Conservation /\ IdleEmpty /\ [Next]_vars => (Conservation /\ IdleEmpty)'
  <2> SUFFICES ASSUME Inv, Conservation, IdleEmpty, [Next]_vars PROVE Conservation'
    BY IdleInductive
  <2>1. CASE UNCHANGED vars
    BY <2>1, OthersConserve DEF vars
  <2>2. CASE Next
    <3>1. PICK t \in Tasks : \/ \E w \in Workers, n \in Sizes : AllocateBlocks(t, w, n)
                             \/ \E w \in Workers : FreeBlocks(t, w)
                             \/ Step(t)
      BY <2>2 DEF Next
    <3>2. CASE MissRecycled(t) \/ Return(t) \/ \E w \in Workers : FreeBlocks(t, w)
      <4>1. UNCHANGED <<heap, free, blocks, lost>>
        BY <3>2 DEF MissRecycled, Return, FreeBlocks
      <4> QED
        BY <4>1, OthersConserve
    <3> QED
      BY <3>1, <3>2, TakeRecycledConserves, HeapAllocateConserves, FreeBlockConserves,
         StartConserves DEF Step
  <2> QED
    BY <2>1, <2>2
<1> QED
  BY <1>1, <1>2, InvHolds, PTL DEF Spec

-----------------------------------------------------------------------------
(* Refinement of BlockDevice.                                              *)

\* The pieces that serve a request.
LEMMA DivisionsOf ==
    ASSUME NEW n \in Nat
    PROVE  /\ Len(Divisions[n]) = NumDivisions(n)
           /\ \A i \in 1 .. NumDivisions(n) : Divisions[n][i] = Division(n, i)
<1>1. kMaxBlock \in Nat \ {0}
  BY BlockSizesAssumption DEF kMaxBlock
<1>2. n \div kMaxBlock \in Nat
  BY <1>1, NatDiv
<1>3. NumDivisions(n) \in Nat
  BY <1>2 DEF NumDivisions
<1> QED
  BY <1>3 DEF Divisions

StatusOf(p) ==
    IF p = "held" THEN "held"
    ELSE IF p \in {"map", "heap", "undo"} THEN "asked" ELSE "idle"
ExtentsOf(p, b) == IF p = "held" THEN b ELSE <<>>

\* What a client sees of a task that is the only one to change.
LEMMA SeenByOthers ==
    ASSUME TypeOK, NEW t \in Tasks, NEW p, NEW b,
           pc' = [pc EXCEPT ![t] = p], blocks' = [blocks EXCEPT ![t] = b]
    PROVE  /\ SeenStatus' = [SeenStatus EXCEPT ![t] = StatusOf(p)]
           /\ SeenExtents' = [SeenExtents EXCEPT ![t] = ExtentsOf(p, b)]
<1>1. pc \in [Tasks -> Running \cup {"idle", "held"}] /\ blocks \in [Tasks -> Seq(Block)]
  BY DEF TypeOK
<1>2. \A u \in Tasks : pc'[u] = (IF u = t THEN p ELSE pc[u]) /\ blocks'[u] = (IF u = t THEN b ELSE blocks[u])
  BY <1>1
<1> QED
  BY <1>2 DEF SeenStatus, SeenExtents, StatusOf, ExtentsOf

\* The block that completes a request grants it; any other block is not seen.
LEMMA AcceptSeen ==
    ASSUME Inv, Inv', NEW t \in Tasks, NEW b \in Block, Accept(t, b),
           pc[t] \in {"map", "heap"}, want' = want
    PROVE  Device!Grant(t) \/ UNCHANGED <<SeenStatus, want, SeenExtents>>
<1>0. TypeOK
  BY DEF Inv
<1>1. SeenStatus[t] = "asked" /\ SeenExtents[t] = <<>>
  BY DEF SeenStatus, SeenExtents
<1>2. CASE Len(blocks[t]) >= MaxBlocks
  <2> DEFINE e == blocks[t]
  <2>1. pc' = [pc EXCEPT ![t] = "undo"] /\ blocks' = [blocks EXCEPT ![t] = e]
    BY <1>0, <1>2 DEF Accept, TypeOK
  <2> HIDE DEF e
  <2>2. /\ SeenStatus' = [SeenStatus EXCEPT ![t] = "asked"]
        /\ SeenExtents' = [SeenExtents EXCEPT ![t] = <<>>]
    BY <1>0, <2>1, SeenByOthers DEF StatusOf, ExtentsOf
  <2> QED
    BY <1>1, <2>2 DEF SeenStatus, SeenExtents
<1>3. CASE ~ (Len(blocks[t]) >= MaxBlocks)
  <2> DEFINE e == Append(blocks[t], b)
             q == IF Len(blocks[t]) + 1 = NumDivisions(want[t]) THEN "held" ELSE "map"
  <2>1. pc' = [pc EXCEPT ![t] = q] /\ blocks' = [blocks EXCEPT ![t] = e]
    BY <1>3 DEF Accept
  <2> HIDE DEF e
  <2>2. CASE q = "map"
    <3>1. /\ SeenStatus' = [SeenStatus EXCEPT ![t] = "asked"]
          /\ SeenExtents' = [SeenExtents EXCEPT ![t] = <<>>]
      BY <1>0, <2>1, <2>2, SeenByOthers DEF StatusOf, ExtentsOf
    <3> QED
      BY <1>1, <3>1 DEF SeenStatus, SeenExtents
  <2>3. CASE q = "held"
    <3>1. /\ SeenStatus' = [SeenStatus EXCEPT ![t] = "held"]
          /\ SeenExtents' = [SeenExtents EXCEPT ![t] = e]
      BY <1>0, <2>1, <2>3, SeenByOthers DEF StatusOf, ExtentsOf
    <3>2. SeenExtents'[t] = e
      BY <3>1 DEF SeenExtents
    <3>3. pc'[t] = "held" /\ blocks'[t] = e /\ want'[t] = want[t] /\ want[t] \in Nat
      BY <1>0, <2>1, <2>3 DEF TypeOK
    <3>4. Len(e) = NumDivisions(want[t]) /\ \A i \in 1 .. Len(e) : e[i].size >= Division(want[t], i)
      BY <3>3 DEF Inv, Complete, Covering, NumDivisions, Division, kMaxBlock
    <3>5. Len(e) = Len(Divisions[want[t]]) /\ \A i \in 1 .. Len(e) : e[i].size >= Divisions[want[t]][i]
      BY <3>3, <3>4, DivisionsOf
    <3>6. \A i \in 1 .. Len(e) : e[i].offset + e[i].size <= TotalSize
      BY <3>3 DEF Inv, HeldWell, Placed
    <3>7. \A i, j \in 1 .. Len(e) : i # j => Device!Apart(e[i], e[j])
      BY <3>3 DEF Inv, NoOverlap, HeldHeld, Disjoint, Device!Apart
    <3>8. \A d \in Tasks : \A j \in 1 .. Len(SeenExtents[d]) :
             d # t /\ SeenExtents[d] = blocks[d]
      BY <1>1 DEF SeenExtents
    <3>9. \A i \in 1 .. Len(e) : \A d \in Tasks : \A j \in 1 .. Len(SeenExtents[d]) :
             Device!Apart(e[i], SeenExtents[d][j])
      <4> TAKE i \in 1 .. Len(e)
      <4> TAKE d \in Tasks
      <4> TAKE j \in 1 .. Len(SeenExtents[d])
      <4>1. d # t /\ SeenExtents[d] = blocks[d] /\ blocks'[d] = blocks[d]
        BY <1>0, <2>1, <3>8 DEF TypeOK
      <4>2. Disjoint(blocks'[t][i], blocks'[d][j])
        BY <3>3, <4>1 DEF Inv, NoOverlap, HeldHeld, Disjoint
      <4> QED
        BY <3>3, <4>1, <4>2 DEF Disjoint, Device!Apart
    <3> QED
      BY <1>1, <3>1, <3>2, <3>5, <3>6, <3>7, <3>9 DEF Device!Grant
  <2> QED
    BY <2>2, <2>3
<1> QED
  BY <1>2, <1>3

\* Every step of the allocator is a step of the device or is not seen.
LEMMA DeviceStep == Inv /\ Inv' /\ [Next]_vars => [Device!Next]_(Device!vars)
<1> SUFFICES ASSUME Inv, Inv', [Next]_vars
             PROVE  Device!Next \/ UNCHANGED <<SeenStatus, want, SeenExtents>>
  BY DEF Device!Next, Device!vars
<1>0. TypeOK
  BY DEF Inv
<1>1. ASSUME NEW t \in Tasks, NEW w \in Workers, NEW n \in Sizes, AllocateBlocks(t, w, n)
      PROVE  Device!Next
  <2>1. SeenStatus[t] = "idle" /\ SeenExtents[t] = <<>>
    BY <1>1 DEF AllocateBlocks, SeenStatus, SeenExtents
  <2>2. want' = [want EXCEPT ![t] = n] /\ want'[t] = n
    BY <1>0, <1>1 DEF AllocateBlocks, TypeOK
  <2> DEFINE q == IF n = 0 THEN "held" ELSE "map"
  <2>3. pc' = [pc EXCEPT ![t] = q] /\ blocks' = [blocks EXCEPT ![t] = <<>>]
    BY <1>1 DEF AllocateBlocks
  <2>4. /\ SeenStatus' = [SeenStatus EXCEPT ![t] = IF n = 0 THEN "held" ELSE "asked"]
        /\ SeenExtents' = [SeenExtents EXCEPT ![t] = <<>>]
    BY <1>0, <2>3, SeenByOthers DEF StatusOf, ExtentsOf
  <2>5. SeenExtents' = SeenExtents
    BY <2>1, <2>4 DEF SeenExtents
  <2>6. CASE n = 0
    BY <2>1, <2>2, <2>4, <2>5, <2>6 DEF Device!AskNothing, Device!Next
  <2>7. CASE n # 0
    BY <2>1, <2>2, <2>4, <2>5, <2>7 DEF Device!Ask, Device!Next
  <2> QED
    BY <2>6, <2>7
<1>2. ASSUME NEW t \in Tasks, NEW w \in Workers, FreeBlocks(t, w)
      PROVE  Device!Next
  <2> DEFINE e == blocks[t]
  <2>1. pc' = [pc EXCEPT ![t] = "free"] /\ blocks' = [blocks EXCEPT ![t] = e]
    BY <1>0, <1>2 DEF FreeBlocks, TypeOK
  <2> HIDE DEF e
  <2>2. /\ SeenStatus' = [SeenStatus EXCEPT ![t] = "idle"]
        /\ SeenExtents' = [SeenExtents EXCEPT ![t] = <<>>]
    <3>1. /\ SeenStatus' = [SeenStatus EXCEPT ![t] = StatusOf("free")]
          /\ SeenExtents' = [SeenExtents EXCEPT ![t] = ExtentsOf("free", e)]
      BY <1>0, <2>1, SeenByOthers
    <3>2. StatusOf("free") = "idle" /\ ExtentsOf("free", e) = <<>>
      BY DEF StatusOf, ExtentsOf
    <3> QED
      BY <3>1, <3>2
  <2>3. SeenStatus[t] = "held" /\ want' = want
    BY <1>2 DEF FreeBlocks, SeenStatus
  <2> QED
    BY <2>2, <2>3 DEF Device!Release, Device!Next
<1>3. ASSUME NEW t \in Tasks, TakeRecycled(t)
      PROVE  Device!Next \/ UNCHANGED <<SeenStatus, want, SeenExtents>>
  <2> DEFINE b == Head(free[ProbedWorker(t)][IoType(t)])
  <2>1. ProbedWorker(t) \in Workers /\ IoType(t) \in BlockTypes
    BY <1>0, SearchTypes
  <2>2. b \in Block
    BY <1>0, <1>3, <2>1 DEF TypeOK, TakeRecycled
  <2>3. Accept(t, b) /\ pc[t] = "map" /\ want' = want
    BY <1>3 DEF TakeRecycled
  <2> HIDE DEF b
  <2> QED
    BY <2>2, <2>3, AcceptSeen DEF Device!Next, Device!Answer
<1>4. ASSUME NEW t \in Tasks, MissRecycled(t)
      PROVE  UNCHANGED <<SeenStatus, want, SeenExtents>>
  BY <1>0, <1>4 DEF MissRecycled, SeenStatus, SeenExtents, TypeOK
<1>5. ASSUME NEW t \in Tasks, HeapAllocate(t)
      PROVE  Device!Next \/ UNCHANGED <<SeenStatus, want, SeenExtents>>
  <2> DEFINE n == AlignUp(BlockSizes[IoType(t)])
             b == [offset |-> heap, size |-> n, type |-> IoType(t)]
  <2>1. pc[t] = "heap" /\ want' = want
    BY <1>5 DEF HeapAllocate
  <2>2. CASE heap + n > TotalSize
    BY <1>0, <1>5, <2>1, <2>2 DEF HeapAllocate, SeenStatus, SeenExtents, TypeOK
  <2>3. CASE ~ (heap + n > TotalSize)
    <3>1. b \in Block
      BY <1>0, SearchTypes, AlignUpCovers DEF Block, TypeOK
    <3>2. Accept(t, b)
      BY <1>5, <2>3 DEF HeapAllocate
    <3> HIDE DEF b
    <3> QED
      BY <2>1, <3>1, <3>2, AcceptSeen DEF Device!Next, Device!Answer
  <2> QED
    BY <2>2, <2>3
<1>6. ASSUME NEW t \in Tasks, FreeBlock(t)
      PROVE  UNCHANGED <<SeenStatus, want, SeenExtents>>
  BY <1>0, <1>6 DEF FreeBlock, SeenStatus, SeenExtents, TypeOK
<1>7. ASSUME NEW t \in Tasks, Return(t)
      PROVE  Device!Next \/ UNCHANGED <<SeenStatus, want, SeenExtents>>
  <2> DEFINE e == blocks[t]
  <2>1. pc' = [pc EXCEPT ![t] = "idle"] /\ blocks' = [blocks EXCEPT ![t] = e]
    BY <1>0, <1>7 DEF Return, TypeOK
  <2> HIDE DEF e
  <2>2. /\ SeenStatus' = [SeenStatus EXCEPT ![t] = "idle"]
        /\ SeenExtents' = [SeenExtents EXCEPT ![t] = <<>>]
    <3>1. /\ SeenStatus' = [SeenStatus EXCEPT ![t] = StatusOf("idle")]
          /\ SeenExtents' = [SeenExtents EXCEPT ![t] = ExtentsOf("idle", e)]
      BY <1>0, <2>1, SeenByOthers
    <3>2. StatusOf("idle") = "idle" /\ ExtentsOf("idle", e) = <<>>
      BY DEF StatusOf, ExtentsOf
    <3> QED
      BY <3>1, <3>2
  <2>3. want' = want /\ SeenExtents[t] = <<>> /\ pc[t] \in {"undo", "free"}
    BY <1>7 DEF Return, SeenExtents
  <2>4. SeenExtents' = SeenExtents
    BY <2>2, <2>3 DEF SeenExtents
  <2>5. CASE pc[t] = "undo"
    BY <2>2, <2>3, <2>4, <2>5 DEF SeenStatus, Device!Refuse, Device!Answer, Device!Next
  <2>6. CASE pc[t] = "free"
    BY <2>2, <2>3, <2>4, <2>6 DEF SeenStatus
  <2> QED
    BY <2>3, <2>5, <2>6
<1>8. CASE UNCHANGED vars
  BY <1>8 DEF vars, SeenStatus, SeenExtents
<1> QED
  BY <1>1, <1>2, <1>3, <1>4, <1>5, <1>6, <1>7, <1>8 DEF Next, Step

\* Seen by its clients the allocator is a BlockDevice: an AllocateBlocks takes
\* effect at once with extents of its own or not at all, and a FreeBlocks at
\* once, although both handlers are interleaved with those of other workers.
THEOREM RefinesBlockDevice == Spec => IsBlockDevice
<1>1. Init => Device!Init
  BY DEF Init, Device!Init, SeenStatus, SeenExtents
<1> QED
  BY <1>1, InvHolds, DeviceStep, PTL DEF Spec, IsBlockDevice, Device!Spec
=============================================================================
