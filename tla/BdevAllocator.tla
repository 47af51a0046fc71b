--------------------------- MODULE BdevAllocator ---------------------------
(***************************************************************************)
(* The block allocator of the block device module (bdev_runtime.cc): one   *)
(* Heap, a bump cursor that is never moved back, and a GlobalBlockMap, one *)
(* list of recycled blocks per worker and block size category, each list   *)
(* behind its own CoMutex.                                                 *)
(*                                                                         *)
(* A task is one client's use of the device: AllocateBlocks runs on a      *)
(* worker and hands the client a vector of blocks, which a later           *)
(* FreeBlocks, on any worker, gives back.  Neither handler suspends, so a  *)
(* worker runs one of them at a time; handlers of different workers        *)
(* interleave at every lock and at every atomic operation on the cursor.   *)
(* The section guarded by one CoMutex is one step.                         *)
(*                                                                         *)
(* Sizes are abstract units; block types are numbered from 1 where the     *)
(* code counts from 0.  MaxAllocs is the only bound added by the model.    *)
(***************************************************************************)
EXTENDS Integers, Sequences, FiniteSets

CONSTANTS
    NumWorkers,   \* worker threads of the runtime
    Tasks,        \* concurrent users of the device
    BlockSizes,   \* kBlockSizes, ascending
    Alignment,    \* alignment_ of the Heap
    TotalSize,    \* total_size_ of the Heap
    MaxBlocks,    \* max_blocks_per_operation_
    Sizes,        \* sizes a client asks for
    MaxAllocs     \* bound: AllocateBlocks calls in one behaviour

ASSUME WorkersAssumption == NumWorkers \in Nat \ {0}
ASSUME BlockSizesAssumption ==
    /\ BlockSizes \in Seq(Nat \ {0})
    /\ Len(BlockSizes) > 0
    /\ \A i \in 1..Len(BlockSizes) : BlockSizes[i] <= BlockSizes[Len(BlockSizes)]
ASSUME DeviceAssumption ==
    /\ Alignment \in Nat \ {0}
    /\ TotalSize \in Nat
    /\ MaxBlocks \in Nat
    /\ MaxAllocs \in Nat
    /\ Sizes \subseteq Nat

VARIABLES
    heap,      \* heap_, the bump cursor
    free,      \* worker_maps_[w].blocks_[type], the recycled blocks
    pc,        \* where each task's handler stands
    worker,    \* the worker that runs the task's handler
    want,      \* size_ of the AllocateBlocks request
    blocks,    \* local_blocks, then the vector the client holds or gives back
    probe,     \* how many other workers' lists were tried for this division
    rc,        \* return_code_ of the last AllocateBlocks
    lost,      \* history: bytes allocated and then neither returned nor kept
    issued     \* history: AllocateBlocks calls so far

vars == <<heap, free, pc, worker, want, blocks, probe, rc, lost, issued>>

Workers == 0 .. NumWorkers - 1
BlockTypes == 1 .. Len(BlockSizes)
Block == [offset : Nat, size : Nat, type : BlockTypes]
kMaxBlock == BlockSizes[Len(BlockSizes)]

Running == {"map", "heap", "undo", "free"}
Busy(w) == \E t \in Tasks : pc[t] \in Running /\ worker[t] = w

-----------------------------------------------------------------------------
(* Pure parts of the handlers.                                             *)

\* Mutant: the largest category that is not larger.
RoundsDown(n) ==
    CHOOSE i \in BlockTypes :
        /\ n >= BlockSizes[i] \/ i = 1
        /\ \A j \in BlockTypes : n >= BlockSizes[j] => j <= i

\* The smallest category that fits: categories are scanned in ascending order.
FindBlockTypeForSize(n) ==
    CHOOSE i \in BlockTypes :
        /\ n <= BlockSizes[i]
        /\ \A j \in BlockTypes : n <= BlockSizes[j] => i <= j

\* A request is cut into kMaxBlock pieces and what remains.
NumDivisions(n) == (n \div kMaxBlock) + (IF n % kMaxBlock > 0 THEN 1 ELSE 0)
Division(n, i) == IF i <= n \div kMaxBlock THEN kMaxBlock ELSE n % kMaxBlock

AlignUp(n) == ((n + Alignment - 1) \div Alignment) * Alignment

\* GetRemainingSize, as GetStats reports it.
GetRemainingSize == IF heap >= TotalSize THEN 0 ELSE TotalSize - heap

\* The piece the task is looking for and the category it looks in.
IoSize(t) == Division(want[t], Len(blocks[t]) + 1)
IoType(t) == FindBlockTypeForSize(IoSize(t))

\* Up to four other workers are tried after the task's own.
ProbeLimit == IF NumWorkers - 1 < 4 THEN NumWorkers - 1 ELSE 4
ProbedWorker(t) == (worker[t] + probe[t]) % NumWorkers

-----------------------------------------------------------------------------
Init ==
    /\ heap = 0
    /\ free = [w \in Workers |-> [k \in BlockTypes |-> <<>>]]
    /\ pc = [t \in Tasks |-> "idle"]
    /\ worker = [t \in Tasks |-> 0]
    /\ want = [t \in Tasks |-> 0]
    /\ blocks = [t \in Tasks |-> <<>>]
    /\ probe = [t \in Tasks |-> 0]
    /\ rc = [t \in Tasks |-> 0]
    /\ lost = 0
    /\ issued = 0

\* AllocateBlocks begins on worker w.  A request for nothing is answered at once.
AllocateBlocks(t, w, n) ==
    /\ pc[t] = "idle"
    /\ ~ Busy(w)
    /\ issued < MaxAllocs
    /\ issued' = issued + 1
    /\ worker' = [worker EXCEPT ![t] = w]
    /\ want' = [want EXCEPT ![t] = n]
    /\ blocks' = [blocks EXCEPT ![t] = <<>>]
    /\ probe' = [probe EXCEPT ![t] = 0]
    /\ rc' = [rc EXCEPT ![t] = 0]
    /\ pc' = [pc EXCEPT ![t] = IF n = 0 THEN "held" ELSE "map"]
    /\ UNCHANGED <<heap, free, lost>>

\* What the loop of AllocateBlocks does with a block it was given: the limit is
\* checked after the block was taken, and the block is then in no list.
Accept(t, b) ==
    IF Len(blocks[t]) >= MaxBlocks
    THEN /\ pc' = [pc EXCEPT ![t] = "undo"]
         /\ rc' = [rc EXCEPT ![t] = 2]
         /\ lost' = lost + b.size
         /\ UNCHANGED <<blocks, probe>>
    ELSE /\ blocks' = [blocks EXCEPT ![t] = Append(@, b)]
         /\ probe' = [probe EXCEPT ![t] = 0]
         /\ pc' = [pc EXCEPT ![t] =
                      IF Len(blocks[t]) + 1 = NumDivisions(want[t])
                      THEN "held" ELSE "map"]
         /\ UNCHANGED <<rc, lost>>

\* One locked section of GlobalBlockMap::AllocateBlock that finds a block.
TakeRecycled(t) ==
    LET w == ProbedWorker(t)
        k == IoType(t)
    IN /\ pc[t] = "map"
       /\ free[w][k] # <<>>
       /\ free' = [free EXCEPT ![w][k] = Tail(@)]
       /\ Accept(t, Head(free[w][k]))
       /\ UNCHANGED <<heap, worker, want, issued>>

\* Mutant: the same worker's list is tried for ever.
ProbeStuck(t) ==
    /\ pc[t] = "map"
    /\ free[ProbedWorker(t)][IoType(t)] = <<>>
    /\ IF probe[t] < ProbeLimit
       THEN UNCHANGED <<pc, probe>>
       ELSE /\ pc' = [pc EXCEPT ![t] = "heap"]
            /\ UNCHANGED probe
    /\ UNCHANGED <<heap, free, worker, want, blocks, rc, lost, issued>>

\* Mutant: one worker too many is tried.
ProbeTooFar(t) ==
    /\ pc[t] = "map"
    /\ free[ProbedWorker(t)][IoType(t)] = <<>>
    /\ IF probe[t] <= ProbeLimit
       THEN /\ probe' = [probe EXCEPT ![t] = @ + 1]
            /\ UNCHANGED pc
       ELSE /\ pc' = [pc EXCEPT ![t] = "heap"]
            /\ UNCHANGED probe
    /\ UNCHANGED <<heap, free, worker, want, blocks, rc, lost, issued>>

\* One locked section that finds the list empty.
MissRecycled(t) ==
    /\ pc[t] = "map"
    /\ free[ProbedWorker(t)][IoType(t)] = <<>>
    /\ IF probe[t] < ProbeLimit
       THEN /\ probe' = [probe EXCEPT ![t] = @ + 1]
            /\ UNCHANGED pc
       ELSE /\ pc' = [pc EXCEPT ![t] = "heap"]
            /\ UNCHANGED probe
    /\ UNCHANGED <<heap, free, worker, want, blocks, rc, lost, issued>>

\* Mutant: the cursor moves by the size before it is aligned.
CursorUnaligned(t) ==
    LET n == AlignUp(BlockSizes[IoType(t)])
    IN /\ pc[t] = "heap"
       /\ heap' = heap + BlockSizes[IoType(t)]
       /\ IF heap + n > TotalSize
          THEN /\ pc' = [pc EXCEPT ![t] = "undo"]
               /\ rc' = [rc EXCEPT ![t] = 1]
               /\ UNCHANGED <<blocks, probe, lost>>
          ELSE Accept(t, [offset |-> heap, size |-> n, type |-> IoType(t)])
       /\ UNCHANGED <<free, worker, want, issued>>

\* Mutant: only the start of the block is compared with the device's end.
ChecksStartOnly(t) ==
    LET n == AlignUp(BlockSizes[IoType(t)])
    IN /\ pc[t] = "heap"
       /\ heap' = heap + n
       /\ IF heap >= TotalSize
          THEN /\ pc' = [pc EXCEPT ![t] = "undo"]
               /\ rc' = [rc EXCEPT ![t] = 1]
               /\ UNCHANGED <<blocks, probe, lost>>
          ELSE Accept(t, [offset |-> heap, size |-> n, type |-> IoType(t)])
       /\ UNCHANGED <<free, worker, want, issued>>

\* Mutant: a request that does not fit is cut to what was found so far.
HeapTruncates(t) ==
    LET n == AlignUp(BlockSizes[IoType(t)])
    IN /\ pc[t] = "heap"
       /\ heap' = heap + n
       /\ IF heap + n > TotalSize
          THEN /\ pc' = [pc EXCEPT ![t] = "held"]
               /\ want' = [want EXCEPT ![t] = Len(blocks[t]) * kMaxBlock]
               /\ UNCHANGED <<rc, blocks, probe, lost>>
          ELSE /\ Accept(t, [offset |-> heap, size |-> n, type |-> IoType(t)])
               /\ UNCHANGED want
       /\ UNCHANGED <<free, worker, issued>>

\* Heap::Allocate.  fetch_add moves the cursor whether or not the block fits.
HeapAllocate(t) ==
    LET n == AlignUp(BlockSizes[IoType(t)])
    IN /\ pc[t] = "heap"
       /\ heap' = heap + n
       /\ IF heap + n > TotalSize
          THEN /\ pc' = [pc EXCEPT ![t] = "undo"]
               /\ rc' = [rc EXCEPT ![t] = 1]
               /\ UNCHANGED <<blocks, probe, lost>>
          ELSE Accept(t, [offset |-> heap, size |-> n, type |-> IoType(t)])
       /\ UNCHANGED <<free, worker, want, issued>>

\* FreeBlocks begins on worker w with the vector AllocateBlocks returned.
FreeBlocks(t, w) ==
    /\ pc[t] = "held"
    /\ ~ Busy(w)
    /\ worker' = [worker EXCEPT ![t] = w]
    /\ pc' = [pc EXCEPT ![t] = "free"]
    /\ UNCHANGED <<heap, free, want, blocks, probe, rc, lost, issued>>

\* Mutant: the range check of the block type is off by one.
FreeBlockOffByOne(t) ==
    /\ pc[t] \in {"undo", "free"}
    /\ blocks[t] # <<>>
    /\ LET b == Head(blocks[t])
       IN free' = IF b.type < Len(BlockSizes)
                  THEN [free EXCEPT ![worker[t]][b.type] = Append(@, b)]
                  ELSE free
    /\ blocks' = [blocks EXCEPT ![t] = Tail(@)]
    /\ UNCHANGED <<heap, pc, worker, want, probe, rc, lost, issued>>

\* GlobalBlockMap::FreeBlock of the next block, by FreeBlocks or by the clean-up
\* of a failed AllocateBlocks: to the back of the list of this worker.
FreeBlock(t) ==
    /\ pc[t] \in {"undo", "free"}
    /\ blocks[t] # <<>>
    /\ LET b == Head(blocks[t])
       IN free' = [free EXCEPT ![worker[t]][b.type] = Append(@, b)]
    /\ blocks' = [blocks EXCEPT ![t] = Tail(@)]
    /\ UNCHANGED <<heap, pc, worker, want, probe, rc, lost, issued>>

\* The loop over the vector ends and the handler returns.
Return(t) ==
    /\ pc[t] \in {"undo", "free"}
    /\ blocks[t] = <<>>
    /\ pc' = [pc EXCEPT ![t] = "idle"]
    /\ UNCHANGED <<heap, free, worker, want, blocks, probe, rc, lost, issued>>

Step(t) ==
    \/ TakeRecycled(t)
    \/ MissRecycled(t)
    \/ HeapAllocate(t)
    \/ FreeBlock(t)
    \/ Return(t)

Next ==
    \E t \in Tasks :
        \/ \E w \in Workers, n \in Sizes : AllocateBlocks(t, w, n)
        \/ \E w \in Workers : FreeBlocks(t, w)
        \/ Step(t)

Spec == Init /\ [][Next]_vars

\* Workers do not stop in the middle of a handler.
FairSpec == Spec /\ \A t \in Tasks : WF_vars(Step(t))
-----------------------------------------------------------------------------
(* Properties.                                                             *)

\* Types; a search for a recycled block never goes past the other workers.
TypeOK ==
    /\ heap \in Nat
    /\ free \in [Workers -> [BlockTypes -> Seq(Block)]]
    /\ pc \in [Tasks -> Running \cup {"idle", "held"}]
    /\ worker \in [Tasks -> Workers]
    /\ want \in [Tasks -> Nat]
    /\ blocks \in [Tasks -> Seq(Block)]
    /\ probe \in [Tasks -> 0 .. ProbeLimit]
    /\ rc \in [Tasks -> 0 .. 2]
    /\ lost \in Nat
    /\ issued \in Nat

Disjoint(a, b) ==
    \/ a.offset + a.size <= b.offset
    \/ b.offset + b.size <= a.offset

\* No byte of the device is in two blocks, wherever the blocks are: two
\* recycled ones, one recycled and one in a client's hands, or two in clients'
\* hands.  Otherwise one client's Write would destroy another's data.
FreeFree ==
    \A w1, w2 \in Workers : \A k1, k2 \in BlockTypes :
        \A i \in 1 .. Len(free[w1][k1]) : \A j \in 1 .. Len(free[w2][k2]) :
            \/ w1 = w2 /\ k1 = k2 /\ i = j
            \/ Disjoint(free[w1][k1][i], free[w2][k2][j])
FreeHeld ==
    \A w \in Workers : \A k \in BlockTypes : \A t \in Tasks :
        \A i \in 1 .. Len(free[w][k]) : \A j \in 1 .. Len(blocks[t]) :
            Disjoint(free[w][k][i], blocks[t][j])
HeldHeld ==
    \A t, u \in Tasks :
        \A i \in 1 .. Len(blocks[t]) : \A j \in 1 .. Len(blocks[u]) :
            \/ t = u /\ i = j
            \/ Disjoint(blocks[t][i], blocks[u][j])
NoOverlap == FreeFree /\ FreeHeld /\ HeldHeld

\* Every block a client holds lies inside the device, whatever the cursor has
\* become after requests that did not fit.
WithinDevice ==
    \A t \in Tasks : \A i \in 1 .. Len(blocks[t]) :
        blocks[t][i].offset + blocks[t][i].size <= TotalSize

\* A successful AllocateBlocks covers the request: one block per division, in
\* order, each at least as large as its division, even when it was recycled.
Sufficient ==
    \A t \in Tasks : pc[t] = "held" =>
        /\ Len(blocks[t]) = NumDivisions(want[t])
        /\ \A i \in 1 .. Len(blocks[t]) : blocks[t][i].size >= Division(want[t], i)

\* The bytes below the cursor that are in no list and with no task.
Has(b, x) == b.offset <= x /\ x < b.offset + b.size
Within(bs, x) == \E i \in 1 .. Len(bs) : Has(bs[i], x)
Kept(x) ==
    \/ \E w \in Workers : \E k \in BlockTypes : Within(free[w][k], x)
    \/ \E t \in Tasks : Within(blocks[t], x)
Missing == {x \in 0 .. heap - 1 : ~ Kept(x)}

\* While every request has fitted, each byte the cursor has passed is in a
\* list, with a task, or was dropped at the block limit: allocation, clean-up
\* and FreeBlocks lose no other byte.
Conservation == heap <= TotalSize => Cardinality(Missing) = lost

\* A handler that started returns: the search through the lists of the other
\* workers and the clean-up loop end.
Answered == \A t \in Tasks : pc[t] \in Running ~> pc[t] \in {"idle", "held"}

\* Seen by its clients the allocator is a BlockDevice: AllocateBlocks takes
\* effect in one step, when it has the last block, and FreeBlocks in one step,
\* when it begins, although both work through lists that handlers of other
\* workers change between any two of their steps.
Divisions == [n \in Nat |-> [i \in 1 .. NumDivisions(n) |-> Division(n, i)]]
SeenStatus ==
    [t \in Tasks |-> IF pc[t] = "held" THEN "held"
                     ELSE IF pc[t] \in {"map", "heap", "undo"} THEN "asked" ELSE "idle"]
SeenExtents == [t \in Tasks |-> IF pc[t] = "held" THEN blocks[t] ELSE <<>>]
Device ==
    INSTANCE BlockDevice WITH
        Clients <- Tasks, Space <- TotalSize, Pieces <- Divisions,
        status <- SeenStatus, size <- want, extents <- SeenExtents
IsBlockDevice == Device!Spec

\* "Out of space - rollback" (Heap::Allocate): a request that does not fit
\* leaves the cursor where it was.
RolledBack ==
    [][\A t \in Tasks : (rc[t] = 0 /\ rc'[t] = 1) => heap' = heap]_vars

\* "Return all allocated blocks to the GlobalBlockMap" (AllocateBlocks): a
\* request cut off at max_blocks_per_operation_ gives back all it took.
AllReturned == lost = 0
=============================================================================
