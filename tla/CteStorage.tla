----------------------------- MODULE CteStorage -----------------------------
(***************************************************************************)
(* The data path of the context transfer engine (core_runtime.cc): blobs   *)
(* made of blocks on storage targets, and the handlers PutBlob, GetBlob,   *)
(* DelBlob, ReorganizeBlob and FlushData that move their bytes.            *)
(*                                                                         *)
(* A handler is a coroutine.  It gives up its worker at every co_await,    *)
(* always to a task of a block device, and no lock is held across one; the *)
(* code between two awaits touches only the handler's own blob and one map *)
(* under its lock, and is one step or a few here.  The device's answers    *)
(* are steps too, so the reads and writes of one handler reach the devices *)
(* in any order and between those of the others.                           *)
(*                                                                         *)
(* The runtime orders nothing between two handlers of one blob.  Clients   *)
(* are taken to do so: at most one client task works on a blob.  FlushData *)
(* is started by a timer and knows nothing of the clients;                 *)
(* FlushWhileBusy = FALSE is the extra assumption that no client works on  *)
(* a blob between the scan that lists it and the end of its flush.         *)
(*                                                                         *)
(* A device is the allocator of BdevAllocator with one worker, the         *)
(* categories {SmallBlock, MaxBlock} and no alignment: one step per        *)
(* division of a request.  The write-ahead log the handlers append to is   *)
(* in CteRecovery.                                                         *)
(***************************************************************************)
EXTENDS Integers, Sequences, FiniteSets, FiniteSetsExt, SequencesExt

CONSTANTS
    Targets,         \* block devices the engine may place data on
    Blobs,           \* blob names of one tag
    Clients,         \* client tasks
    Flusher,         \* the periodic FlushData task
    Capacity,        \* total size of each target
    Level,           \* persistence_level_ of each target, 0 is volatile
    TargetScore,     \* target_score_ of each target
    TopScore,        \* the score 1.0 of a new blob put without a score
    SmallBlock,      \* smallest entry of kBlockSizes
    MaxBlock,        \* largest entry of kBlockSizes
    Calls,           \* the requests clients make
    FlushLevel,      \* target_persistence_level_ of FlushData
    FlushWhileBusy,  \* whether FlushData runs on a blob in a client's use
    MaxOps,          \* bound: requests in one behaviour
    MaxChores        \* bound: StatTargets, (Un)RegisterTarget, FlushData

CallSet ==
    [kind : {"put", "get", "del", "reorg"}, blob : Blobs, off : Nat, size : Nat,
     score : Int, level : Nat, data : {<<>>}]

ASSUME TargetAssumption ==
    /\ IsFiniteSet(Targets)
    /\ Capacity \in [Targets -> Nat]
    /\ Level \in [Targets -> Nat]
    /\ TargetScore \in [Targets -> Nat]
    /\ TopScore \in Nat
    /\ SmallBlock \in Nat \ {0}
    /\ MaxBlock \in Nat \ {0}
    /\ SmallBlock < MaxBlock
ASSUME TaskAssumption ==
    /\ Flusher \notin Clients
    /\ Calls \subseteq CallSet
    /\ FlushLevel \in Nat
    /\ FlushWhileBusy \in BOOLEAN
    /\ MaxOps \in Nat
    /\ MaxChores \in Nat

Tasks == Clients \cup {Flusher}
Val == 0 .. MaxOps            \* 0 is a byte nobody has written
Extent == [off : Nat, size : Nat \ {0}]
BlobBlock == [tgt : Targets, off : Nat, size : Nat \ {0}]
Categories == {SmallBlock, MaxBlock}

VARIABLES
    exists,      \* keys of tag_blob_name_to_info_
    blocks,      \* BlobInfo::blocks_
    score,       \* BlobInfo::score_
    tag_size,    \* TagInfo::total_size_
    registered,  \* keys of registered_targets_
    remaining,   \* TargetInfo::remaining_space_
    cursor,      \* heap_ of each device
    recycled,    \* blocks_ of each device's block map, per category
    disk,        \* the bytes of each device
    pc,          \* where each task's handler stands
    req,         \* the request it serves, with its data buffer
    todo,        \* answers it waits for: slices to move or groups to free
    credit,      \* group a device took back, not yet added to remaining
    queue,       \* ordered targets it has not tried yet
    left,        \* remaining_to_allocate
    asked,       \* size of the AllocateBlocks call it waits for
    got,         \* the blocks of that call so far
    old,         \* old_blob_size of PutBlob, blob_size of DelBlob
    rc,          \* return_code_
    flush,       \* blobs_to_flush not handled yet
    keep,        \* nonvolatile_blocks of the blob being flushed
    content,     \* history: what clients have put, byte by byte
    ops,         \* history: number of requests
    chores       \* history: number of background operations

blobVars == <<exists, blocks, score, tag_size>>
targetVars == <<registered, remaining>>
bdevVars == <<cursor, recycled, disk>>
allocVars == <<queue, left, asked, got>>
history == <<content, ops, chores>>
vars == <<blobVars, targetVars, bdevVars, allocVars, pc, req, todo, credit,
          old, rc, flush, keep, history>>
-----------------------------------------------------------------------------
(* Pure parts.                                                             *)

\* Where each block of bs ends in the blob.
Ends(bs) ==
    LET end[i \in 0 .. Len(bs)] == IF i = 0 THEN 0 ELSE end[i - 1] + bs[i].size
    IN end
SizeOf(bs) == Ends(bs)[Len(bs)]
Size(b) == SizeOf(blocks[b])

\* Where block i of bs begins in the blob.
StartOf(bs, i) == Ends(bs)[i - 1]

\* The blocks of bs with the indices I, in their order.
Picked(bs, I) ==
    LET picked[i \in 0 .. Len(bs)] ==
            IF i = 0 THEN <<>>
            ELSE IF i \in I THEN Append(picked[i - 1], bs[i]) ELSE picked[i - 1]
    IN picked[Len(bs)]

\* Mutant: the position inside the block is dropped.
SlicesAtBlockStart(bs, off, n) ==
    { [tgt |-> bs[i].tgt,
       at  |-> bs[i].off,
       buf |-> Max({StartOf(bs, i) - off, 0}),
       len |-> Min({off + n, StartOf(bs, i) + bs[i].size}) - Max({off, StartOf(bs, i)})]
      : i \in {j \in DOMAIN bs : /\ off < StartOf(bs, j) + bs[j].size
                                 /\ off + n > StartOf(bs, j)} }

\* The loops of ModifyExistingData and ReadData: the part of each block that
\* lies in [off, off + n), where it is on the device and in the buffer.
Slices(bs, off, n) ==
    { [tgt |-> bs[i].tgt,
       at  |-> bs[i].off + Max({off - StartOf(bs, i), 0}),
       buf |-> Max({StartOf(bs, i) - off, 0}),
       len |-> Min({off + n, StartOf(bs, i) + bs[i].size}) - Max({off, StartOf(bs, i)})]
      : i \in {j \in DOMAIN bs : /\ off < StartOf(bs, j) + bs[j].size
                                 /\ off + n > StartOf(bs, j)} }

\* blocks_by_pool of FreeAllBlobBlocks: one FreeBlocks call per device.
Groups(bs) ==
    { [tgt |-> x,
       exts |-> LET mine == Picked(bs, {i \in DOMAIN bs : bs[i].tgt = x})
                IN [i \in DOMAIN mine |-> [off |-> mine[i].off, size |-> mine[i].size]]]
      : x \in {bs[i].tgt : i \in DOMAIN bs} }

\* SelectTargets: targets with room for all of n, those of a tier not above
\* the blob's score first, each group in the order of the configured engine;
\* then the persistence filter of ExtendBlob.
SelectTargets(s, n, level) ==
    LET room == {x \in registered : remaining[x] >= n /\ Level[x] >= level}
    IN { q \in SetToSeqs(room) :
           \A i, j \in DOMAIN q :
               TargetScore[q[i]] <= s /\ TargetScore[q[j]] > s => i < j }

\* The buffer a read fills.
Blank(n) == [i \in 1 .. n |-> 0]

\* The bytes of a blob that holds c after d is put at off.
Overlay(c, off, d) ==
    [i \in 1 .. Max({Len(c), off + Len(d)}) |->
        IF i > off /\ i <= off + Len(d) THEN d[i - off]
        ELSE IF i <= Len(c) THEN c[i] ELSE 0]

InUse(b) == \E t \in Clients : pc[t] # "idle" /\ req[t].blob = b
FlushUses(b) ==
    \/ pc[Flusher] # "idle" /\ req[Flusher].blob = b
    \/ \E e \in flush : e.blob = b
-----------------------------------------------------------------------------
NoRequest == [kind |-> "none", blob |-> CHOOSE b \in Blobs : TRUE, off |-> 0,
              size |-> 0, score |-> 0, level |-> 0, data |-> <<>>]
NoGroup == [tgt |-> CHOOSE x \in Targets : TRUE, exts |-> <<>>]

Init ==
    /\ exists = {}
    /\ blocks = [b \in Blobs |-> <<>>]
    /\ score = [b \in Blobs |-> 0]
    /\ tag_size = 0
    /\ registered = Targets
    /\ remaining = Capacity
    /\ cursor = [x \in Targets |-> 0]
    /\ recycled = [x \in Targets |-> [k \in Categories |-> <<>>]]
    /\ disk = [x \in Targets |-> [i \in 0 .. Capacity[x] - 1 |-> 0]]
    /\ pc = [t \in Tasks |-> "idle"]
    /\ req = [t \in Tasks |-> NoRequest]
    /\ todo = [t \in Tasks |-> {}]
    /\ credit = [t \in Tasks |-> NoGroup]
    /\ queue = [t \in Tasks |-> <<>>]
    /\ left = [t \in Tasks |-> 0]
    /\ asked = [t \in Tasks |-> 0]
    /\ got = [t \in Tasks |-> <<>>]
    /\ old = [t \in Tasks |-> 0]
    /\ rc = [t \in Tasks |-> 0]
    /\ flush = {}
    /\ keep = <<>>
    /\ content = [b \in Blobs |-> <<>>]
    /\ ops = 0
    /\ chores = 0

Goto(t, p) == pc' = [pc EXCEPT ![t] = p]

\* The handler returns; its locals go with it.
Answer(t, code) ==
    /\ Goto(t, "idle")
    /\ rc' = [rc EXCEPT ![t] = code]
    /\ req' = [req EXCEPT ![t] = NoRequest]

\* PutBlob up to its first await: the score is resolved, then ClearBlob frees
\* every block when the write starts at offset 0, or CreateNewBlob inserts.
BeginPut(t, r) ==
    LET new == r.blob \notin exists
        s == IF r.score >= 0 THEN r.score
             ELSE IF new THEN TopScore ELSE score[r.blob]
        clear == ~ new /\ r.off = 0 /\ Size(r.blob) > 0
    IN /\ req' = [req EXCEPT ![t] = [r EXCEPT !.score = s]]
       /\ exists' = exists \cup {r.blob}
       /\ score' = [score EXCEPT ![r.blob] = IF new THEN s ELSE @]
       /\ old' = [old EXCEPT ![t] = IF clear \/ new THEN 0 ELSE Size(r.blob)]
       /\ todo' = [todo EXCEPT ![t] = IF clear THEN Groups(blocks[r.blob]) ELSE {}]
       /\ Goto(t, IF clear THEN "free" ELSE "extend")
       /\ UNCHANGED <<blocks, tag_size>>

\* ReadData up to its first await: every read is sent, then awaited.
BeginRead(t, r) ==
    /\ req' = [req EXCEPT ![t] = [r EXCEPT !.data = Blank(r.size)]]
    /\ todo' = [todo EXCEPT ![t] = Slices(blocks[r.blob], r.off, r.size)]
    /\ Goto(t, "read")

Accepts(t, c) ==
    /\ pc[t] = "idle"
    /\ ops < MaxOps
    /\ ops' = ops + 1
    /\ ~ InUse(c.blob)
    /\ FlushWhileBusy \/ ~ FlushUses(c.blob)

PutBlob(t, c) ==
    /\ c.kind = "put"
    /\ Accepts(t, c)
    /\ BeginPut(t, [c EXCEPT !.data = [i \in 1 .. c.size |-> ops + 1]])
    /\ UNCHANGED <<targetVars, bdevVars, allocVars, credit, rc, flush, keep, content, chores>>

GetBlob(t, c) ==
    /\ c.kind = "get"
    /\ Accepts(t, c)
    /\ IF c.blob \in exists
       THEN BeginRead(t, c) /\ UNCHANGED rc
       ELSE Answer(t, 1) /\ UNCHANGED todo
    /\ UNCHANGED <<blobVars, targetVars, bdevVars, allocVars, credit, old, flush, keep, content, chores>>

DelBlob(t, c) ==
    /\ c.kind = "del"
    /\ Accepts(t, c)
    /\ IF c.blob \in exists
       THEN /\ req' = [req EXCEPT ![t] = c]
            /\ old' = [old EXCEPT ![t] = Size(c.blob)]
            /\ todo' = [todo EXCEPT ![t] = Groups(blocks[c.blob])]
            /\ Goto(t, "free")
            /\ UNCHANGED rc
       ELSE Answer(t, 1) /\ UNCHANGED <<todo, old>>
    /\ UNCHANGED <<blobVars, targetVars, bdevVars, allocVars, credit, flush, keep, content, chores>>

\* A blob whose score hardly changes, or that is empty, is left as it is.
\* Scores closer than the threshold are equal here.
ReorganizeBlob(t, c) ==
    /\ c.kind = "reorg"
    /\ Accepts(t, c)
    /\ IF c.blob \in exists /\ c.score # score[c.blob] /\ Size(c.blob) > 0
       THEN BeginRead(t, [c EXCEPT !.off = 0, !.size = Size(c.blob)]) /\ UNCHANGED rc
       ELSE Answer(t, IF c.blob \in exists THEN 0 ELSE 3) /\ UNCHANGED todo
    /\ UNCHANGED <<blobVars, targetVars, bdevVars, allocVars, credit, old, flush, keep, content, chores>>
-----------------------------------------------------------------------------
(* Reading: a device copies one slice into the buffer.                     *)

\* Mutant: every slice is copied to the start of the buffer.
BdevReadToStart(t, s) ==
    /\ pc[t] = "read"
    /\ s \in todo[t]
    /\ req' = [req EXCEPT ![t].data =
                  [i \in DOMAIN @ |-> IF i <= s.len
                                      THEN disk[s.tgt][s.at + i - 1] ELSE @[i]]]
    /\ todo' = [todo EXCEPT ![t] = @ \ {s}]
    /\ UNCHANGED <<blobVars, targetVars, bdevVars, allocVars, pc, credit, old, rc, flush, keep, history>>

BdevRead(t, s) ==
    /\ pc[t] = "read"
    /\ s \in todo[t]
    /\ req' = [req EXCEPT ![t].data =
                  [i \in DOMAIN @ |-> IF i > s.buf /\ i <= s.buf + s.len
                                      THEN disk[s.tgt][s.at + i - s.buf - 1] ELSE @[i]]]
    /\ todo' = [todo EXCEPT ![t] = @ \ {s}]
    /\ UNCHANGED <<blobVars, targetVars, bdevVars, allocVars, pc, credit, old, rc, flush, keep, history>>

\* All reads are answered: GetBlob returns, ReorganizeBlob sends its PutBlob
\* and FlushData frees the blocks on targets below its level.
ReadDone(t) ==
    LET bs == blocks[req[t].blob]
        low == {i \in DOMAIN bs : bs[i].tgt \in registered /\ Level[bs[i].tgt] < FlushLevel}
    IN /\ pc[t] = "read"
       /\ todo[t] = {}
       /\ \/ /\ req[t].kind = "get"
             /\ Answer(t, 0)
             /\ UNCHANGED <<todo, keep>>
          \/ /\ req[t].kind = "reorg"
             /\ Goto(t, "reput")
             /\ UNCHANGED <<rc, req, todo, keep>>
          \/ /\ req[t].kind = "flush"
             /\ todo' = [todo EXCEPT ![t] = Groups(Picked(bs, low))]
             /\ keep' = Picked(bs, DOMAIN bs \ low)
             /\ Goto(t, "free")
             /\ UNCHANGED <<rc, req>>
       /\ UNCHANGED <<blobVars, targetVars, bdevVars, allocVars, credit, old, flush, history>>

\* The PutBlob task that ReorganizeBlob or FlushData sent begins.
RePut(t) ==
    /\ pc[t] = "reput"
    /\ BeginPut(t, req[t])
    /\ UNCHANGED <<targetVars, bdevVars, allocVars, credit, rc, flush, keep, history>>
-----------------------------------------------------------------------------
(* FreeAllBlobBlocks and the like loop of FlushData.                       *)

\* FreeBlocks on the device: the blob's blocks come back as category 0.
BdevFree(t, g) ==
    /\ pc[t] = "free"
    /\ g \in todo[t]
    /\ recycled' = [recycled EXCEPT ![g.tgt][SmallBlock] = @ \o g.exts]
    /\ todo' = [todo EXCEPT ![t] = @ \ {g}]
    /\ credit' = [credit EXCEPT ![t] = g]
    /\ Goto(t, "freed")
    /\ UNCHANGED <<blobVars, targetVars, cursor, disk, allocVars, req, old, rc, flush, keep, history>>

\* The handler learns of it and credits the target, if it is still registered.
Credit(t) ==
    LET x == credit[t].tgt
    IN /\ pc[t] = "freed"
       /\ remaining' = IF x \in registered
                       THEN [remaining EXCEPT ![x] = @ + SizeOf(credit[t].exts)]
                       ELSE remaining
       /\ credit' = [credit EXCEPT ![t] = NoGroup]
       /\ Goto(t, "free")
       /\ UNCHANGED <<blobVars, registered, bdevVars, allocVars, req, todo, old, rc, flush, keep, history>>

\* Mutant: blocks_.clear() is forgotten.
FreedAllKeepsList(t) ==
    LET b == req[t].blob
        kind == req[t].kind
    IN /\ pc[t] = "free"
       /\ todo[t] = {}
       /\ IF kind = "flush"
          THEN /\ blocks' = [blocks EXCEPT ![b] = keep]
               /\ keep' = <<>>
               /\ req' = [req EXCEPT ![t].kind = "reput"]
               /\ Goto(t, "reput")
               /\ UNCHANGED <<exists, tag_size, old, rc, content>>
          ELSE IF kind = "del"
          THEN /\ blocks' = [blocks EXCEPT ![b] = <<>>]
               /\ tag_size' = Max({tag_size - old[t], 0})
               /\ exists' = exists \ {b}
               /\ content' = [content EXCEPT ![b] = <<>>]
               /\ old' = [old EXCEPT ![t] = 0]
               /\ Answer(t, 0)
               /\ UNCHANGED keep
          ELSE /\ UNCHANGED blocks
               /\ content' = IF kind = "put" THEN [content EXCEPT ![b] = <<>>] ELSE content
               /\ Goto(t, "extend")
               /\ UNCHANGED <<exists, tag_size, old, rc, req, keep>>
       /\ UNCHANGED <<score, targetVars, bdevVars, allocVars, todo, credit, flush, ops, chores>>

\* Every device has answered.  PutBlob goes on to ExtendBlob, FlushData to its
\* PutBlob; DelBlob adjusts the tag and erases the blob.
FreedAll(t) ==
    LET b == req[t].blob
        kind == req[t].kind
    IN /\ pc[t] = "free"
       /\ todo[t] = {}
       /\ IF kind = "flush"
          THEN /\ blocks' = [blocks EXCEPT ![b] = keep]
               /\ keep' = <<>>
               /\ req' = [req EXCEPT ![t].kind = "reput"]
               /\ Goto(t, "reput")
               /\ UNCHANGED <<exists, tag_size, old, rc, content>>
          ELSE IF kind = "del"
          THEN /\ blocks' = [blocks EXCEPT ![b] = <<>>]
               /\ tag_size' = Max({tag_size - old[t], 0})
               /\ exists' = exists \ {b}
               /\ content' = [content EXCEPT ![b] = <<>>]
               /\ old' = [old EXCEPT ![t] = 0]
               /\ Answer(t, 0)
               /\ UNCHANGED keep
          ELSE /\ blocks' = [blocks EXCEPT ![b] = <<>>]
               /\ content' = IF kind = "put" THEN [content EXCEPT ![b] = <<>>] ELSE content
               /\ Goto(t, "extend")
               /\ UNCHANGED <<exists, tag_size, old, rc, req, keep>>
       /\ UNCHANGED <<score, targetVars, bdevVars, allocVars, todo, credit, flush, ops, chores>>
-----------------------------------------------------------------------------
(* ExtendBlob and AllocateFromTarget.                                      *)

\* PutBlob gives up.  What a failed ReorganizeBlob or FlushData had read is
\* gone with its buffer.
Fail(t, code) ==
    /\ Answer(t, IF req[t].kind = "reorg" THEN 7 ELSE 10 + code)
    /\ content' = IF req[t].kind = "put" THEN content
                  ELSE [content EXCEPT ![req[t].blob] = <<>>]
    /\ old' = [old EXCEPT ![t] = 0]

\* The writes ModifyExistingData sends.
BeginWrite(t) ==
    /\ todo' = [todo EXCEPT ![t] = Slices(blocks[req[t].blob], req[t].off, req[t].size)]
    /\ Goto(t, "write")

ExtendBlob(t) ==
    LET need == req[t].off + req[t].size - Size(req[t].blob)
        orders == SelectTargets(req[t].score, need, req[t].level)
    IN /\ pc[t] = "extend"
       /\ \/ /\ need <= 0
             /\ BeginWrite(t)
             /\ UNCHANGED <<queue, left, req, rc, content, old>>
          \/ /\ need > 0
             /\ \E q \in orders :
                   /\ q # <<>>
                   /\ queue' = [queue EXCEPT ![t] = q]
                   /\ left' = [left EXCEPT ![t] = need]
                   /\ Goto(t, "alloc")
                   /\ UNCHANGED <<todo, req, rc, content, old>>
          \/ /\ need > 0
             /\ orders = {<<>>}
             /\ Fail(t, IF registered = {} THEN 1 ELSE 2)
             /\ UNCHANGED <<queue, left, todo>>
       /\ UNCHANGED <<blobVars, targetVars, bdevVars, asked, got, credit, flush, keep, ops, chores>>

\* Mutant: what is left to allocate is not considered.
TryTargetAllOfIt(t) ==
    LET x == Head(queue[t])
        n == IF x \in registered THEN remaining[x] ELSE 0
    IN /\ pc[t] = "alloc"
       /\ left[t] > 0
       /\ queue[t] # <<>>
       /\ IF n = 0
          THEN /\ queue' = [queue EXCEPT ![t] = Tail(@)]
               /\ UNCHANGED <<asked, pc>>
          ELSE /\ asked' = [asked EXCEPT ![t] = n]
               /\ Goto(t, "bdev")
               /\ UNCHANGED queue
       /\ UNCHANGED <<blobVars, targetVars, bdevVars, left, got, req, todo, credit, old, rc, flush, keep, history>>

\* The next target of the order: AllocateBlocks is sent unless the target is
\* gone or full by now.
TryTarget(t) ==
    LET x == Head(queue[t])
        n == IF x \in registered THEN Min({left[t], remaining[x]}) ELSE 0
    IN /\ pc[t] = "alloc"
       /\ left[t] > 0
       /\ queue[t] # <<>>
       /\ IF n = 0
          THEN /\ queue' = [queue EXCEPT ![t] = Tail(@)]
               /\ UNCHANGED <<asked, pc>>
          ELSE /\ asked' = [asked EXCEPT ![t] = n]
               /\ Goto(t, "bdev")
               /\ UNCHANGED queue
       /\ UNCHANGED <<blobVars, targetVars, bdevVars, left, got, req, todo, credit, old, rc, flush, keep, history>>

\* The loop over the targets ends.
Allocated(t) ==
    /\ pc[t] = "alloc"
    /\ left[t] = 0 \/ queue[t] = <<>>
    /\ IF left[t] = 0
       THEN BeginWrite(t) /\ UNCHANGED <<req, rc, content, old>>
       ELSE Fail(t, 3) /\ UNCHANGED todo
    /\ queue' = [queue EXCEPT ![t] = <<>>]
    /\ left' = [left EXCEPT ![t] = 0]
    /\ UNCHANGED <<blobVars, targetVars, bdevVars, asked, got, credit, flush, keep, ops, chores>>

\* One division of AllocateBlocks on the device: a recycled block of its
\* category, else the heap, whose cursor moves even when the block does not fit.
Granted(t) == SizeOf(got[t])
BdevAllocate(t) ==
    LET x == Head(queue[t])
        n == Min({MaxBlock, asked[t] - Granted(t)})
        k == IF n <= SmallBlock THEN SmallBlock ELSE MaxBlock
        b(off) == [off |-> off, size |-> n, cat |-> k]
    IN /\ pc[t] = "bdev"
       /\ Granted(t) < asked[t]
       /\ IF recycled[x][k] # <<>>
          THEN /\ got' = [got EXCEPT ![t] = Append(@, b(Head(recycled[x][k]).off))]
               /\ recycled' = [recycled EXCEPT ![x][k] = Tail(@)]
               /\ UNCHANGED <<cursor, queue, asked, pc>>
          ELSE /\ cursor' = [cursor EXCEPT ![x] = @ + k]
               /\ IF cursor[x] + k <= Capacity[x]
                  THEN /\ got' = [got EXCEPT ![t] = Append(@, b(cursor[x]))]
                       /\ UNCHANGED <<recycled, queue, asked, pc>>
                  ELSE /\ recycled' = [recycled EXCEPT ![x] =
                             [c \in Categories |->
                                @[c] \o Picked(got[t], {i \in DOMAIN got[t] :
                                                          got[t][i].cat = c})]]
                       /\ got' = [got EXCEPT ![t] = <<>>]
                       /\ asked' = [asked EXCEPT ![t] = 0]
                       /\ queue' = [queue EXCEPT ![t] = Tail(@)]
                       /\ Goto(t, "alloc")
       /\ UNCHANGED <<blobVars, targetVars, disk, left, req, todo, credit, old, rc, flush, keep, history>>

\* AllocateFromTarget resumes: the blob gets one block of the size asked for,
\* at the offset of the first block granted.  The space is charged to a copy
\* of the target's record.
TakeFirstBlock(t) ==
    /\ pc[t] = "bdev"
    /\ Granted(t) = asked[t]
    /\ blocks' = [blocks EXCEPT ![req[t].blob] =
                     Append(@, [tgt |-> Head(queue[t]), off |-> got[t][1].off, size |-> asked[t]])]
    /\ left' = [left EXCEPT ![t] = @ - asked[t]]
    /\ queue' = [queue EXCEPT ![t] = Tail(@)]
    /\ asked' = [asked EXCEPT ![t] = 0]
    /\ got' = [got EXCEPT ![t] = <<>>]
    /\ Goto(t, "alloc")
    /\ UNCHANGED <<exists, score, tag_size, targetVars, bdevVars, req, todo, credit, old, rc, flush, keep, history>>
-----------------------------------------------------------------------------
(* Writing and the end of PutBlob.                                         *)

BdevWrite(t, s) ==
    /\ pc[t] = "write"
    /\ s \in todo[t]
    /\ disk' = [disk EXCEPT ![s.tgt] =
                   [i \in DOMAIN @ |-> IF i >= s.at /\ i < s.at + s.len
                                       THEN req[t].data[s.buf + i - s.at + 1] ELSE @[i]]]
    /\ todo' = [todo EXCEPT ![t] = @ \ {s}]
    /\ UNCHANGED <<blobVars, targetVars, cursor, recycled, allocVars, pc, req, credit, old, rc, flush, keep, history>>

\* Every write is answered: the blob's score and the tag's size follow.
PutDone(t) ==
    LET b == req[t].blob
    IN /\ pc[t] = "write"
       /\ todo[t] = {}
       /\ score' = [score EXCEPT ![b] = req[t].score]
       /\ tag_size' = tag_size + Size(b) - old[t]
       /\ content' = IF req[t].kind = "put"
                     THEN [content EXCEPT ![b] = Overlay(@, req[t].off, req[t].data)]
                     ELSE content
       /\ old' = [old EXCEPT ![t] = 0]
       /\ Answer(t, 0)
       /\ UNCHANGED <<exists, blocks, targetVars, bdevVars, allocVars, todo, credit, flush, keep, ops, chores>>
-----------------------------------------------------------------------------
(* Background work.                                                        *)

Chore == chores < MaxChores /\ chores' = chores + 1

\* StatTargets replaces the record by what the device's GetStats reports.
StatTargets(x) ==
    /\ Chore
    /\ x \in registered
    /\ remaining' = [remaining EXCEPT ![x] = Max({Capacity[x] - cursor[x], 0})]
    /\ UNCHANGED <<blobVars, registered, bdevVars, allocVars, pc, req, todo, credit, old, rc, flush, keep, content, ops>>

\* The device and its blocks outlive the registration.
UnregisterTarget(x) ==
    /\ Chore
    /\ x \in registered
    /\ registered' = registered \ {x}
    /\ UNCHANGED <<blobVars, remaining, bdevVars, allocVars, pc, req, todo, credit, old, rc, flush, keep, content, ops>>

\* A target that is registered already is left as it is.
RegisterTarget(x) ==
    /\ Chore
    /\ x \notin registered
    /\ registered' = registered \cup {x}
    /\ remaining' = [remaining EXCEPT ![x] = Capacity[x]]
    /\ UNCHANGED <<blobVars, bdevVars, allocVars, pc, req, todo, credit, old, rc, flush, keep, content, ops>>

\* The scan of FlushData: blobs with a block on a target below the level.
FlushData ==
    /\ Chore
    /\ pc[Flusher] = "idle"
    /\ flush = {}
    /\ FlushWhileBusy \/ \A b \in Blobs : ~ InUse(b)
    /\ \E x \in registered : Level[x] >= FlushLevel
    /\ flush' = {[blob |-> b, size |-> Size(b), score |-> score[b]] :
                  b \in {c \in exists : \E i \in DOMAIN blocks[c] :
                            /\ blocks[c][i].tgt \in registered
                            /\ Level[blocks[c][i].tgt] < FlushLevel}}
    /\ UNCHANGED <<blobVars, targetVars, bdevVars, allocVars, pc, req, todo, credit, old, rc, keep, content, ops>>

\* The next blob of the scan, with the size and score it had then.
FlushNext(e) ==
    /\ pc[Flusher] = "idle"
    /\ e \in flush
    /\ flush' = flush \ {e}
    /\ IF e.blob \in exists /\ blocks[e.blob] # <<>>
       THEN BeginRead(Flusher, [kind |-> "flush", blob |-> e.blob, off |-> 0, size |-> e.size,
                                score |-> e.score, level |-> FlushLevel, data |-> <<>>])
       ELSE UNCHANGED <<pc, req, todo>>
    /\ UNCHANGED <<blobVars, targetVars, bdevVars, allocVars, credit, old, rc, keep, history>>
-----------------------------------------------------------------------------
Step(t) ==
    \/ \E s \in todo[t] : BdevRead(t, s) \/ BdevWrite(t, s) \/ BdevFree(t, s)
    \/ ReadDone(t)
    \/ RePut(t)
    \/ Credit(t)
    \/ FreedAll(t)
    \/ ExtendBlob(t)
    \/ TryTarget(t)
    \/ Allocated(t)
    \/ BdevAllocate(t)
    \/ TakeFirstBlock(t)
    \/ PutDone(t)

Call(t, c) == PutBlob(t, c) \/ GetBlob(t, c) \/ DelBlob(t, c) \/ ReorganizeBlob(t, c)

Next ==
    \/ \E t \in Clients, c \in Calls : Call(t, c)
    \/ \E t \in Tasks : Step(t)
    \/ \E x \in Targets : StatTargets(x) \/ UnregisterTarget(x) \/ RegisterTarget(x)
    \/ FlushData
    \/ \E e \in flush : FlushNext(e)

Spec == Init /\ [][Next]_vars

\* Workers run what is ready and devices answer.
FairSpec == Spec /\ \A t \in Tasks : WF_vars(Step(t))
-----------------------------------------------------------------------------
(* Properties.                                                             *)

\* Types; every return code is one a handler sets.
TypeOK ==
    /\ exists \subseteq Blobs
    /\ blocks \in [Blobs -> Seq(BlobBlock)]
    /\ score \in [Blobs -> Nat]
    /\ tag_size \in Nat
    /\ registered \subseteq Targets
    /\ remaining \in [Targets -> Nat]
    /\ cursor \in [Targets -> Nat]
    /\ \A x \in Targets : disk[x] \in [0 .. Capacity[x] - 1 -> Val]
    /\ pc \in [Tasks -> {"idle", "read", "reput", "free", "freed", "extend",
                         "alloc", "bdev", "write"}]
    /\ queue \in [Tasks -> Seq(Targets)]
    /\ left \in [Tasks -> Nat]
    /\ old \in [Tasks -> Nat]
    /\ rc \in [Tasks -> {0, 1, 3, 7, 11, 12, 13}]
    /\ content \in [Blobs -> Seq(Val)]

\* While its blocks go back to the devices, a blob lists some it has lost.
BeingFreed(b) == \E t \in Tasks : pc[t] \in {"free", "freed"} /\ req[t].blob = b

Apart(e, f) == e.off + e.size <= f.off \/ f.off + f.size <= e.off

\* No device byte is in two blocks of blobs, in a block and in the device's
\* recycled lists, or in a block and past the device's end.  Recycled blocks
\* are handed out again under sizes the engine, not the device, gave them.
BlocksApart ==
    \A b, c \in {d \in exists : ~ BeingFreed(d)} :
        \A i \in DOMAIN blocks[b] :
            LET e == blocks[b][i]
            IN /\ e.off + e.size <= Capacity[e.tgt]
               /\ \A j \in DOMAIN blocks[c] :
                     \/ b = c /\ i = j
                     \/ blocks[c][j].tgt # e.tgt
                     \/ Apart(e, blocks[c][j])
               /\ \A k \in Categories : \A j \in DOMAIN recycled[e.tgt][k] :
                     Apart(e, recycled[e.tgt][k][j])

\* The device byte that backs byte i (from 1) of a list of blocks.
ByteAt(bs, i) ==
    LET k == CHOOSE j \in DOMAIN bs : StartOf(bs, j) < i /\ i <= StartOf(bs, j) + bs[j].size
    IN disk[bs[k].tgt][bs[k].off + i - 1 - StartOf(bs, k)]

\* What clients have put into a blob is what its blocks hold, byte by byte,
\* whatever happened to other blobs and however often the blob was extended,
\* overwritten in part, reorganized or flushed.
Integrity ==
    \A b \in {c \in Blobs : ~ InUse(c) /\ ~ FlushUses(c)} :
        /\ Len(content[b]) <= Size(b)
        /\ \A i \in DOMAIN content[b] :
              content[b][i] # 0 => ByteAt(blocks[b], i) = content[b][i]

\* A GetBlob about to succeed has filled its buffer with what clients have put.
ReadsReturn ==
    \A t \in Clients : pc[t] = "read" /\ req[t].kind = "get" /\ todo[t] = {} =>
        \A i \in 1 .. req[t].size :
            LET p == req[t].off + i
            IN p <= Len(content[req[t].blob]) /\ content[req[t].blob][p] # 0
                 => req[t].data[i] = content[req[t].blob][p]

\* Every request is answered: no handler waits for a device for ever, tries
\* targets for ever or frees blocks for ever.
Answered == \A t \in Tasks : pc[t] # "idle" ~> pc[t] = "idle"

\* "Total size of all blobs in this tag" (TagInfo::total_size_, core_tasks.h).
TagSizeExact ==
    (\A t \in Tasks : pc[t] = "idle" /\ rc[t] = 0)
        => tag_size = FoldSet(LAMBDA b, n : Size(b) + n, 0, exists)

\* "Conditions: score in [0,1], offset == 0, size >= current blob size"
\* (ClearBlob, core_runtime.h): a PutBlob that does not cover the blob leaves
\* the bytes it does not write.
ShortPutKeepsTail ==
    [][\A t \in Clients, b \in Blobs :
         pc[t] = "free" /\ pc'[t] = "extend" /\ req[t].kind = "put" /\ req[t].blob = b
            => req[t].size >= Size(b)]_vars

\* "Remaining allocatable space in bytes" (TargetInfo::remaining_space_,
\* core_tasks.h) is never more than the device has.
RemainingBounded == \A x \in registered : remaining[x] <= Capacity[x]

\* "Periodic task to flush data from volatile to non-volatile targets"
\* (FlushDataTask, core_tasks.h): flushing moves a blob, it never drops it.
FlushNeverDrops ==
    [][\A b \in Blobs :
         content[b] # <<>> /\ content'[b] = <<>> =>
            \E t \in Clients : pc[t] # "idle" /\ req[t].blob = b]_vars

\* FlushData keeps away from blobs in use, and no put reaches beyond the largest
\* block.  AllocateFromTarget takes the first block of a larger one for all of it.
Fits ==
    /\ ~ FlushWhileBusy
    /\ \A c \in Calls : c.kind = "put" => c.off + c.size <= MaxBlock

\* The state is well formed and no byte of a device belongs to two blobs, or to a
\* blob and the recycled lists, whatever AllocateBlocks and FreeBlocks are under way.
StorageInv == TypeOK /\ BlocksApart
=============================================================================
