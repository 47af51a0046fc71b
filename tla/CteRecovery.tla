----------------------------- MODULE CteRecovery -----------------------------
(***************************************************************************)
(* How the transfer engine keeps its metadata across a restart             *)
(* (core_runtime.cc, transaction_log.h): tags and blobs live in maps; the  *)
(* handlers append what they change to write-ahead logs, two files per     *)
(* worker, through buffered streams; FlushMetadata rewrites a snapshot     *)
(* file, syncs the logs and truncates them when they have grown; a restart *)
(* reads the snapshot and replays the logs on top of it, all tag logs      *)
(* first, then all blob logs, worker by worker.                            *)
(*                                                                         *)
(* A blob is the list of its blocks; the bytes are in CteStorage.  A       *)
(* device is the set of the blocks it has granted since it started:        *)
(* bdev_runtime.cc keeps its allocation state in memory only.              *)
(*                                                                         *)
(* Clients are taken to order their own work: no two tasks change one blob *)
(* at once, and none works on a tag that is being deleted.                 *)
(***************************************************************************)
EXTENDS Integers, Sequences, FiniteSets, FiniteSetsExt, SequencesExt

CONSTANTS
    Names,         \* tag names
    BlobNames,     \* blob names
    Clients,       \* tasks that change metadata
    Workers,       \* number of workers, so of logs of each kind
    On,            \* the worker each client's tasks run on
    FlushOn,       \* the worker FlushMetadata runs on
    Blocks,        \* blocks the devices can grant
    Volatile,      \* those of them on targets of level kVolatile
    Modes,         \* "whole": offset 0, "append": at the end, "patch": inside
    Preferred,     \* tag ids clients may ask for each name, None for
                   \* no wish
    RemoteIds,     \* tag ids whose major is another node
    Absent,        \* stands for a blob that is not in the map
    MaxId,         \* bound: tag ids are 1 .. MaxId
    LogCapacity,   \* transaction_log_capacity_bytes_, in entries
    TornWrites,    \* whether a crash may leave part of a record in a file
    CrashInFlush,  \* whether a crash may hit FlushMetadata
    MaxOps,        \* bound: client operations
    MaxFlushes,    \* bound: calls of FlushMetadata
    MaxCrashes     \* bound: crashes and shutdowns

None == 0
Ids == 1 .. MaxId
Keys == Ids \X BlobNames
Logs == {"tag", "blob"} \X (0 .. Workers - 1)

ASSUME RecoveryAssumption ==
    /\ Workers \in Nat \ {0}
    /\ On \in [Clients -> 0 .. Workers - 1]
    /\ FlushOn \in 0 .. Workers - 1
    /\ Volatile \subseteq Blocks
    /\ Modes \subseteq {"whole", "append", "patch"}
    /\ RemoteIds \subseteq Ids
    /\ Preferred \in [Names -> SUBSET (Ids \cup {None})]
    /\ {LogCapacity, MaxOps, MaxFlushes, MaxCrashes, MaxId} \subseteq Nat
    /\ {TornWrites, CrashInFlush} \subseteq BOOLEAN

VARIABLES
    up,        \* whether the container exists
    names,     \* tag_name_to_id_
    info,      \* tag_id_to_info_, the name of each tag
    blobs,     \* tag_blob_name_to_info_, the blocks of each blob
    next,      \* next_tag_id_minor_
    used,      \* blocks the devices have granted and not got back
    job,       \* the client tasks
    todo,      \* what FlushMetadata has left to do
    wal_size,  \* total_wal_size
    snap,      \* the snapshot file
    disk,      \* the log files
    buf,       \* the streams' buffers
    seen,      \* history: values of the maps since the last completed flush
    mark,      \* history: values of the maps since the last flush began
    count      \* history: operations, flushes and crashes so far

memVars == <<names, info, blobs, next, used>>
fileVars == <<snap, disk, buf>>
vars == <<up, memVars, job, todo, wal_size, fileVars, seen, mark, count>>

Idle == [pc |-> "idle", kind |-> "none", key |-> <<None, None>>,
         rest |-> {}]
NoTags == [i \in Ids |-> None]
NoNames == [n \in Names |-> None]
NoBlobs == [k \in Keys |-> Absent]
EmptySnap == [tags |-> NoTags, blobs |-> NoBlobs]
Just(ns, bs) == [names |-> [n \in Names |-> {ns[n]}],
                 blobs |-> [k \in Keys |-> {bs[k]}]]
NoEntries == [l \in Logs |-> <<>>]

Entry(op, k, bs, n) == [op |-> op, key |-> k, blocks |-> bs, name |-> n]
TagEntry(op, i, n) == Entry(op, <<i, None>>, <<>>, n)
BlobEntry(op, k, bs) == Entry(op, k, bs, None)
TornEntry == Entry("torn", <<None, None>>, <<>>, None)
-----------------------------------------------------------------------------
(* Restart: the pure part.                                                 *)

\* What is left of a list of blocks once those on volatile targets are gone.
Durable(bs) == IF bs = Absent THEN Absent
               ELSE SelectSeq(bs, LAMBDA b : b \notin Volatile)

\* TransactionLog::Load: the entries before the first incomplete record.
Load(es) ==
    LET torn == {i \in DOMAIN es : es[i].op = "torn"}
    IN  IF torn = {} THEN es ELSE SubSeq(es, 1, Min(torn) - 1)

\* RestoreMetadataFromLog
RestoreMetadataFromLog(s) ==
    LET tags == {i \in Ids : s.tags[i] # None}
    IN  [names |-> [n \in Names |->
                      IF \E i \in tags : s.tags[i] = n
                      THEN Max({i \in tags : s.tags[i] = n}) ELSE None],
         info  |-> s.tags,
         blobs |-> [k \in Keys |-> Durable(s.blobs[k])],
         next  |-> Max({1} \cup {i + 1 : i \in tags})]

\* Mutant: replay does not move next_tag_id_minor_.
ReplayTagKeepsNext(m, e) ==
    LET i == e.key[1]
    IN  IF e.op = "CreateTag"
        THEN [m EXCEPT !.names[e.name] = i, !.info[i] = e.name]
        ELSE [m EXCEPT !.names[e.name] = None, !.info[i] = None,
                       !.blobs = [k \in Keys |-> IF k[1] = i THEN Absent ELSE @[k]]]

\* One entry of a tag log.
ReplayTag(m, e) ==
    LET i == e.key[1]
    IN  IF e.op = "CreateTag"
        THEN [m EXCEPT !.names[e.name] = i, !.info[i] = e.name,
                       !.next = Max({@, i + 1})]
        ELSE [m EXCEPT !.names[e.name] = None, !.info[i] = None,
                       !.blobs = [k \in Keys |-> IF k[1] = i THEN Absent ELSE @[k]]]

\* Mutant: an extension adds its blocks to the ones that are there.
ReplayBlobAppends(m, e) ==
    CASE e.op = "CreateNewBlob" -> [m EXCEPT !.blobs[e.key] = <<>>]
      [] e.op = "ExtendBlob" /\ m.blobs[e.key] # Absent ->
             [m EXCEPT !.blobs[e.key] = @ \o Durable(e.blocks)]
      [] e.op = "ClearBlob" /\ m.blobs[e.key] # Absent ->
             [m EXCEPT !.blobs[e.key] = <<>>]
      [] e.op = "DelBlob" -> [m EXCEPT !.blobs[e.key] = Absent]
      [] OTHER -> m

\* One entry of a blob log.  An extension carries the whole list of blocks.
ReplayBlob(m, e) ==
    CASE e.op = "CreateNewBlob" -> [m EXCEPT !.blobs[e.key] = <<>>]
      [] e.op = "ExtendBlob" /\ m.blobs[e.key] # Absent ->
             [m EXCEPT !.blobs[e.key] = Durable(e.blocks)]
      [] e.op = "ClearBlob" /\ m.blobs[e.key] # Absent ->
             [m EXCEPT !.blobs[e.key] = <<>>]
      [] e.op = "DelBlob" -> [m EXCEPT !.blobs[e.key] = Absent]
      [] OTHER -> m

\* The entries of all logs of one kind, in the order replay reads them.
InOrder(kind, files) ==
    FlattenSeq([i \in 1 .. Workers |-> Load(files[<<kind, i - 1>>])])

\* ReplayTransactionLogs
ReplayTransactionLogs(m, files) ==
    FoldLeft(ReplayBlob, FoldLeft(ReplayTag, m, InOrder("tag", files)),
             InOrder("blob", files))

Recovered(s, files) == ReplayTransactionLogs(RestoreMetadataFromLog(s), files)
-----------------------------------------------------------------------------
Init ==
    /\ up = TRUE
    /\ names = NoNames /\ info = NoTags /\ blobs = NoBlobs /\ next = 1
    /\ used = {}
    /\ job = [c \in Clients |-> Idle]
    /\ todo = <<>> /\ wal_size = 0
    /\ snap = EmptySnap /\ disk = NoEntries /\ buf = NoEntries
    /\ count = [ops |-> 0, flushes |-> 0, crashes |-> 0]
    /\ seen = Just(names, blobs) /\ mark = seen

\* FlushMetadata gives up its worker nowhere, so only tasks of other workers
\* run beside it.
MayRun(c) == up /\ (todo = <<>> \/ On[c] # FlushOn)

Start(c) ==
    /\ MayRun(c)
    /\ job[c].pc = "idle"
    /\ count.ops < MaxOps
    /\ count' = [count EXCEPT !.ops = @ + 1]

\* No task works on blob k or deletes its tag.
Unclaimed(k) ==
    \A c \in Clients : job[c].pc # "idle" =>
        /\ job[c].key # k
        /\ job[c].kind = "deltag" => job[c].key[1] # k[1]

Log(c, kind, e) == buf' = [buf EXCEPT ![<<kind, On[c]>>] = Append(@, e)]
Goto(c, loc) == job' = [job EXCEPT ![c].pc = loc]
Finish(c) == job' = [job EXCEPT ![c] = Idle]
Calm == UNCHANGED <<up, todo, wal_size, snap, disk>>

\* GetOrCreateTag of a tag another node owns: only the name is cached.
GetRemoteTag(c, n, i) ==
    /\ Start(c)
    /\ i \in RemoteIds
    /\ names' = [names EXCEPT ![n] = IF @ = None THEN i ELSE @]
    /\ UNCHANGED <<info, blobs, next, used, job, buf>> /\ Calm

\* GetOrCreateTag, GetOrAssignTagId and GenerateNewTagId of a new name.  A
\* name that is known changes nothing but a timestamp.
CreateTag(c, n, want) ==
    /\ Start(c)
    /\ want \notin RemoteIds
    /\ names[n] = None
    /\ LET wish == want # None /\ info[want] = None
           i    == IF wish THEN want ELSE next
       IN  /\ i \in Ids \ RemoteIds
           /\ next' = IF wish THEN next ELSE next + 1
           /\ names' = [names EXCEPT ![n] = i]
           /\ info' = [info EXCEPT ![i] = n]
           /\ Log(c, "tag", TagEntry("CreateTag", i, n))
    /\ UNCHANGED <<blobs, used, job>> /\ Calm

Begin(c, loc, kind, k, rest) ==
    job' = [job EXCEPT ![c] = [pc |-> loc, kind |-> kind, key |-> k, rest |-> rest]]

\* PutBlob up to its first await: a new blob is created at once, the blocks
\* of a blob that is replaced are to be freed first, a put that needs more
\* space goes on to ExtendBlob, and one inside the blob has nothing to wait for.
PutNew(c, k) ==
    /\ Start(c) /\ Unclaimed(k)
    /\ info[k[1]] # None
    /\ blobs[k] = Absent
    /\ blobs' = [blobs EXCEPT ![k] = <<>>]
    /\ Log(c, "blob", BlobEntry("CreateNewBlob", k, <<>>))
    /\ Begin(c, "extend", "put", k, {})
    /\ UNCHANGED <<names, info, next, used>> /\ Calm

PutOld(c, k, mode) ==
    /\ Start(c) /\ Unclaimed(k)
    /\ blobs[k] # Absent
    /\ mode = "patch" => blobs[k] # <<>>
    /\ CASE mode = "patch" ->
              /\ Log(c, "blob", BlobEntry("ExtendBlob", k, blobs[k]))
              /\ UNCHANGED job
         [] mode = "whole" /\ blobs[k] # <<>> ->
              Begin(c, "free", "put", k, {}) /\ UNCHANGED buf
         [] OTHER -> Begin(c, "extend", "put", k, {}) /\ UNCHANGED buf
    /\ UNCHANGED memVars /\ Calm

DelBlob(c, k) ==
    /\ Start(c) /\ Unclaimed(k)
    /\ blobs[k] # Absent
    /\ Begin(c, "free", "del", k, {})
    /\ UNCHANGED <<memVars, buf>> /\ Calm

\* DelTag: the blobs of the tag are listed, and deleted one by one.
DelTag(c, i) ==
    /\ Start(c)
    /\ info[i] # None
    /\ \A d \in Clients : job[d].pc # "idle" => job[d].key[1] # i
    /\ LET of == {b \in BlobNames : blobs[<<i, b>>] # Absent}
       IN  IF of = {} THEN Begin(c, "drop", "deltag", <<i, None>>, {})
           ELSE \E b \in of : Begin(c, "free", "deltag", <<i, b>>, of \ {b})
    /\ UNCHANGED <<memVars, buf>> /\ Calm

\* The device takes back the blocks of the blob.
BdevFree(c) ==
    /\ MayRun(c)
    /\ job[c].pc = "free"
    /\ used' = used \ ToSet(blobs[job[c].key])
    /\ Goto(c, "freed")
    /\ UNCHANGED <<names, info, blobs, next, buf, count>> /\ Calm

\* The rest of ClearBlob, back in PutBlob.
Cleared(c) ==
    /\ MayRun(c)
    /\ job[c].pc = "freed" /\ job[c].kind = "put"
    /\ blobs' = [blobs EXCEPT ![job[c].key] = <<>>]
    /\ Log(c, "blob", BlobEntry("ClearBlob", job[c].key, <<>>))
    /\ Goto(c, "extend")
    /\ UNCHANGED <<names, info, next, used, count>> /\ Calm

\* The rest of DelBlob, and DelTag's next one.
Erased(c) ==
    /\ MayRun(c)
    /\ job[c].pc = "freed" /\ job[c].kind # "put"
    /\ blobs' = [blobs EXCEPT ![job[c].key] = Absent]
    /\ Log(c, "blob", BlobEntry("DelBlob", job[c].key, <<>>))
    /\ IF job[c].kind = "del" THEN Finish(c)
       ELSE IF job[c].rest = {} THEN Goto(c, "drop")
       ELSE \E b \in job[c].rest :
              Begin(c, "free", "deltag", <<job[c].key[1], b>>, job[c].rest \ {b})
    /\ UNCHANGED <<names, info, next, used, count>> /\ Calm

\* Mutant: the deletion of a tag goes to the worker's blob log.
DropTagWrongLog(c) ==
    /\ MayRun(c)
    /\ job[c].pc = "drop"
    /\ LET i == job[c].key[1]
       IN  /\ names' = [names EXCEPT ![info[i]] = None]
           /\ info' = [info EXCEPT ![i] = None]
           /\ Log(c, "blob", TagEntry("DelTag", i, info[i]))
    /\ Finish(c)
    /\ UNCHANGED <<blobs, next, used, count>> /\ Calm

\* The rest of DelTag: the name, then the record of the tag.
DropTag(c) ==
    /\ MayRun(c)
    /\ job[c].pc = "drop"
    /\ LET i == job[c].key[1]
       IN  /\ names' = [names EXCEPT ![info[i]] = None]
           /\ info' = [info EXCEPT ![i] = None]
           /\ Log(c, "tag", TagEntry("DelTag", i, info[i]))
    /\ Finish(c)
    /\ UNCHANGED <<blobs, next, used, count>> /\ Calm

\* ExtendBlob gets a block and PutBlob logs the list of blocks; writing the
\* data changes no metadata.
Extended(c) ==
    /\ MayRun(c)
    /\ job[c].pc = "extend"
    /\ \E b \in Blocks \ used :
         /\ used' = used \cup {b}
         /\ blobs' = [blobs EXCEPT ![job[c].key] = Append(@, b)]
         /\ Log(c, "blob", BlobEntry("ExtendBlob", job[c].key, blobs'[job[c].key]))
    /\ Finish(c)
    /\ UNCHANGED <<names, info, next, count>> /\ Calm

\* No target has a block left and the put fails.
NoSpace(c) ==
    /\ MayRun(c)
    /\ job[c].pc = "extend"
    /\ used = Blocks
    /\ Finish(c)
    /\ UNCHANGED <<memVars, buf, count>> /\ Calm
-----------------------------------------------------------------------------
(* FlushMetadata, one file operation after the other.                      *)

Each(op, kind) == [i \in 1 .. Workers |-> <<op, <<kind, i - 1>>>>]

\* The snapshot file is opened and emptied.
FlushMetadata ==
    /\ up /\ todo = <<>>
    /\ count.flushes < MaxFlushes
    /\ count' = [count EXCEPT !.flushes = @ + 1]
    /\ snap' = EmptySnap
    /\ wal_size' = 0
    /\ todo' = <<<<"tags", None>>, <<"blobs", None>>>>
               \o Each("sync", "blob") \o Each("sync", "tag") \o <<<<"measure", None>>>>
    /\ UNCHANGED <<up, memVars, job, disk, buf>>

FlushStep(op) ==
    /\ todo # <<>> /\ todo[1][1] = op
    /\ UNCHANGED <<up, memVars, job, count>>

WriteTags ==
    /\ FlushStep("tags")
    /\ snap' = [snap EXCEPT !.tags = info]
    /\ todo' = Tail(todo)
    /\ UNCHANGED <<wal_size, disk, buf>>

\* Mutant: blobs without blocks are left out of the snapshot.
WriteBlobsNonEmpty ==
    /\ FlushStep("blobs")
    /\ snap' = [snap EXCEPT !.blobs =
                  [k \in Keys |-> IF blobs[k] = <<>> THEN Absent ELSE blobs[k]]]
    /\ todo' = Tail(todo)
    /\ UNCHANGED <<wal_size, disk, buf>>

WriteBlobs ==
    /\ FlushStep("blobs")
    /\ snap' = [snap EXCEPT !.blobs = blobs]
    /\ todo' = Tail(todo)
    /\ UNCHANGED <<wal_size, disk, buf>>

Flushed(l) ==
    /\ disk' = [disk EXCEPT ![l] = @ \o buf[l]]
    /\ buf' = [buf EXCEPT ![l] = <<>>]

\* Mutant: Size is read, but the stream is not flushed.
SyncSizeOnly ==
    /\ FlushStep("sync")
    /\ wal_size' = wal_size + Len(disk[todo[1][2]])
    /\ todo' = Tail(todo)
    /\ UNCHANGED fileVars

Sync ==
    /\ FlushStep("sync")
    /\ Flushed(todo[1][2])
    /\ wal_size' = wal_size + Len(disk'[todo[1][2]])
    /\ todo' = Tail(todo)
    /\ UNCHANGED snap

\* The logs are truncated when together they exceed the capacity.
Measure ==
    /\ FlushStep("measure")
    /\ todo' = IF wal_size > LogCapacity
               THEN Each("truncate", "blob") \o Each("truncate", "tag") ELSE <<>>
    /\ UNCHANGED <<wal_size, fileVars>>

Truncate ==
    /\ FlushStep("truncate")
    /\ disk' = [disk EXCEPT ![todo[1][2]] = <<>>]
    /\ buf' = [buf EXCEPT ![todo[1][2]] = <<>>]
    /\ todo' = Tail(todo)
    /\ UNCHANGED <<wal_size, snap>>

\* A stream's buffer is full and its first record reaches the file.
Spill(l) ==
    /\ up /\ buf[l] # <<>>
    /\ disk' = [disk EXCEPT ![l] = Append(@, Head(buf[l]))]
    /\ buf' = [buf EXCEPT ![l] = Tail(@)]
    /\ UNCHANGED <<up, memVars, job, todo, wal_size, snap, count>>
-----------------------------------------------------------------------------
GoDown ==
    /\ up
    /\ count.crashes < MaxCrashes
    /\ count' = [count EXCEPT !.crashes = @ + 1]
    /\ up' = FALSE
    /\ names' = NoNames /\ info' = NoTags /\ blobs' = NoBlobs /\ next' = 1
    /\ used' = {}
    /\ job' = [c \in Clients |-> Idle]
    /\ todo' = <<>> /\ wal_size' = 0
    /\ buf' = NoEntries
    /\ UNCHANGED snap

\* The process dies: what the streams hold is lost, and the first record of a
\* buffer may have reached its file in part.
Crash ==
    /\ GoDown
    /\ CrashInFlush \/ todo = <<>>
    /\ \E T \in SUBSET {l \in Logs : TornWrites /\ buf[l] # <<>>} :
         disk' = [l \in Logs |-> IF l \in T THEN Append(disk[l], TornEntry) ELSE disk[l]]

\* Destroy closes the logs.
Destroy ==
    /\ todo = <<>>
    /\ \A c \in Clients : job[c].pc = "idle"
    /\ GoDown
    /\ disk' = [l \in Logs |-> disk[l] \o buf[l]]

\* Create of a container that is restarted.  The logs are opened for append.
Restart ==
    /\ ~up
    /\ up' = TRUE
    /\ LET m == Recovered(snap, disk)
       IN  names' = m.names /\ info' = m.info /\ blobs' = m.blobs /\ next' = m.next
    /\ UNCHANGED <<used, job, todo, wal_size, fileVars, count>>

ClientStep ==
    \E c \in Clients :
      \/ \E n \in Names, i \in RemoteIds :
           i \in Preferred[n] /\ GetRemoteTag(c, n, i)
      \/ \E n \in Names : \E i \in Preferred[n] : CreateTag(c, n, i)
      \/ \E k \in Keys : PutNew(c, k)
      \/ \E k \in Keys, m \in Modes : PutOld(c, k, m)
      \/ \E k \in Keys : DelBlob(c, k)
      \/ \E i \in Ids : DelTag(c, i)
      \/ BdevFree(c)
      \/ Cleared(c)
      \/ Erased(c)
      \/ DropTag(c)
      \/ Extended(c)
      \/ NoSpace(c)

FlushSteps == WriteTags \/ WriteBlobs \/ Sync \/ Measure \/ Truncate

\* The values a restart may bring back: those the maps had when the last
\* completed flush began, or at the last shutdown, and since.
With(h) == [names |-> [n \in Names |-> h.names[n] \cup {names'[n]}],
            blobs |-> [k \in Keys |-> h.blobs[k] \cup {blobs'[k]}]]
Observe ==
    CASE FlushMetadata               -> seen' = seen /\ mark' = Just(names, blobs)
      [] todo # <<>> /\ todo' = <<>> /\ up' -> seen' = mark /\ mark' = mark
      [] Destroy                     -> seen' = Just(names, blobs) /\ mark' = seen'
      [] ~up'                        -> UNCHANGED <<seen, mark>>
      [] OTHER                       -> seen' = With(seen) /\ mark' = With(mark)

Next ==
    /\ \/ ClientStep
       \/ FlushMetadata
       \/ FlushSteps
       \/ \E l \in Logs : Spill(l)
       \/ Crash
       \/ Destroy
       \/ Restart
    /\ Observe

Spec == Init /\ [][Next]_vars
-----------------------------------------------------------------------------
Kept(i) == IF i \in RemoteIds THEN None ELSE i
TagOps == {"CreateTag", "DelTag", "torn"}
BlobOps == {"CreateNewBlob", "ExtendBlob", "ClearBlob", "DelBlob", "torn"}
EntryOK(l, e) ==
    /\ e.op \in IF l[1] = "tag" THEN TagOps ELSE BlobOps
    /\ ToSet(e.blocks) \subseteq Blocks

\* Type invariant; a log file holds only the transactions its replay phase
\* understands.
TypeOK ==
    /\ names \in [Names -> Ids \cup {None}]
    /\ info \in [Ids -> Names \cup {None}]
    /\ \A k \in Keys : blobs[k] # Absent => ToSet(blobs[k]) \subseteq Blocks
    /\ next \in 1 .. MaxId + 1
    /\ used \subseteq Blocks
    /\ \A l \in Logs : \A i \in DOMAIN disk[l] : EntryOK(l, disk[l][i])
    /\ \A l \in Logs : \A i \in DOMAIN buf[l] : EntryOK(l, buf[l][i])

\* A restart (RestoreMetadataFromLog, ReplayTransactionLogs) never brings
\* back a state from before the last FlushMetadata or Destroy that finished:
\* every tag name and every blob has a value it had then or later, up to the
\* blocks that were on volatile targets and to cached ids of other nodes.
RecoversFlushed ==
    [][Restart =>
         /\ \A n \in Names : names'[n] \in {Kept(i) : i \in seen.names[n]}
         /\ \A k \in Keys : blobs'[k] \in {Durable(v) : v \in seen.blobs[k]}]_vars

\* While the engine runs, and no file has an incomplete record, what is in its
\* files and buffers always amounts to what is in its maps: a restart after a
\* shutdown would bring back every tag and every blob that no task is working
\* on.
LogDescribesState ==
    up /\ todo = <<>> /\ (\A l \in Logs : TornEntry \notin ToSet(disk[l])) =>
      LET m == Recovered(snap, [l \in Logs |-> disk[l] \o buf[l]])
      IN  /\ m.info = info
          /\ \A n \in Names : m.names[n] = Kept(names[n])
          /\ \A k \in Keys : Unclaimed(k) => m.blobs[k] = Durable(blobs[k])

\* Two tag names never share an id, so their blobs are never mixed up, also
\* after restarts (GetOrAssignTagId, next_tag_id_minor_).
TagIdsDistinct ==
    \A m, n \in Names : m # n /\ names[m] # None => names[m] # names[n]

\* Every blob belongs to a tag that exists: replay handles the tag logs first
\* because "tags must exist before blob ops".
BlobsHaveTags ==
    \A k \in Keys : blobs[k] # Absent => info[k[1]] # None

\* No two blobs, and no two places of one blob, have the same block: a device
\* never grants a block that a restored blob still lists.
BlocksApart ==
    \A j, k \in Keys : j # k /\ blobs[j] # Absent /\ blobs[k] # Absent =>
        ToSet(blobs[j]) \cap ToSet(blobs[k]) = {}

\* The state is well formed and at every moment, within FlushMetadata too, the
\* snapshot, the logs and their buffers amount to the maps.
RecoveryInv == TypeOK /\ LogDescribesState
=============================================================================
