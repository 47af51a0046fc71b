-------------------------- MODULE CteStorageProofs --------------------------
(***************************************************************************)
(* Proofs about CteStorage: for any targets, blobs, clients and requests   *)
(* that fit a block, no byte of a device is in two blobs, and blobs hold   *)
(* and reads return what clients have put.                                 *)
(***************************************************************************)
EXTENDS CteStorage, WellFoundedInduction, FiniteSetTheorems, TLAPS


-----------------------------------------------------------------------------
(* Types.                                                                  *)

Slice == [tgt : Targets, at : Nat, buf : Nat, len : Nat]
Group == [tgt : Targets, exts : Seq(Extent)]
Grant == [off : Nat, size : Nat \ {0}, cat : Categories]
Request ==
  [kind : {"put", "get", "del", "reorg", "flush", "reput"}, blob : Blobs,
   off : Nat, size : Nat, score : Int, level : Nat, data : Seq(Val)]
Scanned == [blob : Blobs, size : Nat, score : Nat]
Places == {"idle", "read", "reput", "free", "freed", "extend", "alloc", "bdev", "write"}

BlobTypes ==
  /\ exists \subseteq Blobs
  /\ blocks \in [Blobs -> Seq(BlobBlock)]
  /\ score \in [Blobs -> Nat]
  /\ tag_size \in Nat
TargetTypes ==
  /\ registered \subseteq Targets
  /\ remaining \in [Targets -> Nat]
DeviceTypes ==
  /\ cursor \in [Targets -> Nat]
  /\ recycled \in [Targets -> [Categories -> Seq(Extent)]]
DiskTypes ==
  /\ DOMAIN disk = Targets
  /\ \A x \in Targets : disk[x] \in [0 .. Capacity[x] - 1 -> Val]
AllocTypes ==
  /\ queue \in [Tasks -> Seq(Targets)]
  /\ left \in [Tasks -> Nat]
  /\ asked \in [Tasks -> Nat]
  /\ got \in [Tasks -> Seq(Grant)]
TaskTypes ==
  /\ pc \in [Tasks -> Places]
  /\ req \in [Tasks -> Request \cup {NoRequest}]
  /\ todo \in [Tasks -> SUBSET (Slice \cup Group)]
  /\ credit \in [Tasks -> Group \cup {NoGroup}]
  /\ old \in [Tasks -> Nat]
  /\ rc \in [Tasks -> {0, 1, 3, 7, 11, 12, 13}]
OtherTypes ==
  /\ flush \subseteq Scanned
  /\ keep \in Seq(BlobBlock)
  /\ content \in [Blobs -> Seq(Val)]
  /\ ops \in 0 .. MaxOps
Types ==
  BlobTypes /\ TargetTypes /\ DeviceTypes /\ DiskTypes /\ AllocTypes /\ TaskTypes /\ OtherTypes

-----------------------------------------------------------------------------
(* Where the handlers are.                                                 *)

Freeing(t) == pc[t] \in {"free", "freed"}
Growing(t) == pc[t] \in {"extend", "alloc", "bdev"}
Cat(n) == IF n <= SmallBlock THEN SmallBlock ELSE MaxBlock

\* What a handler's request looks like while it works.
Serves(t) ==
  /\ req[t] \in Request
  /\ req[t].blob \in exists
  /\ req[t].kind \in {"flush", "reput"} <=> t = Flusher
  /\ req[t].kind \in {"reorg", "flush", "reput"} => req[t].off = 0
  /\ req[t].kind \notin {"get", "del"} => req[t].off + req[t].size <= MaxBlock
  /\ req[t].kind # "del" => Len(req[t].data) = req[t].size
AtRead(t) ==
  /\ todo[t] \subseteq Slices(blocks[req[t].blob], req[t].off, req[t].size)
  /\ req[t].kind \in {"get", "reorg", "flush"}
  /\ req[t].kind # "get" => req[t].size = Size(req[t].blob)
AtReput(t) == req[t].kind \in {"reorg", "reput"}
AtFree(t) ==
  /\ req[t].kind # "get"
  /\ todo[t] \subseteq Group
  /\ req[t].kind \in {"put", "reorg", "reput"} => req[t].score \in Nat /\ old[t] = 0
AtGrow(t) ==
  /\ req[t].kind \in {"put", "reorg", "reput"}
  /\ old[t] <= Size(req[t].blob)
  /\ req[t].score \in Nat
AtAlloc(t) == Size(req[t].blob) + left[t] = req[t].off + req[t].size
AtBdev(t) ==
  /\ queue[t] # <<>>
  /\ asked[t] \in 1 .. left[t]
  /\ got[t] # <<>> => /\ Len(got[t]) = 1
                      /\ got[t][1].size = asked[t]
AtWrite(t) ==
  /\ todo[t] \subseteq Slices(blocks[req[t].blob], req[t].off, req[t].size)
  /\ req[t].off + req[t].size <= Size(req[t].blob)

TaskOK(t) ==
  /\ pc[t] # "idle" => Serves(t)
  /\ pc[t] = "read" => AtRead(t)
  /\ pc[t] = "reput" => AtReput(t)
  /\ Freeing(t) => AtFree(t)
  /\ pc[t] = "freed" => credit[t] \in Group
  /\ Growing(t) \/ pc[t] = "write" => AtGrow(t)
  /\ pc[t] \in {"alloc", "bdev"} => AtAlloc(t)
  /\ pc[t] = "bdev" => AtBdev(t)
  /\ pc[t] = "write" => AtWrite(t)
  /\ pc[t] # "bdev" => got[t] = <<>>

\* One handler works on a blob.
Alone ==
  \A t, u \in Tasks : t # u /\ pc[t] # "idle" /\ pc[u] # "idle" => req[t].blob # req[u].blob

\* What FlushData has found is as it was.
ScanOK ==
  /\ \A e \in flush : \A t \in Tasks : pc[t] # "idle" => req[t].blob # e.blob
  /\ \A e, f \in flush : e.blob = f.blob => e = f
  /\ \A e \in flush : e.blob \in exists /\ e.size = Size(e.blob)

\* The blob of which FlushData has freed a part.
Cut(b) ==
  /\ req[Flusher].kind = "reput"
  /\ req[Flusher].blob = b
  /\ pc[Flusher] \in {"reput", "free", "freed"}

\* A blob is no larger than the largest block, and empty unless it exists.
BlobOK(b) ==
  /\ Size(b) <= MaxBlock \/ Cut(b)
  /\ b \notin exists => blocks[b] = <<>> /\ content[b] = <<>>

KeepOK ==
  keep # <<>> => Freeing(Flusher) /\ req[Flusher].kind = "flush"

-----------------------------------------------------------------------------
(* Who holds which part of a device.  G has the length of the cell that    *)
(* begins at an offset of a target, 0 when none does; H says who holds it. *)

Holder == ({"blob"} \X Blobs) \cup ({"list"} \X Categories) \cup ({"task"} \X Tasks)

\* Blocks that begin at different places.
Distinct(bs) ==
  \A i, j \in 1 .. Len(bs) : i # j /\ bs[i].tgt = bs[j].tgt => bs[i].off # bs[j].off
DistinctOffs(es) ==
  \A i, j \in 1 .. Len(es) : i # j => es[i].off # es[j].off

\* Cells are apart, and in the part of the device that was given out.
Grid(G) ==
  /\ G \in [Targets -> [Nat -> Nat]]
  /\ \A x \in Targets : \A o \in Nat :
        G[x][o] > 0 => o + G[x][o] <= cursor[x] /\ o + G[x][o] <= Capacity[x]
  /\ \A x \in Targets : \A o, p \in Nat :
        o < p /\ G[x][o] > 0 /\ G[x][p] > 0 => o + G[x][o] <= p

\* The extent e of target x is the cell of h, or a part of it.
Holds(G, H, h, x, e) ==
  H[x][e.off] = h /\ e.size <= G[x][e.off] /\ SmallBlock <= G[x][e.off]

HeldBlocks(G, H, b, bs) ==
  /\ Distinct(bs)
  /\ \A i \in 1 .. Len(bs) : Holds(G, H, <<"blob", b>>, bs[i].tgt, bs[i])

HeldGroups(G, H, b, gs) ==
  /\ \A g \in gs : /\ DistinctOffs(g.exts)
                   /\ \A i \in 1 .. Len(g.exts) : Holds(G, H, <<"blob", b>>, g.tgt, g.exts[i])
  /\ \A g, h \in gs : g.tgt = h.tgt => g = h

HeldList(G, H, x, k) ==
  /\ DistinctOffs(recycled[x][k])
  /\ \A i \in 1 .. Len(recycled[x][k]) :
        /\ Holds(G, H, <<"list", k>>, x, recycled[x][k][i])
        /\ k <= G[x][recycled[x][k][i].off]

HeldGot(G, H, t) ==
  got[t] # <<>> => Holds(G, H, <<"task", t>>, Head(queue[t]), got[t][1])

\* FlushData keeps blocks of other targets than those it frees blocks of.
HeldKeep(G, H) ==
  keep # <<>> =>
    /\ HeldBlocks(G, H, req[Flusher].blob, keep)
    /\ \A g \in todo[Flusher] : \A i \in 1 .. Len(keep) : keep[i].tgt # g.tgt

Held(G, H) ==
  /\ Grid(G)
  /\ H \in [Targets -> [Nat -> Holder]]
  /\ \A b \in Blobs : ~ BeingFreed(b) => HeldBlocks(G, H, b, blocks[b])
  /\ \A t \in Tasks : Freeing(t) => HeldGroups(G, H, req[t].blob, todo[t])
  /\ \A x \in Targets : \A k \in Categories : HeldList(G, H, x, k)
  /\ \A t \in Tasks : HeldGot(G, H, t)
  /\ HeldKeep(G, H)

\* The inductive invariant.
Inv ==
  /\ Types
  /\ \A t \in Tasks : TaskOK(t)
  /\ Alone
  /\ ScanOK
  /\ \A b \in Blobs : BlobOK(b)
  /\ KeepOK
  /\ \E G, H : Held(G, H)
-----------------------------------------------------------------------------
(* Sums, and parts of sequences.                                           *)

\* A nonempty set of natural numbers has a least member.
LEMMA LeastNat ==
  ASSUME NEW T, T \subseteq Nat, T # {}
  PROVE  \E x \in T : \A y \in T : x <= y
<1>1. \E x \in T : \A y \in T : ~ (<<y, x>> \in OpToRel(<, Nat))
  BY WFMin, NatLessThanWellFounded
<1>2. PICK x \in T : \A y \in T : ~ (<<y, x>> \in OpToRel(<, Nat))
  BY <1>1
<1>3. \A y \in T : ~(y < x)
  BY <1>2 DEF OpToRel
<1>4. \A y \in T : x <= y
  BY <1>3
<1> QED BY <1>4

\* Sequences of blocks or extents.
Sized(bs) == Len(bs) \in Nat /\ \A i \in 1 .. Len(bs) : bs[i].size \in Nat

\* e has the ends of the first n blocks of bs.
EndsUpTo(e, bs, n) ==
  /\ e \in [0 .. n -> Nat]
  /\ e[0] = 0
  /\ \A i \in 1 .. n : e[i] = e[i - 1] + bs[i].size

\* There are such ends.
LEMMA EndsExist ==
  ASSUME NEW bs, Sized(bs), NEW n \in 0 .. Len(bs)
  PROVE  \E e : EndsUpTo(e, bs, n)
<1> DEFINE Bad == {m \in 0 .. Len(bs) : ~ \E e : EndsUpTo(e, bs, m)}
<1>0. Len(bs) \in Nat
  BY DEF Sized
<1>1. SUFFICES ASSUME Bad # {} PROVE FALSE
  OBVIOUS
<1>2. PICK m \in Bad : \A y \in Bad : m <= y
  <2>1. Bad \subseteq Nat
    BY <1>0
  <2> HIDE DEF Bad
  <2> QED BY <1>1, <2>1, LeastNat
<1>3. m # 0
  <2> SUFFICES ASSUME m = 0 PROVE FALSE
    OBVIOUS
  <2>1. EndsUpTo([i \in 0 .. 0 |-> 0], bs, 0)
    BY DEF EndsUpTo
  <2> QED BY <2>1
<1>4. m \in Nat \ {0} /\ m <= Len(bs)
  BY <1>0, <1>3
<1>5. m - 1 \in 0 .. Len(bs) /\ m - 1 \notin Bad
  BY <1>0, <1>2, <1>4
<1>6. PICK e : EndsUpTo(e, bs, m - 1)
  BY <1>5
<1>7. bs[m].size \in Nat
  BY <1>4, <1>0 DEF Sized
<1> DEFINE g == [i \in 0 .. m |-> IF i = m THEN e[m - 1] + bs[m].size ELSE e[i]]
<1>8. g \in [0 .. m -> Nat]
  BY <1>4, <1>6, <1>7 DEF EndsUpTo
<1>9. g[0] = 0
  BY <1>4, <1>6 DEF EndsUpTo
<1>10. \A i \in 1 .. m : g[i] = g[i - 1] + bs[i].size
  BY <1>4, <1>6 DEF EndsUpTo
<1>11. EndsUpTo(g, bs, m)
  BY <1>8, <1>9, <1>10 DEF EndsUpTo
<1> QED BY <1>11

\* Ends computes them.
LEMMA EndsAre ==
  ASSUME NEW bs, Sized(bs)
  PROVE  EndsUpTo(Ends(bs), bs, Len(bs))
<1>0. Len(bs) \in Nat
  BY DEF Sized
<1>1. PICK e : EndsUpTo(e, bs, Len(bs))
  BY <1>0, EndsExist
<1> DEFINE F(f) == [i \in 0 .. Len(bs) |-> IF i = 0 THEN 0 ELSE f[i - 1] + bs[i].size]
<1>2. e = F(e)
  BY <1>0, <1>1 DEF EndsUpTo
<1>3. Ends(bs) = CHOOSE f : f = F(f)
  BY DEF Ends
<1>4. Ends(bs) = F(Ends(bs))
  BY <1>2, <1>3
<1>5. DOMAIN Ends(bs) = 0 .. Len(bs)
  BY <1>4
<1>6. Ends(bs)[0] = 0
  BY <1>0, <1>4
<1>7. \A i \in 1 .. Len(bs) : Ends(bs)[i] = Ends(bs)[i - 1] + bs[i].size
  BY <1>0, <1>4
<1> DEFINE Bad == {i \in 0 .. Len(bs) : Ends(bs)[i] \notin Nat}
<1>8. Bad = {}
  <2>1. SUFFICES ASSUME Bad # {} PROVE FALSE
    OBVIOUS
  <2>2. PICK m \in Bad : \A y \in Bad : m <= y
    <3>1. Bad \subseteq Nat
      BY <1>0
    <3> HIDE DEF Bad
    <3> QED BY <2>1, <3>1, LeastNat
  <2>3. m # 0
    BY <1>6
  <2>4. m \in 1 .. Len(bs) /\ m - 1 \in 0 .. Len(bs) /\ m - 1 \notin Bad
    BY <1>0, <2>2, <2>3
  <2>5. Ends(bs)[m - 1] \in Nat /\ bs[m].size \in Nat
    BY <2>4 DEF Sized
  <2>6. Ends(bs)[m] = Ends(bs)[m - 1] + bs[m].size
    BY <1>7, <2>4
  <2> QED BY <2>2, <2>5, <2>6
<1>9. Ends(bs) \in [0 .. Len(bs) -> Nat]
  BY <1>4, <1>5, <1>8
<1> QED BY <1>6, <1>7, <1>9 DEF EndsUpTo

\* Ends that satisfy the recursion agree.
LEMMA EndsAgree ==
  ASSUME NEW bs, NEW cs, Sized(bs), Sized(cs), NEW n \in Nat,
         n <= Len(bs), n <= Len(cs),
         \A i \in 1 .. n : bs[i] = cs[i]
  PROVE  \A i \in 0 .. n : Ends(bs)[i] = Ends(cs)[i]
<1> DEFINE Bad == {i \in 0 .. n : Ends(bs)[i] # Ends(cs)[i]}
<1>0. EndsUpTo(Ends(bs), bs, Len(bs)) /\ EndsUpTo(Ends(cs), cs, Len(cs))
  BY EndsAre
<1>1. SUFFICES ASSUME Bad # {} PROVE FALSE
  OBVIOUS
<1>2. PICK m \in Bad : \A y \in Bad : m <= y
  <2>1. Bad \subseteq Nat
    OBVIOUS
  <2> HIDE DEF Bad
  <2> QED BY <1>1, <2>1, LeastNat
<1>3. m # 0
  BY <1>0 DEF EndsUpTo
<1>4. m \in 1 .. n /\ m - 1 \in 0 .. n /\ m - 1 \notin Bad
  BY <1>2, <1>3
<1>5. m \in 1 .. Len(bs) /\ m \in 1 .. Len(cs)
  BY <1>4 DEF Sized
<1>6. Ends(bs)[m] = Ends(bs)[m - 1] + bs[m].size /\ Ends(cs)[m] = Ends(cs)[m - 1] + cs[m].size
  BY <1>0, <1>5 DEF EndsUpTo
<1> QED BY <1>2, <1>4, <1>6

\* Ends do not decrease.
LEMMA EndsMono ==
  ASSUME NEW bs, Sized(bs), NEW i \in 0 .. Len(bs), NEW j \in 0 .. Len(bs), i <= j
  PROVE  Ends(bs)[i] <= Ends(bs)[j]
<1> DEFINE Bad == {k \in i .. Len(bs) : Ends(bs)[k] < Ends(bs)[i]}
<1>0. Len(bs) \in Nat /\ EndsUpTo(Ends(bs), bs, Len(bs))
  BY EndsAre DEF Sized
<1>1. SUFFICES ASSUME Bad # {} PROVE FALSE
  <2>1. Bad = {} => ~ (Ends(bs)[j] < Ends(bs)[i])
    BY <1>0
  <2>2. Ends(bs)[i] \in Nat /\ Ends(bs)[j] \in Nat
    BY <1>0 DEF EndsUpTo
  <2> QED BY <2>1, <2>2
<1>2. PICK m \in Bad : \A y \in Bad : m <= y
  <2>1. Bad \subseteq Nat
    BY <1>0
  <2> HIDE DEF Bad
  <2> QED BY <1>1, <2>1, LeastNat
<1>3. m # i
  BY <1>0 DEF EndsUpTo
<1>4. m \in 1 .. Len(bs) /\ m - 1 \in i .. Len(bs) /\ m - 1 \notin Bad
  BY <1>0, <1>2, <1>3
<1>5. Ends(bs)[m] = Ends(bs)[m - 1] + bs[m].size /\ bs[m].size \in Nat
  BY <1>0, <1>4 DEF EndsUpTo, Sized
<1>6. Ends(bs)[m - 1] \in Nat /\ Ends(bs)[i] \in Nat /\ Ends(bs)[m] \in Nat
  BY <1>0, <1>4 DEF EndsUpTo
<1>7. ~ (Ends(bs)[m - 1] < Ends(bs)[i])
  BY <1>4
<1> QED BY <1>2, <1>5, <1>6, <1>7

\* The ends of a sequence, as the other lemmas use them.
LEMMA EndsFacts ==
  ASSUME NEW bs, Sized(bs)
  PROVE  /\ Len(bs) \in Nat
         /\ Ends(bs) \in [0 .. Len(bs) -> Nat]
         /\ Ends(bs)[0] = 0
         /\ \A i \in 1 .. Len(bs) : Ends(bs)[i] = Ends(bs)[i - 1] + bs[i].size
         /\ SizeOf(bs) \in Nat
         /\ \A i \in 0 .. Len(bs) : Ends(bs)[i] <= SizeOf(bs)
<1>1. Len(bs) \in Nat /\ EndsUpTo(Ends(bs), bs, Len(bs))
  BY EndsAre DEF Sized
<1>2. \A i \in 0 .. Len(bs) : Ends(bs)[i] <= SizeOf(bs)
  BY <1>1, EndsMono DEF SizeOf
<1> QED BY <1>1, <1>2 DEF EndsUpTo, SizeOf

\* Blocks, extents and grants have sizes to add up.
LEMMA BlocksSized ==
  ASSUME NEW bs \in Seq(BlobBlock)
  PROVE  Sized(bs)
<1> SUFFICES ASSUME NEW i \in 1 .. Len(bs) PROVE bs[i].size \in Nat
  BY DEF Sized
<1>1. bs[i] \in BlobBlock
  OBVIOUS
<1> QED BY <1>1 DEF BlobBlock

\* So have the extents of a group.
LEMMA ExtentsSized ==
  ASSUME NEW es \in Seq(Extent)
  PROVE  Sized(es)
<1> SUFFICES ASSUME NEW i \in 1 .. Len(es) PROVE es[i].size \in Nat
  BY DEF Sized
<1>1. es[i] \in Extent
  OBVIOUS
<1> QED BY <1>1 DEF Extent

\* So have the blocks a device grants.
LEMMA GrantsSized ==
  ASSUME NEW gs \in Seq(Grant)
  PROVE  Sized(gs)
<1> SUFFICES ASSUME NEW i \in 1 .. Len(gs) PROVE gs[i].size \in Nat
  BY DEF Sized
<1>1. gs[i] \in Grant
  OBVIOUS
<1> QED BY <1>1 DEF Grant

\* No blocks, no bytes.
LEMMA EmptySize == SizeOf(<<>>) = 0
<1>1. Sized(<<>>)
  BY DEF Sized
<1>2. Len(<<>>) = 0
  OBVIOUS
<1> QED BY <1>1, <1>2, EndsFacts DEF SizeOf

\* A block more at the end.
LEMMA AppendEnds ==
  ASSUME NEW S, NEW bs \in Seq(S), NEW e \in S, Sized(bs), e.size \in Nat
  PROVE  /\ Sized(Append(bs, e))
         /\ \A i \in 0 .. Len(bs) : Ends(Append(bs, e))[i] = Ends(bs)[i]
         /\ SizeOf(Append(bs, e)) = SizeOf(bs) + e.size
<1> DEFINE cs == Append(bs, e)
<1>1. Len(bs) \in Nat /\ Len(cs) = Len(bs) + 1 /\ \A i \in 1 .. Len(bs) : cs[i] = bs[i]
  OBVIOUS
<1>2. cs[Len(bs) + 1] = e
  OBVIOUS
<1>3. Sized(cs)
  <2> SUFFICES ASSUME NEW i \in 1 .. Len(cs) PROVE cs[i].size \in Nat
    BY <1>1 DEF Sized
  <2>1. i \in 1 .. Len(bs) \/ i = Len(bs) + 1
    BY <1>1
  <2> HIDE DEF cs
  <2> QED BY <1>1, <1>2, <2>1 DEF Sized
<1> HIDE DEF cs
<1>4. \A i \in 0 .. Len(bs) : Ends(bs)[i] = Ends(cs)[i]
  <2>1. Len(bs) <= Len(bs) /\ Len(bs) <= Len(cs) /\ \A i \in 1 .. Len(bs) : bs[i] = cs[i]
    BY <1>1
  <2> QED BY <1>1, <1>3, <2>1, EndsAgree
<1>5. Ends(cs)[Len(cs)] = Ends(cs)[Len(bs)] + e.size
  <2>1. Len(cs) \in 1 .. Len(cs) /\ Len(cs) - 1 = Len(bs)
    BY <1>1
  <2> QED BY <1>1, <1>2, <1>3, <2>1, EndsFacts
<1>6. Ends(cs)[Len(bs)] = Ends(bs)[Len(bs)]
  BY <1>1, <1>4
<1> QED BY <1>3, <1>4, <1>5, <1>6 DEF SizeOf, cs

\* Every byte is in one block.
LEMMA Located ==
  ASSUME NEW bs, Sized(bs), NEW p \in 1 .. SizeOf(bs)
  PROVE  \E j \in 1 .. Len(bs) : StartOf(bs, j) < p /\ p <= StartOf(bs, j) + bs[j].size
<1> DEFINE E == Ends(bs)
           T == {j \in 0 .. Len(bs) : p <= E[j]}
<1>0. /\ Len(bs) \in Nat
      /\ E \in [0 .. Len(bs) -> Nat]
      /\ E[0] = 0
      /\ \A i \in 1 .. Len(bs) : E[i] = E[i - 1] + bs[i].size
      /\ SizeOf(bs) \in Nat
      /\ SizeOf(bs) = E[Len(bs)]
  BY EndsFacts DEF SizeOf
<1> HIDE DEF E
<1>1. T \subseteq Nat /\ Len(bs) \in T
  BY <1>0
<1>2. PICK j \in T : \A y \in T : j <= y
  <2> HIDE DEF T
  <2> QED BY <1>1, LeastNat
<1>3. j # 0
  BY <1>0
<1>4. j \in 1 .. Len(bs) /\ j - 1 \in 0 .. Len(bs) /\ j - 1 \notin T
  BY <1>0, <1>2, <1>3
<1>5. E[j - 1] < p /\ p <= E[j] /\ E[j] = E[j - 1] + bs[j].size
  BY <1>0, <1>4
<1> QED BY <1>4, <1>5 DEF StartOf, E

\* A byte is in one block only.
LEMMA LocatedOnce ==
  ASSUME NEW bs, Sized(bs), NEW p \in Nat,
         NEW j \in 1 .. Len(bs), NEW k \in 1 .. Len(bs),
         StartOf(bs, j) < p, p <= StartOf(bs, j) + bs[j].size,
         StartOf(bs, k) < p, p <= StartOf(bs, k) + bs[k].size
  PROVE  j = k
<1> DEFINE E == Ends(bs)
<1>0. /\ Len(bs) \in Nat
      /\ E \in [0 .. Len(bs) -> Nat]
      /\ \A i \in 1 .. Len(bs) : E[i] = E[i - 1] + bs[i].size
  BY EndsFacts
<1>1. \A a, b \in 0 .. Len(bs) : a <= b => E[a] <= E[b]
  BY EndsMono
<1> HIDE DEF E
<1>2. E[j - 1] < p /\ p <= E[j] /\ E[k - 1] < p /\ p <= E[k]
  BY <1>0 DEF StartOf, E
<1>2a. j \in 0 .. Len(bs) /\ k \in 0 .. Len(bs) /\ j - 1 \in 0 .. Len(bs) /\ k - 1 \in 0 .. Len(bs)
  BY <1>0
<1>3. ~ (j < k)
  <2>1. j < k => E[j] <= E[k - 1]
    BY <1>0, <1>1, <1>2a
  <2>2. E[j] \in Nat /\ E[k - 1] \in Nat
    BY <1>0, <1>2a
  <2> QED BY <1>2, <2>1, <2>2
<1>4. ~ (k < j)
  <2>1. k < j => E[k] <= E[j - 1]
    BY <1>0, <1>1, <1>2a
  <2>2. E[k] \in Nat /\ E[j - 1] \in Nat
    BY <1>0, <1>2a
  <2> QED BY <1>2, <2>1, <2>2
<1> QED BY <1>0, <1>3, <1>4

\* The larger of two numbers.
LEMMA MaxOfTwo ==
  ASSUME NEW a \in Int, NEW b \in Int
  PROVE  Max({a, b}) = IF a >= b THEN a ELSE b
<1>1. \E x \in {a, b} : \A y \in {a, b} : x >= y
  OBVIOUS
<1>2. Max({a, b}) \in {a, b} /\ \A y \in {a, b} : Max({a, b}) >= y
  BY <1>1 DEF Max
<1> QED BY <1>2

\* The smaller of two numbers.
LEMMA MinOfTwo ==
  ASSUME NEW a \in Int, NEW b \in Int
  PROVE  Min({a, b}) = IF a <= b THEN a ELSE b
<1>1. \E x \in {a, b} : \A y \in {a, b} : x <= y
  OBVIOUS
<1>2. Min({a, b}) \in {a, b} /\ \A y \in {a, b} : Min({a, b}) <= y
  BY <1>1 DEF Min
<1> QED BY <1>2

\* A slice lies in one block and in the buffer.
SliceOf(s, bs, off, n, i) ==
  /\ i \in 1 .. Len(bs)
  /\ s.tgt = bs[i].tgt
  /\ s.at \in Nat /\ s.buf \in Nat /\ s.len \in Nat
  /\ s.at >= bs[i].off
  /\ s.at + s.len <= bs[i].off + bs[i].size
  /\ s.buf + s.len <= n
  /\ off + s.buf - StartOf(bs, i) = s.at - bs[i].off
  /\ s.buf = IF StartOf(bs, i) >= off THEN StartOf(bs, i) - off ELSE 0
  /\ \/ s.buf + s.len = n
     \/ off + s.buf + s.len = StartOf(bs, i) + bs[i].size

\* Every slice of Slices lies so.
LEMMA SlicesLie ==
  ASSUME NEW bs \in Seq(BlobBlock), NEW off \in Nat, NEW n \in Nat,
         NEW s \in Slices(bs, off, n)
  PROVE  s \in Slice /\ \E i \in 1 .. Len(bs) : SliceOf(s, bs, off, n, i)
<1>0. Sized(bs) /\ Len(bs) \in Nat /\ DOMAIN bs = 1 .. Len(bs)
  BY BlocksSized
<1>1. PICK i \in 1 .. Len(bs) :
        /\ off < StartOf(bs, i) + bs[i].size
        /\ off + n > StartOf(bs, i)
        /\ s = [tgt |-> bs[i].tgt,
                at  |-> bs[i].off + Max({off - StartOf(bs, i), 0}),
                buf |-> Max({StartOf(bs, i) - off, 0}),
                len |-> Min({off + n, StartOf(bs, i) + bs[i].size}) - Max({off, StartOf(bs, i)})]
  BY <1>0 DEF Slices
<1>2. StartOf(bs, i) \in Nat
  <2>1. i - 1 \in 0 .. Len(bs)
    BY <1>0
  <2> QED BY <1>0, <2>1, EndsFacts DEF StartOf
<1>3. bs[i] \in BlobBlock
  BY <1>0
<1>4. bs[i].tgt \in Targets /\ bs[i].off \in Nat /\ bs[i].size \in Nat \ {0}
  BY <1>3 DEF BlobBlock
<1>5. PICK st \in Nat : st = StartOf(bs, i)
  BY <1>2
<1>6. PICK o \in Nat, z \in Nat \ {0} : o = bs[i].off /\ z = bs[i].size
  BY <1>4
<1>7. /\ Max({off - st, 0}) = IF off - st >= 0 THEN off - st ELSE 0
      /\ Max({st - off, 0}) = IF st - off >= 0 THEN st - off ELSE 0
      /\ Max({off, st}) = IF off >= st THEN off ELSE st
      /\ Min({off + n, st + z}) = IF off + n <= st + z THEN off + n ELSE st + z
  BY MaxOfTwo, MinOfTwo
<1>8. off < st + z /\ off + n > st
  BY <1>1, <1>5, <1>6
<1>9. /\ s.tgt = bs[i].tgt
      /\ s.at = o + (IF off - st >= 0 THEN off - st ELSE 0)
      /\ s.buf = IF st - off >= 0 THEN st - off ELSE 0
      /\ s.len = (IF off + n <= st + z THEN off + n ELSE st + z) - (IF off >= st THEN off ELSE st)
  BY <1>1, <1>5, <1>6, <1>7
<1>10. s.at \in Nat /\ s.buf \in Nat /\ s.len \in Nat
  <2>1. (IF off - st >= 0 THEN off - st ELSE 0) \in Nat
    BY <1>8
  <2>2. (IF st - off >= 0 THEN st - off ELSE 0) \in Nat
    BY <1>8
  <2>3. (IF off + n <= st + z THEN off + n ELSE st + z) - (IF off >= st THEN off ELSE st) \in Nat
    <3>2. CASE off + n <= st + z
      BY <1>8, <3>2
    <3>3. CASE ~ (off + n <= st + z)
      BY <1>8, <3>3
    <3> QED BY <3>2, <3>3
  <2> QED BY <1>9, <2>1, <2>2, <2>3
<1>11. /\ s.at >= o /\ s.at + s.len <= o + z /\ s.buf + s.len <= n
       /\ off + s.buf - st = s.at - o
       /\ s.buf = IF st >= off THEN st - off ELSE 0
       /\ s.buf + s.len = n \/ off + s.buf + s.len = st + z
  <2>1. PICK sa \in Nat, sb \in Nat, sl \in Nat : sa = s.at /\ sb = s.buf /\ sl = s.len
    BY <1>10
  <2>2. /\ sa = o + (IF off - st >= 0 THEN off - st ELSE 0)
        /\ sb = IF st - off >= 0 THEN st - off ELSE 0
        /\ sl = (IF off + n <= st + z THEN off + n ELSE st + z) - (IF off >= st THEN off ELSE st)
    BY <1>9, <2>1
  <2>3. /\ sa >= o /\ sa + sl <= o + z /\ sb + sl <= n
        /\ off + sb - st = sa - o
        /\ sb = IF st >= off THEN st - off ELSE 0
        /\ sb + sl = n \/ off + sb + sl = st + z
    BY <1>8, <2>2
  <2> QED BY <2>1, <2>3
<1>12. SliceOf(s, bs, off, n, i)
  BY <1>5, <1>6, <1>9, <1>10, <1>11 DEF SliceOf
<1>13. s \in Slice
  BY <1>1, <1>4, <1>9, <1>10 DEF Slice
<1> QED BY <1>12, <1>13

-----------------------------------------------------------------------------
(* Parts of sequences.                                                     *)

\* f has what is picked of the first n blocks.
PickedUpTo(f, S, bs, I, n) ==
  /\ f \in [0 .. n -> Seq(S)]
  /\ f[0] = <<>>
  /\ \A i \in 1 .. n : f[i] = IF i \in I THEN Append(f[i - 1], bs[i]) ELSE f[i - 1]

\* The function of Picked is defined up to any n.
LEMMA PickedExists ==
  ASSUME NEW S, NEW bs \in Seq(S), NEW I, NEW n \in 0 .. Len(bs)
  PROVE  \E f : PickedUpTo(f, S, bs, I, n)
<1> DEFINE Bad == {m \in 0 .. Len(bs) : ~ \E f : PickedUpTo(f, S, bs, I, m)}
<1>0. Len(bs) \in Nat
  OBVIOUS
<1>1. SUFFICES ASSUME Bad # {} PROVE FALSE
  OBVIOUS
<1>2. PICK m \in Bad : \A y \in Bad : m <= y
  <2>1. Bad \subseteq Nat
    BY <1>0
  <2> HIDE DEF Bad
  <2> QED BY <1>1, <2>1, LeastNat
<1>3. m # 0
  <2> SUFFICES ASSUME m = 0 PROVE FALSE
    OBVIOUS
  <2>1. PickedUpTo([i \in 0 .. 0 |-> <<>>], S, bs, I, 0)
    BY DEF PickedUpTo
  <2> QED BY <2>1
<1>4. m \in Nat \ {0} /\ m <= Len(bs)
  BY <1>0, <1>3
<1>5. m - 1 \in 0 .. Len(bs) /\ m - 1 \notin Bad
  BY <1>0, <1>2, <1>4
<1>6. PICK f : PickedUpTo(f, S, bs, I, m - 1)
  BY <1>5
<1>7. bs[m] \in S
  BY <1>4, <1>0
<1> DEFINE last == IF m \in I THEN Append(f[m - 1], bs[m]) ELSE f[m - 1]
           g == [i \in 0 .. m |-> IF i = m THEN last ELSE f[i]]
<1>7a. f[m - 1] \in Seq(S)
  BY <1>4, <1>6 DEF PickedUpTo
<1>7b. last \in Seq(S)
  BY <1>7, <1>7a
<1> HIDE DEF last
<1>8. g \in [0 .. m -> Seq(S)]
  BY <1>4, <1>6, <1>7b DEF PickedUpTo
<1>9. g[0] = <<>>
  BY <1>4, <1>6 DEF PickedUpTo
<1>10. \A i \in 1 .. m : g[i] = IF i \in I THEN Append(g[i - 1], bs[i]) ELSE g[i - 1]
  <2> SUFFICES ASSUME NEW i \in 1 .. m
               PROVE  g[i] = IF i \in I THEN Append(g[i - 1], bs[i]) ELSE g[i - 1]
    OBVIOUS
  <2>0. g[i - 1] = f[i - 1]
    BY <1>4
  <2>1. CASE i = m
    BY <1>4, <2>0, <2>1 DEF last
  <2>2. CASE i # m
    <3>1. i \in 1 .. m - 1 /\ g[i] = f[i]
      BY <1>4, <2>2
    <3> QED BY <1>6, <2>0, <3>1 DEF PickedUpTo
  <2> QED BY <2>1, <2>2
<1>11. PickedUpTo(g, S, bs, I, m)
  BY <1>8, <1>9, <1>10 DEF PickedUpTo
<1> QED BY <1>11

\* ps has blocks of bs with indices in I, each at most once.
From(ps, S, bs, I, n) ==
  /\ ps \in Seq(S)
  /\ \E f \in [1 .. Len(ps) -> (1 .. n) \cap I] :
        /\ \A k \in 1 .. Len(ps) : ps[k] = bs[f[k]]
        /\ \A k, l \in 1 .. Len(ps) : k # l => f[k] # f[l]

\* One more element picked.
LEMMA FromStep ==
  ASSUME NEW S, NEW bs \in Seq(S), NEW I, NEW n \in 1 .. Len(bs), n \in I,
         NEW ps, From(ps, S, bs, I, n - 1)
  PROVE  From(Append(ps, bs[n]), S, bs, I, n)
<1> DEFINE qs == Append(ps, bs[n])
<1>1. ps \in Seq(S) /\ n \in Nat /\ bs[n] \in S
  BY DEF From
<1>2. PICK f \in [1 .. Len(ps) -> (1 .. n - 1) \cap I] :
        /\ \A k \in 1 .. Len(ps) : ps[k] = bs[f[k]]
        /\ \A k, l \in 1 .. Len(ps) : k # l => f[k] # f[l]
  BY DEF From
<1>3. qs \in Seq(S) /\ Len(qs) = Len(ps) + 1 /\ Len(ps) \in Nat
  BY <1>1
<1>4. qs[Len(ps) + 1] = bs[n] /\ \A k \in 1 .. Len(ps) : qs[k] = ps[k]
  BY <1>1
<1> HIDE DEF qs
<1> DEFINE g == [k \in 1 .. Len(qs) |-> IF k = Len(qs) THEN n ELSE f[k]]
<1>5. \A k \in 1 .. Len(ps) : f[k] \in (1 .. n) \cap I /\ f[k] # n
  BY <1>1, <1>2
<1>6. \A k \in 1 .. Len(qs) : k = Len(qs) \/ k \in 1 .. Len(ps)
  BY <1>3
<1>7. g \in [1 .. Len(qs) -> (1 .. n) \cap I]
  BY <1>1, <1>5, <1>6
<1>8. \A k \in 1 .. Len(qs) : qs[k] = bs[g[k]]
  BY <1>2, <1>3, <1>4, <1>6
<1>9. \A k, l \in 1 .. Len(qs) : k # l => g[k] # g[l]
  BY <1>2, <1>5, <1>6
<1> HIDE DEF g
<1> QED BY <1>3, <1>7, <1>8, <1>9 DEF From, qs

\* Picked picks.
LEMMA PickedFrom ==
  ASSUME NEW S, NEW bs \in Seq(S), NEW I
  PROVE  From(Picked(bs, I), S, bs, I, Len(bs))
<1>0. Len(bs) \in Nat
  OBVIOUS
<1>0a. Len(bs) \in 0 .. Len(bs)
  BY <1>0
<1>1. PICK e : PickedUpTo(e, S, bs, I, Len(bs))
  BY <1>0a, PickedExists
<1> DEFINE F(f) == [i \in 0 .. Len(bs) |->
                      IF i = 0 THEN <<>>
                      ELSE IF i \in I THEN Append(f[i - 1], bs[i]) ELSE f[i - 1]]
           P == CHOOSE f : f = F(f)
<1>2. e = F(e)
  <2>1. e = [i \in 0 .. Len(bs) |-> e[i]]
    BY <1>1 DEF PickedUpTo
  <2>2. \A i \in 0 .. Len(bs) : e[i] = F(e)[i]
    <3> SUFFICES ASSUME NEW i \in 0 .. Len(bs) PROVE e[i] = F(e)[i]
      OBVIOUS
    <3>1. CASE i = 0
      BY <1>1, <3>1 DEF PickedUpTo
    <3>2. CASE i # 0
      <4>1. i \in 1 .. Len(bs)
        BY <1>0, <3>2
      <4>2. e[i] = IF i \in I THEN Append(e[i - 1], bs[i]) ELSE e[i - 1]
        BY <1>1, <4>1 DEF PickedUpTo
      <4> QED BY <3>2, <4>2
    <3> QED BY <3>1, <3>2
  <2> QED BY <2>1, <2>2
<1>3. Picked(bs, I) = P[Len(bs)]
  BY DEF Picked
<1>4. P = F(P)
  BY <1>2
<1> HIDE DEF P
<1>5. P[0] = <<>> /\ \A i \in 1 .. Len(bs) : P[i] = IF i \in I THEN Append(P[i - 1], bs[i]) ELSE P[i - 1]
  <2>1. \A i \in 0 .. Len(bs) : P[i] = F(P)[i]
    BY <1>4
  <2>2. 0 \in 0 .. Len(bs) /\ \A i \in 1 .. Len(bs) : i \in 0 .. Len(bs) /\ i # 0
    BY <1>0
  <2>3. F(P)[0] = <<>>
    BY <2>2
  <2>4. \A i \in 1 .. Len(bs) : F(P)[i] = IF i \in I THEN Append(P[i - 1], bs[i]) ELSE P[i - 1]
    BY <2>2
  <2> HIDE DEF F
  <2> QED BY <2>1, <2>2, <2>3, <2>4
<1> DEFINE Bad == {i \in 0 .. Len(bs) : ~ From(P[i], S, bs, I, i)}
<1>6. Bad = {}
  <2>1. SUFFICES ASSUME Bad # {} PROVE FALSE
    OBVIOUS
  <2>2. PICK m \in Bad : \A y \in Bad : m <= y
    <3>1. Bad \subseteq Nat
      BY <1>0
    <3> HIDE DEF Bad
    <3> QED BY <2>1, <3>1, LeastNat
  <2>3. m # 0
    <3>1. From(<<>>, S, bs, I, 0)
      <4>1. PICK no : no = <<>>
        OBVIOUS
      <4>2. no \in Seq(S) /\ Len(no) = 0
        BY <4>1
      <4> DEFINE nof == [k \in 1 .. 0 |-> 0]
      <4>3. nof \in [1 .. 0 -> (1 .. 0) \cap I]
        OBVIOUS
      <4>4. /\ \A k \in 1 .. 0 : no[k] = bs[nof[k]]
            /\ \A k, l \in 1 .. 0 : k # l => nof[k] # nof[l]
        OBVIOUS
      <4> HIDE DEF nof
      <4>6. /\ nof \in [1 .. Len(no) -> (1 .. 0) \cap I]
            /\ \A k \in 1 .. Len(no) : no[k] = bs[nof[k]]
            /\ \A k, l \in 1 .. Len(no) : k # l => nof[k] # nof[l]
        BY <4>2, <4>3, <4>4, Zenon
      <4>5. From(no, S, bs, I, 0)
        BY <4>2, <4>6, Zenon DEF From
      <4> QED BY <4>1, <4>5
    <3> QED BY <1>5, <3>1
  <2>4. m \in 1 .. Len(bs) /\ m - 1 \in 0 .. Len(bs) /\ m - 1 \notin Bad
    BY <1>0, <2>2, <2>3
  <2>5. From(P[m - 1], S, bs, I, m - 1)
    BY <2>4
  <2>6. CASE m \in I
    BY <1>5, <2>2, <2>4, <2>5, <2>6, FromStep
  <2>7. CASE m \notin I
    <3>1. P[m] = P[m - 1]
      BY <1>5, <2>4, <2>7
    <3>2. From(P[m - 1], S, bs, I, m)
      <4>1. PICK f \in [1 .. Len(P[m - 1]) -> (1 .. m - 1) \cap I] :
              /\ \A k \in 1 .. Len(P[m - 1]) : P[m - 1][k] = bs[f[k]]
              /\ \A k, l \in 1 .. Len(P[m - 1]) : k # l => f[k] # f[l]
        BY <2>5 DEF From
      <4>2. (1 .. m - 1) \cap I \subseteq (1 .. m) \cap I
        BY <1>0, <2>4
      <4>3. f \in [1 .. Len(P[m - 1]) -> (1 .. m) \cap I]
        BY <4>1, <4>2
      <4> QED BY <2>5, <4>1, <4>3 DEF From
    <3> QED BY <2>2, <3>1, <3>2
  <2> QED BY <2>6, <2>7
<1>7. Len(bs) \in 0 .. Len(bs)
  BY <1>0
<1> QED BY <1>3, <1>6, <1>7

\* What is picked are blocks of the sequence, and different ones.
LEMMA PickedBlocks ==
  ASSUME NEW bs \in Seq(BlobBlock), NEW I
  PROVE  /\ Picked(bs, I) \in Seq(BlobBlock)
         /\ \A k \in 1 .. Len(Picked(bs, I)) :
               \E i \in (1 .. Len(bs)) \cap I : Picked(bs, I)[k] = bs[i]
         /\ Distinct(bs) => Distinct(Picked(bs, I))
<1> DEFINE ps == Picked(bs, I)
<1>1. From(ps, BlobBlock, bs, I, Len(bs))
  BY PickedFrom
<1> HIDE DEF ps
<1>2. PICK f \in [1 .. Len(ps) -> (1 .. Len(bs)) \cap I] :
        /\ \A k \in 1 .. Len(ps) : ps[k] = bs[f[k]]
        /\ \A k, l \in 1 .. Len(ps) : k # l => f[k] # f[l]
  BY <1>1 DEF From
<1>3. \A k \in 1 .. Len(ps) : f[k] \in (1 .. Len(bs)) \cap I
  BY <1>2
<1>4. \A k \in 1 .. Len(ps) : \E i \in (1 .. Len(bs)) \cap I : ps[k] = bs[i]
  BY <1>2, <1>3
<1>5. Distinct(bs) => Distinct(ps)
  <2> SUFFICES ASSUME Distinct(bs), NEW k \in 1 .. Len(ps), NEW l \in 1 .. Len(ps),
                      k # l, ps[k].tgt = ps[l].tgt
               PROVE  ps[k].off # ps[l].off
    BY DEF Distinct
  <2>1. f[k] \in 1 .. Len(bs) /\ f[l] \in 1 .. Len(bs) /\ f[k] # f[l]
    BY <1>2, <1>3
  <2>2. ps[k] = bs[f[k]] /\ ps[l] = bs[f[l]]
    BY <1>2
  <2> QED BY <2>1, <2>2 DEF Distinct
<1> QED BY <1>1, <1>4, <1>5 DEF From, ps

\* A group has extents of blocks of its target.
GroupOf(g, bs) ==
  /\ g \in Group
  /\ \A k \in 1 .. Len(g.exts) : \E i \in 1 .. Len(bs) :
        bs[i].tgt = g.tgt /\ bs[i].off = g.exts[k].off /\ bs[i].size = g.exts[k].size
  /\ Distinct(bs) => DistinctOffs(g.exts)
  /\ \E i \in 1 .. Len(bs) : bs[i].tgt = g.tgt

\* The groups of a list of blocks have its blocks, one group per target.
LEMMA GroupsOf ==
  ASSUME NEW bs \in Seq(BlobBlock)
  PROVE  /\ \A g \in Groups(bs) : GroupOf(g, bs)
         /\ \A g, h \in Groups(bs) : g.tgt = h.tgt => g = h
<1> DEFINE mine(x) == Picked(bs, {i \in DOMAIN bs : bs[i].tgt = x})
           ex(x) == [i \in DOMAIN mine(x) |-> [off |-> mine(x)[i].off, size |-> mine(x)[i].size]]
           gr(x) == [tgt |-> x, exts |-> ex(x)]
           T == {bs[i].tgt : i \in DOMAIN bs}
<1>0. DOMAIN bs = 1 .. Len(bs)
  OBVIOUS
<1>1. Groups(bs) = {gr(x) : x \in T}
  BY DEF Groups
<1>2. \A x \in T : GroupOf(gr(x), bs)
  <2> SUFFICES ASSUME NEW x \in T PROVE GroupOf(gr(x), bs)
    OBVIOUS
  <2> DEFINE I == {i \in DOMAIN bs : bs[i].tgt = x}
             ps == mine(x)
             es == ex(x)
  <2>1. /\ ps \in Seq(BlobBlock)
        /\ \A k \in 1 .. Len(ps) : \E i \in (1 .. Len(bs)) \cap I : ps[k] = bs[i]
        /\ Distinct(bs) => Distinct(ps)
    BY PickedBlocks
  <2>2. x \in Targets /\ \E i \in 1 .. Len(bs) : bs[i].tgt = x
    <3>1. PICK i \in 1 .. Len(bs) : x = bs[i].tgt
      BY <1>0
    <3>2. bs[i] \in BlobBlock
      BY <3>1
    <3> QED BY <3>1, <3>2 DEF BlobBlock
  <2>3. es = [i \in DOMAIN ps |-> [off |-> ps[i].off, size |-> ps[i].size]]
    OBVIOUS
  <2> HIDE DEF ps, es, mine, ex
  <2>4. DOMAIN ps = 1 .. Len(ps) /\ Len(ps) \in Nat
    BY <2>1
  <2>5. \A k \in 1 .. Len(ps) : ps[k] \in BlobBlock
    BY <2>1
  <2>6. \A k \in 1 .. Len(ps) : [off |-> ps[k].off, size |-> ps[k].size] \in Extent
    BY <2>5 DEF BlobBlock, Extent
  <2>7. es \in [1 .. Len(ps) -> Extent]
    BY <2>3, <2>4, <2>6
  <2>8. es \in Seq(Extent) /\ Len(es) = Len(ps)
    BY <2>4, <2>7
  <2>9. \A k \in 1 .. Len(es) : es[k].off = ps[k].off /\ es[k].size = ps[k].size
    BY <2>3, <2>4, <2>8
  <2>10. \A k \in 1 .. Len(es) : ps[k].tgt = x
    BY <2>1, <2>8
  <2>11. \A k \in 1 .. Len(es) : \E i \in 1 .. Len(bs) :
             bs[i].tgt = x /\ bs[i].off = es[k].off /\ bs[i].size = es[k].size
    <3> SUFFICES ASSUME NEW k \in 1 .. Len(es)
                 PROVE  \E i \in 1 .. Len(bs) :
                          bs[i].tgt = x /\ bs[i].off = es[k].off /\ bs[i].size = es[k].size
      OBVIOUS
    <3>1. PICK i \in 1 .. Len(bs) : ps[k] = bs[i]
      BY <2>1, <2>8
    <3> QED BY <2>9, <2>10, <3>1
  <2>12. Distinct(bs) => DistinctOffs(es)
    BY <2>1, <2>8, <2>9, <2>10 DEF Distinct, DistinctOffs
  <2>13. gr(x).tgt = x /\ gr(x).exts = es
    BY DEF es
  <2>14. gr(x) \in Group
    BY <2>2, <2>8 DEF Group, es
  <2> HIDE DEF gr
  <2> QED BY <2>2, <2>11, <2>12, <2>13, <2>14 DEF GroupOf
<1>3. \A x \in T : gr(x).tgt = x
  OBVIOUS
<1> HIDE DEF gr, T
<1>4. \A g \in Groups(bs) : GroupOf(g, bs)
  BY <1>1, <1>2
<1>5. \A g, h \in Groups(bs) : g.tgt = h.tgt => g = h
  BY <1>1, <1>3
<1> QED BY <1>4, <1>5

\* Nothing to pick from.
LEMMA PickedNone ==
  ASSUME NEW I
  PROVE  Picked(<<>>, I) = <<>>
<1>1. <<>> \in Seq(BlobBlock) /\ Len(<<>>) = 0
  OBVIOUS
<1>2. From(Picked(<<>>, I), BlobBlock, <<>>, I, 0)
  BY <1>1, PickedFrom
<1> DEFINE ps == Picked(<<>>, I)
<1> HIDE DEF ps
<1>3. PICK f \in [1 .. Len(ps) -> (1 .. 0) \cap I] : TRUE
  BY <1>2 DEF From, ps
<1>4. ps \in Seq(BlobBlock) /\ Len(ps) \in Nat
  BY <1>2 DEF From, ps
<1>5. Len(ps) = 0
  <2> SUFFICES ASSUME Len(ps) # 0 PROVE FALSE
    OBVIOUS
  <2>1. 1 \in 1 .. Len(ps)
    BY <1>4
  <2>2. f[1] \in (1 .. 0) \cap I
    BY <1>3, <2>1
  <2> QED BY <2>2
<1> QED BY <1>4, <1>5 DEF ps

\* The orders in which targets are tried are sequences of targets.
LEMMA OrdersAre ==
  ASSUME NEW s, NEW n, NEW level, registered \subseteq Targets,
         NEW q \in SelectTargets(s, n, level)
  PROVE  q \in Seq(Targets)
<1> DEFINE room == {x \in registered : remaining[x] >= n /\ Level[x] >= level}
<1>1. q \in SetToSeqs(room)
  BY DEF SelectTargets
<1> HIDE DEF room
<1>2. q \in [1 .. Cardinality(room) -> room]
  BY <1>1 DEF SetToSeqs
<1>3. room \subseteq Targets
  BY DEF room
<1>4. Cardinality(room) \in Nat
  BY <1>3, TargetAssumption, FS_Subset, FS_CardinalityType
<1> QED BY <1>2, <1>3, <1>4

-----------------------------------------------------------------------------
(* The initial state.                                                      *)

\* The engine starts in the invariant.
LEMMA InitInv == Init => Inv
<1> SUFFICES ASSUME Init PROVE Inv
  OBVIOUS
<1> USE TargetAssumption, TaskAssumption
<1>1. BlobTypes /\ TargetTypes
  BY DEF Init, BlobTypes, TargetTypes
<1>2. DeviceTypes
  BY DEF Init, DeviceTypes
<1>3. DiskTypes
  BY DEF Init, DiskTypes, Val
<1>4. AllocTypes
  BY DEF Init, AllocTypes
<1>5. TaskTypes
  <2>1. {} \in SUBSET (Slice \cup Group)
    OBVIOUS
  <2> QED BY <2>1 DEF Init, TaskTypes, Places
<1>6. OtherTypes
  BY DEF Init, OtherTypes
<1>7. \A t \in Tasks : TaskOK(t)
  BY DEF Init, TaskOK, Freeing, Growing
<1>8. Alone /\ ScanOK /\ KeepOK
  BY DEF Init, Alone, ScanOK, KeepOK
<1>9. \A b \in Blobs : BlobOK(b)
  BY EmptySize DEF Init, BlobOK, Size
<1>10. \E G, H : Held(G, H)
  <2> DEFINE G == [x \in Targets |-> [o \in Nat |-> 0]]
             H == [x \in Targets |-> [o \in Nat |-> <<"task", Flusher>>]]
  <2>1. Grid(G)
    BY DEF Grid
  <2>2. H \in [Targets -> [Nat -> Holder]]
    BY DEF Holder, Tasks
  <2> HIDE DEF G, H
  <2>3. \A b \in Blobs : HeldBlocks(G, H, b, blocks[b])
    BY DEF Init, HeldBlocks, Distinct
  <2>4. \A t \in Tasks : ~ Freeing(t)
    BY DEF Init, Freeing
  <2>5. \A x \in Targets : \A k \in Categories : HeldList(G, H, x, k)
    BY DEF Init, HeldList, DistinctOffs
  <2>6. \A t \in Tasks : HeldGot(G, H, t)
    BY DEF Init, HeldGot
  <2>7. HeldKeep(G, H)
    BY DEF Init, HeldKeep
  <2>8. Held(G, H)
    BY <2>1, <2>2, <2>3, <2>4, <2>5, <2>6, <2>7, Zenon DEF Held
  <2> QED BY <2>8
<1> QED BY <1>1, <1>2, <1>3, <1>4, <1>5, <1>6, <1>7, <1>8, <1>9, <1>10 DEF Inv, Types

-----------------------------------------------------------------------------
(* What a step of one handler leaves alone.                                *)

\* Only task t and blob b change.
Only(t, b) ==
  /\ \A u \in Tasks \ {t} :
        /\ pc'[u] = pc[u] /\ req'[u] = req[u] /\ todo'[u] = todo[u] /\ credit'[u] = credit[u]
        /\ queue'[u] = queue[u] /\ left'[u] = left[u] /\ asked'[u] = asked[u]
        /\ got'[u] = got[u] /\ old'[u] = old[u]
  /\ \A c \in Blobs \ {b} :
        blocks'[c] = blocks[c] /\ content'[c] = content[c] /\ (c \in exists' <=> c \in exists)
  /\ pc'[t] # "idle" => req'[t].blob = b

\* b is t's blob and nobody else's.
Works(t, b) ==
  /\ pc[t] # "idle" => req[t].blob = b
  /\ \A u \in Tasks \ {t} : pc[u] # "idle" => req[u].blob # b

\* A handler at work has a blob of its own, which exists.
LEMMA OwnBlob ==
  ASSUME Inv, NEW t \in Tasks, pc[t] # "idle"
  PROVE  /\ req[t] \in Request
         /\ req[t].blob \in Blobs
         /\ req[t].blob \in exists
         /\ Works(t, req[t].blob)
         /\ \A e \in flush : e.blob # req[t].blob
<1>1. TaskOK(t) /\ Alone /\ ScanOK
  BY DEF Inv
<1>2. Serves(t)
  BY <1>1 DEF TaskOK
<1>3. req[t] \in Request /\ req[t].blob \in exists
  BY <1>2 DEF Serves
<1>4. req[t].blob \in Blobs
  BY <1>3 DEF Request
<1>5. Works(t, req[t].blob)
  BY <1>1 DEF Works, Alone
<1>6. \A e \in flush : e.blob # req[t].blob
  BY <1>1 DEF ScanOK
<1> QED BY <1>3, <1>4, <1>5, <1>6

\* The other handlers' facts are about their own blobs.
LEMMA OthersOK ==
  ASSUME Inv, NEW t \in Tasks, NEW b \in Blobs, Works(t, b), Only(t, b)
  PROVE  \A u \in Tasks \ {t} : TaskOK(u)'
<1> SUFFICES ASSUME NEW u \in Tasks \ {t} PROVE TaskOK(u)'
  OBVIOUS
<1>1. TaskOK(u) /\ Types
  BY DEF Inv
<1>2. /\ pc'[u] = pc[u] /\ req'[u] = req[u] /\ todo'[u] = todo[u] /\ credit'[u] = credit[u]
      /\ queue'[u] = queue[u] /\ left'[u] = left[u] /\ asked'[u] = asked[u]
      /\ got'[u] = got[u] /\ old'[u] = old[u]
  BY DEF Only
<1>3. CASE pc[u] = "idle"
  BY <1>1, <1>2, <1>3 DEF TaskOK, Freeing, Growing
<1>4. CASE pc[u] # "idle"
  <2>1. req[u] \in Request /\ req[u].blob \in exists
    BY <1>1, <1>4 DEF TaskOK, Serves
  <2>2. req[u].blob \in Blobs \ {b}
    <3>1. req[u].blob \in Blobs
      BY <2>1 DEF Request
    <3>2. req[u].blob # b
      BY <1>4 DEF Works
    <3> QED BY <3>1, <3>2
  <2>3. blocks'[req[u].blob] = blocks[req[u].blob] /\ req[u].blob \in exists'
    BY <2>1, <2>2 DEF Only
  <2>4. Size(req[u].blob)' = Size(req[u].blob)
    BY <1>2, <2>3 DEF Size
  <2>5. Serves(u)'
    <3>1. Serves(u)
      BY <1>1, <1>4 DEF TaskOK
    <3> QED BY <1>2, <2>3, <3>1 DEF Serves
  <2>6. (pc[u] = "read" => AtRead(u)')
    <3> SUFFICES ASSUME pc[u] = "read" PROVE AtRead(u)'
      OBVIOUS
    <3>1. AtRead(u)
      BY <1>1 DEF TaskOK
    <3> QED BY <1>2, <2>3, <2>4, <3>1 DEF AtRead
  <2>7. (pc[u] = "reput" => AtReput(u)')
    BY <1>1, <1>2 DEF TaskOK, AtReput
  <2>8. (pc[u] \in {"free", "freed"} => AtFree(u)')
    <3> SUFFICES ASSUME pc[u] \in {"free", "freed"} PROVE AtFree(u)'
      OBVIOUS
    <3>1. AtFree(u)
      BY <1>1 DEF TaskOK, Freeing
    <3> QED BY <1>2, <3>1 DEF AtFree
  <2>9. (pc[u] = "freed" => credit'[u] \in Group)
    BY <1>1, <1>2 DEF TaskOK
  <2>10. (pc[u] \in {"extend", "alloc", "bdev", "write"} => AtGrow(u)')
    <3> SUFFICES ASSUME pc[u] \in {"extend", "alloc", "bdev", "write"} PROVE AtGrow(u)'
      OBVIOUS
    <3>1. AtGrow(u)
      BY <1>1 DEF TaskOK, Growing
    <3> QED BY <1>2, <2>4, <3>1 DEF AtGrow
  <2>11. (pc[u] \in {"alloc", "bdev"} => AtAlloc(u)')
    <3> SUFFICES ASSUME pc[u] \in {"alloc", "bdev"} PROVE AtAlloc(u)'
      OBVIOUS
    <3>1. AtAlloc(u)
      BY <1>1 DEF TaskOK
    <3> QED BY <1>2, <2>4, <3>1 DEF AtAlloc
  <2>12. (pc[u] = "bdev" => AtBdev(u)')
    <3> SUFFICES ASSUME pc[u] = "bdev" PROVE AtBdev(u)'
      OBVIOUS
    <3>1. AtBdev(u)
      BY <1>1 DEF TaskOK
    <3> QED BY <1>2, <3>1 DEF AtBdev
  <2>13. (pc[u] = "write" => AtWrite(u)')
    <3> SUFFICES ASSUME pc[u] = "write" PROVE AtWrite(u)'
      OBVIOUS
    <3>1. AtWrite(u)
      BY <1>1 DEF TaskOK
    <3> QED BY <1>2, <2>3, <2>4, <3>1 DEF AtWrite
  <2>14. (pc[u] # "bdev" => got'[u] = <<>>)
    BY <1>1, <1>2 DEF TaskOK
  <2> QED BY <1>2, <2>5, <2>6, <2>7, <2>8, <2>9, <2>10, <2>11, <2>12, <2>13, <2>14
          DEF TaskOK, Freeing, Growing
<1> QED BY <1>3, <1>4

\* Still one handler per blob.
LEMMA AloneKept ==
  ASSUME Inv, NEW t \in Tasks, NEW b \in Blobs, Works(t, b), Only(t, b)
  PROVE  Alone'
<1> SUFFICES ASSUME NEW u \in Tasks, NEW v \in Tasks, u # v, pc'[u] # "idle", pc'[v] # "idle"
             PROVE  req'[u].blob # req'[v].blob
  BY DEF Alone
<1>1. Alone
  BY DEF Inv
<1>2. CASE u = t
  BY <1>2 DEF Only, Works
<1>3. CASE v = t
  BY <1>3 DEF Only, Works
<1>4. CASE u # t /\ v # t
  BY <1>1, <1>4 DEF Only, Alone
<1> QED BY <1>2, <1>3, <1>4

\* What the scan found is of other blobs than b.
LEMMA ScanKept ==
  ASSUME Inv, NEW t \in Tasks, NEW b \in Blobs, Works(t, b), Only(t, b),
         flush' \subseteq flush, \A e \in flush' : e.blob # b
  PROVE  ScanOK'
<1>1. ScanOK /\ flush \subseteq Scanned
  BY DEF Inv, Types, OtherTypes
<1>2. \A e \in flush' : \A u \in Tasks : pc'[u] # "idle" => req'[u].blob # e.blob
  <2> SUFFICES ASSUME NEW e \in flush', NEW u \in Tasks, pc'[u] # "idle"
               PROVE  req'[u].blob # e.blob
    OBVIOUS
  <2>1. CASE u = t
    BY <2>1 DEF Only
  <2>2. CASE u # t
    BY <1>1, <2>2 DEF Only, ScanOK
  <2> QED BY <2>1, <2>2
<1>3. \A e, f \in flush' : e.blob = f.blob => e = f
  BY <1>1 DEF ScanOK
<1>4. \A e \in flush' : e.blob \in exists' /\ e.size = SizeOf(blocks'[e.blob])
  <2> SUFFICES ASSUME NEW e \in flush' PROVE e.blob \in exists' /\ e.size = SizeOf(blocks'[e.blob])
    OBVIOUS
  <2>1. e \in flush /\ e \in Scanned
    BY <1>1
  <2>2. e.blob \in Blobs \ {b}
    BY <2>1 DEF Scanned
  <2>3. e.blob \in exists /\ e.size = SizeOf(blocks[e.blob])
    BY <1>1, <2>1 DEF ScanOK, Size
  <2> QED BY <2>2, <2>3 DEF Only
<1> QED BY <1>2, <1>3, <1>4 DEF ScanOK, Size

\* The other blobs are as they were.
LEMMA BlobsKept ==
  ASSUME Inv, NEW t \in Tasks, NEW b \in Blobs, Works(t, b), Only(t, b)
  PROVE  \A c \in Blobs \ {b} : BlobOK(c)'
<1> SUFFICES ASSUME NEW c \in Blobs \ {b} PROVE BlobOK(c)'
  OBVIOUS
<1>1. BlobOK(c)
  BY DEF Inv
<1>2. blocks'[c] = blocks[c] /\ content'[c] = content[c] /\ (c \in exists' <=> c \in exists)
  BY DEF Only
<1>3. Cut(c) => Cut(c)'
  <2> SUFFICES ASSUME Cut(c) PROVE Cut(c)'
    OBVIOUS
  <2>1. Flusher \in Tasks /\ pc[Flusher] # "idle" /\ req[Flusher].blob # b
    BY DEF Cut, Tasks
  <2>2. Flusher # t
    BY <2>1 DEF Works
  <2> QED BY <2>1, <2>2 DEF Only, Cut
<1> QED BY <1>1, <1>2, <1>3 DEF BlobOK, Size

-----------------------------------------------------------------------------
(* Cells and their holders.                                                *)

\* Only cells of h change hands.
Moves(G, H, G2, H2, h) ==
  \A x \in Targets : \A o \in Nat :
     G[x][o] > 0 /\ H[x][o] # h => G2[x][o] = G[x][o] /\ H2[x][o] = H[x][o]

\* An extent that h does not hold is still held.
LEMMA HoldsMoved ==
  ASSUME NEW G, NEW H, NEW G2, NEW H2, NEW h, NEW k, k # h, Moves(G, H, G2, H2, h),
         G \in [Targets -> [Nat -> Nat]],
         NEW x \in Targets, NEW e, e.off \in Nat, Holds(G, H, k, x, e)
  PROVE  Holds(G2, H2, k, x, e)
<1>1. G[x][e.off] \in Nat /\ G[x][e.off] >= SmallBlock /\ H[x][e.off] = k
  BY DEF Holds
<1>2. G[x][e.off] > 0
  BY <1>1, TargetAssumption
<1>3. G2[x][e.off] = G[x][e.off] /\ H2[x][e.off] = H[x][e.off]
  BY <1>1, <1>2 DEF Moves
<1> QED BY <1>3 DEF Holds

\* So are a blob's blocks.
LEMMA BlocksMoved ==
  ASSUME NEW G, NEW H, NEW G2, NEW H2, NEW h, NEW c, <<"blob", c>> # h, Moves(G, H, G2, H2, h),
         G \in [Targets -> [Nat -> Nat]],
         NEW bs \in Seq(BlobBlock), HeldBlocks(G, H, c, bs)
  PROVE  HeldBlocks(G2, H2, c, bs)
<1> SUFFICES ASSUME NEW i \in 1 .. Len(bs) PROVE Holds(G2, H2, <<"blob", c>>, bs[i].tgt, bs[i])
  BY DEF HeldBlocks
<1>1. bs[i] \in BlobBlock
  OBVIOUS
<1>2. bs[i].tgt \in Targets /\ bs[i].off \in Nat
  BY <1>1 DEF BlobBlock
<1>3. Holds(G, H, <<"blob", c>>, bs[i].tgt, bs[i])
  BY DEF HeldBlocks
<1> QED BY <1>2, <1>3, HoldsMoved

\* So are the groups to free.
LEMMA GroupsMoved ==
  ASSUME NEW G, NEW H, NEW G2, NEW H2, NEW h, NEW c, <<"blob", c>> # h, Moves(G, H, G2, H2, h),
         G \in [Targets -> [Nat -> Nat]],
         NEW gs \in SUBSET Group, HeldGroups(G, H, c, gs)
  PROVE  HeldGroups(G2, H2, c, gs)
<1> SUFFICES ASSUME NEW g \in gs, NEW i \in 1 .. Len(g.exts)
             PROVE  Holds(G2, H2, <<"blob", c>>, g.tgt, g.exts[i])
  BY DEF HeldGroups
<1>1. g.tgt \in Targets /\ g.exts \in Seq(Extent)
  BY DEF Group
<1>2. g.exts[i] \in Extent
  BY <1>1
<1>3. g.exts[i].off \in Nat
  BY <1>2 DEF Extent
<1>4. Holds(G, H, <<"blob", c>>, g.tgt, g.exts[i])
  BY DEF HeldGroups
<1> QED BY <1>1, <1>3, <1>4, HoldsMoved

\* Nothing need move.
LEMMA NothingMoved ==
  ASSUME NEW G, NEW H, NEW h
  PROVE  Moves(G, H, G, H, h)
BY DEF Moves

\* What other handlers and other blobs hold stays theirs.
LEMMA HeldOthers ==
  ASSUME Inv, NEW t \in Tasks, NEW b \in Blobs, Works(t, b), Only(t, b),
         NEW G, NEW H, NEW G2, NEW H2, NEW h, Held(G, H), Moves(G, H, G2, H2, h),
         \A c \in Blobs \ {b} : <<"blob", c>> # h,
         \A u \in Tasks \ {t} : <<"task", u>> # h
  PROVE  /\ \A c \in Blobs \ {b} : ~ BeingFreed(c)' => HeldBlocks(G2, H2, c, blocks'[c])
         /\ \A u \in Tasks \ {t} : Freeing(u)' => HeldGroups(G2, H2, req'[u].blob, todo'[u])
         /\ \A u \in Tasks \ {t} : HeldGot(G2, H2, u)'
<1>0. /\ Types
      /\ G \in [Targets -> [Nat -> Nat]]
  BY DEF Inv, Held, Grid
<1>1. ASSUME NEW c \in Blobs \ {b}, ~ BeingFreed(c)'
      PROVE  HeldBlocks(G2, H2, c, blocks'[c])
  <2>1. ~ BeingFreed(c)
    <3> SUFFICES ASSUME NEW u \in Tasks, pc[u] \in {"free", "freed"}, req[u].blob = c
                 PROVE  BeingFreed(c)'
      BY <1>1 DEF BeingFreed
    <3>1. u # t
      BY DEF Works
    <3>2. pc'[u] = pc[u] /\ req'[u] = req[u]
      BY <3>1 DEF Only
    <3> QED BY <3>2 DEF BeingFreed
  <2>2. HeldBlocks(G, H, c, blocks[c])
    BY <2>1 DEF Held
  <2>3. blocks'[c] = blocks[c] /\ blocks[c] \in Seq(BlobBlock)
    BY <1>0 DEF Only, Types, BlobTypes
  <2>4. <<"blob", c>> # h
    OBVIOUS
  <2>5. HeldBlocks(G2, H2, c, blocks[c])
    BY <1>0, <2>2, <2>3, <2>4, BlocksMoved
  <2> QED BY <2>3, <2>5
<1>2. ASSUME NEW u \in Tasks \ {t}, Freeing(u)'
      PROVE  HeldGroups(G2, H2, req'[u].blob, todo'[u])
  <2>1. pc'[u] = pc[u] /\ req'[u] = req[u] /\ todo'[u] = todo[u]
    BY DEF Only
  <2>2. Freeing(u)
    BY <1>2, <2>1 DEF Freeing
  <2>3. HeldGroups(G, H, req[u].blob, todo[u])
    BY <2>2 DEF Held
  <2>4. AtFree(u)
    BY <2>2 DEF Inv, TaskOK
  <2>5. todo[u] \in SUBSET Group
    BY <2>4 DEF AtFree
  <2>6. req[u].blob \in Blobs /\ req[u].blob # b
    <3>1. pc[u] # "idle"
      BY <2>2 DEF Freeing
    <3> QED BY <3>1, OwnBlob DEF Works
  <2>7. <<"blob", req[u].blob>> # h
    BY <2>6
  <2>8. HeldGroups(G2, H2, req[u].blob, todo[u])
    BY <1>0, <2>3, <2>5, <2>7, GroupsMoved
  <2> QED BY <2>1, <2>8
<1>3. ASSUME NEW u \in Tasks \ {t}
      PROVE  HeldGot(G2, H2, u)'
  <2>1. got'[u] = got[u] /\ queue'[u] = queue[u]
    BY DEF Only
  <2> SUFFICES ASSUME got[u] # <<>> PROVE Holds(G2, H2, <<"task", u>>, Head(queue[u]), got[u][1])
    BY <2>1 DEF HeldGot
  <2>2. Holds(G, H, <<"task", u>>, Head(queue[u]), got[u][1])
    BY DEF Held, HeldGot
  <2>3. TaskOK(u)
    BY DEF Inv
  <2>4. AtBdev(u)
    BY <2>3 DEF TaskOK
  <2>5. queue[u] \in Seq(Targets) /\ got[u] \in Seq(Grant)
    BY <1>0 DEF Types, AllocTypes
  <2>6. Head(queue[u]) \in Targets
    BY <2>4, <2>5 DEF AtBdev
  <2>7. got[u][1] \in Grant
    BY <2>4, <2>5 DEF AtBdev
  <2>8. got[u][1].off \in Nat
    BY <2>7 DEF Grant
  <2>9. <<"task", u>> # h
    OBVIOUS
  <2>10. PICK x \in Targets, e \in Grant : x = Head(queue[u]) /\ e = got[u][1]
    BY <2>6, <2>7
  <2>11. Holds(G, H, <<"task", u>>, x, e) /\ e.off \in Nat
    BY <2>2, <2>8, <2>10
  <2>12. Holds(G2, H2, <<"task", u>>, x, e)
    BY <1>0, <2>9, <2>11, HoldsMoved
  <2> QED BY <2>10, <2>12
<1> QED BY <1>1, <1>2, <1>3

\* The invariant after a step of t on b.
LEMMA StepInv ==
  ASSUME Inv, NEW t \in Tasks, NEW b \in Blobs, Works(t, b), Only(t, b),
         Types', TaskOK(t)', BlobOK(b)', KeepOK',
         flush' \subseteq flush, \A e \in flush' : e.blob # b,
         (\E G, H : Held(G, H))'
  PROVE  Inv'
<1>1. \A u \in Tasks : TaskOK(u)'
  <2>1. \A u \in Tasks \ {t} : TaskOK(u)'
    BY OthersOK
  <2> QED BY <2>1
<1>2. Alone'
  BY AloneKept
<1>3. ScanOK'
  BY ScanKept
<1>4. \A c \in Blobs : BlobOK(c)'
  <2>1. \A c \in Blobs \ {b} : BlobOK(c)'
    BY BlobsKept
  <2> QED BY <2>1
<1> QED BY <1>1, <1>2, <1>3, <1>4 DEF Inv

\* No cell changes hands.
LEMMA HeldSame ==
  ASSUME Inv, NEW t \in Tasks, NEW b \in Blobs, Works(t, b), Only(t, b),
         cursor' = cursor, recycled' = recycled,
         NEW G, NEW H, Held(G, H),
         ~ BeingFreed(b)' => HeldBlocks(G, H, b, blocks'[b]),
         Freeing(t)' => HeldGroups(G, H, b, todo'[t]),
         HeldGot(G, H, t)',
         HeldKeep(G, H)'
  PROVE  (\E X, Y : Held(X, Y))'
<1> DEFINE h == <<"task", t>>
<1>1. Moves(G, H, G, H, h)
  BY NothingMoved
<1>2. (\A c \in Blobs \ {b} : <<"blob", c>> # h) /\ (\A u \in Tasks \ {t} : <<"task", u>> # h)
  OBVIOUS
<1> HIDE DEF h
<1>3. /\ \A c \in Blobs \ {b} : ~ BeingFreed(c)' => HeldBlocks(G, H, c, blocks'[c])
      /\ \A u \in Tasks \ {t} : Freeing(u)' => HeldGroups(G, H, req'[u].blob, todo'[u])
      /\ \A u \in Tasks \ {t} : HeldGot(G, H, u)'
  BY <1>1, <1>2, HeldOthers
<1>4. Grid(G)' /\ H \in [Targets -> [Nat -> Holder]]
  BY DEF Held, Grid
<1>5. \A x \in Targets : \A k \in Categories : HeldList(G, H, x, k)'
  BY DEF Held, HeldList
<1>6. \A c \in Blobs : ~ BeingFreed(c)' => HeldBlocks(G, H, c, blocks'[c])
  BY <1>3
<1>7. \A u \in Tasks : Freeing(u)' => HeldGroups(G, H, req'[u].blob, todo'[u])
  <2> SUFFICES ASSUME NEW u \in Tasks, Freeing(u)' PROVE HeldGroups(G, H, req'[u].blob, todo'[u])
    OBVIOUS
  <2>1. CASE u # t
    BY <1>3, <2>1
  <2>2. CASE u = t
    <3>1. req'[t].blob = b
      BY <2>2 DEF Only, Freeing
    <3> QED BY <2>2, <3>1
  <2> QED BY <2>1, <2>2
<1>8. \A u \in Tasks : HeldGot(G, H, u)'
  BY <1>3
<1>9. Held(G, H)'
  BY <1>4, <1>5, <1>6, <1>7, <1>8 DEF Held
<1> QED BY <1>9

\* A handler that is not freeing has a blob that holds its blocks.
LEMMA OwnBlocks ==
  ASSUME Inv, NEW t \in Tasks, NEW b \in Blobs, Works(t, b), ~ Freeing(t), NEW G, NEW H, Held(G, H)
  PROVE  ~ BeingFreed(b) /\ HeldBlocks(G, H, b, blocks[b])
<1>1. ~ BeingFreed(b)
  BY DEF BeingFreed, Freeing, Works
<1> QED BY <1>1 DEF Held

\* FlushData's kept blocks are untouched by a step of another handler, or of
\* FlushData when it is not freeing.
LEMMA KeepStays ==
  ASSUME Inv, NEW t \in Tasks, NEW b \in Blobs, Only(t, b), ~ Freeing(t), keep' = keep,
         NEW G, NEW H, Held(G, H)
  PROVE  KeepOK' /\ HeldKeep(G, H)'
<1>1. CASE keep = <<>>
  BY <1>1 DEF KeepOK, HeldKeep
<1>2. CASE keep # <<>>
  <2>1. Freeing(Flusher) /\ req[Flusher].kind = "flush"
    BY <1>2 DEF Inv, KeepOK
  <2>2. Flusher \in Tasks \ {t}
    BY <2>1 DEF Tasks
  <2>3. pc'[Flusher] = pc[Flusher] /\ req'[Flusher] = req[Flusher] /\ todo'[Flusher] = todo[Flusher]
    BY <2>2 DEF Only
  <2>4. KeepOK'
    BY <2>1, <2>3 DEF KeepOK, Freeing
  <2>5. HeldKeep(G, H)
    BY DEF Held
  <2>6. HeldKeep(G, H)'
    BY <2>3, <2>5 DEF HeldKeep
  <2> QED BY <2>4, <2>6
<1> QED BY <1>1, <1>2

\* A step that neither frees, nor allocates, nor changes blocks.
LEMMA HeldQuiet ==
  ASSUME Inv, NEW t \in Tasks, NEW b \in Blobs, Works(t, b), Only(t, b),
         ~ Freeing(t), ~ Freeing(t)', blocks' = blocks, keep' = keep,
         cursor' = cursor, recycled' = recycled,
         got'[t] = <<>> \/ (got'[t] = got[t] /\ queue'[t] = queue[t])
  PROVE  (\E G, H : Held(G, H))' /\ KeepOK'
<1>1. PICK G, H : Held(G, H)
  BY DEF Inv
<1>2. KeepOK' /\ HeldKeep(G, H)'
  BY <1>1, KeepStays
<1>3. HeldBlocks(G, H, b, blocks[b])
  BY <1>1, OwnBlocks
<1>4. HeldBlocks(G, H, b, blocks'[b])
  BY <1>3
<1>5. HeldGot(G, H, t)'
  BY <1>1 DEF Held, HeldGot
<1>6. (\E X, Y : Held(X, Y))'
  BY <1>1, <1>2, <1>4, <1>5, HeldSame
<1> QED BY <1>2, <1>6

\* Groups of held blocks are held.
LEMMA GroupsHeld ==
  ASSUME NEW G, NEW H, NEW b, NEW bs \in Seq(BlobBlock), HeldBlocks(G, H, b, bs)
  PROVE  HeldGroups(G, H, b, Groups(bs)) /\ Groups(bs) \subseteq Group
<1>1. /\ \A g \in Groups(bs) : GroupOf(g, bs)
      /\ \A g, h \in Groups(bs) : g.tgt = h.tgt => g = h
  BY GroupsOf
<1>2. Groups(bs) \subseteq Group
  BY <1>1 DEF GroupOf
<1>3. ASSUME NEW g \in Groups(bs)
      PROVE  /\ DistinctOffs(g.exts)
             /\ \A i \in 1 .. Len(g.exts) : Holds(G, H, <<"blob", b>>, g.tgt, g.exts[i])
  <2>1. GroupOf(g, bs) /\ Distinct(bs)
    BY <1>1 DEF HeldBlocks
  <2>2. DistinctOffs(g.exts)
    BY <2>1 DEF GroupOf
  <2>3. ASSUME NEW i \in 1 .. Len(g.exts) PROVE Holds(G, H, <<"blob", b>>, g.tgt, g.exts[i])
    <3>1. PICK j \in 1 .. Len(bs) :
            bs[j].tgt = g.tgt /\ bs[j].off = g.exts[i].off /\ bs[j].size = g.exts[i].size
      BY <2>1 DEF GroupOf
    <3>2. Holds(G, H, <<"blob", b>>, bs[j].tgt, bs[j])
      BY DEF HeldBlocks
    <3> QED BY <3>1, <3>2 DEF Holds
  <2> QED BY <2>2, <2>3
<1> QED BY <1>1, <1>2, <1>3 DEF HeldGroups

\* A handler begins to free all blocks of its blob.
LEMMA HeldStart ==
  ASSUME Inv, NEW t \in Tasks, NEW b \in Blobs, Works(t, b), Only(t, b),
         ~ Freeing(t), pc'[t] = "free", todo'[t] = Groups(blocks[b]),
         blocks' = blocks, keep' = keep, cursor' = cursor, recycled' = recycled,
         got'[t] = <<>>
  PROVE  (\E G, H : Held(G, H))' /\ KeepOK' /\ todo'[t] \subseteq Group
<1>1. PICK G, H : Held(G, H)
  BY DEF Inv
<1>2. KeepOK' /\ HeldKeep(G, H)'
  BY <1>1, KeepStays
<1>3. HeldBlocks(G, H, b, blocks[b]) /\ blocks[b] \in Seq(BlobBlock)
  BY <1>1, OwnBlocks DEF Inv, Types, BlobTypes
<1>4. HeldGroups(G, H, b, Groups(blocks[b])) /\ Groups(blocks[b]) \subseteq Group
  BY <1>3, GroupsHeld
<1>5. HeldGot(G, H, t)'
  BY DEF HeldGot
<1>6. ~ BeingFreed(b)' => HeldBlocks(G, H, b, blocks'[b])
  BY <1>3
<1>7. (\E X, Y : Held(X, Y))'
  BY <1>1, <1>2, <1>4, <1>5, <1>6, HeldSame
<1> QED BY <1>2, <1>4, <1>7

-----------------------------------------------------------------------------
(* Requests.                                                               *)

\* A blob's size is a number.
LEMMA SizeIsNat ==
  ASSUME Types, NEW b \in Blobs
  PROVE  Size(b) \in Nat /\ blocks[b] \in Seq(BlobBlock)
<1>1. blocks[b] \in Seq(BlobBlock)
  BY DEF Types, BlobTypes
<1>2. Sized(blocks[b])
  BY <1>1, BlocksSized
<1>3. SizeOf(blocks[b]) \in Nat
  BY <1>2, EndsFacts
<1> QED BY <1>1, <1>3 DEF Size

\* The common beginning of PutBlob and of the PutBlob that ReorganizeBlob and
\* FlushData send.
LEMMA BeginPutInv ==
  ASSUME Inv, NEW t \in Tasks, NEW r \in Request, NEW b \in Blobs, b = r.blob, Works(t, b),
         r.kind \in {"put", "reorg", "reput"}, r.kind = "reput" <=> t = Flusher,
         r.kind \in {"reorg", "reput"} => r.off = 0 /\ b \in exists,
         r.off + r.size <= MaxBlock, Len(r.data) = r.size,
         pc[t] \in {"idle", "reput"}, pc[t] = "reput" => r = req[t],
         \A e \in flush : e.blob # b,
         BeginPut(t, r), ops' \in 0 .. MaxOps,
         UNCHANGED <<targetVars, bdevVars, allocVars, credit, rc, flush, keep, content>>
  PROVE  Inv' /\ Works(t, b)' /\ Only(t, b)
<1> DEFINE new == b \notin exists
           s == IF r.score >= 0 THEN r.score ELSE IF new THEN TopScore ELSE score[b]
           clear == ~ new /\ r.off = 0 /\ Size(b) > 0
           q == [r EXCEPT !.score = s]
<1>0. Types /\ TaskOK(t) /\ BlobOK(b)
  BY DEF Inv
<1>1. Size(b) \in Nat /\ blocks[b] \in Seq(BlobBlock)
  BY <1>0, SizeIsNat
<1>2. /\ req' = [req EXCEPT ![t] = q]
      /\ exists' = exists \cup {b}
      /\ score' = [score EXCEPT ![b] = IF new THEN s ELSE @]
      /\ old' = [old EXCEPT ![t] = IF clear \/ new THEN 0 ELSE Size(b)]
      /\ todo' = [todo EXCEPT ![t] = IF clear THEN Groups(blocks[b]) ELSE {}]
      /\ pc' = [pc EXCEPT ![t] = IF clear THEN "free" ELSE "extend"]
      /\ blocks' = blocks /\ tag_size' = tag_size
  BY DEF BeginPut, Goto
<1>3. s \in Nat
  <2>1. r.score \in Int
    BY DEF Request
  <2>2. score[b] \in Nat /\ TopScore \in Nat
    BY <1>0, TargetAssumption DEF Types, BlobTypes
  <2> QED BY <2>1, <2>2
<1>4. q \in Request /\ q.score = s /\ q.kind = r.kind /\ q.blob = b /\ q.off = r.off
      /\ q.size = r.size /\ q.data = r.data
  <2>1. s \in Int
    BY <1>3
  <2> HIDE DEF s
  <2> QED BY <2>1 DEF Request
<1> HIDE DEF s, q
<1>5. /\ req'[t] = q
      /\ todo'[t] = IF clear THEN Groups(blocks[b]) ELSE {}
      /\ pc'[t] = IF clear THEN "free" ELSE "extend"
      /\ old'[t] = IF clear \/ new THEN 0 ELSE Size(b)
  BY <1>0, <1>2 DEF Types, TaskTypes
<1>6. /\ cursor' = cursor /\ recycled' = recycled /\ disk' = disk /\ keep' = keep
      /\ got' = got /\ queue' = queue /\ left' = left /\ asked' = asked /\ credit' = credit
      /\ content' = content /\ flush' = flush /\ rc' = rc
      /\ registered' = registered /\ remaining' = remaining
  BY DEF bdevVars, allocVars, targetVars
<1>7. Only(t, b)
  <2>1. \A u \in Tasks \ {t} :
          pc'[u] = pc[u] /\ req'[u] = req[u] /\ todo'[u] = todo[u] /\ old'[u] = old[u]
    BY <1>0, <1>2 DEF Types, TaskTypes
  <2> QED BY <1>2, <1>4, <1>5, <1>6, <2>1 DEF Only
<1>8. got'[t] = <<>> /\ ~ Freeing(t)
  BY <1>0, <1>6 DEF TaskOK, Freeing
<1>9. (\E G, H : Held(G, H))' /\ KeepOK' /\ todo'[t] \subseteq Group
  <2>1. CASE clear
    <3>1. pc'[t] = "free" /\ todo'[t] = Groups(blocks[b])
      BY <1>5, <2>1
    <3> QED BY <1>2, <1>6, <1>7, <1>8, <3>1, HeldStart
  <2>2. CASE ~ clear
    <3>1. pc'[t] = "extend" /\ todo'[t] = {}
      BY <1>5, <2>2
    <3>2. ~ Freeing(t)'
      BY <3>1 DEF Freeing
    <3> QED BY <1>2, <1>6, <1>7, <1>8, <3>1, <3>2, HeldQuiet
  <2> QED BY <2>1, <2>2
<1>10. Types'
  <2>1. BlobTypes'
    <3>1. score' \in [Blobs -> Nat]
      BY <1>0, <1>2, <1>3 DEF Types, BlobTypes
    <3> QED BY <1>0, <1>2, <3>1 DEF Types, BlobTypes
  <2>2. TargetTypes' /\ DeviceTypes' /\ DiskTypes' /\ AllocTypes' /\ OtherTypes'
    BY <1>0, <1>6 DEF Types, TargetTypes, DeviceTypes, DiskTypes, AllocTypes, OtherTypes
  <2>3. TaskTypes'
    <3>1. pc' \in [Tasks -> Places]
      BY <1>0, <1>2 DEF Types, TaskTypes, Places
    <3>2. req' \in [Tasks -> Request \cup {NoRequest}]
      BY <1>0, <1>2, <1>4 DEF Types, TaskTypes
    <3>3. todo' \in [Tasks -> SUBSET (Slice \cup Group)]
      <4>1. \A T : todo' = [todo EXCEPT ![t] = T] /\ T \subseteq Group
                     => todo' \in [Tasks -> SUBSET (Slice \cup Group)]
        BY <1>0 DEF Types, TaskTypes
      <4>2. todo' = [todo EXCEPT ![t] = todo'[t]]
        BY <1>2, <1>5
      <4> QED BY <1>9, <4>1, <4>2
    <3>4. old' \in [Tasks -> Nat]
      BY <1>0, <1>1, <1>2 DEF Types, TaskTypes
    <3> QED BY <1>0, <1>6, <3>1, <3>2, <3>3, <3>4 DEF Types, TaskTypes
  <2> QED BY <2>1, <2>2, <2>3 DEF Types
<1>11. Size(b)' = Size(b)
  BY <1>2 DEF Size
<1>12. TaskOK(t)'
  <2>1. Serves(t)'
    <3>1. b \in exists'
      BY <1>2
    <3> QED BY <1>4, <1>5, <3>1 DEF Serves
  <2>2. CASE clear
    <3>1. pc'[t] = "free" /\ old'[t] = 0
      BY <1>5, <2>2
    <3>2. AtFree(t)'
      BY <1>3, <1>4, <1>5, <1>9, <3>1 DEF AtFree
    <3> QED BY <1>8, <2>1, <3>1, <3>2 DEF TaskOK, Freeing, Growing
  <2>3. CASE ~ clear
    <3>1. pc'[t] = "extend"
      BY <1>5, <2>3
    <3>2. old'[t] = 0 \/ old'[t] = Size(b)
      BY <1>5, <2>3
    <3>3. old'[t] <= Size(b)
      BY <1>1, <3>2
    <3>4. AtGrow(t)'
      BY <1>3, <1>4, <1>5, <1>11, <3>3 DEF AtGrow
    <3> QED BY <1>8, <2>1, <3>1, <3>4 DEF TaskOK, Freeing, Growing
  <2> QED BY <2>2, <2>3
<1>13. BlobOK(b)'
  <2>1. b \in exists'
    BY <1>2
  <2>2. Size(b) <= MaxBlock \/ Cut(b)'
    <3>1. CASE ~ Cut(b)
      BY <1>0, <3>1 DEF BlobOK
    <3>2. CASE Cut(b)
      <4>1. t = Flusher /\ pc[t] = "reput" /\ r.kind = "reput"
        <5>1. Flusher \in Tasks /\ pc[Flusher] # "idle" /\ req[Flusher].blob = b
          BY <3>2 DEF Cut, Tasks
        <5>2. Flusher = t
          BY <5>1 DEF Works
        <5> QED BY <3>2, <5>2 DEF Cut
      <4>2. CASE clear
        BY <1>4, <1>5, <4>1, <4>2 DEF Cut
      <4>3. CASE ~ clear
        <5>1. Size(b) = 0
          BY <1>1, <4>1, <4>3
        <5> QED BY <5>1, TargetAssumption
      <4> QED BY <4>2, <4>3
    <3> QED BY <3>1, <3>2
  <2> QED BY <1>11, <2>1, <2>2 DEF BlobOK
<1>14. Inv'
  BY <1>6, <1>7, <1>9, <1>10, <1>12, <1>13, StepInv
<1>15. Works(t, b)'
  BY <1>4, <1>5, <1>7 DEF Works, Only
<1> QED BY <1>7, <1>14, <1>15

\* A client's request meets no other handler on its blob.
LEMMA AcceptsAlone ==
  ASSUME Fits, Inv, NEW t \in Clients, NEW c \in Calls, Accepts(t, c)
  PROVE  /\ t \in Tasks /\ t # Flusher /\ c \in CallSet
         /\ pc[t] = "idle" /\ c.blob \in Blobs /\ Works(t, c.blob)
         /\ \A e \in flush : e.blob # c.blob
         /\ ops' \in 0 .. MaxOps /\ ops + 1 \in Val
<1>1. t \in Tasks /\ t # Flusher /\ c \in CallSet
  BY TaskAssumption DEF Tasks
<1>2. pc[t] = "idle" /\ ops < MaxOps /\ ops' = ops + 1 /\ ~ InUse(c.blob) /\ ~ FlushUses(c.blob)
  BY DEF Accepts, Fits
<1>3. c.blob \in Blobs
  BY <1>1 DEF CallSet
<1>4. Works(t, c.blob)
  <2>1. \A u \in Clients : pc[u] # "idle" => req[u].blob # c.blob
    BY <1>2 DEF InUse
  <2>2. pc[Flusher] # "idle" => req[Flusher].blob # c.blob
    BY <1>2 DEF FlushUses
  <2> QED BY <1>2, <2>1, <2>2 DEF Works, Tasks
<1>5. \A e \in flush : e.blob # c.blob
  BY <1>2 DEF FlushUses
<1>6. ops' \in 0 .. MaxOps /\ ops + 1 \in Val
  <2>1. ops \in 0 .. MaxOps
    BY DEF Inv, Types, OtherTypes
  <2> QED BY <1>2, <2>1, TaskAssumption DEF Val
<1> QED BY <1>1, <1>2, <1>3, <1>4, <1>5, <1>6

\* A client's call is a request.
LEMMA CallIsRequest ==
  ASSUME NEW c \in CallSet
  PROVE  c \in Request
<1>1. <<>> \in Seq(Val) /\ c.data = <<>>
  BY DEF CallSet
<1>2. PICK d \in Seq(Val) : c.data = d
  BY <1>1
<1>3. c = [kind |-> c.kind, blob |-> c.blob, off |-> c.off, size |-> c.size,
           score |-> c.score, level |-> c.level, data |-> c.data]
  BY DEF CallSet
<1>4. c.kind \in {"put", "get", "del", "reorg", "flush", "reput"} /\ c.blob \in Blobs
      /\ c.off \in Nat /\ c.size \in Nat /\ c.score \in Int /\ c.level \in Nat
  BY DEF CallSet
<1> QED BY <1>2, <1>3, <1>4 DEF Request

\* PutBlob up to its first await.
LEMMA PutBlobInv ==
  ASSUME Fits, Inv, NEW t \in Clients, NEW c \in Calls, PutBlob(t, c)
  PROVE  Inv' /\ Only(t, c.blob)
<1> DEFINE d == [i \in 1 .. c.size |-> ops + 1]
           r == [c EXCEPT !.data = d]
<1>1. c.kind = "put" /\ Accepts(t, c) /\ BeginPut(t, r)
  BY DEF PutBlob
<1>2. /\ t \in Tasks /\ t # Flusher /\ c \in CallSet
      /\ pc[t] = "idle" /\ c.blob \in Blobs /\ Works(t, c.blob)
      /\ \A e \in flush : e.blob # c.blob
      /\ ops' \in 0 .. MaxOps /\ ops + 1 \in Val
  BY <1>1, AcceptsAlone
<1>3. c.size \in Nat /\ c.off \in Nat /\ c.score \in Int /\ c.level \in Nat
  BY <1>2 DEF CallSet
<1>4. d \in Seq(Val) /\ Len(d) = c.size
  BY <1>2, <1>3
<1>5. r = [kind |-> "put", blob |-> c.blob, off |-> c.off, size |-> c.size,
           score |-> c.score, level |-> c.level, data |-> d]
  BY <1>1, <1>2 DEF CallSet
<1> HIDE DEF d, r
<1>6. r \in Request /\ r.kind = "put" /\ r.blob = c.blob /\ r.off = c.off /\ r.size = c.size /\ r.data = d
  BY <1>2, <1>3, <1>4, <1>5 DEF Request
<1>7. c.off + c.size <= MaxBlock
  BY <1>1 DEF Fits
<1>8. UNCHANGED <<targetVars, bdevVars, allocVars, credit, rc, flush, keep, content>>
  BY DEF PutBlob
<1>9. PICK q \in Request : q = r
  BY <1>6
<1>10. PICK b \in Blobs : b = c.blob
  BY <1>2
<1>11. BeginPut(t, q)
  BY <1>1, <1>9
<1>12. /\ b = q.blob /\ q.kind \in {"put", "reorg", "reput"} /\ (q.kind = "reput" <=> t = Flusher)
       /\ (q.kind \in {"reorg", "reput"} => q.off = 0 /\ b \in exists)
       /\ q.off + q.size <= MaxBlock /\ Len(q.data) = q.size
  BY <1>2, <1>4, <1>6, <1>7, <1>9, <1>10
<1>13. /\ pc[t] \in {"idle", "reput"} /\ (pc[t] = "reput" => q = req[t])
       /\ \A e \in flush : e.blob # b
       /\ Works(t, b)
  BY <1>2, <1>10
<1> QED BY <1>2, <1>8, <1>10, <1>11, <1>12, <1>13, BeginPutInv

\* The buffer a read fills.
LEMMA BlankIs ==
  ASSUME NEW n \in Nat
  PROVE  Blank(n) \in Seq(Val) /\ Len(Blank(n)) = n
<1>1. 0 \in Val
  BY TaskAssumption DEF Val
<1> QED BY <1>1 DEF Blank

\* ReadData up to its first await: the slices are of the blob's blocks.
LEMMA BeginReadInv ==
  ASSUME Inv, NEW t \in Tasks, NEW r \in Request, NEW b \in Blobs, b = r.blob, Works(t, b),
         b \in exists, pc[t] = "idle",
         r.kind \in {"get", "reorg", "flush"}, r.kind = "flush" <=> t = Flusher,
         r.kind # "get" => r.off = 0 /\ r.size = Size(b),
         BeginRead(t, r), ops' \in 0 .. MaxOps,
         flush' \subseteq flush, \A e \in flush' : e.blob # b,
         UNCHANGED <<blobVars, targetVars, bdevVars, allocVars, credit, old, rc, keep, content>>
  PROVE  Inv' /\ Only(t, b)
<1> DEFINE q == [r EXCEPT !.data = Blank(r.size)]
<1>0. Types /\ TaskOK(t) /\ BlobOK(b)
  BY DEF Inv
<1>1. Size(b) \in Nat /\ blocks[b] \in Seq(BlobBlock)
  BY <1>0, SizeIsNat
<1>2. /\ req' = [req EXCEPT ![t] = q]
      /\ todo' = [todo EXCEPT ![t] = Slices(blocks[b], r.off, r.size)]
      /\ pc' = [pc EXCEPT ![t] = "read"]
  BY DEF BeginRead, Goto
<1>3. r.size \in Nat /\ r.off \in Nat
  BY DEF Request
<1>4. Blank(r.size) \in Seq(Val) /\ Len(Blank(r.size)) = r.size
  BY <1>3, BlankIs
<1>5. q \in Request /\ q.kind = r.kind /\ q.blob = b /\ q.off = r.off
      /\ q.size = r.size /\ q.data = Blank(r.size)
  BY <1>4 DEF Request
<1> HIDE DEF q
<1>6. /\ exists' = exists /\ blocks' = blocks /\ score' = score /\ tag_size' = tag_size
      /\ cursor' = cursor /\ recycled' = recycled /\ disk' = disk /\ keep' = keep
      /\ got' = got /\ queue' = queue /\ left' = left /\ asked' = asked /\ credit' = credit
      /\ content' = content /\ rc' = rc /\ old' = old
      /\ registered' = registered /\ remaining' = remaining
  BY DEF blobVars, bdevVars, allocVars, targetVars
<1>7. req'[t] = q /\ todo'[t] = Slices(blocks[b], r.off, r.size) /\ pc'[t] = "read"
  BY <1>0, <1>2 DEF Types, TaskTypes
<1>8. Only(t, b)
  <2>1. \A u \in Tasks \ {t} : pc'[u] = pc[u] /\ req'[u] = req[u] /\ todo'[u] = todo[u]
    BY <1>0, <1>2 DEF Types, TaskTypes
  <2> QED BY <1>5, <1>6, <1>7, <2>1 DEF Only
<1>9. got'[t] = <<>> /\ ~ Freeing(t) /\ ~ Freeing(t)'
  BY <1>0, <1>6, <1>7 DEF TaskOK, Freeing
<1>10. (\E G, H : Held(G, H))' /\ KeepOK'
  BY <1>6, <1>8, <1>9, HeldQuiet
<1>11. Types'
  <2>1. BlobTypes' /\ TargetTypes' /\ DeviceTypes' /\ DiskTypes' /\ AllocTypes'
    BY <1>0, <1>6 DEF Types, BlobTypes, TargetTypes, DeviceTypes, DiskTypes, AllocTypes
  <2>2. OtherTypes'
    BY <1>0, <1>6 DEF Types, OtherTypes
  <2>3. TaskTypes'
    <3>1. pc' \in [Tasks -> Places]
      BY <1>0, <1>2 DEF Types, TaskTypes, Places
    <3>2. req' \in [Tasks -> Request \cup {NoRequest}]
      BY <1>0, <1>2, <1>5 DEF Types, TaskTypes
    <3>3. todo' \in [Tasks -> SUBSET (Slice \cup Group)]
      <4>1. Slices(blocks[b], r.off, r.size) \subseteq Slice
        BY <1>1, <1>3, SlicesLie
      <4> QED BY <1>0, <1>2, <4>1 DEF Types, TaskTypes
    <3> QED BY <1>0, <1>6, <3>1, <3>2, <3>3 DEF Types, TaskTypes
  <2> QED BY <2>1, <2>2, <2>3 DEF Types
<1>12. Size(b)' = Size(b) /\ ~ Cut(b)
  <2>1. ~ Cut(b)
    BY DEF Cut, Works, Tasks
  <2> QED BY <1>6, <2>1 DEF Size
<1>13. Size(b) <= MaxBlock
  BY <1>0, <1>12 DEF BlobOK
<1>14. TaskOK(t)'
  <2>1. r.kind # "get" => r.off + r.size <= MaxBlock
    BY <1>1, <1>13
  <2>2. Serves(t)'
    BY <1>4, <1>5, <1>6, <1>7, <2>1 DEF Serves
  <2>3. AtRead(t)'
    BY <1>5, <1>6, <1>7, <1>12 DEF AtRead
  <2> QED BY <1>7, <1>9, <2>2, <2>3 DEF TaskOK, Freeing, Growing
<1>15. BlobOK(b)'
  BY <1>0, <1>6, <1>12, <1>13 DEF BlobOK
<1> QED BY <1>8, <1>10, <1>11, <1>14, <1>15, StepInv

\* A request refused at once changes nothing that matters.
LEMMA RefusedInv ==
  ASSUME Inv, NEW t \in Tasks, NEW b \in Blobs, Works(t, b), pc[t] = "idle",
         NEW code \in {0, 1, 3}, Answer(t, code), ops' \in 0 .. MaxOps,
         \A e \in flush : e.blob # b,
         UNCHANGED <<blobVars, targetVars, bdevVars, allocVars, todo, credit, old, flush, keep, content>>
  PROVE  Inv' /\ Only(t, b)
<1>0. Types /\ TaskOK(t) /\ BlobOK(b)
  BY DEF Inv
<1>1. /\ req' = [req EXCEPT ![t] = NoRequest]
      /\ rc' = [rc EXCEPT ![t] = code]
      /\ pc' = [pc EXCEPT ![t] = "idle"]
  BY DEF Answer, Goto
<1>2. /\ exists' = exists /\ blocks' = blocks /\ score' = score /\ tag_size' = tag_size
      /\ cursor' = cursor /\ recycled' = recycled /\ disk' = disk /\ keep' = keep
      /\ got' = got /\ queue' = queue /\ left' = left /\ asked' = asked /\ credit' = credit
      /\ content' = content /\ old' = old /\ todo' = todo /\ flush' = flush
      /\ registered' = registered /\ remaining' = remaining
  BY DEF blobVars, bdevVars, allocVars, targetVars
<1>3. pc'[t] = "idle"
  BY <1>0, <1>1 DEF Types, TaskTypes
<1>4. Only(t, b)
  <2>1. \A u \in Tasks \ {t} : pc'[u] = pc[u] /\ req'[u] = req[u]
    BY <1>0, <1>1 DEF Types, TaskTypes
  <2> QED BY <1>2, <1>3, <2>1 DEF Only
<1>5. got'[t] = <<>> /\ ~ Freeing(t) /\ ~ Freeing(t)'
  BY <1>0, <1>2, <1>3 DEF TaskOK, Freeing
<1>6. (\E G, H : Held(G, H))' /\ KeepOK'
  BY <1>2, <1>4, <1>5, HeldQuiet
<1>7. Types'
  <2>1. BlobTypes' /\ TargetTypes' /\ DeviceTypes' /\ DiskTypes' /\ AllocTypes' /\ OtherTypes'
    BY <1>0, <1>2 DEF Types, BlobTypes, TargetTypes, DeviceTypes, DiskTypes, AllocTypes, OtherTypes
  <2>2. TaskTypes'
    BY <1>0, <1>1, <1>2 DEF Types, TaskTypes, Places
  <2> QED BY <2>1, <2>2 DEF Types
<1>8. TaskOK(t)'
  BY <1>3, <1>5 DEF TaskOK, Freeing, Growing
<1>9. BlobOK(b)'
  <2>1. ~ Cut(b)
    BY DEF Cut, Works, Tasks
  <2> QED BY <1>0, <1>2, <2>1 DEF BlobOK, Size
<1> QED BY <1>2, <1>4, <1>6, <1>7, <1>8, <1>9, StepInv

\* GetBlob up to its first await.
LEMMA GetBlobInv ==
  ASSUME Fits, Inv, NEW t \in Clients, NEW c \in Calls, GetBlob(t, c)
  PROVE  Inv' /\ Only(t, c.blob)
<1>1. c.kind = "get" /\ Accepts(t, c)
  BY DEF GetBlob
<1>2. /\ t \in Tasks /\ t # Flusher /\ c \in CallSet
      /\ pc[t] = "idle" /\ c.blob \in Blobs /\ Works(t, c.blob)
      /\ \A e \in flush : e.blob # c.blob
      /\ ops' \in 0 .. MaxOps /\ ops + 1 \in Val
  BY <1>1, AcceptsAlone
<1>3. c \in Request
  BY <1>2, CallIsRequest
<1>4. UNCHANGED <<blobVars, targetVars, bdevVars, allocVars, credit, old, flush, keep, content>>
  BY DEF GetBlob
<1>5. CASE c.blob \in exists
  <2>1. BeginRead(t, c) /\ UNCHANGED rc
    BY <1>5 DEF GetBlob
  <2>2. UNCHANGED <<blobVars, targetVars, bdevVars, allocVars, credit, old, rc, keep, content>>
    BY <1>4, <2>1
  <2>3. flush' = flush
    BY <1>4
  <2> QED BY <1>1, <1>2, <1>3, <1>5, <2>1, <2>2, <2>3, BeginReadInv
<1>6. CASE c.blob \notin exists
  <2>1. Answer(t, 1) /\ UNCHANGED todo
    BY <1>6 DEF GetBlob
  <2>2. UNCHANGED <<blobVars, targetVars, bdevVars, allocVars, todo, credit, old, flush, keep, content>>
    BY <1>4, <2>1
  <2> QED BY <1>2, <2>1, <2>2, RefusedInv
<1> QED BY <1>5, <1>6

\* ReorganizeBlob up to its first await.
LEMMA ReorganizeBlobInv ==
  ASSUME Fits, Inv, NEW t \in Clients, NEW c \in Calls, ReorganizeBlob(t, c)
  PROVE  Inv' /\ Only(t, c.blob)
<1>1. c.kind = "reorg" /\ Accepts(t, c)
  BY DEF ReorganizeBlob
<1>2. /\ t \in Tasks /\ t # Flusher /\ c \in CallSet
      /\ pc[t] = "idle" /\ c.blob \in Blobs /\ Works(t, c.blob)
      /\ \A e \in flush : e.blob # c.blob
      /\ ops' \in 0 .. MaxOps /\ ops + 1 \in Val
  BY <1>1, AcceptsAlone
<1>3. UNCHANGED <<blobVars, targetVars, bdevVars, allocVars, credit, old, flush, keep, content>>
  BY DEF ReorganizeBlob
<1> DEFINE go == c.blob \in exists /\ c.score # score[c.blob] /\ Size(c.blob) > 0
           r == [c EXCEPT !.off = 0, !.size = Size(c.blob)]
<1>4. CASE go
  <2>1. BeginRead(t, r) /\ UNCHANGED rc
    BY <1>4 DEF ReorganizeBlob
  <2>2. UNCHANGED <<blobVars, targetVars, bdevVars, allocVars, credit, old, rc, keep, content>>
    BY <1>3, <2>1
  <2>3. flush' = flush
    BY <1>3
  <2>4. Size(c.blob) \in Nat
    BY <1>2, SizeIsNat DEF Inv
  <2>5. r \in Request /\ r.kind = "reorg" /\ r.off = 0 /\ r.size = Size(c.blob) /\ r.blob = c.blob
    <3>1. c \in Request
      BY <1>2, CallIsRequest
    <3> QED BY <1>1, <2>4, <3>1 DEF Request
  <2> HIDE DEF r
  <2>6. PICK q \in Request : q = r
    BY <2>5
  <2>7. BeginRead(t, q)
    BY <2>1, <2>6
  <2>8. /\ c.blob = q.blob /\ c.blob \in exists
        /\ q.kind \in {"get", "reorg", "flush"} /\ (q.kind = "flush" <=> t = Flusher)
        /\ (q.kind # "get" => q.off = 0 /\ q.size = Size(c.blob))
    BY <1>2, <1>4, <2>5, <2>6
  <2> QED BY <1>2, <2>2, <2>3, <2>7, <2>8, BeginReadInv
<1>5. CASE ~ go
  <2>1. PICK code \in {0, 3} : Answer(t, code) /\ UNCHANGED todo
    <3>1. Answer(t, IF c.blob \in exists THEN 0 ELSE 3) /\ UNCHANGED todo
      BY <1>5 DEF ReorganizeBlob
    <3> QED BY <3>1
  <2>2. UNCHANGED <<blobVars, targetVars, bdevVars, allocVars, todo, credit, old, flush, keep, content>>
    BY <1>3, <2>1
  <2>3. code \in {0, 1, 3}
    OBVIOUS
  <2> QED BY <1>2, <2>1, <2>2, <2>3, RefusedInv
<1> QED BY <1>4, <1>5

\* DelBlob up to its first await: the groups to free are the blob's blocks.
LEMMA DelBlobInv ==
  ASSUME Fits, Inv, NEW t \in Clients, NEW c \in Calls, DelBlob(t, c)
  PROVE  Inv' /\ Only(t, c.blob)
<1>1. c.kind = "del" /\ Accepts(t, c)
  BY DEF DelBlob
<1>2. /\ t \in Tasks /\ t # Flusher /\ c \in CallSet
      /\ pc[t] = "idle" /\ c.blob \in Blobs /\ Works(t, c.blob)
      /\ \A e \in flush : e.blob # c.blob
      /\ ops' \in 0 .. MaxOps /\ ops + 1 \in Val
  BY <1>1, AcceptsAlone
<1>3. c \in Request
  BY <1>2, CallIsRequest
<1>4. UNCHANGED <<blobVars, targetVars, bdevVars, allocVars, credit, flush, keep, content>>
  BY DEF DelBlob
<1>5. CASE c.blob \in exists
  <2> DEFINE b == c.blob
  <2>0. Types /\ TaskOK(t) /\ BlobOK(b)
    BY <1>2 DEF Inv
  <2>1. /\ req' = [req EXCEPT ![t] = c]
        /\ old' = [old EXCEPT ![t] = Size(b)]
        /\ todo' = [todo EXCEPT ![t] = Groups(blocks[b])]
        /\ pc' = [pc EXCEPT ![t] = "free"]
        /\ rc' = rc
    BY <1>5 DEF DelBlob, Goto
  <2>2. /\ exists' = exists /\ blocks' = blocks /\ score' = score /\ tag_size' = tag_size
        /\ cursor' = cursor /\ recycled' = recycled /\ disk' = disk /\ keep' = keep
        /\ got' = got /\ queue' = queue /\ left' = left /\ asked' = asked /\ credit' = credit
        /\ content' = content /\ flush' = flush
        /\ registered' = registered /\ remaining' = remaining
    BY <1>4 DEF blobVars, bdevVars, allocVars, targetVars
  <2> HIDE DEF b
  <2>3. b \in Blobs /\ b \in exists /\ Works(t, b) /\ c.blob = b /\ (\A e \in flush' : e.blob # b)
    BY <1>2, <1>5, <2>2 DEF b
  <2>4. req'[t] = c /\ todo'[t] = Groups(blocks[b]) /\ pc'[t] = "free"
    BY <1>2, <2>0, <2>1 DEF Types, TaskTypes
  <2>5. Only(t, b)
    <3>1. \A u \in Tasks \ {t} :
            pc'[u] = pc[u] /\ req'[u] = req[u] /\ todo'[u] = todo[u] /\ old'[u] = old[u]
      BY <2>0, <2>1 DEF Types, TaskTypes
    <3> QED BY <2>2, <2>3, <2>4, <3>1 DEF Only
  <2>6. got'[t] = <<>> /\ ~ Freeing(t)
    BY <1>2, <2>0, <2>2 DEF TaskOK, Freeing
  <2>7. (\E G, H : Held(G, H))' /\ KeepOK' /\ todo'[t] \subseteq Group
    BY <1>2, <2>2, <2>3, <2>4, <2>5, <2>6, HeldStart
  <2>8. Types'
    <3>1. BlobTypes' /\ TargetTypes' /\ DeviceTypes' /\ DiskTypes' /\ AllocTypes'
      BY <2>0, <2>2 DEF Types, BlobTypes, TargetTypes, DeviceTypes, DiskTypes, AllocTypes
    <3>2. OtherTypes'
      BY <1>2, <2>0, <2>2 DEF Types, OtherTypes
    <3>3. TaskTypes'
      <4>1. pc' \in [Tasks -> Places]
        BY <2>0, <2>1 DEF Types, TaskTypes, Places
      <4>2. req' \in [Tasks -> Request \cup {NoRequest}]
        BY <1>3, <2>0, <2>1 DEF Types, TaskTypes
      <4>3. todo' \in [Tasks -> SUBSET (Slice \cup Group)]
        BY <2>0, <2>1, <2>4, <2>7 DEF Types, TaskTypes
      <4>4. old' \in [Tasks -> Nat]
        <5>1. Size(b) \in Nat
          BY <2>0, <2>3, SizeIsNat
        <5> QED BY <2>0, <2>1, <5>1 DEF Types, TaskTypes
      <4> QED BY <2>0, <2>1, <2>2, <4>1, <4>2, <4>3, <4>4 DEF Types, TaskTypes
    <3> QED BY <3>1, <3>2, <3>3 DEF Types
  <2>9. TaskOK(t)'
    <3>1. Serves(t)'
      BY <1>1, <1>2, <1>3, <2>2, <2>3, <2>4 DEF Serves
    <3>2. AtFree(t)'
      BY <1>1, <2>4, <2>7 DEF AtFree
    <3> QED BY <2>4, <2>6, <3>1, <3>2 DEF TaskOK, Freeing, Growing
  <2>10. BlobOK(b)'
    <3>1. ~ Cut(b)
      BY <1>2, <2>3 DEF Cut, Works, Tasks
    <3> QED BY <2>0, <2>2, <3>1 DEF BlobOK, Size
  <2> QED BY <1>2, <2>2, <2>3, <2>5, <2>7, <2>8, <2>9, <2>10, StepInv
<1>6. CASE c.blob \notin exists
  <2>1. Answer(t, 1) /\ UNCHANGED <<todo, old>>
    BY <1>6 DEF DelBlob
  <2>2. UNCHANGED <<blobVars, targetVars, bdevVars, allocVars, todo, credit, old, flush, keep, content>>
    BY <1>4, <2>1
  <2> QED BY <1>2, <2>1, <2>2, RefusedInv
<1> QED BY <1>5, <1>6

-----------------------------------------------------------------------------
(* Reads and writes.                                                       *)

\* Held blocks lie inside their device.
LEMMA BlocksInside ==
  ASSUME NEW G, NEW H, Held(G, H), NEW b \in Blobs, NEW bs \in Seq(BlobBlock),
         HeldBlocks(G, H, b, bs), NEW i \in 1 .. Len(bs)
  PROVE  bs[i].off + bs[i].size <= Capacity[bs[i].tgt]
<1>1. bs[i] \in BlobBlock
  OBVIOUS
<1>2. PICK x \in Targets, o \in Nat, z \in Nat : x = bs[i].tgt /\ o = bs[i].off /\ z = bs[i].size
  BY <1>1 DEF BlobBlock
<1>3. Holds(G, H, <<"blob", b>>, x, bs[i])
  BY <1>2 DEF HeldBlocks
<1>4. z <= G[x][o] /\ SmallBlock <= G[x][o]
  BY <1>2, <1>3 DEF Holds
<1>5. G[x][o] \in Nat /\ (G[x][o] > 0 => o + G[x][o] <= Capacity[x])
  BY DEF Held, Grid
<1>6. o + z <= Capacity[x]
  <2>1. Capacity[x] \in Nat /\ SmallBlock \in Nat \ {0}
    BY TargetAssumption
  <2> QED BY <1>4, <1>5, <2>1
<1> QED BY <1>2, <1>6

\* The slices of a read or a write lie in the buffer and on the device.
LEMMA SliceInside ==
  ASSUME Inv, NEW t \in Tasks, pc[t] \in {"read", "write"}, NEW s \in todo[t]
  PROVE  /\ s.tgt \in Targets /\ s.at \in Nat /\ s.buf \in Nat /\ s.len \in Nat
         /\ s.buf + s.len <= req[t].size
         /\ s.at + s.len <= Capacity[s.tgt]
         /\ req[t].size \in Nat
<1>1. /\ req[t] \in Request /\ req[t].blob \in Blobs /\ Works(t, req[t].blob)
  BY OwnBlob
<1>2. PICK b \in Blobs, off \in Nat, n \in Nat : b = req[t].blob /\ off = req[t].off /\ n = req[t].size
  BY <1>1 DEF Request
<1>3. s \in Slices(blocks[b], off, n)
  BY <1>2 DEF Inv, TaskOK, AtRead, AtWrite
<1>4. PICK bs \in Seq(BlobBlock) : bs = blocks[b]
  BY DEF Inv, Types, BlobTypes
<1>5. s \in Slice /\ \E i \in 1 .. Len(bs) : SliceOf(s, bs, off, n, i)
  BY <1>3, <1>4, SlicesLie
<1>6. PICK i \in 1 .. Len(bs) : SliceOf(s, bs, off, n, i)
  BY <1>5
<1>7. PICK G, H : Held(G, H)
  BY DEF Inv
<1>8. ~ Freeing(t)
  BY DEF Freeing
<1>9. HeldBlocks(G, H, b, bs)
  BY <1>1, <1>2, <1>4, <1>7, <1>8, OwnBlocks
<1>10. bs[i].off + bs[i].size <= Capacity[bs[i].tgt]
  BY <1>7, <1>9, BlocksInside
<1>11. /\ s.tgt = bs[i].tgt /\ s.at + s.len <= bs[i].off + bs[i].size /\ s.buf + s.len <= n
       /\ s.at \in Nat /\ s.buf \in Nat /\ s.len \in Nat
  BY <1>6 DEF SliceOf
<1>12. s.tgt \in Targets
  BY <1>5 DEF Slice
<1>13. s.at + s.len <= Capacity[s.tgt]
  <2>1. bs[i] \in BlobBlock
    OBVIOUS
  <2>2. bs[i].off \in Nat /\ bs[i].size \in Nat /\ Capacity[s.tgt] \in Nat
    BY <1>12, <2>1, TargetAssumption DEF BlobBlock
  <2> QED BY <1>10, <1>11, <2>2
<1> QED BY <1>2, <1>11, <1>12, <1>13

\* A read fills a part of the buffer.
LEMMA BdevReadInv ==
  ASSUME Inv, NEW t \in Tasks, NEW s, BdevRead(t, s)
  PROVE  Inv' /\ Only(t, req[t].blob) /\ req'[t].blob = req[t].blob
<1> DEFINE d == req[t].data
           e == [i \in DOMAIN d |-> IF i > s.buf /\ i <= s.buf + s.len
                                    THEN disk[s.tgt][s.at + i - s.buf - 1] ELSE d[i]]
           q == [req[t] EXCEPT !.data = e]
<1>0. Types /\ TaskOK(t) /\ pc[t] = "read" /\ s \in todo[t]
  BY DEF Inv, BdevRead
<1>1. /\ req[t] \in Request /\ req[t].blob \in Blobs /\ req[t].blob \in exists
      /\ Works(t, req[t].blob) /\ \A f \in flush : f.blob # req[t].blob
  BY <1>0, OwnBlob
<1>2. /\ req' = [req EXCEPT ![t] = q]
      /\ todo' = [todo EXCEPT ![t] = todo[t] \ {s}]
  BY DEF BdevRead
<1>3. /\ exists' = exists /\ blocks' = blocks /\ score' = score /\ tag_size' = tag_size
      /\ cursor' = cursor /\ recycled' = recycled /\ disk' = disk /\ keep' = keep
      /\ got' = got /\ queue' = queue /\ left' = left /\ asked' = asked /\ credit' = credit
      /\ content' = content /\ rc' = rc /\ old' = old /\ pc' = pc /\ flush' = flush /\ ops' = ops
      /\ registered' = registered /\ remaining' = remaining
  BY DEF BdevRead, blobVars, bdevVars, allocVars, targetVars, history
<1>4. /\ s.tgt \in Targets /\ s.at \in Nat /\ s.buf \in Nat /\ s.len \in Nat
      /\ s.buf + s.len <= req[t].size /\ s.at + s.len <= Capacity[s.tgt] /\ req[t].size \in Nat
  BY <1>0, SliceInside
<1>5. d \in Seq(Val)
  BY <1>1 DEF Request
<1>6. e \in Seq(Val) /\ Len(e) = Len(d)
  <2>1. DOMAIN d = 1 .. Len(d) /\ Len(d) \in Nat
    BY <1>5
  <2>2. ASSUME NEW i \in 1 .. Len(d) PROVE e[i] \in Val
    <3>1. d[i] \in Val
      BY <1>5
    <3>2. ASSUME i > s.buf, i <= s.buf + s.len PROVE disk[s.tgt][s.at + i - s.buf - 1] \in Val
      <4>1. disk[s.tgt] \in [0 .. Capacity[s.tgt] - 1 -> Val] /\ Capacity[s.tgt] \in Nat
        BY <1>0, <1>4, TargetAssumption DEF Types, DiskTypes
      <4>2. s.at + i - s.buf - 1 \in 0 .. Capacity[s.tgt] - 1
        <5>1. PICK sa \in Nat, sb \in Nat, sl \in Nat, cap \in Nat :
                sa = s.at /\ sb = s.buf /\ sl = s.len /\ cap = Capacity[s.tgt]
          BY <1>4, <4>1
        <5>2. i \in Int /\ i > sb /\ i <= sb + sl /\ sa + sl <= cap
          BY <1>4, <2>1, <3>2, <5>1
        <5>3. sa + i - sb - 1 \in 0 .. cap - 1
          BY <5>2
        <5> QED BY <5>1, <5>3
      <4> QED BY <4>1, <4>2
    <3>3. e[i] = IF i > s.buf /\ i <= s.buf + s.len THEN disk[s.tgt][s.at + i - s.buf - 1] ELSE d[i]
      BY <2>1
    <3> QED BY <3>1, <3>2, <3>3
  <2>3. e \in [1 .. Len(d) -> Val]
    BY <2>1, <2>2
  <2> HIDE DEF e
  <2> QED BY <2>1, <2>3
<1> HIDE DEF e
<1>7. q \in Request /\ q.kind = req[t].kind /\ q.blob = req[t].blob /\ q.off = req[t].off
      /\ q.size = req[t].size /\ q.data = e
  BY <1>1, <1>6 DEF Request
<1> HIDE DEF q, d
<1>8. req'[t] = q /\ todo'[t] = todo[t] \ {s}
  BY <1>0, <1>2 DEF Types, TaskTypes
<1>9. PICK b \in Blobs : b = req[t].blob
  BY <1>1
<1>10. Only(t, b)
  <2>1. \A u \in Tasks \ {t} : req'[u] = req[u] /\ todo'[u] = todo[u]
    BY <1>0, <1>2 DEF Types, TaskTypes
  <2> QED BY <1>3, <1>7, <1>8, <1>9, <2>1 DEF Only
<1>11. got'[t] = <<>> /\ ~ Freeing(t) /\ ~ Freeing(t)'
  BY <1>0, <1>3 DEF TaskOK, Freeing
<1>12. (\E G, H : Held(G, H))' /\ KeepOK'
  BY <1>1, <1>3, <1>9, <1>10, <1>11, HeldQuiet
<1>13. Types'
  <2>1. BlobTypes' /\ TargetTypes' /\ DeviceTypes' /\ DiskTypes' /\ AllocTypes' /\ OtherTypes'
    BY <1>0, <1>3 DEF Types, BlobTypes, TargetTypes, DeviceTypes, DiskTypes, AllocTypes, OtherTypes
  <2>2. TaskTypes'
    <3>1. req' \in [Tasks -> Request \cup {NoRequest}]
      BY <1>0, <1>2, <1>7 DEF Types, TaskTypes
    <3>2. todo' \in [Tasks -> SUBSET (Slice \cup Group)]
      BY <1>0, <1>2 DEF Types, TaskTypes
    <3> QED BY <1>0, <1>3, <3>1, <3>2 DEF Types, TaskTypes
  <2> QED BY <2>1, <2>2 DEF Types
<1>14. TaskOK(t)'
  <2>0. Serves(t) /\ AtRead(t)
    BY <1>0 DEF TaskOK
  <2>1. Len(e) = q.size
    BY <1>6, <1>7, <2>0 DEF Serves, AtRead, d
  <2>2. Serves(t)'
    BY <1>3, <1>7, <1>8, <2>0, <2>1 DEF Serves
  <2>3. AtRead(t)'
    BY <1>3, <1>7, <1>8, <2>0 DEF AtRead, Size
  <2> QED BY <1>0, <1>3, <1>11, <2>2, <2>3 DEF TaskOK, Freeing, Growing
<1>15. BlobOK(b)'
  <2>1. BlobOK(b) /\ ~ Cut(b)
    BY <1>0, <1>1, <1>9 DEF Inv, Cut, Works, Tasks
  <2> QED BY <1>3, <2>1 DEF BlobOK, Size
<1>16. Inv'
  BY <1>1, <1>3, <1>9, <1>10, <1>12, <1>13, <1>14, <1>15, StepInv
<1> QED BY <1>7, <1>8, <1>9, <1>10, <1>16

\* A write stays on the device.
LEMMA BdevWriteInv ==
  ASSUME Inv, NEW t \in Tasks, NEW s, BdevWrite(t, s)
  PROVE  Inv' /\ Only(t, req[t].blob)
<1> DEFINE d == req[t].data
           w == [i \in DOMAIN disk[s.tgt] |-> IF i >= s.at /\ i < s.at + s.len
                                              THEN d[s.buf + i - s.at + 1] ELSE disk[s.tgt][i]]
<1>0. Types /\ TaskOK(t) /\ pc[t] = "write" /\ s \in todo[t]
  BY DEF Inv, BdevWrite
<1>1. /\ req[t] \in Request /\ req[t].blob \in Blobs /\ req[t].blob \in exists
      /\ Works(t, req[t].blob) /\ \A f \in flush : f.blob # req[t].blob
  BY <1>0, OwnBlob
<1>2. /\ disk' = [disk EXCEPT ![s.tgt] = w]
      /\ todo' = [todo EXCEPT ![t] = todo[t] \ {s}]
  BY DEF BdevWrite
<1>3. /\ exists' = exists /\ blocks' = blocks /\ score' = score /\ tag_size' = tag_size
      /\ cursor' = cursor /\ recycled' = recycled /\ req' = req /\ keep' = keep
      /\ got' = got /\ queue' = queue /\ left' = left /\ asked' = asked /\ credit' = credit
      /\ content' = content /\ rc' = rc /\ old' = old /\ pc' = pc /\ flush' = flush /\ ops' = ops
      /\ registered' = registered /\ remaining' = remaining
  BY DEF BdevWrite, blobVars, allocVars, targetVars, history
<1>4. /\ s.tgt \in Targets /\ s.at \in Nat /\ s.buf \in Nat /\ s.len \in Nat
      /\ s.buf + s.len <= req[t].size /\ s.at + s.len <= Capacity[s.tgt] /\ req[t].size \in Nat
  BY <1>0, SliceInside
<1>5. d \in Seq(Val) /\ Len(d) = req[t].size
  <2>1. Serves(t) /\ AtGrow(t)
    BY <1>0 DEF TaskOK
  <2>2. req[t].kind # "del"
    BY <2>1 DEF AtGrow
  <2> QED BY <1>1, <2>1, <2>2 DEF Request, Serves
<1>6. disk[s.tgt] \in [0 .. Capacity[s.tgt] - 1 -> Val]
  BY <1>0, <1>4 DEF Types, DiskTypes
<1>7. w \in [0 .. Capacity[s.tgt] - 1 -> Val]
  <2>1. DOMAIN disk[s.tgt] = 0 .. Capacity[s.tgt] - 1
    BY <1>6
  <2>2. ASSUME NEW i \in 0 .. Capacity[s.tgt] - 1 PROVE w[i] \in Val
    <3>1. disk[s.tgt][i] \in Val
      BY <1>6
    <3>2. ASSUME i >= s.at, i < s.at + s.len PROVE d[s.buf + i - s.at + 1] \in Val
      <4>1. s.buf + i - s.at + 1 \in 1 .. Len(d)
        <5>1. i \in Int
          OBVIOUS
        <5> QED BY <1>4, <1>5, <3>2, <5>1
      <4> QED BY <1>5, <4>1
    <3> QED BY <2>1, <3>1, <3>2
  <2> QED BY <2>1, <2>2
<1> HIDE DEF w, d
<1>8. todo'[t] = todo[t] \ {s}
  BY <1>0, <1>2 DEF Types, TaskTypes
<1>9. PICK b \in Blobs : b = req[t].blob
  BY <1>1
<1>10. Only(t, b)
  <2>1. \A u \in Tasks \ {t} : todo'[u] = todo[u]
    BY <1>0, <1>2 DEF Types, TaskTypes
  <2> QED BY <1>3, <1>9, <2>1 DEF Only
<1>11. got'[t] = <<>> /\ ~ Freeing(t) /\ ~ Freeing(t)'
  BY <1>0, <1>3 DEF TaskOK, Freeing
<1>12. (\E G, H : Held(G, H))' /\ KeepOK'
  BY <1>1, <1>3, <1>9, <1>10, <1>11, HeldQuiet
<1>13. Types'
  <2>1. BlobTypes' /\ TargetTypes' /\ DeviceTypes' /\ AllocTypes' /\ OtherTypes'
    BY <1>0, <1>3 DEF Types, BlobTypes, TargetTypes, DeviceTypes, AllocTypes, OtherTypes
  <2>2. TaskTypes'
    <3>2. todo' \in [Tasks -> SUBSET (Slice \cup Group)]
      BY <1>0, <1>2 DEF Types, TaskTypes
    <3> QED BY <1>0, <1>3, <3>2 DEF Types, TaskTypes
  <2>3. DiskTypes'
    <3>1. DOMAIN disk' = Targets
      BY <1>0, <1>2 DEF Types, DiskTypes
    <3>2. \A x \in Targets : disk'[x] = IF x = s.tgt THEN w ELSE disk[x]
      BY <1>0, <1>2 DEF Types, DiskTypes
    <3> QED BY <1>0, <1>7, <3>1, <3>2 DEF Types, DiskTypes
  <2> QED BY <2>1, <2>2, <2>3 DEF Types
<1>14. TaskOK(t)'
  <2>0. Serves(t) /\ AtGrow(t) /\ AtWrite(t)
    BY <1>0 DEF TaskOK
  <2>2. Serves(t)'
    BY <1>3, <2>0 DEF Serves
  <2>3. AtWrite(t)' /\ AtGrow(t)'
    BY <1>3, <1>8, <2>0 DEF AtWrite, AtGrow, Size
  <2> QED BY <1>0, <1>3, <1>11, <2>2, <2>3 DEF TaskOK, Freeing, Growing
<1>15. BlobOK(b)'
  <2>1. BlobOK(b) /\ ~ Cut(b)
    BY <1>0, <1>1, <1>9 DEF Inv, Cut, Works, Tasks
  <2> QED BY <1>3, <2>1 DEF BlobOK, Size
<1>16. Inv'
  BY <1>1, <1>3, <1>9, <1>10, <1>12, <1>13, <1>14, <1>15, StepInv
<1> QED BY <1>9, <1>10, <1>16

-----------------------------------------------------------------------------
(* The steps after the reads, and the end of a put.                        *)

\* Blocks picked from those of a blob are the blob's.
LEMMA PickedHeld ==
  ASSUME NEW G, NEW H, NEW b, NEW bs \in Seq(BlobBlock), HeldBlocks(G, H, b, bs), NEW I
  PROVE  Picked(bs, I) \in Seq(BlobBlock) /\ HeldBlocks(G, H, b, Picked(bs, I))
<1> DEFINE ps == Picked(bs, I)
<1>1. /\ ps \in Seq(BlobBlock)
      /\ \A k \in 1 .. Len(ps) : \E i \in (1 .. Len(bs)) \cap I : ps[k] = bs[i]
      /\ Distinct(bs) => Distinct(ps)
  BY PickedBlocks
<1> HIDE DEF ps
<1>2. Distinct(ps)
  BY <1>1 DEF HeldBlocks
<1>3. ASSUME NEW k \in 1 .. Len(ps) PROVE Holds(G, H, <<"blob", b>>, ps[k].tgt, ps[k])
  BY <1>1 DEF HeldBlocks
<1>4. HeldBlocks(G, H, b, ps)
  BY <1>2, <1>3 DEF HeldBlocks
<1> QED BY <1>1, <1>4 DEF ps

\* After the reads FlushData splits the blob's blocks.
LEMMA ReadDoneInv ==
  ASSUME Inv, NEW t \in Tasks, ReadDone(t)
  PROVE  Inv' /\ Only(t, req[t].blob)
<1>0. Types /\ TaskOK(t) /\ pc[t] = "read" /\ todo[t] = {}
  BY DEF Inv, ReadDone
<1>1. /\ req[t] \in Request /\ req[t].blob \in Blobs /\ req[t].blob \in exists
      /\ Works(t, req[t].blob) /\ \A f \in flush : f.blob # req[t].blob
  BY <1>0, OwnBlob
<1>2. PICK b \in Blobs : b = req[t].blob
  BY <1>1
<1>3. /\ exists' = exists /\ blocks' = blocks /\ score' = score /\ tag_size' = tag_size
      /\ cursor' = cursor /\ recycled' = recycled /\ disk' = disk
      /\ got' = got /\ queue' = queue /\ left' = left /\ asked' = asked /\ credit' = credit
      /\ content' = content /\ old' = old /\ flush' = flush /\ ops' = ops
      /\ registered' = registered /\ remaining' = remaining
  BY DEF ReadDone, blobVars, bdevVars, allocVars, targetVars, history
<1>4. /\ Serves(t) /\ AtRead(t) /\ got'[t] = <<>> /\ ~ Freeing(t) /\ ~ Cut(b) /\ BlobOK(b)
  BY <1>0, <1>1, <1>2, <1>3 DEF TaskOK, Freeing, Inv, Cut, Works, Tasks
<1>5. BlobTypes' /\ TargetTypes' /\ DeviceTypes' /\ DiskTypes' /\ AllocTypes'
  BY <1>0, <1>3 DEF Types, BlobTypes, TargetTypes, DeviceTypes, DiskTypes, AllocTypes
<1>6. BlobOK(b)'
  BY <1>3, <1>4 DEF BlobOK, Size
<1>7. CASE req[t].kind = "get"
  <2>1. Answer(t, 0) /\ todo' = todo /\ keep' = keep
    BY <1>7 DEF ReadDone
  <2>2. /\ req' = [req EXCEPT ![t] = NoRequest] /\ rc' = [rc EXCEPT ![t] = 0]
        /\ pc' = [pc EXCEPT ![t] = "idle"]
    BY <2>1 DEF Answer, Goto
  <2>3. pc'[t] = "idle"
    BY <1>0, <2>2 DEF Types, TaskTypes
  <2>4. Only(t, b)
    <3>1. \A u \in Tasks \ {t} : pc'[u] = pc[u] /\ req'[u] = req[u]
      BY <1>0, <2>2 DEF Types, TaskTypes
    <3> QED BY <1>3, <2>1, <2>3, <3>1 DEF Only
  <2>5. (\E G, H : Held(G, H))' /\ KeepOK'
    <3>1. ~ Freeing(t)'
      BY <2>3 DEF Freeing
    <3> QED BY <1>1, <1>2, <1>3, <1>4, <2>1, <2>4, <3>1, HeldQuiet
  <2>6. Types'
    <3>1. OtherTypes'
      BY <1>0, <1>3, <2>1 DEF Types, OtherTypes
    <3>2. TaskTypes'
      BY <1>0, <1>3, <2>1, <2>2 DEF Types, TaskTypes, Places
    <3> QED BY <1>5, <3>1, <3>2 DEF Types
  <2>7. TaskOK(t)'
    BY <1>4, <2>3 DEF TaskOK, Freeing, Growing
  <2>8. Inv'
    BY <1>1, <1>2, <1>3, <1>6, <2>4, <2>5, <2>6, <2>7, StepInv
  <2> QED BY <1>2, <2>4, <2>8
<1>8. CASE req[t].kind = "reorg"
  <2>1. pc' = [pc EXCEPT ![t] = "reput"] /\ todo' = todo /\ keep' = keep /\ req' = req /\ rc' = rc
    BY <1>8 DEF ReadDone, Goto
  <2>2. pc'[t] = "reput"
    BY <1>0, <2>1 DEF Types, TaskTypes
  <2>3. Only(t, b)
    <3>1. \A u \in Tasks \ {t} : pc'[u] = pc[u]
      BY <1>0, <2>1 DEF Types, TaskTypes
    <3> QED BY <1>2, <1>3, <2>1, <3>1 DEF Only
  <2>4. (\E G, H : Held(G, H))' /\ KeepOK'
    <3>1. ~ Freeing(t)'
      BY <2>2 DEF Freeing
    <3> QED BY <1>1, <1>2, <1>3, <1>4, <2>1, <2>3, <3>1, HeldQuiet
  <2>5. Types'
    <3>1. OtherTypes'
      BY <1>0, <1>3, <2>1 DEF Types, OtherTypes
    <3>2. TaskTypes'
      BY <1>0, <1>3, <2>1 DEF Types, TaskTypes, Places
    <3> QED BY <1>5, <3>1, <3>2 DEF Types
  <2>6. TaskOK(t)'
    <3>1. Serves(t)' /\ AtReput(t)'
      BY <1>3, <1>4, <1>8, <2>1 DEF Serves, AtReput
    <3> QED BY <1>4, <2>2, <3>1 DEF TaskOK, Freeing, Growing
  <2>7. Inv'
    BY <1>1, <1>2, <1>3, <1>6, <2>3, <2>4, <2>5, <2>6, StepInv
  <2> QED BY <1>2, <2>3, <2>7
<1>9. CASE req[t].kind = "flush"
  <2>0. PICK bs \in Seq(BlobBlock) : bs = blocks[b]
    BY <1>0 DEF Types, BlobTypes
  <2> DEFINE low == {i \in DOMAIN bs : bs[i].tgt \in registered /\ Level[bs[i].tgt] < FlushLevel}
             lows == Picked(bs, low)
             rest == Picked(bs, DOMAIN bs \ low)
  <2>1. /\ pc' = [pc EXCEPT ![t] = "free"] /\ todo' = [todo EXCEPT ![t] = Groups(lows)]
        /\ keep' = rest /\ req' = req /\ rc' = rc
    BY <1>2, <1>9, <2>0 DEF ReadDone, Goto
  <2>1a. /\ lows \in Seq(BlobBlock) /\ rest \in Seq(BlobBlock)
         /\ \A k \in 1 .. Len(lows) : \E i \in (1 .. Len(bs)) \cap low : lows[k] = bs[i]
         /\ \A k \in 1 .. Len(rest) : \E i \in (1 .. Len(bs)) \cap (DOMAIN bs \ low) : rest[k] = bs[i]
    <3> HIDE DEF low
    <3>1. /\ lows \in Seq(BlobBlock)
          /\ \A k \in 1 .. Len(lows) : \E i \in (1 .. Len(bs)) \cap low : lows[k] = bs[i]
      BY PickedBlocks
    <3> DEFINE high == DOMAIN bs \ low
    <3> HIDE DEF high
    <3>2. /\ Picked(bs, high) \in Seq(BlobBlock)
          /\ \A k \in 1 .. Len(Picked(bs, high)) :
                \E i \in (1 .. Len(bs)) \cap high : Picked(bs, high)[k] = bs[i]
      BY PickedBlocks
    <3> QED BY <3>1, <3>2 DEF high
  <2>1b. t = Flusher
    BY <1>4, <1>9 DEF Serves
  <2>2. pc'[t] = "free" /\ todo'[t] = Groups(lows)
    BY <1>0, <2>1 DEF Types, TaskTypes
  <2>3. Only(t, b)
    <3>1. \A u \in Tasks \ {t} : pc'[u] = pc[u] /\ todo'[u] = todo[u]
      BY <1>0, <2>1 DEF Types, TaskTypes
    <3> QED BY <1>2, <1>3, <2>1, <3>1 DEF Only
  <2>4. PICK G, H : Held(G, H)
    BY DEF Inv
  <2>5. HeldBlocks(G, H, b, bs)
    BY <1>1, <1>2, <1>4, <2>0, <2>4, OwnBlocks
  <2>6. HeldBlocks(G, H, b, lows) /\ HeldBlocks(G, H, b, rest)
    BY <2>5, PickedHeld
  <2>7. HeldGroups(G, H, b, Groups(lows)) /\ Groups(lows) \subseteq Group
    BY <2>1a, <2>6, GroupsHeld
  <2>8. \A g \in Groups(lows) : \A i \in 1 .. Len(rest) : rest[i].tgt # g.tgt
    <3> SUFFICES ASSUME NEW g \in Groups(lows), NEW i \in 1 .. Len(rest), rest[i].tgt = g.tgt
                 PROVE  FALSE
      OBVIOUS
    <3>1. GroupOf(g, lows)
      BY <2>1a, GroupsOf
    <3>2. PICK k \in 1 .. Len(lows) : lows[k].tgt = g.tgt
      BY <3>1 DEF GroupOf
    <3>3. PICK j \in low : lows[k] = bs[j]
      BY <2>1a
    <3>4. PICK m \in DOMAIN bs \ low : rest[i] = bs[m]
      BY <2>1a
    <3>5. bs[m].tgt = bs[j].tgt
      BY <3>2, <3>3, <3>4
    <3> QED BY <3>3, <3>4, <3>5
  <2> HIDE DEF lows, rest
  <2>9. HeldKeep(G, H)' /\ KeepOK'
    <3>1. req'[Flusher].blob = b /\ req'[Flusher].kind = "flush" /\ pc'[Flusher] = "free"
          /\ todo'[Flusher] = Groups(lows)
      BY <1>2, <1>9, <2>1, <2>1b, <2>2
    <3> QED BY <2>1, <2>6, <2>8, <3>1 DEF HeldKeep, KeepOK, Freeing
  <2>10. (\E X, Y : Held(X, Y))'
    <3>1. HeldGot(G, H, t)'
      BY <1>4 DEF HeldGot
    <3>2. ~ BeingFreed(b)' => HeldBlocks(G, H, b, blocks'[b])
      BY <1>3, <2>0, <2>5
    <3>3. Freeing(t)' => HeldGroups(G, H, b, todo'[t])
      BY <2>2, <2>7
    <3> QED BY <1>1, <1>2, <1>3, <2>3, <2>4, <2>9, <3>1, <3>2, <3>3, HeldSame
  <2>11. Types'
    <3>1. OtherTypes'
      BY <1>0, <1>3, <2>1, <2>1a DEF Types, OtherTypes
    <3>2. TaskTypes'
      <4>1. pc' \in [Tasks -> Places]
        BY <1>0, <2>1 DEF Types, TaskTypes, Places
      <4>2. todo' \in [Tasks -> SUBSET (Slice \cup Group)]
        BY <1>0, <2>1, <2>7 DEF Types, TaskTypes
      <4> QED BY <1>0, <1>3, <2>1, <4>1, <4>2 DEF Types, TaskTypes
    <3> QED BY <1>5, <3>1, <3>2 DEF Types
  <2>12. TaskOK(t)'
    <3>1. Serves(t)'
      BY <1>3, <1>4, <2>1 DEF Serves
    <3>2. AtFree(t)'
      BY <1>9, <2>1, <2>2, <2>7 DEF AtFree
    <3> QED BY <1>4, <2>2, <3>1, <3>2 DEF TaskOK, Freeing, Growing
  <2>13. Inv'
    BY <1>1, <1>2, <1>3, <1>6, <2>3, <2>9, <2>10, <2>11, <2>12, StepInv
  <2> QED BY <1>2, <2>3, <2>13
<1> QED BY <1>4, <1>7, <1>8, <1>9 DEF AtRead

\* The PutBlob of ReorganizeBlob and FlushData begins.
LEMMA RePutInv ==
  ASSUME Inv, NEW t \in Tasks, RePut(t)
  PROVE  Inv' /\ Only(t, req[t].blob)
<1>0. TaskOK(t) /\ pc[t] = "reput"
  BY DEF Inv, RePut
<1>1. /\ req[t] \in Request /\ req[t].blob \in Blobs /\ req[t].blob \in exists
      /\ Works(t, req[t].blob) /\ \A f \in flush : f.blob # req[t].blob
  BY <1>0, OwnBlob
<1>2. PICK b \in Blobs, r \in Request : b = req[t].blob /\ r = req[t]
  BY <1>1
<1>3. Serves(t) /\ AtReput(t)
  BY <1>0 DEF TaskOK
<1>4. BeginPut(t, r)
  BY <1>2 DEF RePut
<1>5. UNCHANGED <<targetVars, bdevVars, allocVars, credit, rc, flush, keep, content>> /\ ops' = ops
  BY DEF RePut, history
<1>6. ops' \in 0 .. MaxOps
  BY <1>5 DEF Inv, Types, OtherTypes
<1>7. /\ b = r.blob /\ r.kind \in {"put", "reorg", "reput"} /\ (r.kind = "reput" <=> t = Flusher)
      /\ (r.kind \in {"reorg", "reput"} => r.off = 0 /\ b \in exists)
      /\ r.off + r.size <= MaxBlock /\ Len(r.data) = r.size
  BY <1>1, <1>2, <1>3 DEF Serves, AtReput
<1> QED BY <1>0, <1>1, <1>2, <1>4, <1>5, <1>6, <1>7, BeginPutInv

\* What a put makes of the bytes there were.
LEMMA OverlayIs ==
  ASSUME NEW c \in Seq(Val), NEW off \in Nat, NEW d \in Seq(Val)
  PROVE  /\ Overlay(c, off, d) \in Seq(Val)
         /\ Len(Overlay(c, off, d)) = (IF Len(c) >= off + Len(d) THEN Len(c) ELSE off + Len(d))
         /\ \A i \in 1 .. Len(Overlay(c, off, d)) :
               Overlay(c, off, d)[i] = IF i > off /\ i <= off + Len(d) THEN d[i - off]
                                       ELSE IF i <= Len(c) THEN c[i] ELSE 0
<1> DEFINE n == IF Len(c) >= off + Len(d) THEN Len(c) ELSE off + Len(d)
           o == Overlay(c, off, d)
           v(i) == IF i > off /\ i <= off + Len(d) THEN d[i - off]
                   ELSE IF i <= Len(c) THEN c[i] ELSE 0
<1>1. Len(c) \in Nat /\ Len(d) \in Nat /\ n \in Nat
  OBVIOUS
<1>2. Max({Len(c), off + Len(d)}) = n
  BY <1>1, MaxOfTwo
<1>3. o = [i \in 1 .. n |-> v(i)]
  BY <1>2 DEF Overlay
<1>4. ASSUME NEW i \in 1 .. n PROVE v(i) \in Val
  <2>1. 0 \in Val
    BY TaskAssumption DEF Val
  <2>2. ASSUME i > off, i <= off + Len(d) PROVE d[i - off] \in Val
    <3>1. i - off \in 1 .. Len(d)
      BY <1>1, <2>2
    <3> QED BY <3>1
  <2>3. ASSUME i <= Len(c) PROVE c[i] \in Val
    <3>1. i \in 1 .. Len(c)
      BY <1>1, <2>3
    <3> QED BY <3>1
  <2> QED BY <2>1, <2>2, <2>3
<1> HIDE DEF v, n, o
<1>5. o \in [1 .. n -> Val]
  BY <1>3, <1>4
<1>6. o \in Seq(Val) /\ Len(o) = n
  BY <1>1, <1>5
<1>7. \A i \in 1 .. n : o[i] = v(i)
  BY <1>3
<1> QED BY <1>6, <1>7 DEF o, n, v

\* The end of PutBlob.
LEMMA PutDoneInv ==
  ASSUME Inv, NEW t \in Tasks, PutDone(t)
  PROVE  Inv' /\ Only(t, req[t].blob)
<1>0. Types /\ TaskOK(t) /\ pc[t] = "write"
  BY DEF Inv, PutDone
<1>1. /\ req[t] \in Request /\ req[t].blob \in Blobs /\ req[t].blob \in exists
      /\ Works(t, req[t].blob) /\ \A f \in flush : f.blob # req[t].blob
  BY <1>0, OwnBlob
<1>2. PICK b \in Blobs : b = req[t].blob
  BY <1>1
<1>3. /\ exists' = exists /\ blocks' = blocks
      /\ cursor' = cursor /\ recycled' = recycled /\ disk' = disk /\ keep' = keep
      /\ got' = got /\ queue' = queue /\ left' = left /\ asked' = asked /\ credit' = credit
      /\ todo' = todo /\ flush' = flush /\ ops' = ops
      /\ registered' = registered /\ remaining' = remaining
  BY DEF PutDone, bdevVars, allocVars, targetVars
<1>4. /\ score' = [score EXCEPT ![b] = req[t].score]
      /\ tag_size' = tag_size + Size(b) - old[t]
      /\ content' = IF req[t].kind = "put"
                    THEN [content EXCEPT ![b] = Overlay(content[b], req[t].off, req[t].data)]
                    ELSE content
      /\ old' = [old EXCEPT ![t] = 0]
      /\ req' = [req EXCEPT ![t] = NoRequest] /\ rc' = [rc EXCEPT ![t] = 0]
      /\ pc' = [pc EXCEPT ![t] = "idle"]
  BY <1>2 DEF PutDone, Answer, Goto
<1>5. AtGrow(t) /\ got'[t] = <<>> /\ ~ Freeing(t) /\ ~ Cut(b) /\ BlobOK(b)
  BY <1>0, <1>1, <1>2, <1>3 DEF TaskOK, Freeing, Inv, Cut, Works, Tasks
<1>6. pc'[t] = "idle"
  BY <1>0, <1>4 DEF Types, TaskTypes
<1>7. Overlay(content[b], req[t].off, req[t].data) \in Seq(Val)
  <2>1. content[b] \in Seq(Val) /\ req[t].off \in Nat /\ req[t].data \in Seq(Val)
    BY <1>0, <1>1 DEF Types, OtherTypes, Request
  <2> QED BY <2>1, OverlayIs
<1>8. Only(t, b)
  <2>1. \A u \in Tasks \ {t} : pc'[u] = pc[u] /\ req'[u] = req[u] /\ old'[u] = old[u]
    BY <1>0, <1>4 DEF Types, TaskTypes
  <2>2. \A c \in Blobs \ {b} : content'[c] = content[c]
    BY <1>0, <1>4 DEF Types, OtherTypes
  <2> QED BY <1>3, <1>6, <2>1, <2>2 DEF Only
<1>9. (\E G, H : Held(G, H))' /\ KeepOK'
  <2>1. ~ Freeing(t)'
    BY <1>6 DEF Freeing
  <2> QED BY <1>1, <1>2, <1>3, <1>5, <1>8, <2>1, HeldQuiet
<1>10. Types'
  <2>1. BlobTypes'
    <3>1. score' \in [Blobs -> Nat]
      BY <1>0, <1>4, <1>5 DEF Types, BlobTypes, AtGrow
    <3>2. tag_size' \in Nat
      <4>1. Size(b) \in Nat /\ old[t] \in Nat /\ old[t] <= Size(b) /\ tag_size \in Nat
        BY <1>0, <1>2, <1>5, SizeIsNat DEF Types, BlobTypes, TaskTypes, AtGrow
      <4> QED BY <1>4, <4>1
    <3> QED BY <1>0, <1>3, <3>1, <3>2 DEF Types, BlobTypes
  <2>2. TargetTypes' /\ DeviceTypes' /\ DiskTypes' /\ AllocTypes'
    BY <1>0, <1>3 DEF Types, TargetTypes, DeviceTypes, DiskTypes, AllocTypes
  <2>3. OtherTypes'
    <3>1. content' \in [Blobs -> Seq(Val)]
      BY <1>0, <1>4, <1>7 DEF Types, OtherTypes
    <3> QED BY <1>0, <1>3, <3>1 DEF Types, OtherTypes
  <2>4. TaskTypes'
    BY <1>0, <1>3, <1>4 DEF Types, TaskTypes, Places
  <2> QED BY <2>1, <2>2, <2>3, <2>4 DEF Types
<1>11. TaskOK(t)'
  BY <1>5, <1>6 DEF TaskOK, Freeing, Growing
<1>12. BlobOK(b)'
  BY <1>1, <1>2, <1>3, <1>5 DEF BlobOK, Size
<1>13. Inv'
  BY <1>1, <1>2, <1>3, <1>8, <1>9, <1>10, <1>11, <1>12, StepInv
<1> QED BY <1>2, <1>8, <1>13

-----------------------------------------------------------------------------
(* Growing a blob.                                                         *)

\* What the steps of ExtendBlob leave alone.
GrowFrame(t) ==
  /\ UNCHANGED <<blobVars, targetVars, bdevVars, got, credit, flush, keep, ops>>
  /\ AllocTypes'
  /\ \A u \in Tasks \ {t} : queue'[u] = queue[u] /\ left'[u] = left[u] /\ asked'[u] = asked[u]

\* What ExtendBlob leaves alone.
LEMMA GrowFrameIs ==
  ASSUME NEW t, GrowFrame(t)
  PROVE  /\ exists' = exists /\ blocks' = blocks /\ score' = score /\ tag_size' = tag_size
         /\ cursor' = cursor /\ recycled' = recycled /\ disk' = disk /\ keep' = keep
         /\ got' = got /\ credit' = credit /\ flush' = flush /\ ops' = ops
         /\ registered' = registered /\ remaining' = remaining
BY DEF GrowFrame, blobVars, targetVars, bdevVars

\* PutBlob gives up.
LEMMA FailInv ==
  ASSUME Inv, NEW t \in Tasks, pc[t] \in {"extend", "alloc"}, NEW code \in 1 .. 3, Fail(t, code),
         GrowFrame(t), todo' = todo
  PROVE  Inv' /\ Only(t, req[t].blob)
<1>0. Types /\ TaskOK(t)
  BY DEF Inv
<1>1. /\ req[t] \in Request /\ req[t].blob \in Blobs /\ req[t].blob \in exists
      /\ Works(t, req[t].blob) /\ \A f \in flush : f.blob # req[t].blob
  BY OwnBlob
<1>2. PICK b \in Blobs : b = req[t].blob
  BY <1>1
<1>3. /\ exists' = exists /\ blocks' = blocks /\ score' = score /\ tag_size' = tag_size
      /\ cursor' = cursor /\ recycled' = recycled /\ disk' = disk /\ keep' = keep
      /\ got' = got /\ credit' = credit /\ flush' = flush /\ ops' = ops
      /\ registered' = registered /\ remaining' = remaining
  BY GrowFrameIs
<1>4. /\ content' = IF req[t].kind = "put" THEN content ELSE [content EXCEPT ![b] = <<>>]
      /\ old' = [old EXCEPT ![t] = 0]
      /\ req' = [req EXCEPT ![t] = NoRequest]
      /\ pc' = [pc EXCEPT ![t] = "idle"]
      /\ rc' = [rc EXCEPT ![t] = IF req[t].kind = "reorg" THEN 7 ELSE 10 + code]
  BY <1>2 DEF Fail, Answer, Goto
<1>5. got'[t] = <<>> /\ ~ Freeing(t) /\ ~ Cut(b) /\ BlobOK(b)
  BY <1>0, <1>1, <1>2, <1>3 DEF TaskOK, Freeing, Inv, Cut, Works, Tasks
<1>6. pc'[t] = "idle"
  BY <1>0, <1>4 DEF Types, TaskTypes
<1>7. Only(t, b)
  <2>1. \A u \in Tasks \ {t} : pc'[u] = pc[u] /\ req'[u] = req[u] /\ old'[u] = old[u]
    BY <1>0, <1>4 DEF Types, TaskTypes
  <2>2. \A c \in Blobs \ {b} : content'[c] = content[c]
    BY <1>0, <1>4 DEF Types, OtherTypes
  <2> QED BY <1>3, <1>6, <2>1, <2>2 DEF Only, GrowFrame
<1>8. (\E G, H : Held(G, H))' /\ KeepOK'
  <2>1. ~ Freeing(t)'
    BY <1>6 DEF Freeing
  <2> QED BY <1>1, <1>2, <1>3, <1>5, <1>7, <2>1, HeldQuiet
<1>9. Types'
  <2>1. BlobTypes' /\ TargetTypes' /\ DeviceTypes' /\ DiskTypes' /\ AllocTypes'
    BY <1>0, <1>3 DEF Types, BlobTypes, TargetTypes, DeviceTypes, DiskTypes, GrowFrame
  <2>2. OtherTypes'
    <3>1. content' \in [Blobs -> Seq(Val)]
      BY <1>0, <1>4 DEF Types, OtherTypes
    <3> QED BY <1>0, <1>3, <3>1 DEF Types, OtherTypes
  <2>3. TaskTypes'
    <3>1. (IF req[t].kind = "reorg" THEN 7 ELSE 10 + code) \in {0, 1, 3, 7, 11, 12, 13}
      OBVIOUS
    <3>2. rc' \in [Tasks -> {0, 1, 3, 7, 11, 12, 13}]
      BY <1>0, <1>4, <3>1 DEF Types, TaskTypes
    <3> QED BY <1>0, <1>3, <1>4, <3>2 DEF Types, TaskTypes, Places
  <2> QED BY <2>1, <2>2, <2>3 DEF Types
<1>10. TaskOK(t)'
  BY <1>5, <1>6 DEF TaskOK, Freeing, Growing
<1>11. BlobOK(b)'
  BY <1>1, <1>2, <1>3, <1>5 DEF BlobOK, Size
<1>12. Inv'
  BY <1>1, <1>2, <1>3, <1>7, <1>8, <1>9, <1>10, <1>11, StepInv
<1> QED BY <1>2, <1>7, <1>12

\* The writes begin once the blob is large enough.
LEMMA BeginWriteInv ==
  ASSUME Inv, NEW t \in Tasks, pc[t] \in {"extend", "alloc"}, BeginWrite(t),
         req[t].off + req[t].size <= Size(req[t].blob),
         GrowFrame(t), UNCHANGED <<req, rc, content, old>>
  PROVE  Inv' /\ Only(t, req[t].blob)
<1>0. Types /\ TaskOK(t)
  BY DEF Inv
<1>1. /\ req[t] \in Request /\ req[t].blob \in Blobs /\ req[t].blob \in exists
      /\ Works(t, req[t].blob) /\ \A f \in flush : f.blob # req[t].blob
  BY OwnBlob
<1>2. PICK b \in Blobs : b = req[t].blob
  BY <1>1
<1>3. /\ exists' = exists /\ blocks' = blocks /\ score' = score /\ tag_size' = tag_size
      /\ cursor' = cursor /\ recycled' = recycled /\ disk' = disk /\ keep' = keep
      /\ got' = got /\ credit' = credit /\ flush' = flush /\ ops' = ops
      /\ registered' = registered /\ remaining' = remaining
  BY GrowFrameIs
<1>4. /\ todo' = [todo EXCEPT ![t] = Slices(blocks[b], req[t].off, req[t].size)]
      /\ pc' = [pc EXCEPT ![t] = "write"]
  BY <1>2 DEF BeginWrite, Goto
<1>5. Serves(t) /\ AtGrow(t) /\ got'[t] = <<>> /\ ~ Freeing(t) /\ ~ Cut(b) /\ BlobOK(b)
  BY <1>0, <1>1, <1>2, <1>3 DEF TaskOK, Freeing, Growing, Inv, Cut, Works, Tasks
<1>6. pc'[t] = "write" /\ todo'[t] = Slices(blocks[b], req[t].off, req[t].size)
  BY <1>0, <1>4 DEF Types, TaskTypes
<1>7. Only(t, b)
  <2>1. \A u \in Tasks \ {t} : pc'[u] = pc[u] /\ todo'[u] = todo[u]
    BY <1>0, <1>4 DEF Types, TaskTypes
  <2> QED BY <1>2, <1>3, <1>6, <2>1 DEF Only, GrowFrame
<1>8. (\E G, H : Held(G, H))' /\ KeepOK'
  <2>1. ~ Freeing(t)'
    BY <1>6 DEF Freeing
  <2> QED BY <1>1, <1>2, <1>3, <1>5, <1>7, <2>1, HeldQuiet
<1>9. Types'
  <2>1. BlobTypes' /\ TargetTypes' /\ DeviceTypes' /\ DiskTypes' /\ AllocTypes'
    BY <1>0, <1>3 DEF Types, BlobTypes, TargetTypes, DeviceTypes, DiskTypes, GrowFrame
  <2>2. OtherTypes'
    BY <1>0, <1>3 DEF Types, OtherTypes
  <2>3. TaskTypes'
    <3>1. Slices(blocks[b], req[t].off, req[t].size) \subseteq Slice
      <4>1. blocks[b] \in Seq(BlobBlock) /\ req[t].off \in Nat /\ req[t].size \in Nat
        BY <1>0, <1>1 DEF Types, BlobTypes, Request
      <4> QED BY <4>1, SlicesLie
    <3>2. todo' \in [Tasks -> SUBSET (Slice \cup Group)]
      BY <1>0, <1>4, <3>1 DEF Types, TaskTypes
    <3>3. pc' \in [Tasks -> Places]
      BY <1>0, <1>4 DEF Types, TaskTypes, Places
    <3> QED BY <1>0, <1>3, <3>2, <3>3 DEF Types, TaskTypes
  <2> QED BY <2>1, <2>2, <2>3 DEF Types
<1>10. TaskOK(t)'
  <2>1. Serves(t)' /\ AtGrow(t)'
    BY <1>3, <1>5 DEF Serves, AtGrow, Size
  <2>2. AtWrite(t)'
    BY <1>2, <1>3, <1>6 DEF AtWrite, Size
  <2> QED BY <1>5, <1>6, <2>1, <2>2 DEF TaskOK, Freeing, Growing
<1>11. BlobOK(b)'
  BY <1>1, <1>2, <1>3, <1>5 DEF BlobOK, Size
<1>12. Inv'
  BY <1>1, <1>2, <1>3, <1>7, <1>8, <1>9, <1>10, <1>11, StepInv
<1> QED BY <1>2, <1>7, <1>12

\* A step of the loop over the targets.
LEMMA LoopInv ==
  ASSUME Inv, NEW t \in Tasks, pc[t] \in {"extend", "alloc"}, NEW p \in {"alloc", "bdev"},
         Goto(t, p),
         AtAlloc(t)', p = "bdev" => queue'[t] # <<>> /\ asked'[t] \in 1 .. left'[t],
         GrowFrame(t), UNCHANGED <<todo, req, rc, content, old>>
  PROVE  Inv' /\ Only(t, req[t].blob)
<1>0. Types /\ TaskOK(t)
  BY DEF Inv
<1>1. /\ req[t] \in Request /\ req[t].blob \in Blobs /\ req[t].blob \in exists
      /\ Works(t, req[t].blob) /\ \A f \in flush : f.blob # req[t].blob
  BY OwnBlob
<1>2. PICK b \in Blobs : b = req[t].blob
  BY <1>1
<1>3. /\ exists' = exists /\ blocks' = blocks /\ score' = score /\ tag_size' = tag_size
      /\ cursor' = cursor /\ recycled' = recycled /\ disk' = disk /\ keep' = keep
      /\ got' = got /\ credit' = credit /\ flush' = flush /\ ops' = ops
      /\ registered' = registered /\ remaining' = remaining
  BY GrowFrameIs
<1>4. pc' = [pc EXCEPT ![t] = p]
  BY DEF Goto
<1>5. Serves(t) /\ AtGrow(t) /\ got'[t] = <<>> /\ ~ Freeing(t) /\ ~ Cut(b) /\ BlobOK(b)
  BY <1>0, <1>1, <1>2, <1>3 DEF TaskOK, Freeing, Growing, Inv, Cut, Works, Tasks
<1>6. pc'[t] = p
  BY <1>0, <1>4 DEF Types, TaskTypes
<1>7. Only(t, b)
  <2>1. \A u \in Tasks \ {t} : pc'[u] = pc[u]
    BY <1>0, <1>4 DEF Types, TaskTypes
  <2> QED BY <1>2, <1>3, <1>6, <2>1 DEF Only, GrowFrame
<1>8. (\E G, H : Held(G, H))' /\ KeepOK'
  <2>1. ~ Freeing(t)'
    BY <1>6 DEF Freeing
  <2> QED BY <1>1, <1>2, <1>3, <1>5, <1>7, <2>1, HeldQuiet
<1>9. Types'
  <2>1. BlobTypes' /\ TargetTypes' /\ DeviceTypes' /\ DiskTypes' /\ AllocTypes'
    BY <1>0, <1>3 DEF Types, BlobTypes, TargetTypes, DeviceTypes, DiskTypes, GrowFrame
  <2>2. OtherTypes'
    BY <1>0, <1>3 DEF Types, OtherTypes
  <2>3. TaskTypes'
    <3>1. pc' \in [Tasks -> Places]
      BY <1>0, <1>4 DEF Types, TaskTypes, Places
    <3> QED BY <1>0, <1>3, <3>1 DEF Types, TaskTypes
  <2> QED BY <2>1, <2>2, <2>3 DEF Types
<1>10. TaskOK(t)'
  <2>1. Serves(t)' /\ AtGrow(t)'
    BY <1>3, <1>5 DEF Serves, AtGrow, Size
  <2>2. p = "bdev" => AtBdev(t)'
    BY <1>5 DEF AtBdev
  <2> QED BY <1>5, <1>6, <2>1, <2>2 DEF TaskOK, Freeing, Growing
<1>11. BlobOK(b)'
  BY <1>1, <1>2, <1>3, <1>5 DEF BlobOK, Size
<1>12. Inv'
  BY <1>1, <1>2, <1>3, <1>7, <1>8, <1>9, <1>10, <1>11, StepInv
<1> QED BY <1>2, <1>7, <1>12

\* ExtendBlob: nothing to add, an order of targets, or none.
LEMMA ExtendBlobInv ==
  ASSUME Inv, NEW t \in Tasks, ExtendBlob(t)
  PROVE  Inv' /\ Only(t, req[t].blob)
<1> DEFINE need == req[t].off + req[t].size - Size(req[t].blob)
           orders == SelectTargets(req[t].score, need, req[t].level)
<1>0. Types /\ TaskOK(t) /\ pc[t] = "extend"
  BY DEF Inv, ExtendBlob
<1>1. req[t] \in Request /\ req[t].blob \in Blobs
  BY <1>0, OwnBlob
<1>2. Size(req[t].blob) \in Nat /\ req[t].off \in Nat /\ req[t].size \in Nat
  BY <1>0, <1>1, SizeIsNat DEF Request
<1>3. UNCHANGED <<blobVars, targetVars, bdevVars, asked, got, credit, flush, keep, ops>>
  BY DEF ExtendBlob
<1>4. AllocTypes
  BY <1>0 DEF Types
<1>5. CASE need <= 0 /\ BeginWrite(t) /\ UNCHANGED <<queue, left, req, rc, content, old>>
  <2>1. GrowFrame(t)
    BY <1>3, <1>4, <1>5 DEF GrowFrame, AllocTypes
  <2>2. req[t].off + req[t].size <= Size(req[t].blob)
    BY <1>2, <1>5
  <2> QED BY <1>0, <1>5, <2>1, <2>2, BeginWriteInv
<1>6. CASE need > 0 /\ \E q \in orders :
                   /\ q # <<>>
                   /\ queue' = [queue EXCEPT ![t] = q]
                   /\ left' = [left EXCEPT ![t] = need]
                   /\ Goto(t, "alloc")
                   /\ UNCHANGED <<todo, req, rc, content, old>>
  <2>1. PICK q \in orders :
                   /\ queue' = [queue EXCEPT ![t] = q]
                   /\ left' = [left EXCEPT ![t] = need]
                   /\ Goto(t, "alloc")
                   /\ UNCHANGED <<todo, req, rc, content, old>>
    BY <1>6
  <2>2. q \in Seq(Targets)
    BY <1>0, OrdersAre DEF Types, TargetTypes
  <2>3. need \in Nat
    BY <1>2, <1>6
  <2>4. AllocTypes'
    BY <1>3, <1>4, <2>1, <2>2, <2>3 DEF AllocTypes
  <2>5. GrowFrame(t)
    BY <1>3, <1>4, <2>1, <2>4 DEF GrowFrame, AllocTypes
  <2>6. AtAlloc(t)'
    <3>1. left'[t] = need
      BY <1>4, <2>1 DEF AllocTypes
    <3>2. blocks' = blocks /\ req' = req
      BY <2>1, <2>5, GrowFrameIs
    <3> QED BY <1>2, <3>1, <3>2 DEF AtAlloc, Size
  <2> QED BY <1>0, <2>1, <2>5, <2>6, LoopInv
<1>7. CASE Fail(t, IF registered = {} THEN 1 ELSE 2) /\ UNCHANGED <<queue, left, todo>>
  <2>1. GrowFrame(t)
    BY <1>3, <1>4, <1>7 DEF GrowFrame, AllocTypes
  <2>2. PICK code \in 1 .. 3 : Fail(t, code)
    <3>1. (IF registered = {} THEN 1 ELSE 2) \in 1 .. 3
      OBVIOUS
    <3> QED BY <1>7, <3>1
  <2> QED BY <1>0, <1>7, <2>1, <2>2, FailInv
<1> QED BY <1>5, <1>6, <1>7 DEF ExtendBlob

\* The next target, or its AllocateBlocks.
LEMMA TryTargetInv ==
  ASSUME Inv, NEW t \in Tasks, TryTarget(t)
  PROVE  Inv' /\ Only(t, req[t].blob)
<1> DEFINE x == Head(queue[t])
           n == IF x \in registered THEN Min({left[t], remaining[x]}) ELSE 0
<1>0. Types /\ TaskOK(t) /\ pc[t] = "alloc" /\ left[t] > 0 /\ queue[t] # <<>>
  BY DEF Inv, TryTarget
<1>1. AllocTypes /\ left[t] \in Nat /\ queue[t] \in Seq(Targets)
  BY <1>0 DEF Types, AllocTypes
<1>2. AtAlloc(t)
  BY <1>0 DEF TaskOK
<1>3. UNCHANGED <<blobVars, targetVars, bdevVars, left, got, req, todo, credit, old, rc, flush, keep, history>>
  BY DEF TryTarget
<1>4. n \in 0 .. left[t]
  <2>1. CASE x \in registered
    <3>1. remaining[x] \in Nat
      BY <1>0, <2>1 DEF Types, TargetTypes
    <3>2. Min({left[t], remaining[x]}) = IF left[t] <= remaining[x] THEN left[t] ELSE remaining[x]
      BY <1>1, <3>1, MinOfTwo
    <3> QED BY <1>1, <2>1, <3>1, <3>2
  <2>2. CASE x \notin registered
    BY <1>1, <2>2
  <2> QED BY <2>1, <2>2
<1>5. UNCHANGED <<blobVars, targetVars, bdevVars, got, credit, flush, keep, ops>>
      /\ UNCHANGED <<todo, req, rc, content, old>> /\ left' = left /\ blocks' = blocks
  BY <1>3 DEF history, blobVars
<1>6. AtAlloc(t)'
  BY <1>2, <1>5 DEF AtAlloc, Size
<1> HIDE DEF n
<1>7. CASE n = 0
  <2>1. queue' = [queue EXCEPT ![t] = Tail(queue[t])] /\ asked' = asked /\ pc' = pc
    BY <1>7 DEF TryTarget, n
  <2>2. Tail(queue[t]) \in Seq(Targets)
    BY <1>0, <1>1
  <2>3. GrowFrame(t)
    BY <1>1, <1>5, <2>1, <2>2 DEF GrowFrame, AllocTypes
  <2>4. Goto(t, "alloc")
    BY <1>0, <2>1 DEF Goto, Types, TaskTypes
  <2> QED BY <1>0, <1>5, <1>6, <2>3, <2>4, LoopInv
<1>8. CASE n # 0
  <2>1. asked' = [asked EXCEPT ![t] = n] /\ queue' = queue /\ Goto(t, "bdev")
    BY <1>8 DEF TryTarget, n
  <2>2. n \in Nat /\ n \in 1 .. left[t]
    BY <1>1, <1>4, <1>8
  <2>3. GrowFrame(t)
    BY <1>1, <1>5, <2>1, <2>2 DEF GrowFrame, AllocTypes
  <2>4. asked'[t] = n
    BY <1>1, <2>1 DEF AllocTypes
  <2>5. queue'[t] # <<>> /\ asked'[t] \in 1 .. left'[t]
    BY <1>0, <1>5, <2>1, <2>2, <2>4
  <2> QED BY <1>0, <1>5, <1>6, <2>1, <2>3, <2>5, LoopInv
<1> QED BY <1>7, <1>8

\* The loop over the targets ends.
LEMMA AllocatedInv ==
  ASSUME Inv, NEW t \in Tasks, Allocated(t)
  PROVE  Inv' /\ Only(t, req[t].blob)
<1>0. Types /\ TaskOK(t) /\ pc[t] = "alloc"
  BY DEF Inv, Allocated
<1>1. AllocTypes /\ AtAlloc(t)
  BY <1>0 DEF Types, TaskOK
<1>2. /\ UNCHANGED <<blobVars, targetVars, bdevVars, asked, got, credit, flush, keep, ops>>
      /\ queue' = [queue EXCEPT ![t] = <<>>] /\ left' = [left EXCEPT ![t] = 0]
  BY DEF Allocated
<1>3. AllocTypes'
  <2>1. <<>> \in Seq(Targets)
    OBVIOUS
  <2> QED BY <1>1, <1>2, <2>1 DEF AllocTypes
<1>4. GrowFrame(t)
  BY <1>1, <1>2, <1>3 DEF GrowFrame, AllocTypes
<1>5. CASE left[t] = 0
  <2>1. BeginWrite(t) /\ UNCHANGED <<req, rc, content, old>>
    BY <1>5 DEF Allocated
  <2>2. req[t].off + req[t].size <= Size(req[t].blob)
    <3>1. Size(req[t].blob) \in Nat
      BY <1>0, OwnBlob, SizeIsNat
    <3> QED BY <1>1, <1>5, <3>1 DEF AtAlloc
  <2> QED BY <1>0, <1>4, <2>1, <2>2, BeginWriteInv
<1>6. CASE left[t] # 0
  <2>1. Fail(t, 3) /\ UNCHANGED todo
    BY <1>6 DEF Allocated
  <2> QED BY <1>0, <1>4, <2>1, FailInv
<1> QED BY <1>5, <1>6

-----------------------------------------------------------------------------
(* Cells change hands.                                                     *)

\* A step of t that moves cells from h or to its own.
LEMMA HeldStep ==
  ASSUME Inv, NEW t \in Tasks, NEW b \in Blobs, Works(t, b), Only(t, b),
         NEW G, NEW H, Held(G, H), NEW G2, NEW H2, NEW h, Moves(G, H, G2, H2, h),
         \A c \in Blobs \ {b} : <<"blob", c>> # h,
         \A u \in Tasks \ {t} : <<"task", u>> # h,
         Grid(G2)', H2 \in [Targets -> [Nat -> Holder]],
         \A x \in Targets : \A k \in Categories : HeldList(G2, H2, x, k)',
         ~ BeingFreed(b)' => HeldBlocks(G2, H2, b, blocks'[b]),
         Freeing(t)' => HeldGroups(G2, H2, b, todo'[t]),
         HeldGot(G2, H2, t)',
         HeldKeep(G2, H2)'
  PROVE  (\E X, Y : Held(X, Y))'
<1>3. /\ \A c \in Blobs \ {b} : ~ BeingFreed(c)' => HeldBlocks(G2, H2, c, blocks'[c])
      /\ \A u \in Tasks \ {t} : Freeing(u)' => HeldGroups(G2, H2, req'[u].blob, todo'[u])
      /\ \A u \in Tasks \ {t} : HeldGot(G2, H2, u)'
  BY HeldOthers
<1>6. \A c \in Blobs : ~ BeingFreed(c)' => HeldBlocks(G2, H2, c, blocks'[c])
  BY <1>3
<1>7. \A u \in Tasks : Freeing(u)' => HeldGroups(G2, H2, req'[u].blob, todo'[u])
  <2> SUFFICES ASSUME NEW u \in Tasks, Freeing(u)' PROVE HeldGroups(G2, H2, req'[u].blob, todo'[u])
    OBVIOUS
  <2>1. CASE u # t
    BY <1>3, <2>1
  <2>2. CASE u = t
    <3>1. req'[t].blob = b
      BY <2>2 DEF Only, Freeing
    <3> QED BY <2>2, <3>1
  <2> QED BY <2>1, <2>2
<1>8. \A u \in Tasks : HeldGot(G2, H2, u)'
  BY <1>3
<1>9. Held(G2, H2)'
  BY <1>6, <1>7, <1>8 DEF Held
<1> QED BY <1>9

\* Cells that others hold, when FlushData keeps blocks.
LEMMA KeepMoved ==
  ASSUME Inv, NEW t \in Tasks, NEW b \in Blobs, Works(t, b), Only(t, b),
         t # Flusher \/ ~ Freeing(t) \/ req[t].kind # "flush", keep' = keep,
         NEW G, NEW H, Held(G, H), NEW G2, NEW H2, NEW h, Moves(G, H, G2, H2, h),
         \A c \in Blobs \ {b} : <<"blob", c>> # h
  PROVE  KeepOK' /\ HeldKeep(G2, H2)'
<1>1. CASE keep = <<>>
  BY <1>1 DEF KeepOK, HeldKeep
<1>2. CASE keep # <<>>
  <2>1. Freeing(Flusher) /\ req[Flusher].kind = "flush"
    BY <1>2 DEF Inv, KeepOK
  <2>2. Flusher \in Tasks \ {t} /\ pc[Flusher] # "idle"
    BY <2>1 DEF Tasks, Freeing
  <2>3. pc'[Flusher] = pc[Flusher] /\ req'[Flusher] = req[Flusher] /\ todo'[Flusher] = todo[Flusher]
    BY <2>2 DEF Only
  <2>4. KeepOK'
    BY <2>1, <2>3 DEF KeepOK, Freeing
  <2>5. HeldKeep(G, H) /\ G \in [Targets -> [Nat -> Nat]]
    BY DEF Held, Grid
  <2>6. PICK c \in Blobs \ {b} : c = req[Flusher].blob
    BY <2>2, OwnBlob DEF Works
  <2>7. PICK ks \in Seq(BlobBlock) : ks = keep
    BY DEF Inv, Types, OtherTypes
  <2>8. HeldBlocks(G, H, c, ks)
    BY <1>2, <2>5, <2>6, <2>7 DEF HeldKeep
  <2>9. HeldBlocks(G2, H2, c, ks)
    BY <2>5, <2>8, BlocksMoved
  <2>10. HeldKeep(G2, H2)'
    BY <2>3, <2>5, <2>6, <2>7, <2>9, <1>2 DEF HeldKeep
  <2> QED BY <2>4, <2>10
<1> QED BY <1>1, <1>2

\* The size of a single grant.
LEMMA OneSize ==
  ASSUME NEW gs \in Seq(Grant), Len(gs) = 1
  PROVE  SizeOf(gs) = gs[1].size
<1>1. gs[1] \in Grant
  OBVIOUS
<1>2. gs[1].size \in Nat
  BY <1>1 DEF Grant
<1>3. Sized(gs)
  BY GrantsSized
<1>4. Ends(gs)[0] = 0 /\ Ends(gs)[1] = Ends(gs)[1 - 1] + gs[1].size
  BY <1>3, EndsFacts
<1> QED BY <1>2, <1>4 DEF SizeOf

\* A list of which others' cells and some of its own are taken away.
LEMMA ListMoved ==
  ASSUME NEW G, NEW H, NEW G2, NEW H2, NEW h, Held(G, H), Types,
         Moves(G, H, G2, H2, h), NEW x \in Targets, NEW k \in Categories, <<"list", k>> # h,
         recycled'[x][k] = recycled[x][k]
  PROVE  HeldList(G2, H2, x, k)'
<1>1. PICK es \in Seq(Extent) : es = recycled[x][k]
  BY DEF Types, DeviceTypes
<1>2. HeldList(G, H, x, k) /\ G \in [Targets -> [Nat -> Nat]]
  BY DEF Held, Grid
<1>3. DistinctOffs(es)
  BY <1>1, <1>2 DEF HeldList
<1>4. ASSUME NEW i \in 1 .. Len(es)
      PROVE  Holds(G2, H2, <<"list", k>>, x, es[i]) /\ k <= G2[x][es[i].off]
  <2>1. es[i] \in Extent
    OBVIOUS
  <2>2. es[i].off \in Nat
    BY <2>1 DEF Extent
  <2>3. Holds(G, H, <<"list", k>>, x, es[i]) /\ k <= G[x][es[i].off]
    BY <1>1, <1>2 DEF HeldList
  <2>4. Holds(G2, H2, <<"list", k>>, x, es[i])
    BY <1>2, <2>2, <2>3, HoldsMoved
  <2>5. G2[x][es[i].off] = G[x][es[i].off]
    <3>1. G[x][es[i].off] > 0 /\ H[x][es[i].off] # h
      <4>1. G[x][es[i].off] \in Nat /\ SmallBlock <= G[x][es[i].off] /\ H[x][es[i].off] = <<"list", k>>
        BY <1>2, <2>2, <2>3 DEF Holds
      <4> QED BY <4>1, TargetAssumption
    <3> QED BY <2>2, <3>1 DEF Moves
  <2> QED BY <2>3, <2>4, <2>5
<1> QED BY <1>1, <1>3, <1>4 DEF HeldList

\* The common part of the three outcomes of BdevAllocate.
LEMMA AllocateFacts ==
  ASSUME Inv, NEW t \in Tasks, BdevAllocate(t)
  PROVE  /\ pc[t] = "bdev" /\ got[t] = <<>> /\ asked[t] \in Nat \ {0}
         /\ queue[t] \in Seq(Targets) /\ queue[t] # <<>> /\ Head(queue[t]) \in Targets
         /\ Cat(asked[t]) \in Categories /\ asked[t] <= Cat(asked[t]) /\ SmallBlock <= Cat(asked[t])
         /\ Cat(asked[t]) \in Nat \ {0}
         /\ Min({MaxBlock, asked[t] - Granted(t)}) = asked[t]
<1>0. Types /\ TaskOK(t) /\ pc[t] = "bdev" /\ Granted(t) < asked[t]
  BY DEF Inv, BdevAllocate
<1>1. AtBdev(t) /\ AtAlloc(t) /\ Serves(t) /\ AtGrow(t)
  BY <1>0 DEF TaskOK, Growing
<1>2. queue[t] \in Seq(Targets) /\ got[t] \in Seq(Grant) /\ left[t] \in Nat /\ asked[t] \in Nat
  BY <1>0 DEF Types, AllocTypes
<1>3. got[t] = <<>>
  <2> SUFFICES ASSUME got[t] # <<>> PROVE FALSE
    OBVIOUS
  <2>1. SizeOf(got[t]) = asked[t]
    BY <1>1, <1>2, OneSize DEF AtBdev
  <2> QED BY <1>0, <1>2, <2>1 DEF Granted
<1>4. Granted(t) = 0
  BY <1>3, EmptySize DEF Granted
<1>5. asked[t] \in 1 .. left[t] /\ queue[t] # <<>>
  BY <1>1 DEF AtBdev
<1>6. asked[t] <= MaxBlock
  <2>1. req[t].blob \in Blobs /\ req[t] \in Request
    BY <1>0, OwnBlob
  <2>2. Size(req[t].blob) \in Nat /\ req[t].off \in Nat /\ req[t].size \in Nat
    BY <1>0, <2>1, SizeIsNat DEF Request
  <2>3. req[t].off + req[t].size <= MaxBlock
    BY <1>1 DEF Serves, AtGrow
  <2>4. Size(req[t].blob) + left[t] = req[t].off + req[t].size
    BY <1>1 DEF AtAlloc
  <2> QED BY <1>2, <1>5, <2>2, <2>3, <2>4, TargetAssumption
<1>7. Min({MaxBlock, asked[t] - Granted(t)}) = asked[t]
  <2>1. PICK a \in Int, m \in Int : a = asked[t] /\ m = MaxBlock
    BY <1>2, TargetAssumption
  <2>2. asked[t] - Granted(t) = a
    BY <1>2, <1>4, <2>1
  <2>3. Min({m, a}) = IF m <= a THEN m ELSE a
    BY MinOfTwo
  <2>4. Min({m, a}) = a
    BY <1>6, <2>1, <2>3
  <2> QED BY <2>1, <2>2, <2>4
<1>8. Head(queue[t]) \in Targets
  BY <1>2, <1>5
<1>9. /\ Cat(asked[t]) \in Categories /\ asked[t] <= Cat(asked[t]) /\ SmallBlock <= Cat(asked[t])
      /\ Cat(asked[t]) \in Nat \ {0}
  BY <1>2, <1>6, TargetAssumption DEF Cat, Categories
<1> QED BY <1>0, <1>2, <1>3, <1>5, <1>7, <1>8, <1>9

\* The first grant.
LEMMA AppendOne ==
  ASSUME NEW e \in Seq(Grant), Len(e) = 0, NEW r \in Grant
  PROVE  Len(Append(e, r)) = 1 /\ Append(e, r)[1] = r /\ Append(e, r) # <<>>
<1>1. Append(e, r) \in Seq(Grant) /\ Len(<<>>) = 0
  OBVIOUS
<1>2. Len(Append(e, r)) = 1
  OBVIOUS
<1>3. Append(e, r)[Len(e) + 1] = r
  OBVIOUS
<1>4. Append(e, r)[1] = r
  BY <1>3
<1>5. Append(e, r) # <<>>
  <2> SUFFICES ASSUME Append(e, r) = <<>> PROVE FALSE
    OBVIOUS
  <2>1. Len(Append(e, r)) = 0
    BY <1>1
  <2> QED BY <1>2, <2>1
<1> QED BY <1>2, <1>4, <1>5

\* The device grants t a block of n bytes, of category k, that begins at o of x.
GrantOf(t, x, n, k, o) ==
  /\ x = Head(queue[t]) /\ n = asked[t] /\ k = Cat(n)
  /\ got' = [got EXCEPT ![t] = Append(got[t], [off |-> o, size |-> n, cat |-> k])]
  /\ queue' = queue /\ asked' = asked /\ pc' = pc

\* A cell that no blob and no other handler has changes hands.
TakenFrom(t, G, H, G2, H2, h) ==
  /\ Held(G, H)
  /\ Moves(G, H, G2, H2, h)
  /\ \A c \in Blobs : <<"blob", c>> # h
  /\ \A u \in Tasks \ {t} : <<"task", u>> # h
  /\ Grid(G2)'
  /\ H2 \in [Targets -> [Nat -> Holder]]
  /\ \A y \in Targets : \A j \in Categories : HeldList(G2, H2, y, j)'

\* A handler is granted a block that begins at o.
LEMMA GrantedInv ==
  ASSUME Inv, NEW t \in Tasks, BdevAllocate(t), NEW x \in Targets, NEW n \in Nat \ {0},
         NEW k \in Categories, NEW o \in Nat, GrantOf(t, x, n, k, o), DeviceTypes',
         NEW G, NEW H, NEW G2, NEW H2, NEW h, TakenFrom(t, G, H, G2, H2, h),
         H2[x][o] = <<"task", t>>, k <= G2[x][o]
  PROVE  Inv' /\ Only(t, req[t].blob)
<1> USE DEF GrantOf, TakenFrom
<1>0. Types /\ TaskOK(t) /\ pc[t] = "bdev"
  BY DEF Inv, BdevAllocate
<1>1. /\ req[t] \in Request /\ req[t].blob \in Blobs /\ req[t].blob \in exists
      /\ Works(t, req[t].blob) /\ \A f \in flush : f.blob # req[t].blob
  BY <1>0, OwnBlob
<1>2. PICK b \in Blobs : b = req[t].blob
  BY <1>1
<1>3. /\ exists' = exists /\ blocks' = blocks /\ score' = score /\ tag_size' = tag_size
      /\ disk' = disk /\ keep' = keep /\ left' = left /\ credit' = credit
      /\ content' = content /\ rc' = rc /\ old' = old /\ req' = req /\ todo' = todo
      /\ flush' = flush /\ ops' = ops
      /\ registered' = registered /\ remaining' = remaining
  BY DEF BdevAllocate, blobVars, targetVars, history
<1>4. /\ got[t] = <<>> /\ n <= k /\ SmallBlock <= k
  BY AllocateFacts
<1>5. PICK r \in Grant : r = [off |-> o, size |-> n, cat |-> k]
  BY DEF Grant
<1>6. Len(got'[t]) = 1 /\ got'[t][1] = r /\ got'[t] # <<>>
  <2>1. got'[t] = Append(got[t], r)
    BY <1>0, <1>5 DEF Types, AllocTypes
  <2>2. PICK e \in Seq(Grant) : e = got[t] /\ Len(e) = 0
    BY <1>0, <1>4 DEF Types, AllocTypes
  <2>3. Len(Append(e, r)) = 1 /\ Append(e, r)[1] = r /\ Append(e, r) # <<>>
    BY <2>2, AppendOne
  <2> QED BY <2>1, <2>2, <2>3
<1>7. Only(t, b)
  <2>1. \A u \in Tasks \ {t} : got'[u] = got[u]
    BY <1>0 DEF Types, AllocTypes
  <2> QED BY <1>2, <1>3, <2>1 DEF Only
<1>8. ~ Freeing(t) /\ ~ Freeing(t)'
  BY <1>0 DEF Freeing
<1>9. KeepOK' /\ HeldKeep(G2, H2)'
  BY <1>1, <1>2, <1>3, <1>7, <1>8, KeepMoved
<1>10. HeldGot(G2, H2, t)'
  <2>1. Holds(G2, H2, <<"task", t>>, x, [off |-> o, size |-> n, cat |-> k])
    <3>1. G2 \in [Targets -> [Nat -> Nat]]
      BY DEF Grid
    <3>2. G2[x][o] \in Nat
      BY <3>1
    <3>3. k \in Nat /\ SmallBlock \in Nat
      BY TargetAssumption DEF Categories
    <3>4. n <= G2[x][o] /\ SmallBlock <= G2[x][o]
      BY <1>4, <3>2, <3>3
    <3> QED BY <3>4 DEF Holds
  <2> QED BY <1>5, <1>6, <2>1 DEF HeldGot
<1>11. HeldBlocks(G2, H2, b, blocks'[b])
  <2>1. PICK bs \in Seq(BlobBlock) : bs = blocks[b]
    BY <1>0 DEF Types, BlobTypes
  <2>2. HeldBlocks(G, H, b, bs)
    BY <1>1, <1>2, <1>8, <2>1, OwnBlocks
  <2>3. HeldBlocks(G2, H2, b, bs)
    BY <2>2, BlocksMoved DEF Held, Grid
  <2> QED BY <1>3, <2>1, <2>3
<1>12. (\E X, Y : Held(X, Y))'
  BY <1>1, <1>2, <1>7, <1>8, <1>9, <1>10, <1>11, HeldStep
<1>13. Types'
  <2>1. BlobTypes' /\ TargetTypes' /\ DiskTypes' /\ OtherTypes' /\ TaskTypes'
    BY <1>0, <1>3 DEF Types, BlobTypes, TargetTypes, DiskTypes, OtherTypes, TaskTypes
  <2>2. AllocTypes'
    <3>1. [off |-> o, size |-> n, cat |-> k] \in Grant
      BY DEF Grant
    <3>2. Append(got[t], [off |-> o, size |-> n, cat |-> k]) \in Seq(Grant)
      BY <1>0, <3>1 DEF Types, AllocTypes
    <3> QED BY <1>0, <1>3, <3>2 DEF Types, AllocTypes
  <2> QED BY <2>1, <2>2 DEF Types
<1>14. TaskOK(t)'
  <2>0. Serves(t) /\ AtGrow(t) /\ AtAlloc(t) /\ AtBdev(t)
    BY <1>0 DEF TaskOK, Growing
  <2>1. Serves(t)' /\ AtGrow(t)' /\ AtAlloc(t)'
    BY <1>3, <2>0 DEF Serves, AtGrow, AtAlloc, Size
  <2>2. AtBdev(t)'
    BY <1>3, <1>5, <1>6, <2>0 DEF AtBdev
  <2> QED BY <1>0, <2>1, <2>2 DEF TaskOK, Freeing, Growing
<1>15. BlobOK(b)'
  <2>1. BlobOK(b) /\ ~ Cut(b)
    BY <1>0, <1>1, <1>2 DEF Inv, Cut, Works, Tasks
  <2> QED BY <1>3, <2>1 DEF BlobOK, Size
<1>16. Inv'
  BY <1>1, <1>2, <1>3, <1>7, <1>9, <1>12, <1>13, <1>14, <1>15, StepInv
<1> QED BY <1>2, <1>7, <1>16

\* A recycled block is handed out.
LEMMA RecycledInv ==
  ASSUME Inv, NEW t \in Tasks, BdevAllocate(t), NEW x \in Targets, NEW n \in Nat \ {0},
         NEW k \in Categories, x = Head(queue[t]), n = asked[t], k = Cat(n),
         recycled[x][k] # <<>>,
         got' = [got EXCEPT ![t] = Append(got[t], [off |-> Head(recycled[x][k]).off, size |-> n, cat |-> k])],
         recycled' = [recycled EXCEPT ![x][k] = Tail(recycled[x][k])],
         cursor' = cursor, queue' = queue, asked' = asked, pc' = pc
  PROVE  Inv' /\ Only(t, req[t].blob)
<1>0. Types
  BY DEF Inv
<1>1. PICK es \in Seq(Extent) : es = recycled[x][k]
  BY <1>0 DEF Types, DeviceTypes
<1>2. /\ es # <<>> /\ Tail(es) \in Seq(Extent) /\ Len(es) \in Nat /\ Len(es) >= 1
      /\ Len(Tail(es)) = Len(es) - 1 /\ Head(es) = es[1]
      /\ \A i \in 1 .. Len(Tail(es)) : Tail(es)[i] = es[i + 1]
  BY <1>1
<1>3. es[1] \in Extent
  BY <1>2
<1>4. PICK o \in Nat : o = es[1].off
  BY <1>3 DEF Extent
<1>5. PICK G, H : Held(G, H)
  BY DEF Inv
<1>6. /\ Grid(G) /\ G \in [Targets -> [Nat -> Nat]] /\ H \in [Targets -> [Nat -> Holder]]
      /\ HeldList(G, H, x, k)
  BY <1>5 DEF Held, Grid
<1>7. /\ DistinctOffs(es)
      /\ \A i \in 1 .. Len(es) : Holds(G, H, <<"list", k>>, x, es[i]) /\ k <= G[x][es[i].off]
  BY <1>1, <1>6 DEF HeldList
<1>8. H[x][o] = <<"list", k>> /\ k <= G[x][o]
  BY <1>2, <1>4, <1>7 DEF Holds
<1>a. PICK H2, h :
        /\ H2 = [y \in Targets |-> [p \in Nat |-> IF y = x /\ p = o THEN <<"task", t>> ELSE H[y][p]]]
        /\ h = <<"list", k>>
  OBVIOUS
<1>9. H2 \in [Targets -> [Nat -> Holder]]
  <2>1. <<"task", t>> \in Holder
    BY DEF Holder
  <2> QED BY <1>6, <1>a, <2>1
<1>10. H2[x][o] = <<"task", t>>
  BY <1>a
<1>11. \A y \in Targets : \A p \in Nat : H2[y][p] = IF y = x /\ p = o THEN <<"task", t>> ELSE H[y][p]
  BY <1>a
<1>12. /\ \A c \in Blobs : <<"blob", c>> # h
       /\ \A u \in Tasks : <<"task", u>> # h
  BY <1>a
<1>13. Moves(G, H, G, H2, h)
  BY <1>8, <1>11, <1>a DEF Moves
<1>14. recycled' \in [Targets -> [Categories -> Seq(Extent)]]
  BY <1>0, <1>1, <1>2 DEF Types, DeviceTypes
<1>15. DeviceTypes'
  BY <1>0, <1>14 DEF Types, DeviceTypes
<1>16. Grid(G)'
  BY <1>6 DEF Grid
<1>17. recycled'[x][k] = Tail(es)
  BY <1>0, <1>1 DEF Types, DeviceTypes
<1>18. \A y \in Targets : \A j \in Categories : HeldList(G, H2, y, j)'
  <2> SUFFICES ASSUME NEW y \in Targets, NEW j \in Categories PROVE HeldList(G, H2, y, j)'
    OBVIOUS
  <2>1. CASE y = x /\ j = k
    <3>1. DistinctOffs(Tail(es))
      <4> SUFFICES ASSUME NEW a \in 1 .. Len(Tail(es)), NEW c \in 1 .. Len(Tail(es)), a # c
                   PROVE  Tail(es)[a].off # Tail(es)[c].off
        BY DEF DistinctOffs
      <4>1. a + 1 \in 1 .. Len(es) /\ c + 1 \in 1 .. Len(es) /\ a + 1 # c + 1
        BY <1>2
      <4> QED BY <1>2, <1>7, <4>1 DEF DistinctOffs
    <3>2. ASSUME NEW i \in 1 .. Len(Tail(es))
          PROVE  Holds(G, H2, <<"list", k>>, x, Tail(es)[i]) /\ k <= G[x][Tail(es)[i].off]
      <4>1. i + 1 \in 1 .. Len(es) /\ 1 \in 1 .. Len(es) /\ i + 1 # 1 /\ Tail(es)[i] = es[i + 1]
        BY <1>2
      <4>2. PICK e \in Extent : e = es[i + 1]
        BY <4>1
      <4>3. e.off \in Nat /\ e.off # o
        BY <1>4, <1>7, <4>1, <4>2 DEF DistinctOffs, Extent
      <4>4. Holds(G, H, <<"list", k>>, x, e) /\ k <= G[x][e.off]
        BY <1>7, <4>1, <4>2
      <4>5. H2[x][e.off] = H[x][e.off]
        BY <1>11, <4>3
      <4> QED BY <4>1, <4>2, <4>4, <4>5 DEF Holds
    <3> QED BY <1>17, <2>1, <3>1, <3>2 DEF HeldList
  <2>2. CASE y # x \/ j # k
    <3>1. recycled'[y][j] = recycled[y][j]
      BY <1>0, <2>2 DEF Types, DeviceTypes
    <3>2. CASE j # k
      <4>1. <<"list", j>> # h
        BY <3>2, <1>a
      <4> QED BY <1>0, <1>5, <1>13, <3>1, <4>1, ListMoved
    <3>3. CASE y # x
      <4>1. PICK fs \in Seq(Extent) : fs = recycled[y][j]
        BY <1>0 DEF Types, DeviceTypes
      <4>2. HeldList(G, H, y, j)
        BY <1>5 DEF Held
      <4>3. ASSUME NEW i \in 1 .. Len(fs) PROVE Holds(G, H2, <<"list", j>>, y, fs[i])
        <5>1. fs[i] \in Extent
          OBVIOUS
        <5>2. fs[i].off \in Nat
          BY <5>1 DEF Extent
        <5>3. H2[y][fs[i].off] = H[y][fs[i].off]
          BY <1>11, <3>3, <5>2
        <5> QED BY <4>1, <4>2, <5>3 DEF HeldList, Holds
      <4> QED BY <3>1, <4>1, <4>2, <4>3 DEF HeldList
    <3> QED BY <2>2, <3>2, <3>3
  <2> QED BY <2>1, <2>2
<1>19. got' = [got EXCEPT ![t] = Append(got[t], [off |-> o, size |-> n, cat |-> k])]
  BY <1>1, <1>2, <1>4
<1>20. TakenFrom(t, G, H, G, H2, h)
  BY <1>5, <1>9, <1>12, <1>13, <1>16, <1>18 DEF TakenFrom
<1>21. GrantOf(t, x, n, k, o)
  BY <1>19 DEF GrantOf
<1> QED BY <1>8, <1>10, <1>15, <1>20, <1>21, GrantedInv

\* The heap hands out the next cell.
LEMMA FreshInv ==
  ASSUME Inv, NEW t \in Tasks, BdevAllocate(t), NEW x \in Targets, NEW n \in Nat \ {0},
         NEW k \in Categories, x = Head(queue[t]), n = asked[t], k = Cat(n),
         cursor[x] + k <= Capacity[x],
         got' = [got EXCEPT ![t] = Append(got[t], [off |-> cursor[x], size |-> n, cat |-> k])],
         cursor' = [cursor EXCEPT ![x] = cursor[x] + k],
         recycled' = recycled, queue' = queue, asked' = asked, pc' = pc
  PROVE  Inv' /\ Only(t, req[t].blob)
<1>0. Types
  BY DEF Inv
<1>1. PICK o \in Nat : o = cursor[x]
  BY <1>0 DEF Types, DeviceTypes
<1>2. k \in Nat /\ k > 0
  BY TargetAssumption DEF Categories
<1>3. PICK G, H : Held(G, H)
  BY DEF Inv
<1>4. /\ Grid(G) /\ G \in [Targets -> [Nat -> Nat]] /\ H \in [Targets -> [Nat -> Holder]]
  BY <1>3 DEF Held, Grid
<1>a. PICK G2, H2, h :
        /\ G2 = [y \in Targets |-> [p \in Nat |-> IF y = x /\ p = o THEN k ELSE G[y][p]]]
        /\ H2 = [y \in Targets |-> [p \in Nat |-> IF y = x /\ p = o THEN <<"task", t>> ELSE H[y][p]]]
        /\ h = <<"task", t>>
  OBVIOUS
<1>5. G2 \in [Targets -> [Nat -> Nat]] /\ H2 \in [Targets -> [Nat -> Holder]]
  <2>1. <<"task", t>> \in Holder
    BY DEF Holder
  <2> QED BY <1>2, <1>4, <1>a, <2>1
<1>6. /\ \A y \in Targets : \A p \in Nat : G2[y][p] = IF y = x /\ p = o THEN k ELSE G[y][p]
      /\ \A y \in Targets : \A p \in Nat : H2[y][p] = IF y = x /\ p = o THEN <<"task", t>> ELSE H[y][p]
  BY <1>a
<1>7. /\ \A c \in Blobs : <<"blob", c>> # h
      /\ \A u \in Tasks \ {t} : <<"task", u>> # h
      /\ \A j \in Categories : <<"list", j>> # h
  BY <1>a
<1>8. cursor' \in [Targets -> Nat] /\ cursor'[x] = o + k /\ \A y \in Targets : y # x => cursor'[y] = cursor[y]
  BY <1>0, <1>1, <1>2 DEF Types, DeviceTypes
<1>9. DeviceTypes'
  BY <1>0, <1>8 DEF Types, DeviceTypes
<1>10. \A y \in Targets : cursor[y] \in Nat /\ cursor'[y] \in Nat /\ cursor[y] <= cursor'[y] /\ Capacity[y] \in Nat
  <2> SUFFICES ASSUME NEW y \in Targets
               PROVE  cursor[y] \in Nat /\ cursor'[y] \in Nat /\ cursor[y] <= cursor'[y] /\ Capacity[y] \in Nat
    OBVIOUS
  <2>1. cursor[y] \in Nat /\ Capacity[y] \in Nat /\ cursor'[y] \in Nat
    BY <1>0, <1>8, TargetAssumption DEF Types, DeviceTypes
  <2>2. CASE y = x
    BY <1>1, <1>2, <1>8, <2>1, <2>2
  <2>3. CASE y # x
    BY <1>8, <2>1, <2>3
  <2> QED BY <2>1, <2>2, <2>3
<1>11. \A p \in Nat : p >= o => G[x][p] = 0
  <2> SUFFICES ASSUME NEW p \in Nat, p >= o PROVE G[x][p] = 0
    OBVIOUS
  <2>1. G[x][p] \in Nat
    BY <1>4
  <2>2. G[x][p] > 0 => p + G[x][p] <= cursor[x]
    BY <1>4 DEF Grid
  <2> QED BY <1>1, <2>1, <2>2
<1>12. Moves(G, H, G2, H2, h)
  <2> SUFFICES ASSUME NEW y \in Targets, NEW p \in Nat, G[y][p] > 0
               PROVE  G2[y][p] = G[y][p] /\ H2[y][p] = H[y][p]
    BY DEF Moves
  <2>1. ~ (y = x /\ p = o)
    BY <1>11
  <2> QED BY <1>6, <2>1
<1>13. Grid(G2)'
  <2>1. ASSUME NEW y \in Targets, NEW p \in Nat, G2[y][p] > 0
        PROVE  p + G2[y][p] <= cursor'[y] /\ p + G2[y][p] <= Capacity[y]
    <3>1. CASE y = x /\ p = o
      <4>1. G2[y][p] = k
        BY <1>6, <3>1
      <4> QED BY <1>1, <1>2, <1>8, <3>1, <4>1
    <3>2. CASE ~ (y = x /\ p = o)
      <4>1. G2[y][p] = G[y][p]
        BY <1>6, <3>2
      <4>2. p + G[y][p] <= cursor[y] /\ p + G[y][p] <= Capacity[y]
        BY <1>4, <2>1, <4>1 DEF Grid
      <4>3. G[y][p] \in Nat
        BY <1>4
      <4> QED BY <1>10, <4>1, <4>2, <4>3
    <3> QED BY <3>1, <3>2
  <2>2. ASSUME NEW y \in Targets, NEW p \in Nat, NEW q \in Nat, p < q, G2[y][p] > 0, G2[y][q] > 0
        PROVE  p + G2[y][p] <= q
    <3>1. CASE y # x
      <4>1. G2[y][p] = G[y][p] /\ G2[y][q] = G[y][q]
        BY <1>6, <3>1
      <4> QED BY <1>4, <2>2, <4>1 DEF Grid
    <3>2. CASE y = x /\ p = o
      <4>1. G2[y][q] = G[x][q]
        BY <1>6, <2>2, <3>2
      <4>2. G[x][q] = 0
        BY <1>11, <2>2, <3>2
      <4> QED BY <2>2, <4>1, <4>2
    <3>3. CASE y = x /\ p # o /\ q = o
      <4>1. G2[y][p] = G[x][p]
        BY <1>6, <3>3
      <4>2. p + G[x][p] <= cursor[x]
        BY <1>4, <2>2, <4>1 DEF Grid
      <4> QED BY <1>1, <3>3, <4>1, <4>2
    <3>4. CASE y = x /\ p # o /\ q # o
      <4>1. G2[y][p] = G[y][p] /\ G2[y][q] = G[y][q]
        BY <1>6, <3>4
      <4> QED BY <1>4, <2>2, <4>1 DEF Grid
    <3> QED BY <3>1, <3>2, <3>3, <3>4
  <2> QED BY <1>5, <2>1, <2>2 DEF Grid
<1>14. \A y \in Targets : \A j \in Categories : HeldList(G2, H2, y, j)'
  BY <1>0, <1>3, <1>7, <1>12, ListMoved
<1>15. H2[x][o] = <<"task", t>> /\ k <= G2[x][o]
  BY <1>2, <1>6
<1>16. got' = [got EXCEPT ![t] = Append(got[t], [off |-> o, size |-> n, cat |-> k])]
  BY <1>1
<1>17. TakenFrom(t, G, H, G2, H2, h)
  BY <1>3, <1>5, <1>7, <1>12, <1>13, <1>14 DEF TakenFrom
<1>18. GrantOf(t, x, n, k, o)
  BY <1>16 DEF GrantOf
<1> QED BY <1>9, <1>15, <1>17, <1>18, GrantedInv

\* The heap has no room: the device gives the request up.
LEMMA NoRoomInv ==
  ASSUME Inv, NEW t \in Tasks, BdevAllocate(t), NEW x \in Targets,
         NEW k \in Categories, x = Head(queue[t]),
         got' = [got EXCEPT ![t] = <<>>],
         asked' = [asked EXCEPT ![t] = 0],
         queue' = [queue EXCEPT ![t] = Tail(queue[t])],
         Goto(t, "alloc"),
         cursor' = [cursor EXCEPT ![x] = cursor[x] + k],
         recycled' = recycled
  PROVE  Inv' /\ Only(t, req[t].blob)
<1>0. Types /\ TaskOK(t) /\ pc[t] = "bdev"
  BY DEF Inv, BdevAllocate
<1>1. /\ req[t] \in Request /\ req[t].blob \in Blobs /\ req[t].blob \in exists
      /\ Works(t, req[t].blob) /\ \A f \in flush : f.blob # req[t].blob
  BY <1>0, OwnBlob
<1>2. PICK b \in Blobs : b = req[t].blob
  BY <1>1
<1>3. /\ exists' = exists /\ blocks' = blocks /\ score' = score /\ tag_size' = tag_size
      /\ disk' = disk /\ keep' = keep /\ left' = left /\ credit' = credit
      /\ content' = content /\ rc' = rc /\ old' = old /\ req' = req /\ todo' = todo
      /\ flush' = flush /\ ops' = ops
      /\ registered' = registered /\ remaining' = remaining
  BY DEF BdevAllocate, blobVars, targetVars, history
<1>4. queue[t] \in Seq(Targets) /\ queue[t] # <<>>
  BY AllocateFacts
<1>5. pc' = [pc EXCEPT ![t] = "alloc"]
  BY DEF Goto
<1>6. pc'[t] = "alloc" /\ got'[t] = <<>>
  BY <1>0, <1>5 DEF Types, TaskTypes, AllocTypes
<1>7. Only(t, b)
  <2>1. \A u \in Tasks \ {t} : pc'[u] = pc[u] /\ got'[u] = got[u] /\ asked'[u] = asked[u] /\ queue'[u] = queue[u]
    BY <1>0, <1>5 DEF Types, TaskTypes, AllocTypes
  <2> QED BY <1>2, <1>3, <2>1 DEF Only
<1>8. ~ Freeing(t) /\ ~ Freeing(t)'
  BY <1>0, <1>6 DEF Freeing
<1>9. k \in Nat
  BY TargetAssumption DEF Categories
<1>10. cursor' \in [Targets -> Nat] /\ \A y \in Targets : cursor[y] \in Nat /\ cursor'[y] \in Nat /\ cursor[y] <= cursor'[y]
  BY <1>0, <1>9 DEF Types, DeviceTypes
<1>11. PICK G, H : Held(G, H)
  BY DEF Inv
<1>12. /\ Grid(G) /\ G \in [Targets -> [Nat -> Nat]] /\ H \in [Targets -> [Nat -> Holder]]
  BY <1>11 DEF Held, Grid
<1>13. PICK h : h = <<"task", t>>
  OBVIOUS
<1>14. /\ Moves(G, H, G, H, h)
       /\ \A c \in Blobs : <<"blob", c>> # h
       /\ \A u \in Tasks \ {t} : <<"task", u>> # h
  BY <1>13, NothingMoved
<1>15. Grid(G)'
  <2>1. ASSUME NEW y \in Targets, NEW p \in Nat, G[y][p] > 0
        PROVE  p + G[y][p] <= cursor'[y] /\ p + G[y][p] <= Capacity[y]
    <3>1. p + G[y][p] <= cursor[y] /\ p + G[y][p] <= Capacity[y] /\ G[y][p] \in Nat
      BY <1>12, <2>1 DEF Grid
    <3> QED BY <1>10, <3>1
  <2> QED BY <1>12, <2>1 DEF Grid
<1>16. \A y \in Targets : \A j \in Categories : HeldList(G, H, y, j)'
  BY <1>11 DEF Held, HeldList
<1>17. KeepOK' /\ HeldKeep(G, H)'
  BY <1>1, <1>2, <1>3, <1>7, <1>8, <1>11, <1>14, KeepMoved
<1>18. HeldBlocks(G, H, b, blocks'[b])
  BY <1>1, <1>2, <1>3, <1>8, <1>11, OwnBlocks
<1>19. HeldGot(G, H, t)'
  BY <1>6 DEF HeldGot
<1>20. (\E X, Y : Held(X, Y))'
  BY <1>1, <1>2, <1>7, <1>8, <1>11, <1>12, <1>14, <1>15, <1>16, <1>17, <1>18, <1>19, HeldStep
<1>21. Types'
  <2>1. BlobTypes' /\ TargetTypes' /\ DiskTypes' /\ OtherTypes' /\ DeviceTypes'
    BY <1>0, <1>3, <1>10 DEF Types, BlobTypes, TargetTypes, DiskTypes, OtherTypes, DeviceTypes
  <2>2. TaskTypes'
    <3>1. pc' \in [Tasks -> Places]
      BY <1>0, <1>5 DEF Types, TaskTypes, Places
    <3> QED BY <1>0, <1>3, <3>1 DEF Types, TaskTypes
  <2>3. AllocTypes'
    <3>1. Tail(queue[t]) \in Seq(Targets)
      BY <1>4
    <3>2. <<>> \in Seq(Grant)
      OBVIOUS
    <3> QED BY <1>0, <1>3, <3>1, <3>2 DEF Types, AllocTypes
  <2> QED BY <2>1, <2>2, <2>3 DEF Types
<1>22. TaskOK(t)'
  <2>0. Serves(t) /\ AtGrow(t) /\ AtAlloc(t)
    BY <1>0 DEF TaskOK, Growing
  <2>1. Serves(t)' /\ AtGrow(t)' /\ AtAlloc(t)'
    BY <1>3, <2>0 DEF Serves, AtGrow, AtAlloc, Size
  <2> QED BY <1>6, <2>1 DEF TaskOK, Freeing, Growing
<1>23. BlobOK(b)'
  <2>1. BlobOK(b) /\ ~ Cut(b)
    BY <1>0, <1>1, <1>2 DEF Inv, Cut, Works, Tasks
  <2> QED BY <1>3, <2>1 DEF BlobOK, Size
<1>24. Inv'
  BY <1>1, <1>2, <1>3, <1>7, <1>17, <1>20, <1>21, <1>22, <1>23, StepInv
<1> QED BY <1>2, <1>7, <1>24

\* AllocateBlocks on the device: each request that fits is one division.
LEMMA BdevAllocateInv ==
  ASSUME Inv, NEW t \in Tasks, BdevAllocate(t)
  PROVE  Inv' /\ Only(t, req[t].blob)
<1>1. /\ pc[t] = "bdev" /\ got[t] = <<>> /\ asked[t] \in Nat \ {0}
      /\ queue[t] \in Seq(Targets) /\ queue[t] # <<>> /\ Head(queue[t]) \in Targets
      /\ Cat(asked[t]) \in Categories
      /\ Min({MaxBlock, asked[t] - Granted(t)}) = asked[t]
  BY AllocateFacts
<1>2. PICK x \in Targets, n \in Nat \ {0} : x = Head(queue[t]) /\ n = asked[t]
  BY <1>1
<1>3. PICK k \in Categories : k = Cat(n)
  BY <1>1, <1>2
<1>4. \/ /\ recycled[x][k] # <<>>
         /\ got' = [got EXCEPT ![t] = Append(got[t], [off |-> Head(recycled[x][k]).off, size |-> n, cat |-> k])]
         /\ recycled' = [recycled EXCEPT ![x][k] = Tail(recycled[x][k])]
         /\ cursor' = cursor /\ queue' = queue /\ asked' = asked /\ pc' = pc
      \/ /\ cursor' = [cursor EXCEPT ![x] = cursor[x] + k]
         /\ cursor[x] + k <= Capacity[x]
         /\ got' = [got EXCEPT ![t] = Append(got[t], [off |-> cursor[x], size |-> n, cat |-> k])]
         /\ recycled' = recycled /\ queue' = queue /\ asked' = asked /\ pc' = pc
      \/ /\ cursor' = [cursor EXCEPT ![x] = cursor[x] + k]
         /\ recycled' = [recycled EXCEPT ![x] =
                           [c \in Categories |->
                              recycled[x][c] \o Picked(got[t], {i \in DOMAIN got[t] : got[t][i].cat = c})]]
         /\ got' = [got EXCEPT ![t] = <<>>]
         /\ asked' = [asked EXCEPT ![t] = 0]
         /\ queue' = [queue EXCEPT ![t] = Tail(queue[t])]
         /\ Goto(t, "alloc")
  BY <1>1, <1>2, <1>3 DEF BdevAllocate, Cat
<1>5. CASE /\ recycled[x][k] # <<>>
           /\ got' = [got EXCEPT ![t] = Append(got[t], [off |-> Head(recycled[x][k]).off, size |-> n, cat |-> k])]
           /\ recycled' = [recycled EXCEPT ![x][k] = Tail(recycled[x][k])]
           /\ cursor' = cursor /\ queue' = queue /\ asked' = asked /\ pc' = pc
  BY <1>2, <1>3, <1>5, RecycledInv
<1>6. CASE /\ cursor' = [cursor EXCEPT ![x] = cursor[x] + k]
           /\ cursor[x] + k <= Capacity[x]
           /\ got' = [got EXCEPT ![t] = Append(got[t], [off |-> cursor[x], size |-> n, cat |-> k])]
           /\ recycled' = recycled /\ queue' = queue /\ asked' = asked /\ pc' = pc
  BY <1>2, <1>3, <1>6, FreshInv
<1>7. CASE /\ cursor' = [cursor EXCEPT ![x] = cursor[x] + k]
           /\ recycled' = [recycled EXCEPT ![x] =
                             [c \in Categories |->
                                recycled[x][c] \o Picked(got[t], {i \in DOMAIN got[t] : got[t][i].cat = c})]]
           /\ got' = [got EXCEPT ![t] = <<>>]
           /\ asked' = [asked EXCEPT ![t] = 0]
           /\ queue' = [queue EXCEPT ![t] = Tail(queue[t])]
           /\ Goto(t, "alloc")
  <2>0. recycled \in [Targets -> [Categories -> Seq(Extent)]]
    BY DEF Inv, Types, DeviceTypes
  <2>1. \A c \in Categories :
          recycled[x][c] \o Picked(got[t], {i \in DOMAIN got[t] : got[t][i].cat = c}) = recycled[x][c]
    <3> SUFFICES ASSUME NEW c \in Categories
                 PROVE  recycled[x][c] \o Picked(got[t], {i \in DOMAIN got[t] : got[t][i].cat = c}) = recycled[x][c]
      OBVIOUS
    <3>1. Picked(got[t], {i \in DOMAIN got[t] : got[t][i].cat = c}) = <<>>
      BY <1>1, PickedNone
    <3>2. PICK es \in Seq(Extent) : es = recycled[x][c]
      BY <2>0
    <3>3. es \o <<>> = es
      OBVIOUS
    <3> QED BY <3>1, <3>2, <3>3
  <2>2. [c \in Categories |->
           recycled[x][c] \o Picked(got[t], {i \in DOMAIN got[t] : got[t][i].cat = c})] = recycled[x]
    BY <2>0, <2>1
  <2>3. recycled' = recycled
    BY <1>7, <2>0, <2>2
  <2> QED BY <1>2, <1>3, <1>7, <2>3, NoRoomInv
<1> QED BY <1>4, <1>5, <1>6, <1>7

\* The blob gets the block.
LEMMA TakeFirstBlockInv ==
  ASSUME Inv, NEW t \in Tasks, TakeFirstBlock(t)
  PROVE  Inv' /\ Only(t, req[t].blob)
<1>0. Types /\ TaskOK(t) /\ pc[t] = "bdev"
  BY DEF Inv, TakeFirstBlock
<1>1. /\ req[t] \in Request /\ req[t].blob \in Blobs /\ req[t].blob \in exists
      /\ Works(t, req[t].blob) /\ \A f \in flush : f.blob # req[t].blob
  BY <1>0, OwnBlob
<1>2. PICK b \in Blobs : b = req[t].blob
  BY <1>1
<1>3. /\ exists' = exists /\ score' = score /\ tag_size' = tag_size
      /\ disk' = disk /\ keep' = keep /\ cursor' = cursor /\ recycled' = recycled /\ credit' = credit
      /\ content' = content /\ rc' = rc /\ old' = old /\ req' = req /\ todo' = todo
      /\ flush' = flush /\ ops' = ops
      /\ registered' = registered /\ remaining' = remaining
  BY DEF TakeFirstBlock, targetVars, bdevVars, history
<1>4. Serves(t) /\ AtGrow(t) /\ AtAlloc(t) /\ AtBdev(t)
  BY <1>0 DEF TaskOK, Growing
<1>5. queue[t] \in Seq(Targets) /\ got[t] \in Seq(Grant) /\ left[t] \in Nat /\ asked[t] \in Nat
  BY <1>0 DEF Types, AllocTypes
<1>6. asked[t] \in 1 .. left[t] /\ queue[t] # <<>>
  BY <1>4 DEF AtBdev
<1>7. Len(got[t]) = 1 /\ got[t] # <<>> /\ got[t][1].size = asked[t]
  <2>1. got[t] # <<>>
    <3> SUFFICES ASSUME got[t] = <<>> PROVE FALSE
      OBVIOUS
    <3>1. Granted(t) = 0 /\ Granted(t) = asked[t]
      BY EmptySize DEF Granted, TakeFirstBlock
    <3> QED BY <1>5, <1>6, <3>1
  <2> QED BY <1>4, <2>1 DEF AtBdev
<1>8. got[t][1] \in Grant
  BY <1>5, <1>7
<1>9. PICK o \in Nat, n \in Nat \ {0}, x \in Targets : o = got[t][1].off /\ n = asked[t] /\ x = Head(queue[t])
  BY <1>5, <1>6, <1>8 DEF Grant
<1>10. PICK e \in BlobBlock : e = [tgt |-> x, off |-> o, size |-> n]
  BY DEF BlobBlock
<1>11. e.tgt = x /\ e.off = o /\ e.size = n
  BY <1>10
<1>12. PICK bs \in Seq(BlobBlock) : bs = blocks[b]
  BY <1>0 DEF Types, BlobTypes
<1>13. /\ blocks' = [blocks EXCEPT ![b] = Append(bs, e)]
       /\ left' = [left EXCEPT ![t] = left[t] - n]
       /\ queue' = [queue EXCEPT ![t] = Tail(queue[t])]
       /\ asked' = [asked EXCEPT ![t] = 0]
       /\ got' = [got EXCEPT ![t] = <<>>]
       /\ pc' = [pc EXCEPT ![t] = "alloc"]
  BY <1>2, <1>9, <1>10, <1>12 DEF TakeFirstBlock, Goto
<1>14. pc'[t] = "alloc" /\ got'[t] = <<>> /\ blocks'[b] = Append(bs, e) /\ left'[t] = left[t] - n
  BY <1>0, <1>13 DEF Types, TaskTypes, AllocTypes, BlobTypes
<1>15. Only(t, b)
  <2>1. \A u \in Tasks \ {t} : /\ pc'[u] = pc[u] /\ got'[u] = got[u] /\ asked'[u] = asked[u]
                               /\ queue'[u] = queue[u] /\ left'[u] = left[u]
    BY <1>0, <1>13 DEF Types, TaskTypes, AllocTypes
  <2>2. \A c \in Blobs \ {b} : blocks'[c] = blocks[c]
    BY <1>0, <1>13 DEF Types, BlobTypes
  <2> QED BY <1>2, <1>3, <2>1, <2>2 DEF Only
<1>16. ~ Freeing(t) /\ ~ Freeing(t)'
  BY <1>0, <1>14 DEF Freeing
<1>17. PICK G, H : Held(G, H)
  BY DEF Inv
<1>18. /\ Grid(G) /\ G \in [Targets -> [Nat -> Nat]] /\ H \in [Targets -> [Nat -> Holder]]
       /\ HeldGot(G, H, t)
  BY <1>17 DEF Held, Grid
<1>19. H[x][o] = <<"task", t>> /\ n <= G[x][o] /\ SmallBlock <= G[x][o]
  BY <1>7, <1>9, <1>18 DEF HeldGot, Holds
<1>20. PICK H2, h :
         /\ H2 = [y \in Targets |-> [p \in Nat |-> IF y = x /\ p = o THEN <<"blob", b>> ELSE H[y][p]]]
         /\ h = <<"task", t>>
  OBVIOUS
<1>21. H2 \in [Targets -> [Nat -> Holder]]
  <2>1. <<"blob", b>> \in Holder
    BY DEF Holder
  <2> QED BY <1>18, <1>20, <2>1
<1>22. \A y \in Targets : \A p \in Nat : H2[y][p] = IF y = x /\ p = o THEN <<"blob", b>> ELSE H[y][p]
  BY <1>20
<1>23. /\ \A c \in Blobs : <<"blob", c>> # h
       /\ \A u \in Tasks \ {t} : <<"task", u>> # h
       /\ \A j \in Categories : <<"list", j>> # h
  BY <1>20
<1>24. Moves(G, H, G, H2, h)
  BY <1>19, <1>20, <1>22 DEF Moves
<1>25. Grid(G)'
  BY <1>3, <1>18 DEF Grid
<1>26. \A y \in Targets : \A j \in Categories : HeldList(G, H2, y, j)'
  BY <1>0, <1>3, <1>17, <1>23, <1>24, ListMoved
<1>27. KeepOK' /\ HeldKeep(G, H2)'
  BY <1>1, <1>2, <1>3, <1>15, <1>16, <1>17, <1>23, <1>24, KeepMoved
<1>28. HeldBlocks(G, H, b, bs) /\ HeldBlocks(G, H2, b, bs)
  <2>1. HeldBlocks(G, H, b, bs)
    BY <1>1, <1>2, <1>12, <1>16, <1>17, OwnBlocks
  <2> QED BY <1>18, <1>23, <1>24, <2>1, BlocksMoved
<1>29. HeldBlocks(G, H2, b, Append(bs, e))
  <2>0. /\ Append(bs, e) \in Seq(BlobBlock) /\ Len(Append(bs, e)) = Len(bs) + 1 /\ Len(bs) \in Nat
        /\ Append(bs, e)[Len(bs) + 1] = e
        /\ \A i \in 1 .. Len(bs) : Append(bs, e)[i] = bs[i]
    OBVIOUS
  <2>1. ASSUME NEW i \in 1 .. Len(bs) PROVE ~ (bs[i].tgt = x /\ bs[i].off = o)
    <3>1. Holds(G, H, <<"blob", b>>, bs[i].tgt, bs[i])
      BY <1>28 DEF HeldBlocks
    <3>2. H[bs[i].tgt][bs[i].off] = <<"blob", b>>
      BY <3>1 DEF Holds
    <3> QED BY <1>19, <3>2
  <2>2. PICK as \in Seq(BlobBlock) : as = Append(bs, e)
    BY <2>0
  <2>3. Distinct(as)
    <3> SUFFICES ASSUME NEW i \in 1 .. Len(as), NEW j \in 1 .. Len(as), i # j, as[i].tgt = as[j].tgt
                 PROVE  as[i].off # as[j].off
      BY DEF Distinct
    <3>1. CASE i \in 1 .. Len(bs) /\ j \in 1 .. Len(bs)
      BY <1>28, <2>0, <2>2, <3>1 DEF HeldBlocks, Distinct
    <3>2. CASE i = Len(bs) + 1 /\ j \in 1 .. Len(bs)
      BY <1>11, <2>0, <2>1, <2>2, <3>2
    <3>3. CASE j = Len(bs) + 1 /\ i \in 1 .. Len(bs)
      BY <1>11, <2>0, <2>1, <2>2, <3>3
    <3> QED BY <2>0, <2>2, <3>1, <3>2, <3>3
  <2>4. Holds(G, H2, <<"blob", b>>, x, e)
    BY <1>11, <1>19, <1>22 DEF Holds
  <2>5. ASSUME NEW i \in 1 .. Len(as) PROVE Holds(G, H2, <<"blob", b>>, as[i].tgt, as[i])
    <3>1. CASE i \in 1 .. Len(bs)
      BY <1>28, <2>0, <2>2, <3>1 DEF HeldBlocks
    <3>2. CASE i = Len(bs) + 1
      BY <1>11, <2>0, <2>2, <2>4, <3>2
    <3> QED BY <2>0, <2>2, <3>1, <3>2
  <2> QED BY <2>2, <2>3, <2>5 DEF HeldBlocks
<1>30. HeldGot(G, H2, t)'
  BY <1>14 DEF HeldGot
<1>31. (\E X, Y : Held(X, Y))'
  <2>1. HeldBlocks(G, H2, b, blocks'[b])
    BY <1>14, <1>29
  <2> QED BY <1>1, <1>2, <1>15, <1>16, <1>17, <1>21, <1>23, <1>24, <1>25, <1>26, <1>27, <1>30, <2>1, HeldStep
<1>32. SizeOf(Append(bs, e)) = SizeOf(bs) + n /\ SizeOf(bs) \in Nat
  <2>1. Sized(bs)
    BY BlocksSized
  <2>2. SizeOf(Append(bs, e)) = SizeOf(bs) + e.size
    BY <1>11, <2>1, AppendEnds
  <2> QED BY <1>11, <2>1, <2>2, EndsFacts
<1>33. Size(b)' = Size(b) + n /\ Size(b) \in Nat
  <2>1. SizeOf(blocks'[b]) = SizeOf(bs) + n
    BY <1>14, <1>32
  <2> QED BY <1>12, <1>32, <2>1 DEF Size
<1>34. Types'
  <2>1. TargetTypes' /\ DiskTypes' /\ OtherTypes' /\ DeviceTypes'
    BY <1>0, <1>3 DEF Types, TargetTypes, DiskTypes, OtherTypes, DeviceTypes
  <2>2. TaskTypes'
    <3>1. pc' \in [Tasks -> Places]
      BY <1>0, <1>13 DEF Types, TaskTypes, Places
    <3> QED BY <1>0, <1>3, <3>1 DEF Types, TaskTypes
  <2>3. AllocTypes'
    <3>1. Tail(queue[t]) \in Seq(Targets) /\ left[t] - n \in Nat
      BY <1>5, <1>6, <1>9
    <3>2. <<>> \in Seq(Grant)
      OBVIOUS
    <3> QED BY <1>0, <1>13, <3>1, <3>2 DEF Types, AllocTypes
  <2>4. BlobTypes'
    <3>1. Append(bs, e) \in Seq(BlobBlock)
      OBVIOUS
    <3> QED BY <1>0, <1>3, <1>13, <3>1 DEF Types, BlobTypes
  <2> QED BY <2>1, <2>2, <2>3, <2>4 DEF Types
<1>35. req[t].off \in Nat /\ req[t].size \in Nat /\ old[t] \in Nat /\ req[t].off + req[t].size <= MaxBlock
  BY <1>0, <1>1, <1>4 DEF Request, Types, TaskTypes, Serves, AtGrow
<1>36. Size(b) + left[t] = req[t].off + req[t].size /\ old[t] <= Size(b)
  BY <1>2, <1>4 DEF AtAlloc, AtGrow
<1>37. TaskOK(t)'
  <2>1. Serves(t)'
    BY <1>3, <1>4 DEF Serves
  <2>2. AtGrow(t)'
    <3>1. old[t] <= Size(b)'
      BY <1>9, <1>33, <1>35, <1>36
    <3> QED BY <1>2, <1>3, <1>4, <3>1 DEF AtGrow
  <2>3. AtAlloc(t)'
    <3>1. Size(b)' + (left[t] - n) = req[t].off + req[t].size
      BY <1>5, <1>33, <1>35, <1>36
    <3> QED BY <1>2, <1>3, <1>14, <3>1 DEF AtAlloc
  <2> QED BY <1>14, <2>1, <2>2, <2>3 DEF TaskOK, Freeing, Growing
<1>38. BlobOK(b)'
  <2>1. Size(b)' <= MaxBlock
    BY <1>5, <1>6, <1>9, <1>33, <1>35, <1>36, TargetAssumption
  <2> QED BY <1>1, <1>2, <1>3, <2>1 DEF BlobOK
<1>39. Inv'
  BY <1>1, <1>2, <1>3, <1>15, <1>27, <1>31, <1>34, <1>37, <1>38, StepInv
<1> QED BY <1>2, <1>15, <1>39

-----------------------------------------------------------------------------
(* Giving blocks back.                                                     *)

\* A list and a group, one after the other.
LEMMA JoinedOffs ==
  ASSUME NEW es \in Seq(Extent), NEW fs \in Seq(Extent), DistinctOffs(es), DistinctOffs(fs),
         \A i \in 1 .. Len(es) : \A j \in 1 .. Len(fs) : es[i].off # fs[j].off
  PROVE  DistinctOffs(es \o fs)
<1>0. /\ es \o fs \in Seq(Extent) /\ Len(es) \in Nat /\ Len(fs) \in Nat
      /\ Len(es \o fs) = Len(es) + Len(fs)
      /\ \A i \in 1 .. Len(es) : (es \o fs)[i] = es[i]
      /\ \A i \in Len(es) + 1 .. Len(es) + Len(fs) : (es \o fs)[i] = fs[i - Len(es)]
  OBVIOUS
<1>1. PICK js \in Seq(Extent), n \in Nat, m \in Nat : js = es \o fs /\ n = Len(es) /\ m = Len(fs)
  BY <1>0
<1>2. /\ Len(js) = n + m
      /\ \A i \in 1 .. n : js[i] = es[i]
      /\ \A i \in n + 1 .. n + m : i - n \in 1 .. m /\ js[i] = fs[i - n]
  BY <1>0, <1>1
<1> SUFFICES ASSUME NEW i \in 1 .. n + m, NEW j \in 1 .. n + m, i # j
             PROVE  js[i].off # js[j].off
  BY <1>1, <1>2 DEF DistinctOffs
<1>3. CASE i <= n /\ j <= n
  <2>1. i \in 1 .. n /\ j \in 1 .. n
    BY <1>3
  <2> QED BY <1>1, <1>2, <2>1 DEF DistinctOffs
<1>4. CASE i <= n /\ j > n
  <2>1. i \in 1 .. n /\ j \in n + 1 .. n + m /\ j - n \in 1 .. m
    BY <1>4
  <2> QED BY <1>1, <1>2, <2>1
<1>5. CASE i > n /\ j <= n
  <2>1. j \in 1 .. n /\ i \in n + 1 .. n + m /\ i - n \in 1 .. m
    BY <1>5
  <2> QED BY <1>1, <1>2, <2>1
<1>6. CASE i > n /\ j > n
  <2>1. i \in n + 1 .. n + m /\ j \in n + 1 .. n + m /\ i - n \in 1 .. m /\ j - n \in 1 .. m /\ i - n # j - n
    BY <1>6
  <2> QED BY <1>1, <1>2, <2>1 DEF DistinctOffs
<1> QED BY <1>3, <1>4, <1>5, <1>6

\* The cells of the extents es of x become the list's.
Returned(H, x, es) ==
  [y \in Targets |-> [p \in Nat |->
     IF y = x /\ p \in {es[i].off : i \in 1 .. Len(es)} THEN <<"list", SmallBlock>> ELSE H[y][p]]]

\* The blob b gives the extents es of x back, js is the list after it.
Returns(b, x, es, js, G, H, H2) ==
  /\ Held(G, H)
  /\ DistinctOffs(es)
  /\ \A i \in 1 .. Len(es) : Holds(G, H, <<"blob", b>>, x, es[i])
  /\ H2 = Returned(H, x, es)
  /\ js = recycled[x][SmallBlock] \o es
  /\ recycled' = [recycled EXCEPT ![x][SmallBlock] = js]

\* The device's list holds what it takes back.
LEMMA ReturnedHeld ==
  ASSUME Types, NEW b \in Blobs, NEW x \in Targets, NEW es \in Seq(Extent), NEW js \in Seq(Extent),
         NEW G, NEW H, NEW H2, Returns(b, x, es, js, G, H, H2)
  PROVE  /\ Moves(G, H, G, H2, <<"blob", b>>)
         /\ H2 \in [Targets -> [Nat -> Holder]]
         /\ \A y \in Targets : y # x => H2[y] = H[y]
         /\ \A y \in Targets : \A j \in Categories : HeldList(G, H2, y, j)'
         /\ recycled' \in [Targets -> [Categories -> Seq(Extent)]]
<1>0. /\ Held(G, H) /\ G \in [Targets -> [Nat -> Nat]] /\ H \in [Targets -> [Nat -> Holder]]
      /\ SmallBlock \in Categories /\ DistinctOffs(es)
  BY DEF Returns, Held, Grid, Categories
<1>1. PICK P, h : P = {es[i].off : i \in 1 .. Len(es)} /\ h = <<"blob", b>>
  OBVIOUS
<1>2. H2 = [y \in Targets |-> [p \in Nat |-> IF y = x /\ p \in P THEN <<"list", SmallBlock>> ELSE H[y][p]]]
  BY <1>1 DEF Returns, Returned
<1>3. \A y \in Targets : \A p \in Nat :
         H2[y][p] = IF y = x /\ p \in P THEN <<"list", SmallBlock>> ELSE H[y][p]
  BY <1>2
<1>4. H2 \in [Targets -> [Nat -> Holder]]
  <2>1. <<"list", SmallBlock>> \in Holder
    BY <1>0 DEF Holder
  <2> QED BY <1>0, <1>2, <2>1
<1>5. \A y \in Targets : y # x => H2[y] = H[y]
  <2> SUFFICES ASSUME NEW y \in Targets, y # x PROVE H2[y] = H[y]
    OBVIOUS
  <2>1. H2[y] = [p \in Nat |-> H[y][p]]
    BY <1>2
  <2>2. H[y] \in [Nat -> Holder]
    BY <1>0
  <2> QED BY <2>1, <2>2
<1>6. \A i \in 1 .. Len(es) : Holds(G, H, h, x, es[i])
  BY <1>1 DEF Returns
<1>7. Moves(G, H, G, H2, h)
  <2> SUFFICES ASSUME NEW y \in Targets, NEW p \in Nat, H[y][p] # h
               PROVE  H2[y][p] = H[y][p]
    BY DEF Moves
  <2>1. ~ (y = x /\ p \in P)
    BY <1>1, <1>6 DEF Holds
  <2> QED BY <1>3, <2>1
<1>8. PICK rs \in Seq(Extent) : rs = recycled[x][SmallBlock]
  BY <1>0 DEF Types, DeviceTypes
<1>9. js = rs \o es
  BY <1>8 DEF Returns
<1>10. recycled' = [recycled EXCEPT ![x][SmallBlock] = js]
  BY DEF Returns
<1>11. recycled' \in [Targets -> [Categories -> Seq(Extent)]]
  BY <1>0, <1>10 DEF Types, DeviceTypes
<1>12. ASSUME NEW y \in Targets, NEW j \in Categories PROVE HeldList(G, H2, y, j)'
  <2>0. <<"list", j>> # h
    BY <1>1
  <2>1. CASE ~ (y = x /\ j = SmallBlock)
    <3>1. recycled'[y][j] = recycled[y][j]
      BY <1>0, <1>10, <2>1 DEF Types, DeviceTypes
    <3> QED BY <1>0, <1>7, <2>0, <3>1, ListMoved
  <2>2. CASE y = x /\ j = SmallBlock
    <3>1. recycled'[y][j] = js
      BY <1>0, <1>10, <2>2 DEF Types, DeviceTypes
    <3>2. HeldList(G, H, x, SmallBlock)
      BY <1>0 DEF Held
    <3>3. /\ DistinctOffs(rs)
          /\ \A i \in 1 .. Len(rs) : /\ Holds(G, H, <<"list", SmallBlock>>, x, rs[i])
                                     /\ SmallBlock <= G[x][rs[i].off]
      BY <1>8, <3>2 DEF HeldList
    <3>4. \A i \in 1 .. Len(rs) : \A k \in 1 .. Len(es) : rs[i].off # es[k].off
      <4> SUFFICES ASSUME NEW i \in 1 .. Len(rs), NEW k \in 1 .. Len(es), rs[i].off = es[k].off PROVE FALSE
        OBVIOUS
      <4>1. H[x][rs[i].off] = <<"list", SmallBlock>> /\ H[x][es[k].off] = h
        BY <1>6, <3>3 DEF Holds
      <4> QED BY <1>1, <4>1
    <3>5. DistinctOffs(js)
      BY <1>0, <1>9, <3>3, <3>4, JoinedOffs
    <3>6. ASSUME NEW i \in 1 .. Len(rs)
          PROVE  Holds(G, H2, <<"list", SmallBlock>>, x, rs[i]) /\ SmallBlock <= G[x][rs[i].off]
      <4>1. rs[i] \in Extent
        OBVIOUS
      <4>2. rs[i].off \in Nat
        BY <4>1 DEF Extent
      <4>3. Holds(G, H2, <<"list", SmallBlock>>, x, rs[i])
        BY <1>0, <1>7, <2>0, <2>2, <3>3, <4>2, HoldsMoved
      <4> QED BY <3>3, <4>3
    <3>7. ASSUME NEW i \in 1 .. Len(es)
          PROVE  Holds(G, H2, <<"list", SmallBlock>>, x, es[i]) /\ SmallBlock <= G[x][es[i].off]
      <4>1. es[i] \in Extent
        OBVIOUS
      <4>2. es[i].off \in Nat
        BY <4>1 DEF Extent
      <4>3. H2[x][es[i].off] = <<"list", SmallBlock>>
        BY <1>1, <1>3, <4>2
      <4>4. Holds(G, H, h, x, es[i])
        BY <1>6
      <4> QED BY <4>3, <4>4 DEF Holds
    <3>8. /\ Len(rs \o es) = Len(rs) + Len(es) /\ Len(rs) \in Nat /\ Len(es) \in Nat
          /\ \A i \in 1 .. Len(rs) : (rs \o es)[i] = rs[i]
          /\ \A i \in Len(rs) + 1 .. Len(rs) + Len(es) : (rs \o es)[i] = es[i - Len(rs)]
      OBVIOUS
    <3>9. PICK n \in Nat, m \in Nat : n = Len(rs) /\ m = Len(es)
      BY <3>8
    <3>10. ASSUME NEW i \in 1 .. Len(js)
           PROVE  Holds(G, H2, <<"list", SmallBlock>>, x, js[i]) /\ SmallBlock <= G[x][js[i].off]
      <4>1. CASE i <= n
        <5>1. i \in 1 .. n /\ js[i] = rs[i]
          BY <1>9, <3>8, <3>9, <4>1
        <5> QED BY <3>6, <3>9, <5>1
      <4>2. CASE i > n
        <5>1. i \in n + 1 .. n + m /\ i - n \in 1 .. m
          BY <1>9, <3>8, <3>9, <4>2
        <5>2. js[i] = es[i - n]
          BY <1>9, <3>8, <3>9, <5>1
        <5> QED BY <3>7, <3>9, <5>1, <5>2
      <4> QED BY <1>9, <4>1, <4>2, <3>8, <3>9
    <3> QED BY <2>2, <3>1, <3>5, <3>10 DEF HeldList
  <2> QED BY <2>1, <2>2
<1> QED BY <1>1, <1>4, <1>5, <1>7, <1>11, <1>12

\* FreeBlocks moves cells from the blob to the device's list.
LEMMA BdevFreeInv ==
  ASSUME Inv, NEW t \in Tasks, NEW g \in todo[t], BdevFree(t, g)
  PROVE  Inv' /\ Only(t, req[t].blob)
<1>0. Types /\ TaskOK(t) /\ pc[t] = "free"
  BY DEF Inv, BdevFree
<1>1. /\ req[t] \in Request /\ req[t].blob \in Blobs /\ req[t].blob \in exists
      /\ Works(t, req[t].blob) /\ \A f \in flush : f.blob # req[t].blob
  BY <1>0, OwnBlob
<1>2. PICK b \in Blobs : b = req[t].blob
  BY <1>1
<1>3. /\ exists' = exists /\ blocks' = blocks /\ score' = score /\ tag_size' = tag_size
      /\ disk' = disk /\ keep' = keep /\ cursor' = cursor
      /\ got' = got /\ queue' = queue /\ left' = left /\ asked' = asked
      /\ content' = content /\ rc' = rc /\ old' = old /\ req' = req
      /\ flush' = flush /\ ops' = ops
      /\ registered' = registered /\ remaining' = remaining
  BY DEF BdevFree, blobVars, targetVars, allocVars, history
<1>4. /\ recycled' = [recycled EXCEPT ![g.tgt][SmallBlock] = recycled[g.tgt][SmallBlock] \o g.exts]
      /\ todo' = [todo EXCEPT ![t] = todo[t] \ {g}]
      /\ credit' = [credit EXCEPT ![t] = g]
      /\ pc' = [pc EXCEPT ![t] = "freed"]
  BY DEF BdevFree, Goto
<1>5. Serves(t) /\ AtFree(t) /\ got[t] = <<>> /\ Freeing(t)
  BY <1>0 DEF TaskOK, Freeing
<1>6. g \in Group /\ g.tgt \in Targets /\ todo[t] \subseteq Group
  BY <1>5 DEF AtFree, Group
<1>7. pc'[t] = "freed" /\ todo'[t] = todo[t] \ {g} /\ credit'[t] = g /\ Freeing(t)'
  BY <1>0, <1>4 DEF Types, TaskTypes, Freeing
<1>8. Only(t, b)
  <2>1. \A u \in Tasks \ {t} : pc'[u] = pc[u] /\ todo'[u] = todo[u] /\ credit'[u] = credit[u]
    BY <1>0, <1>4 DEF Types, TaskTypes
  <2> QED BY <1>2, <1>3, <2>1 DEF Only
<1>9. PICK G, H : Held(G, H)
  BY DEF Inv
<1>9a. PICK x \in Targets, es \in Seq(Extent) : x = g.tgt /\ es = g.exts
  BY <1>6 DEF Group
<1>9b. PICK js \in Seq(Extent) : js = recycled[x][SmallBlock] \o es
  <2>1. PICK rs \in Seq(Extent) : rs = recycled[x][SmallBlock]
    BY <1>0 DEF Types, DeviceTypes, Categories
  <2>2. rs \o es \in Seq(Extent)
    OBVIOUS
  <2> QED BY <2>1, <2>2
<1>10. PICK H2, h : H2 = Returned(H, x, es) /\ h = <<"blob", b>>
  OBVIOUS
<1>11. HeldGroups(G, H, b, todo[t]) /\ HeldKeep(G, H) /\ Grid(G)
  BY <1>2, <1>5, <1>9 DEF Held
<1>12. Returns(b, x, es, js, G, H, H2)
  <2>1. /\ DistinctOffs(es)
        /\ \A i \in 1 .. Len(es) : Holds(G, H, <<"blob", b>>, x, es[i])
    BY <1>9a, <1>11 DEF HeldGroups
  <2>2. recycled' = [recycled EXCEPT ![x][SmallBlock] = js]
    BY <1>4, <1>9a, <1>9b
  <2> QED BY <1>9, <1>9b, <1>10, <2>1, <2>2 DEF Returns
<1>13. /\ Moves(G, H, G, H2, h)
       /\ H2 \in [Targets -> [Nat -> Holder]]
       /\ \A y \in Targets : y # g.tgt => H2[y] = H[y]
       /\ \A y \in Targets : \A j \in Categories : HeldList(G, H2, y, j)'
       /\ recycled' \in [Targets -> [Categories -> Seq(Extent)]]
  BY <1>0, <1>9a, <1>10, <1>12, ReturnedHeld
<1>14. /\ \A c \in Blobs \ {b} : <<"blob", c>> # h
       /\ \A u \in Tasks \ {t} : <<"task", u>> # h
  BY <1>10
<1>15. Grid(G)'
  BY <1>3, <1>11 DEF Grid
<1>16. HeldGroups(G, H2, b, todo'[t])
  <2>1. \A f \in todo'[t] : f \in todo[t] /\ f.tgt \in Targets /\ f.tgt # g.tgt
    <3> SUFFICES ASSUME NEW f \in todo'[t] PROVE f \in todo[t] /\ f.tgt \in Targets /\ f.tgt # g.tgt
      OBVIOUS
    <3>1. f \in todo[t] /\ f # g /\ f \in Group
      BY <1>6, <1>7
    <3>2. f.tgt # g.tgt
      BY <1>11, <3>1 DEF HeldGroups
    <3> QED BY <3>1, <3>2 DEF Group
  <2>2. ASSUME NEW f \in todo'[t]
        PROVE  /\ DistinctOffs(f.exts)
               /\ \A i \in 1 .. Len(f.exts) : Holds(G, H2, <<"blob", b>>, f.tgt, f.exts[i])
    <3>1. /\ DistinctOffs(f.exts)
          /\ \A i \in 1 .. Len(f.exts) : Holds(G, H, <<"blob", b>>, f.tgt, f.exts[i])
      BY <1>11, <2>1 DEF HeldGroups
    <3>2. H2[f.tgt] = H[f.tgt]
      BY <1>13, <2>1
    <3> QED BY <3>1, <3>2 DEF Holds
  <2>3. \A f, e \in todo'[t] : f.tgt = e.tgt => f = e
    BY <1>11, <2>1 DEF HeldGroups
  <2> QED BY <2>2, <2>3 DEF HeldGroups
<1>17. KeepOK' /\ HeldKeep(G, H2)'
  <2>1. CASE t # Flusher \/ req[t].kind # "flush"
    BY <1>1, <1>2, <1>3, <1>8, <1>9, <1>13, <1>14, <2>1, KeepMoved
  <2>2. CASE t = Flusher /\ req[t].kind = "flush"
    <3>1. KeepOK'
      BY <1>3, <1>7, <2>2 DEF KeepOK
    <3>2. HeldKeep(G, H2)'
      <4> SUFFICES ASSUME keep # <<>>
                   PROVE  /\ HeldBlocks(G, H2, b, keep)
                          /\ \A f \in todo'[t] : \A i \in 1 .. Len(keep) : keep[i].tgt # f.tgt
        BY <1>2, <1>3, <2>2 DEF HeldKeep
      <4>1. /\ HeldBlocks(G, H, b, keep)
            /\ \A f \in todo[t] : \A i \in 1 .. Len(keep) : keep[i].tgt # f.tgt
        BY <1>2, <1>11, <2>2 DEF HeldKeep
      <4>2. PICK ks \in Seq(BlobBlock) : ks = keep
        BY <1>0 DEF Types, OtherTypes
      <4>3. ASSUME NEW i \in 1 .. Len(ks) PROVE Holds(G, H2, <<"blob", b>>, ks[i].tgt, ks[i])
        <5>1. ks[i] \in BlobBlock
          OBVIOUS
        <5>2. ks[i].tgt \in Targets
          BY <5>1 DEF BlobBlock
        <5>3. ks[i].tgt # g.tgt
          BY <4>1, <4>2
        <5>4. Holds(G, H, <<"blob", b>>, ks[i].tgt, ks[i])
          BY <4>1, <4>2 DEF HeldBlocks
        <5>5. H2[ks[i].tgt] = H[ks[i].tgt]
          BY <1>13, <5>2, <5>3
        <5> QED BY <5>4, <5>5 DEF Holds
      <4>4. HeldBlocks(G, H2, b, ks)
        BY <4>1, <4>2, <4>3 DEF HeldBlocks
      <4> QED BY <1>7, <4>1, <4>2, <4>4
    <3> QED BY <3>1, <3>2
  <2> QED BY <2>1, <2>2
<1>18. HeldGot(G, H2, t)'
  BY <1>3, <1>5 DEF HeldGot
<1>19. BeingFreed(b)'
  BY <1>2, <1>3, <1>7 DEF BeingFreed
<1>20. (\E X, Y : Held(X, Y))'
  BY <1>1, <1>2, <1>8, <1>9, <1>13, <1>14, <1>15, <1>16, <1>17, <1>18, <1>19, HeldStep
<1>21. Types'
  <2>1. BlobTypes' /\ TargetTypes' /\ DiskTypes' /\ OtherTypes' /\ AllocTypes'
    BY <1>0, <1>3 DEF Types, BlobTypes, TargetTypes, DiskTypes, OtherTypes, AllocTypes
  <2>2. DeviceTypes'
    BY <1>0, <1>3, <1>13 DEF Types, DeviceTypes
  <2>3. TaskTypes'
    <3>1. pc' \in [Tasks -> Places]
      BY <1>0, <1>4 DEF Types, TaskTypes, Places
    <3>2. todo' \in [Tasks -> SUBSET (Slice \cup Group)] /\ credit' \in [Tasks -> Group \cup {NoGroup}]
      BY <1>0, <1>4, <1>6 DEF Types, TaskTypes
    <3> QED BY <1>0, <1>3, <3>1, <3>2 DEF Types, TaskTypes
  <2> QED BY <2>1, <2>2, <2>3 DEF Types
<1>22. TaskOK(t)'
  <2>1. Serves(t)'
    BY <1>3, <1>5 DEF Serves
  <2>2. AtFree(t)'
    BY <1>3, <1>5, <1>7 DEF AtFree
  <2> QED BY <1>3, <1>5, <1>6, <1>7, <2>1, <2>2 DEF TaskOK, Growing
<1>23. BlobOK(b)'
  <2>1. BlobOK(b)
    BY DEF Inv
  <2>2. Cut(b) => Cut(b)'
    <3> SUFFICES ASSUME Cut(b) PROVE Cut(b)'
      OBVIOUS
    <3>1. Flusher \in Tasks /\ pc[Flusher] # "idle" /\ req[Flusher].blob = b
      BY DEF Cut, Tasks
    <3>2. t = Flusher
      BY <1>1, <1>2, <3>1 DEF Works
    <3> QED BY <1>3, <1>7, <3>2 DEF Cut
  <2> QED BY <1>3, <2>1, <2>2 DEF BlobOK, Size
<1>24. Inv'
  BY <1>1, <1>2, <1>3, <1>8, <1>17, <1>20, <1>21, <1>22, <1>23, StepInv
<1> QED BY <1>2, <1>8, <1>24

\* The credit changes no block.
LEMMA CreditInv ==
  ASSUME Inv, NEW t \in Tasks, Credit(t)
  PROVE  Inv' /\ Only(t, req[t].blob)
<1>0. Types /\ TaskOK(t) /\ pc[t] = "freed"
  BY DEF Inv, Credit
<1>1. /\ req[t] \in Request /\ req[t].blob \in Blobs /\ req[t].blob \in exists
      /\ Works(t, req[t].blob) /\ \A f \in flush : f.blob # req[t].blob
  BY <1>0, OwnBlob
<1>2. PICK b \in Blobs : b = req[t].blob
  BY <1>1
<1>3. /\ exists' = exists /\ blocks' = blocks /\ score' = score /\ tag_size' = tag_size
      /\ disk' = disk /\ keep' = keep /\ cursor' = cursor /\ recycled' = recycled
      /\ got' = got /\ queue' = queue /\ left' = left /\ asked' = asked
      /\ content' = content /\ rc' = rc /\ old' = old /\ req' = req /\ todo' = todo
      /\ flush' = flush /\ ops' = ops /\ registered' = registered
  BY DEF Credit, blobVars, bdevVars, allocVars, history
<1>4. credit' = [credit EXCEPT ![t] = NoGroup] /\ pc' = [pc EXCEPT ![t] = "free"]
  BY DEF Credit, Goto
<1>5. Serves(t) /\ AtFree(t) /\ got[t] = <<>> /\ Freeing(t) /\ credit[t] \in Group
  BY <1>0 DEF TaskOK, Freeing
<1>6. pc'[t] = "free" /\ Freeing(t)'
  BY <1>0, <1>4 DEF Types, TaskTypes, Freeing
<1>7. Only(t, b)
  <2>1. \A u \in Tasks \ {t} : pc'[u] = pc[u] /\ credit'[u] = credit[u]
    BY <1>0, <1>4 DEF Types, TaskTypes
  <2> QED BY <1>2, <1>3, <2>1 DEF Only
<1>8. PICK G, H : Held(G, H)
  BY DEF Inv
<1>9. HeldGroups(G, H, b, todo'[t]) /\ HeldKeep(G, H)' /\ HeldGot(G, H, t)'
  BY <1>2, <1>3, <1>5, <1>8 DEF Held, HeldKeep, HeldGot
<1>10. KeepOK'
  <2>1. KeepOK
    BY DEF Inv
  <2>2. Freeing(Flusher) => Freeing(Flusher)'
    <3>1. CASE t = Flusher
      BY <1>6, <3>1
    <3>2. CASE t # Flusher
      BY <1>0, <1>4, <3>2 DEF Types, TaskTypes, Freeing
    <3> QED BY <3>1, <3>2
  <2> QED BY <1>3, <2>1, <2>2 DEF KeepOK
<1>11. BeingFreed(b)'
  BY <1>2, <1>3, <1>6 DEF BeingFreed
<1>12. (\E X, Y : Held(X, Y))'
  BY <1>1, <1>2, <1>3, <1>7, <1>8, <1>9, <1>11, HeldSame
<1>13. remaining' \in [Targets -> Nat]
  <2>1. PICK x \in Targets, es \in Seq(Extent) : x = credit[t].tgt /\ es = credit[t].exts
    BY <1>5 DEF Group
  <2>2. SizeOf(es) \in Nat
    BY ExtentsSized, EndsFacts
  <2>3. remaining' = IF x \in registered THEN [remaining EXCEPT ![x] = remaining[x] + SizeOf(es)]
                     ELSE remaining
    BY <2>1 DEF Credit
  <2>4. PICK n \in Nat : n = SizeOf(es)
    BY <2>2
  <2> QED BY <1>0, <2>3, <2>4 DEF Types, TargetTypes
<1>14. Types'
  <2>1. BlobTypes' /\ DeviceTypes' /\ DiskTypes' /\ OtherTypes' /\ AllocTypes'
    BY <1>0, <1>3 DEF Types, BlobTypes, DeviceTypes, DiskTypes, OtherTypes, AllocTypes
  <2>2. TargetTypes'
    BY <1>0, <1>3, <1>13 DEF Types, TargetTypes
  <2>3. TaskTypes'
    <3>1. pc' \in [Tasks -> Places]
      BY <1>0, <1>4 DEF Types, TaskTypes, Places
    <3>2. credit' \in [Tasks -> Group \cup {NoGroup}]
      BY <1>0, <1>4 DEF Types, TaskTypes
    <3> QED BY <1>0, <1>3, <3>1, <3>2 DEF Types, TaskTypes
  <2> QED BY <2>1, <2>2, <2>3 DEF Types
<1>15. TaskOK(t)'
  <2>1. Serves(t)' /\ AtFree(t)'
    BY <1>3, <1>5 DEF Serves, AtFree
  <2> QED BY <1>3, <1>5, <1>6, <2>1 DEF TaskOK, Growing
<1>16. BlobOK(b)'
  <2>1. BlobOK(b)
    BY DEF Inv
  <2>2. Cut(b) => Cut(b)'
    <3> SUFFICES ASSUME Cut(b) PROVE Cut(b)'
      OBVIOUS
    <3>1. Flusher \in Tasks /\ pc[Flusher] # "idle" /\ req[Flusher].blob = b
      BY DEF Cut, Tasks
    <3>2. t = Flusher
      BY <1>1, <1>2, <3>1 DEF Works
    <3> QED BY <1>3, <1>6, <3>2 DEF Cut
  <2> QED BY <1>3, <2>1, <2>2 DEF BlobOK, Size
<1>17. Inv'
  BY <1>1, <1>2, <1>3, <1>7, <1>10, <1>12, <1>14, <1>15, <1>16, StepInv
<1> QED BY <1>2, <1>7, <1>17

\* The end of the frees leaves the blob with blocks that it holds.
LEMMA FreedHeld ==
  ASSUME Inv, NEW t \in Tasks, NEW b \in Blobs, Works(t, b), Only(t, b), Freeing(t), ~ Freeing(t)',
         cursor' = cursor, recycled' = recycled, got'[t] = <<>>,
         NEW ks \in Seq(BlobBlock), blocks'[b] = ks,
         \/ ks = <<>> /\ keep' = keep /\ (t # Flusher \/ req[t].kind # "flush")
         \/ ks = keep /\ keep' = <<>> /\ t = Flusher
  PROVE  (\E X, Y : Held(X, Y))' /\ KeepOK'
<1>1. PICK G, H : Held(G, H)
  BY DEF Inv
<1>2. PICK h : h = <<"task", t>>
  OBVIOUS
<1>3. Moves(G, H, G, H, h) /\ \A c \in Blobs \ {b} : <<"blob", c>> # h
  BY <1>2, NothingMoved
<1>4. KeepOK' /\ HeldKeep(G, H)'
  <2>1. CASE keep' = keep /\ (t # Flusher \/ req[t].kind # "flush")
    BY <1>1, <1>3, <2>1, KeepMoved
  <2>2. CASE keep' = <<>>
    BY <2>2 DEF KeepOK, HeldKeep
  <2> QED BY <2>1, <2>2
<1>5. HeldBlocks(G, H, b, ks)
  <2>1. CASE ks = <<>>
    BY <2>1 DEF HeldBlocks, Distinct
  <2>2. CASE ks # <<>> /\ ks = keep /\ t = Flusher
    <3>1. HeldKeep(G, H)
      BY <1>1 DEF Held
    <3>2. req[Flusher].blob = b
      BY <2>2 DEF Works, Freeing
    <3> QED BY <2>2, <3>1, <3>2 DEF HeldKeep
  <2> QED BY <2>1, <2>2
<1>6. HeldGot(G, H, t)'
  BY DEF HeldGot
<1>7. (\E X, Y : Held(X, Y))'
  BY <1>1, <1>4, <1>5, <1>6, HeldSame
<1> QED BY <1>4, <1>7

\* Once all is freed the blob has the blocks FlushData kept, or none.
LEMMA FreedAllInv ==
  ASSUME Inv, NEW t \in Tasks, FreedAll(t)
  PROVE  Inv' /\ Only(t, req[t].blob)
<1>0. Types /\ TaskOK(t) /\ pc[t] = "free" /\ todo[t] = {}
  BY DEF Inv, FreedAll
<1>1. /\ req[t] \in Request /\ req[t].blob \in Blobs /\ req[t].blob \in exists
      /\ Works(t, req[t].blob) /\ \A f \in flush : f.blob # req[t].blob
  BY <1>0, OwnBlob
<1>2. PICK b \in Blobs : b = req[t].blob
  BY <1>1
<1>3. /\ score' = score /\ disk' = disk /\ cursor' = cursor /\ recycled' = recycled
      /\ got' = got /\ queue' = queue /\ left' = left /\ asked' = asked
      /\ todo' = todo /\ credit' = credit
      /\ flush' = flush /\ ops' = ops /\ registered' = registered /\ remaining' = remaining
  BY DEF FreedAll, targetVars, bdevVars, allocVars
<1>4. Serves(t) /\ AtFree(t) /\ got[t] = <<>> /\ Freeing(t) /\ got'[t] = <<>>
  BY <1>0, <1>3 DEF TaskOK, Freeing
<1>5. TargetTypes' /\ DeviceTypes' /\ DiskTypes' /\ AllocTypes'
  BY <1>0, <1>3 DEF Types, TargetTypes, DeviceTypes, DiskTypes, AllocTypes
<1>5a. <<>> \in Seq(BlobBlock) /\ <<>> \in Seq(Val)
  OBVIOUS
<1>6. CASE req[t].kind = "flush"
  <2>0. PICK ks \in Seq(BlobBlock) : ks = keep
    BY <1>0 DEF Types, OtherTypes
  <2>1. /\ blocks' = [blocks EXCEPT ![b] = ks] /\ keep' = <<>>
        /\ req' = [req EXCEPT ![t].kind = "reput"]
        /\ pc' = [pc EXCEPT ![t] = "reput"]
        /\ exists' = exists /\ tag_size' = tag_size /\ old' = old /\ rc' = rc /\ content' = content
    BY <1>2, <1>6, <2>0 DEF FreedAll, Goto
  <2>2. t = Flusher
    BY <1>4, <1>6 DEF Serves
  <2>3. PICK q : q = [req[t] EXCEPT !.kind = "reput"]
    OBVIOUS
  <2>4. /\ q \in Request /\ q.kind = "reput" /\ q.blob = b /\ q.off = req[t].off
        /\ q.size = req[t].size /\ q.data = req[t].data
    BY <1>1, <1>2, <2>3 DEF Request
  <2>5. req' = [req EXCEPT ![t] = q]
    BY <2>1, <2>3
  <2>6. pc'[t] = "reput" /\ req'[t] = q /\ blocks'[b] = ks /\ ~ Freeing(t)'
    BY <1>0, <2>1, <2>5 DEF Types, TaskTypes, BlobTypes, Freeing
  <2>7. Only(t, b)
    <3>1. \A u \in Tasks \ {t} : pc'[u] = pc[u] /\ req'[u] = req[u]
      BY <1>0, <2>1, <2>5 DEF Types, TaskTypes
    <3>2. \A c \in Blobs \ {b} : blocks'[c] = blocks[c]
      BY <1>0, <2>1 DEF Types, BlobTypes
    <3> QED BY <1>3, <2>1, <2>4, <2>6, <3>1, <3>2 DEF Only
  <2>8. (\E X, Y : Held(X, Y))' /\ KeepOK'
    BY <1>1, <1>2, <1>3, <1>4, <2>0, <2>1, <2>2, <2>6, <2>7, FreedHeld
  <2>9. Types'
    <3>1. BlobTypes'
      BY <1>0, <1>3, <2>1 DEF Types, BlobTypes
    <3>2. OtherTypes'
      BY <1>0, <1>3, <1>5a, <2>1 DEF Types, OtherTypes
    <3>3. TaskTypes'
      <4>1. pc' \in [Tasks -> Places] /\ req' \in [Tasks -> Request \cup {NoRequest}]
        BY <1>0, <2>1, <2>4, <2>5 DEF Types, TaskTypes, Places
      <4> QED BY <1>0, <1>3, <2>1, <4>1 DEF Types, TaskTypes
    <3> QED BY <1>5, <3>1, <3>2, <3>3 DEF Types
  <2>10. TaskOK(t)'
    <3>1. Serves(t)'
      <4>1. req[t].off = 0 /\ req[t].off + req[t].size <= MaxBlock /\ Len(req[t].data) = req[t].size
        BY <1>4, <1>6 DEF Serves
      <4>2. q.off = 0 /\ q.off + q.size <= MaxBlock /\ Len(q.data) = q.size /\ q.blob \in exists'
        BY <1>1, <1>2, <2>1, <2>4, <4>1
      <4> QED BY <2>2, <2>4, <2>6, <4>2 DEF Serves
    <3>2. AtReput(t)'
      BY <2>4, <2>6 DEF AtReput
    <3> QED BY <1>4, <2>6, <3>1, <3>2 DEF TaskOK, Growing
  <2>11. BlobOK(b)'
    <3>1. Cut(b)'
      BY <2>2, <2>4, <2>6 DEF Cut
    <3> QED BY <1>1, <1>2, <2>1, <3>1 DEF BlobOK
  <2>12. Inv'
    BY <1>1, <1>2, <1>3, <2>7, <2>8, <2>9, <2>10, <2>11, StepInv
  <2> QED BY <1>2, <2>7, <2>12
<1>7. CASE req[t].kind = "del"
  <2>1. /\ blocks' = [blocks EXCEPT ![b] = <<>>]
        /\ tag_size' = Max({tag_size - old[t], 0})
        /\ exists' = exists \ {b}
        /\ content' = [content EXCEPT ![b] = <<>>]
        /\ old' = [old EXCEPT ![t] = 0]
        /\ req' = [req EXCEPT ![t] = NoRequest] /\ rc' = [rc EXCEPT ![t] = 0]
        /\ pc' = [pc EXCEPT ![t] = "idle"]
        /\ keep' = keep
    BY <1>2, <1>7 DEF FreedAll, Answer, Goto
  <2>2. pc'[t] = "idle" /\ blocks'[b] = <<>> /\ content'[b] = <<>> /\ ~ Freeing(t)'
    BY <1>0, <2>1 DEF Types, TaskTypes, BlobTypes, OtherTypes, Freeing
  <2>3. Only(t, b)
    <3>1. \A u \in Tasks \ {t} : pc'[u] = pc[u] /\ req'[u] = req[u] /\ old'[u] = old[u]
      BY <1>0, <2>1 DEF Types, TaskTypes
    <3>2. \A c \in Blobs \ {b} : blocks'[c] = blocks[c] /\ content'[c] = content[c] /\ (c \in exists' <=> c \in exists)
      BY <1>0, <2>1 DEF Types, BlobTypes, OtherTypes
    <3> QED BY <1>3, <2>2, <3>1, <3>2 DEF Only
  <2>4. (\E X, Y : Held(X, Y))' /\ KeepOK'
    BY <1>1, <1>2, <1>3, <1>4, <1>5a, <1>7, <2>1, <2>2, <2>3, FreedHeld
  <2>5. Types'
    <3>0. tag_size' \in Nat
      <4>1. PICK d \in Int : d = tag_size - old[t]
        BY <1>0 DEF Types, BlobTypes, TaskTypes
      <4>2. Max({d, 0}) = IF d >= 0 THEN d ELSE 0
        BY MaxOfTwo
      <4> QED BY <2>1, <4>1, <4>2
    <3>1. BlobTypes'
      BY <1>0, <1>3, <1>5a, <2>1, <3>0 DEF Types, BlobTypes
    <3>2. OtherTypes'
      BY <1>0, <1>3, <1>5a, <2>1 DEF Types, OtherTypes
    <3>3. TaskTypes'
      BY <1>0, <1>3, <2>1 DEF Types, TaskTypes, Places
    <3> QED BY <1>5, <3>1, <3>2, <3>3 DEF Types
  <2>6. TaskOK(t)'
    BY <1>4, <2>2 DEF TaskOK, Growing
  <2>7. BlobOK(b)'
    <3>1. Size(b)' = 0
      BY <2>2, EmptySize DEF Size
    <3> QED BY <2>2, <3>1, TargetAssumption DEF BlobOK
  <2>8. Inv'
    BY <1>1, <1>2, <1>3, <2>3, <2>4, <2>5, <2>6, <2>7, StepInv
  <2> QED BY <1>2, <2>3, <2>8
<1>8. CASE req[t].kind \notin {"flush", "del"}
  <2>1. /\ blocks' = [blocks EXCEPT ![b] = <<>>]
        /\ content' = IF req[t].kind = "put" THEN [content EXCEPT ![b] = <<>>] ELSE content
        /\ pc' = [pc EXCEPT ![t] = "extend"]
        /\ exists' = exists /\ tag_size' = tag_size /\ old' = old /\ rc' = rc /\ req' = req /\ keep' = keep
    BY <1>2, <1>8 DEF FreedAll, Goto
  <2>2. pc'[t] = "extend" /\ blocks'[b] = <<>> /\ ~ Freeing(t)'
    BY <1>0, <2>1 DEF Types, TaskTypes, BlobTypes, Freeing
  <2>3. Only(t, b)
    <3>1. \A u \in Tasks \ {t} : pc'[u] = pc[u]
      BY <1>0, <2>1 DEF Types, TaskTypes
    <3>2. \A c \in Blobs \ {b} : blocks'[c] = blocks[c] /\ content'[c] = content[c]
      BY <1>0, <2>1 DEF Types, BlobTypes, OtherTypes
    <3> QED BY <1>2, <1>3, <2>1, <3>1, <3>2 DEF Only
  <2>4. (\E X, Y : Held(X, Y))' /\ KeepOK'
    BY <1>1, <1>2, <1>3, <1>4, <1>5a, <1>8, <2>1, <2>2, <2>3, FreedHeld
  <2>5. Types'
    <3>1. BlobTypes'
      BY <1>0, <1>3, <1>5a, <2>1 DEF Types, BlobTypes
    <3>2. OtherTypes'
      BY <1>0, <1>3, <1>5a, <2>1 DEF Types, OtherTypes
    <3>3. TaskTypes'
      BY <1>0, <1>3, <2>1 DEF Types, TaskTypes, Places
    <3> QED BY <1>5, <3>1, <3>2, <3>3 DEF Types
  <2>6. Size(b)' = 0
    BY <2>2, EmptySize DEF Size
  <2>7. TaskOK(t)'
    <3>1. Serves(t)'
      BY <1>4, <2>1 DEF Serves
    <3>2. AtGrow(t)'
      <4>1. req[t].kind \in {"put", "reorg", "reput"}
        BY <1>1, <1>4, <1>8 DEF AtFree, Request
      <4>2. old[t] = 0 /\ req[t].score \in Nat
        BY <1>4, <4>1 DEF AtFree
      <4> QED BY <1>2, <2>1, <2>6, <4>1, <4>2 DEF AtGrow
    <3> QED BY <1>4, <2>2, <3>1, <3>2 DEF TaskOK, Growing
  <2>8. BlobOK(b)'
    BY <1>1, <1>2, <2>1, <2>6, TargetAssumption DEF BlobOK
  <2>9. Inv'
    BY <1>1, <1>2, <1>3, <2>3, <2>4, <2>5, <2>7, <2>8, StepInv
  <2> QED BY <1>2, <2>3, <2>9
<1> QED BY <1>6, <1>7, <1>8

-----------------------------------------------------------------------------
(* Background work.                                                        *)

\* Steps that change targets' records and the scan only.
LEMMA BackgroundInv ==
  ASSUME Inv, TargetTypes', flush' \subseteq Scanned, ScanOK',
         UNCHANGED <<blobVars, bdevVars, allocVars, pc, req, todo, credit, old, rc, keep, content, ops>>
  PROVE  Inv'
<1>0. Types
  BY DEF Inv
<1>1. /\ exists' = exists /\ blocks' = blocks /\ score' = score /\ tag_size' = tag_size
      /\ cursor' = cursor /\ recycled' = recycled /\ disk' = disk /\ keep' = keep
      /\ got' = got /\ queue' = queue /\ left' = left /\ asked' = asked
      /\ pc' = pc /\ req' = req /\ todo' = todo /\ credit' = credit
      /\ content' = content /\ rc' = rc /\ old' = old /\ ops' = ops
  BY DEF blobVars, bdevVars, allocVars
<1>2. Types'
  BY <1>0, <1>1 DEF Types, BlobTypes, DeviceTypes, DiskTypes, AllocTypes, TaskTypes, OtherTypes
<1>3. \A t \in Tasks : TaskOK(t)'
  <2> SUFFICES ASSUME NEW t \in Tasks PROVE TaskOK(t)'
    OBVIOUS
  <2>1. TaskOK(t)
    BY DEF Inv
  <2> QED BY <1>1, <2>1 DEF TaskOK, Serves, AtRead, AtReput, AtFree, AtGrow, AtAlloc, AtBdev,
                            AtWrite, Freeing, Growing, Size
<1>4. Alone' /\ KeepOK'
  BY <1>1 DEF Inv, Alone, KeepOK, Freeing
<1>5. \A b \in Blobs : BlobOK(b)'
  BY <1>1 DEF Inv, BlobOK, Cut, Size
<1>6. PICK G, H : Held(G, H)
  BY DEF Inv
<1>7. Held(G, H)'
  <2>1. Grid(G)'
    BY <1>1, <1>6 DEF Held, Grid
  <2>2. \A b \in Blobs : ~ BeingFreed(b)' => HeldBlocks(G, H, b, blocks'[b])
    BY <1>1, <1>6 DEF Held, BeingFreed
  <2>3. \A t \in Tasks : Freeing(t)' => HeldGroups(G, H, req'[t].blob, todo'[t])
    BY <1>1, <1>6 DEF Held, Freeing
  <2>4. \A x \in Targets : \A k \in Categories : HeldList(G, H, x, k)'
    BY <1>1, <1>6 DEF Held, HeldList
  <2>5. (\A t \in Tasks : HeldGot(G, H, t)') /\ HeldKeep(G, H)'
    BY <1>1, <1>6 DEF Held, HeldGot, HeldKeep
  <2> QED BY <1>6, <2>1, <2>2, <2>3, <2>4, <2>5 DEF Held
<1> QED BY <1>2, <1>3, <1>4, <1>5, <1>7 DEF Inv

\* A step that leaves the scan as it is.
LEMMA ScanSame ==
  ASSUME Inv, flush' \subseteq flush, UNCHANGED <<exists, blocks, pc, req>>
  PROVE  ScanOK' /\ flush' \subseteq Scanned
<1>1. ScanOK /\ flush \subseteq Scanned
  BY DEF Inv, Types, OtherTypes
<1> QED BY <1>1 DEF ScanOK, Size

\* StatTargets, UnregisterTarget and RegisterTarget touch no block.
LEMMA ChoreInv ==
  ASSUME Inv, NEW x \in Targets, StatTargets(x) \/ UnregisterTarget(x) \/ RegisterTarget(x)
  PROVE  Inv'
<1>1. UNCHANGED <<blobVars, bdevVars, allocVars, pc, req, todo, credit, old, rc, keep, content, ops, flush>>
  BY DEF StatTargets, UnregisterTarget, RegisterTarget
<1>2. ScanOK' /\ flush' \subseteq Scanned
  BY <1>1, ScanSame DEF blobVars
<1>3. TargetTypes
  BY DEF Inv, Types
<1>4. TargetTypes'
  <2>1. CASE StatTargets(x)
    <3>1. PICK d \in Int : d = Capacity[x] - cursor[x]
      BY TargetAssumption DEF Inv, Types, DeviceTypes
    <3>2. Max({d, 0}) = IF d >= 0 THEN d ELSE 0
      BY MaxOfTwo
    <3>3. PICK m \in Nat : m = Max({d, 0})
      BY <3>2
    <3>4. registered' = registered /\ remaining' = [remaining EXCEPT ![x] = m]
      BY <2>1, <3>1, <3>3 DEF StatTargets
    <3> QED BY <1>3, <3>4 DEF TargetTypes
  <2>2. CASE UnregisterTarget(x)
    BY <1>3, <2>2 DEF UnregisterTarget, TargetTypes
  <2>3. CASE RegisterTarget(x)
    BY <1>3, <2>3, TargetAssumption DEF RegisterTarget, TargetTypes
  <2> QED BY <2>1, <2>2, <2>3
<1> QED BY <1>1, <1>2, <1>4, BackgroundInv

\* The scan finds blobs that exist and that nobody uses.
LEMMA FlushDataInv ==
  ASSUME Inv, Fits, FlushData
  PROVE  Inv'
<1>0. Types
  BY DEF Inv
<1>1. /\ UNCHANGED <<blobVars, targetVars, bdevVars, allocVars, pc, req, todo, credit, old, rc, keep, content, ops>>
      /\ pc[Flusher] = "idle"
      /\ \A b \in Blobs : ~ InUse(b)
  BY DEF FlushData, Fits
<1>2. PICK F : /\ F \subseteq exists
               /\ flush' = {[blob |-> b, size |-> Size(b), score |-> score[b]] : b \in F}
  <2> DEFINE F == {c \in exists : \E i \in DOMAIN blocks[c] :
                            /\ blocks[c][i].tgt \in registered
                            /\ Level[blocks[c][i].tgt] < FlushLevel}
  <2>1. flush' = {[blob |-> b, size |-> Size(b), score |-> score[b]] : b \in F}
    BY DEF FlushData
  <2>2. F \subseteq exists
    OBVIOUS
  <2> HIDE DEF F
  <2> QED BY <2>1, <2>2
<1>3. F \subseteq Blobs
  BY <1>0, <1>2 DEF Types, BlobTypes
<1>4. \A t \in Tasks : pc[t] = "idle"
  <2> SUFFICES ASSUME NEW t \in Tasks, pc[t] # "idle" PROVE FALSE
    OBVIOUS
  <2>1. t \in Clients
    BY <1>1 DEF Tasks
  <2>2. req[t].blob \in Blobs
    BY OwnBlob
  <2> QED BY <1>1, <2>1, <2>2 DEF InUse
<1>5. \A e \in flush' : \E b \in F : e = [blob |-> b, size |-> Size(b), score |-> score[b]]
  BY <1>2
<1>6. flush' \subseteq Scanned
  <2> SUFFICES ASSUME NEW b \in F PROVE [blob |-> b, size |-> Size(b), score |-> score[b]] \in Scanned
    BY <1>2
  <2>1. Size(b) \in Nat /\ score[b] \in Nat
    BY <1>0, <1>3, SizeIsNat DEF Types, BlobTypes
  <2> QED BY <1>3, <2>1 DEF Scanned
<1>7. exists' = exists /\ blocks' = blocks /\ pc' = pc
  BY <1>1 DEF blobVars
<1>8. ScanOK'
  <2>1. \A t \in Tasks : pc'[t] = "idle"
    BY <1>4, <1>7
  <2>2. \A e, f \in flush' : e.blob = f.blob => e = f
    BY <1>5
  <2>3. ASSUME NEW e \in flush' PROVE e.blob \in exists' /\ e.size = SizeOf(blocks'[e.blob])
    <3>1. PICK b \in F : e = [blob |-> b, size |-> Size(b), score |-> score[b]]
      BY <1>5
    <3>2. e.blob = b /\ e.size = SizeOf(blocks[b])
      BY <3>1 DEF Size
    <3> QED BY <1>2, <1>7, <3>2
  <2> QED BY <2>1, <2>2, <2>3 DEF ScanOK, Size
<1>9. TargetTypes'
  BY <1>0, <1>1 DEF Types, TargetTypes, targetVars
<1> QED BY <1>1, <1>6, <1>8, <1>9, BackgroundInv

\* The flush of a blob begins, or the blob is skipped.
LEMMA FlushNextInv ==
  ASSUME Inv, NEW e \in flush, FlushNext(e)
  PROVE  /\ Inv'
         /\ \/ UNCHANGED <<pc, req, todo, blocks, content, disk>>
            \/ Only(Flusher, e.blob)
<1>0. Types /\ ScanOK /\ e \in Scanned
  BY DEF Inv, Types, OtherTypes
<1>1. UNCHANGED <<blobVars, targetVars, bdevVars, allocVars, credit, old, rc, keep, content, ops>>
  BY DEF FlushNext, history
<1>2. flush' = flush \ {e} /\ pc[Flusher] = "idle"
  BY DEF FlushNext
<1>3. CASE ~ (e.blob \in exists /\ blocks[e.blob] # <<>>)
  <2>1. UNCHANGED <<pc, req, todo>>
    BY <1>3 DEF FlushNext
  <2>2. ScanOK' /\ flush' \subseteq Scanned
    BY <1>1, <1>2, <2>1, ScanSame DEF blobVars
  <2>3. TargetTypes'
    BY <1>0, <1>1 DEF Types, TargetTypes, targetVars
  <2>4. Inv'
    BY <1>1, <2>1, <2>2, <2>3, BackgroundInv
  <2> QED BY <1>1, <2>1, <2>4 DEF blobVars, bdevVars
<1>4. CASE e.blob \in exists /\ blocks[e.blob] # <<>>
  <2>0. e.blob \in Blobs /\ e.size \in Nat /\ e.score \in Nat
    BY <1>0 DEF Scanned
  <2>1. PICK b, r : /\ b \in Blobs
                    /\ b = e.blob
                    /\ r = [kind |-> "flush", blob |-> b, off |-> 0, size |-> e.size,
                            score |-> e.score, level |-> FlushLevel, data |-> <<>>]
    BY <2>0
  <2>2. /\ r \in Request /\ r.blob = b /\ r.kind = "flush" /\ r.off = 0 /\ r.size = e.size
    BY <2>0, <2>1, TaskAssumption DEF Request
  <2>3. BeginRead(Flusher, r)
    BY <1>4, <2>1 DEF FlushNext
  <2>4. Flusher \in Tasks
    BY DEF Tasks
  <2>5. Works(Flusher, b)
    BY <1>0, <1>2, <2>1 DEF Works, ScanOK
  <2>6. e.size = Size(b)
    BY <1>0, <2>1 DEF ScanOK
  <2>7. flush' \subseteq flush /\ \A f \in flush' : f.blob # b
    BY <1>0, <1>2, <2>1 DEF ScanOK
  <2>8. ops' \in 0 .. MaxOps
    BY <1>0, <1>1 DEF Types, OtherTypes
  <2>9. Inv' /\ Only(Flusher, b)
    BY <1>1, <1>2, <1>4, <2>1, <2>2, <2>3, <2>4, <2>5, <2>6, <2>7, <2>8, BeginReadInv
  <2> QED BY <2>1, <2>9
<1> QED BY <1>3, <1>4

-----------------------------------------------------------------------------
(* The blobs stay apart.                                                   *)

\* Every step of a handler keeps the invariant.
LEMMA StepOK ==
  ASSUME Inv, NEW t \in Tasks, Step(t)
  PROVE  Inv'
<1>1. CASE \E s \in todo[t] : BdevRead(t, s) \/ BdevWrite(t, s) \/ BdevFree(t, s)
  BY <1>1, BdevReadInv, BdevWriteInv, BdevFreeInv
<1>2. CASE ReadDone(t) \/ RePut(t) \/ PutDone(t)
  BY <1>2, ReadDoneInv, RePutInv, PutDoneInv
<1>3. CASE Credit(t) \/ FreedAll(t)
  BY <1>3, CreditInv, FreedAllInv
<1>4. CASE ExtendBlob(t) \/ TryTarget(t) \/ Allocated(t)
  BY <1>4, ExtendBlobInv, TryTargetInv, AllocatedInv
<1>5. CASE BdevAllocate(t) \/ TakeFirstBlock(t)
  BY <1>5, BdevAllocateInv, TakeFirstBlockInv
<1> QED BY <1>1, <1>2, <1>3, <1>4, <1>5 DEF Step

\* Every step keeps the invariant.
LEMMA NextInv ==
  ASSUME Fits, Inv, [Next]_vars
  PROVE  Inv'
<1>1. CASE \E t \in Clients, c \in Calls : Call(t, c)
  BY <1>1, PutBlobInv, GetBlobInv, DelBlobInv, ReorganizeBlobInv DEF Call
<1>2. CASE \E t \in Tasks : Step(t)
  BY <1>2, StepOK
<1>3. CASE \E x \in Targets : StatTargets(x) \/ UnregisterTarget(x) \/ RegisterTarget(x)
  BY <1>3, ChoreInv
<1>4. CASE FlushData
  BY <1>4, FlushDataInv
<1>5. CASE \E e \in flush : FlushNext(e)
  BY <1>5, FlushNextInv
<1>6. CASE UNCHANGED vars
  <2>1. UNCHANGED <<blobVars, targetVars, bdevVars, allocVars, pc, req, todo, credit, old, rc, keep, content, ops, flush>>
    BY <1>6 DEF vars, history
  <2>2. ScanOK' /\ flush' \subseteq Scanned
    BY <2>1, ScanSame DEF blobVars
  <2>3. TargetTypes'
    BY <2>1 DEF Inv, Types, TargetTypes, targetVars
  <2> QED BY <2>1, <2>2, <2>3, BackgroundInv
<1> QED BY <1>1, <1>2, <1>3, <1>4, <1>5, <1>6 DEF Next

\* Two cells of a device are apart, and so is what is in them.
LEMMA CellsApart ==
  ASSUME NEW G, NEW H, Held(G, H), NEW x \in Targets,
         NEW h, NEW e, Holds(G, H, h, x, e), e.off \in Nat, e.size \in Nat,
         NEW k, NEW f, Holds(G, H, k, x, f), f.off \in Nat, f.size \in Nat,
         e.off # f.off
  PROVE  Apart(e, f)
<1>1. G \in [Targets -> [Nat -> Nat]] /\ Grid(G)
  BY DEF Held, Grid
<1>2. PICK o \in Nat, p \in Nat, n \in Nat, m \in Nat :
        o = e.off /\ p = f.off /\ n = e.size /\ m = f.size
  OBVIOUS
<1>3. PICK a \in Nat, c \in Nat : a = G[x][o] /\ c = G[x][p]
  BY <1>1
<1>4. n <= a /\ SmallBlock <= a /\ m <= c /\ SmallBlock <= c
  BY <1>2, <1>3 DEF Holds
<1>5. a > 0 /\ c > 0
  BY <1>4, TargetAssumption
<1>6. CASE o < p
  <2>1. o + a <= p
    BY <1>1, <1>3, <1>5, <1>6 DEF Grid
  <2>2. o + n <= p
    BY <1>4, <2>1
  <2> QED BY <1>2, <2>2 DEF Apart
<1>7. CASE p < o
  <2>1. p + c <= o
    BY <1>1, <1>3, <1>5, <1>7 DEF Grid
  <2>2. p + m <= o
    BY <1>4, <2>1
  <2> QED BY <1>2, <2>2 DEF Apart
<1> QED BY <1>2, <1>6, <1>7

\* The cells keep blocks apart.
LEMMA InvApart ==
  ASSUME Inv
  PROVE  StorageInv
<1>0. Types
  BY DEF Inv
<1>1. TypeOK
  BY <1>0 DEF Types, BlobTypes, TargetTypes, DeviceTypes, DiskTypes, AllocTypes, TaskTypes,
              OtherTypes, TypeOK, Places
<1>2. PICK G, H : Held(G, H)
  BY DEF Inv
<1>3. ASSUME NEW b \in {d \in exists : ~ BeingFreed(d)}
      PROVE  /\ b \in Blobs /\ blocks[b] \in Seq(BlobBlock) /\ HeldBlocks(G, H, b, blocks[b])
             /\ DOMAIN blocks[b] = 1 .. Len(blocks[b])
  <2>1. b \in Blobs /\ ~ BeingFreed(b)
    BY <1>0 DEF Types, BlobTypes
  <2>2. blocks[b] \in Seq(BlobBlock)
    BY <1>0, <2>1 DEF Types, BlobTypes
  <2> QED BY <1>2, <2>1, <2>2 DEF Held
<1>4. ASSUME NEW b \in {d \in exists : ~ BeingFreed(d)}, NEW i \in DOMAIN blocks[b]
      PROVE  /\ blocks[b][i] \in BlobBlock /\ blocks[b][i].tgt \in Targets
             /\ blocks[b][i].off \in Nat /\ blocks[b][i].size \in Nat
             /\ Holds(G, H, <<"blob", b>>, blocks[b][i].tgt, blocks[b][i])
             /\ blocks[b][i].off + blocks[b][i].size <= Capacity[blocks[b][i].tgt]
  <2>1. PICK bs \in Seq(BlobBlock) : bs = blocks[b]
    BY <1>3
  <2>2. i \in 1 .. Len(bs) /\ HeldBlocks(G, H, b, bs) /\ b \in Blobs
    BY <1>3, <1>4, <2>1
  <2>3. bs[i] \in BlobBlock
    BY <2>2
  <2>4. bs[i].tgt \in Targets /\ bs[i].off \in Nat /\ bs[i].size \in Nat
    BY <2>3 DEF BlobBlock
  <2>5. Holds(G, H, <<"blob", b>>, bs[i].tgt, bs[i])
    BY <2>2 DEF HeldBlocks
  <2>6. bs[i].off + bs[i].size <= Capacity[bs[i].tgt]
    BY <1>2, <2>2, BlocksInside
  <2> QED BY <2>1, <2>3, <2>4, <2>5, <2>6
<1>5. ASSUME NEW b \in {d \in exists : ~ BeingFreed(d)}, NEW c \in {d \in exists : ~ BeingFreed(d)},
             NEW i \in DOMAIN blocks[b], NEW j \in DOMAIN blocks[c], ~ (b = c /\ i = j),
             blocks[c][j].tgt = blocks[b][i].tgt
      PROVE  Apart(blocks[b][i], blocks[c][j])
  <2>1. PICK e \in BlobBlock, f \in BlobBlock : e = blocks[b][i] /\ f = blocks[c][j]
    BY <1>4
  <2>2. /\ e.tgt \in Targets /\ e.off \in Nat /\ e.size \in Nat /\ f.off \in Nat /\ f.size \in Nat
        /\ Holds(G, H, <<"blob", b>>, e.tgt, e) /\ Holds(G, H, <<"blob", c>>, e.tgt, f)
    BY <1>4, <1>5, <2>1
  <2>3. e.off # f.off
    <3>1. CASE b = c
      <4>1. i # j /\ Distinct(blocks[b]) /\ i \in 1 .. Len(blocks[b]) /\ j \in 1 .. Len(blocks[b])
        BY <1>3, <1>5, <3>1 DEF HeldBlocks
      <4> QED BY <1>5, <2>1, <3>1, <4>1 DEF Distinct
    <3>2. CASE b # c
      BY <2>2, <3>2 DEF Holds
    <3> QED BY <3>1, <3>2
  <2>4. Apart(e, f)
    BY <1>2, <2>2, <2>3, CellsApart
  <2> QED BY <2>1, <2>4
<1>6. ASSUME NEW b \in {d \in exists : ~ BeingFreed(d)}, NEW i \in DOMAIN blocks[b],
             NEW k \in Categories, NEW j \in DOMAIN recycled[blocks[b][i].tgt][k]
      PROVE  Apart(blocks[b][i], recycled[blocks[b][i].tgt][k][j])
  <2>1. PICK e \in BlobBlock, x \in Targets : e = blocks[b][i] /\ x = e.tgt
    BY <1>4
  <2>2. PICK es \in Seq(Extent) : es = recycled[x][k]
    BY <1>0 DEF Types, DeviceTypes
  <2>3. j \in 1 .. Len(es)
    BY <1>6, <2>1, <2>2
  <2>4. PICK f \in Extent : f = es[j]
    BY <2>3
  <2>5. HeldList(G, H, x, k)
    BY <1>2 DEF Held
  <2>6. Holds(G, H, <<"list", k>>, x, f)
    BY <2>2, <2>3, <2>4, <2>5 DEF HeldList
  <2>7. /\ e.off \in Nat /\ e.size \in Nat /\ f.off \in Nat /\ f.size \in Nat
        /\ Holds(G, H, <<"blob", b>>, x, e)
    BY <1>4, <2>1, <2>4 DEF Extent
  <2>8. e.off # f.off
    BY <2>6, <2>7 DEF Holds
  <2>9. Apart(e, f)
    BY <1>2, <2>6, <2>7, <2>8, CellsApart
  <2> QED BY <2>1, <2>2, <2>4, <2>9
<1>7. BlocksApart
  BY <1>4, <1>5, <1>6 DEF BlocksApart
<1> QED BY <1>1, <1>7 DEF StorageInv

\* Whatever handlers are under way, for any targets, blobs, clients and calls: no
\* byte of a device is in two blocks of blobs, in a block and in the device's
\* recycled lists, or in a block and past the device's end (ExtendBlob,
\* AllocateFromTarget and FreeAllBlobBlocks of core_runtime.cc).
THEOREM BlobsStayApart ==
  ASSUME Fits
  PROVE  Spec => []StorageInv
<1>1. Init => Inv
  BY InitInv
<1>2. Inv /\ [Next]_vars => Inv'
  BY NextInv
<1>3. Inv => StorageInv
  BY InvApart
<1> QED BY <1>1, <1>2, <1>3, PTL DEF Spec


-----------------------------------------------------------------------------
(* What the bytes are.  Level by level: a byte of a list of blocks on a    *)
(* device state d, a blob's content, a handler's buffer.                   *)

\* The byte of d that backs byte p (from 1) of the blocks bs.
ByteOf(d, bs, p) ==
  LET k == CHOOSE j \in DOMAIN bs : StartOf(bs, j) < p /\ p <= StartOf(bs, j) + bs[j].size
  IN d[bs[k].tgt][bs[k].off + p - 1 - StartOf(bs, k)]

\* Byte p of bs lies in block k.
In(bs, k, p) == StartOf(bs, k) < p /\ p <= StartOf(bs, k) + bs[k].size

\* The blocks hold what was put, c.
Covers(d, bs, c) ==
  /\ Len(c) <= SizeOf(bs)
  /\ \A i \in 1 .. Len(c) : c[i] # 0 => ByteOf(d, bs, i) = c[i]

\* A handler's buffer is what the blocks hold, but for the slices S to move.
Agrees(d, bs, r, S) ==
  \A i \in 1 .. r.size : r.off + i <= SizeOf(bs) =>
      \/ r.data[i] = ByteOf(d, bs, r.off + i)
      \/ \E s \in S : s.buf < i /\ i <= s.buf + s.len

\* A handler that moves a blob has in its buffer what was put.
Carries(r, c) ==
  /\ Len(c) <= r.size
  /\ \A i \in 1 .. Len(c) : c[i] # 0 => r.data[i] = c[i]

\* The blocks hold what was put but for the bytes that r overwrites.
Beside(d, bs, r, c) ==
  /\ Len(c) <= SizeOf(bs)
  /\ \A i \in 1 .. Len(c) :
        c[i] # 0 /\ ~ (r.off < i /\ i <= r.off + r.size) => ByteOf(d, bs, i) = c[i]

\* What holds of the bytes of a handler that stands at p.
DataAt(p, d, bs, r, S, c) ==
  /\ p = "read" => Covers(d, bs, c) /\ Agrees(d, bs, r, S)
  /\ p = "reput" => Carries(r, c)
  /\ p \in {"free", "freed"} /\ r.kind \notin {"put", "del"} => Carries(r, c)
  /\ p \in {"extend", "alloc", "bdev"} => IF r.kind = "put" THEN Covers(d, bs, c) ELSE Carries(r, c)
  /\ p = "write" => Agrees(d, bs, r, S) /\ IF r.kind = "put" THEN Beside(d, bs, r, c) ELSE Carries(r, c)

DataOK(t) ==
  DataAt(pc[t], disk, blocks[req[t].blob], req[t], todo[t], content[req[t].blob])

Unused(b) == \A t \in Tasks : pc[t] # "idle" => req[t].blob # b

Data ==
  /\ \A t \in Tasks : pc[t] # "idle" => DataOK(t)
  /\ \A b \in Blobs : Unused(b) => Covers(disk, blocks[b], content[b])

\* The byte is in the block it is located in.
LEMMA ByteIn ==
  ASSUME NEW bs \in Seq(BlobBlock), NEW d, NEW p \in Nat, NEW k \in 1 .. Len(bs), In(bs, k, p)
  PROVE  ByteOf(d, bs, p) = d[bs[k].tgt][bs[k].off + p - 1 - StartOf(bs, k)]
<1>1. Sized(bs) /\ DOMAIN bs = 1 .. Len(bs)
  BY BlocksSized
<1> DEFINE j == CHOOSE l \in DOMAIN bs : StartOf(bs, l) < p /\ p <= StartOf(bs, l) + bs[l].size
<1>2. j \in 1 .. Len(bs) /\ StartOf(bs, j) < p /\ p <= StartOf(bs, j) + bs[j].size
  BY <1>1 DEF In
<1>3. ByteOf(d, bs, p) = d[bs[j].tgt][bs[j].off + p - 1 - StartOf(bs, j)]
  BY DEF ByteOf
<1> HIDE DEF j
<1>4. j = k
  BY <1>1, <1>2, LocatedOnce DEF In
<1> QED BY <1>3, <1>4

\* Every byte up to the size is in some block.
LEMMA ByteLies ==
  ASSUME NEW bs \in Seq(BlobBlock), NEW p \in 1 .. SizeOf(bs)
  PROVE  \E k \in 1 .. Len(bs) : In(bs, k, p)
<1>1. Sized(bs)
  BY BlocksSized
<1> QED BY <1>1, Located DEF In

\* Where a block of a list begins and what it is.
LEMMA BlockFacts ==
  ASSUME NEW bs \in Seq(BlobBlock), NEW k \in 1 .. Len(bs)
  PROVE  /\ StartOf(bs, k) \in Nat /\ StartOf(bs, k) + bs[k].size <= SizeOf(bs)
         /\ bs[k] \in BlobBlock /\ bs[k].tgt \in Targets /\ bs[k].off \in Nat /\ bs[k].size \in Nat \ {0}
         /\ SizeOf(bs) \in Nat
<1>1. Sized(bs) /\ Len(bs) \in Nat
  BY BlocksSized
<1>2. k \in 0 .. Len(bs) /\ k - 1 \in 0 .. Len(bs)
  BY <1>1
<1>3. Ends(bs)[k - 1] \in Nat /\ Ends(bs)[k] = Ends(bs)[k - 1] + bs[k].size /\ Ends(bs)[k] <= SizeOf(bs)
      /\ SizeOf(bs) \in Nat
  BY <1>1, <1>2, EndsFacts
<1>4. bs[k] \in BlobBlock
  OBVIOUS
<1>5. bs[k].tgt \in Targets /\ bs[k].off \in Nat /\ bs[k].size \in Nat \ {0}
  BY <1>4 DEF BlobBlock
<1> QED BY <1>3, <1>4, <1>5 DEF StartOf

\* A block more leaves the bytes there are.
LEMMA AppendBytes ==
  ASSUME NEW bs \in Seq(BlobBlock), NEW e \in BlobBlock, NEW d, NEW p \in 1 .. SizeOf(bs)
  PROVE  /\ ByteOf(d, Append(bs, e), p) = ByteOf(d, bs, p)
         /\ SizeOf(bs) <= SizeOf(Append(bs, e))
<1>0. Sized(bs) /\ e.size \in Nat /\ Len(bs) \in Nat
  <2>1. Sized(bs)
    BY BlocksSized
  <2>2. e.size \in Nat
    BY DEF BlobBlock
  <2> QED BY <2>1, <2>2
<1>1. /\ \A i \in 0 .. Len(bs) : Ends(Append(bs, e))[i] = Ends(bs)[i]
      /\ SizeOf(Append(bs, e)) = SizeOf(bs) + e.size
  BY <1>0, AppendEnds
<1>2. PICK k \in 1 .. Len(bs) : In(bs, k, p)
  BY ByteLies
<1>3. PICK cs \in Seq(BlobBlock) : cs = Append(bs, e)
  <2>1. Append(bs, e) \in Seq(BlobBlock)
    OBVIOUS
  <2> QED BY <2>1
<1>4. k \in 1 .. Len(cs) /\ cs[k] = bs[k]
  BY <1>0, <1>3
<1>5. StartOf(cs, k) = StartOf(bs, k)
  <2>1. k - 1 \in 0 .. Len(bs)
    BY <1>0
  <2> QED BY <1>1, <1>3, <2>1 DEF StartOf
<1>6. In(cs, k, p)
  BY <1>2, <1>4, <1>5 DEF In
<1>7. SizeOf(bs) \in Nat /\ p \in Nat
  BY BlockFacts
<1>8. ByteOf(d, cs, p) = ByteOf(d, bs, p)
  BY <1>2, <1>4, <1>5, <1>6, <1>7, ByteIn
<1> QED BY <1>0, <1>1, <1>3, <1>7, <1>8

\* The slices of a part of a blob cover it.
LEMMA SlicesCover ==
  ASSUME NEW bs \in Seq(BlobBlock), NEW off \in Nat, NEW n \in Nat, NEW i \in 1 .. n,
         off + i <= SizeOf(bs)
  PROVE  \E s \in Slices(bs, off, n) : s.buf < i /\ i <= s.buf + s.len
<1>1. off + i \in 1 .. SizeOf(bs) /\ DOMAIN bs = 1 .. Len(bs)
  <2>1. SizeOf(bs) \in Nat
    BY BlocksSized, EndsFacts
  <2> QED BY <2>1
<1>2. PICK k \in 1 .. Len(bs) : In(bs, k, off + i)
  BY <1>1, ByteLies
<1>3. /\ StartOf(bs, k) \in Nat /\ bs[k].off \in Nat /\ bs[k].size \in Nat \ {0}
  BY BlockFacts
<1>4. PICK st \in Nat, o \in Nat, z \in Nat \ {0} :
        st = StartOf(bs, k) /\ o = bs[k].off /\ z = bs[k].size
  BY <1>3
<1>5. st < off + i /\ off + i <= st + z
  BY <1>2, <1>4 DEF In
<1>6. off < st + z /\ off + n > st
  BY <1>5
<1>7. PICK s : s = [tgt |-> bs[k].tgt,
                    at  |-> bs[k].off + Max({off - StartOf(bs, k), 0}),
                    buf |-> Max({StartOf(bs, k) - off, 0}),
                    len |-> Min({off + n, StartOf(bs, k) + bs[k].size}) - Max({off, StartOf(bs, k)})]
  OBVIOUS
<1>8. s \in Slices(bs, off, n)
  BY <1>1, <1>4, <1>6, <1>7 DEF Slices
<1>9. /\ Max({st - off, 0}) = IF st - off >= 0 THEN st - off ELSE 0
      /\ Max({off, st}) = IF off >= st THEN off ELSE st
      /\ Min({off + n, st + z}) = IF off + n <= st + z THEN off + n ELSE st + z
  BY MaxOfTwo, MinOfTwo
<1>10. /\ s.buf = IF st - off >= 0 THEN st - off ELSE 0
       /\ s.len = (IF off + n <= st + z THEN off + n ELSE st + z) - (IF off >= st THEN off ELSE st)
  BY <1>4, <1>7, <1>9
<1>11. PICK sb \in Nat, sl \in Nat : sb = s.buf /\ sl = s.len
  <2>1. s \in Slice
    BY <1>8, SlicesLie
  <2> QED BY <2>1 DEF Slice
<1>12. sb < i /\ i <= sb + sl
  <2>1. sb = IF st - off >= 0 THEN st - off ELSE 0
    BY <1>10, <1>11
  <2>2. sl = (IF off + n <= st + z THEN off + n ELSE st + z) - (IF off >= st THEN off ELSE st)
    BY <1>10, <1>11
  <2>3. i \in Nat /\ i <= n /\ 1 <= i
    OBVIOUS
  <2> QED BY <1>5, <2>1, <2>2, <2>3
<1> QED BY <1>8, <1>11, <1>12

\* Where on the device the bytes of a slice are.
LEMMA SliceBytes ==
  ASSUME NEW bs \in Seq(BlobBlock), NEW off \in Nat, NEW n \in Nat, NEW s, NEW k \in 1 .. Len(bs),
         SliceOf(s, bs, off, n, k), NEW i \in Nat, s.buf < i, i <= s.buf + s.len, NEW d
  PROVE  In(bs, k, off + i) /\ ByteOf(d, bs, off + i) = d[s.tgt][s.at + i - s.buf - 1]
<1>1. /\ StartOf(bs, k) \in Nat /\ bs[k].off \in Nat /\ bs[k].size \in Nat \ {0}
  BY BlockFacts
<1>2. PICK st \in Nat, o \in Nat, z \in Nat :
        st = StartOf(bs, k) /\ o = bs[k].off /\ z = bs[k].size
  BY <1>1
<1>3. PICK sa \in Nat, sb \in Nat, sl \in Nat : sa = s.at /\ sb = s.buf /\ sl = s.len
  BY DEF SliceOf
<1>4. /\ sa >= o /\ sa + sl <= o + z /\ off + sb - st = sa - o /\ s.tgt = bs[k].tgt
      /\ sb < i /\ i <= sb + sl
  BY <1>2, <1>3 DEF SliceOf
<1>5. st < off + i /\ off + i <= st + z /\ o + (off + i) - 1 - st = sa + i - sb - 1
  <2>1. off + sb - st = sa - o
    BY <1>4
  <2>2. o + (off + i) - 1 - st = sa + i - sb - 1
    BY <2>1
  <2>3. st <= off + sb
    BY <1>4, <2>1
  <2>4. off + sb + sl <= st + z
    BY <1>4, <2>1
  <2>5. sb < i /\ i <= sb + sl
    BY <1>4
  <2>6. st < off + i
    BY <2>3, <2>5
  <2>7. off + i <= st + z
    BY <2>4, <2>5
  <2> QED BY <2>2, <2>6, <2>7
<1>6. In(bs, k, off + i)
  BY <1>2, <1>5 DEF In
<1>7. off + i \in Nat
  OBVIOUS
<1>8. ByteOf(d, bs, off + i) = d[bs[k].tgt][bs[k].off + (off + i) - 1 - StartOf(bs, k)]
  BY <1>6, <1>7, ByteIn
<1> QED BY <1>2, <1>3, <1>4, <1>5, <1>6, <1>8

\* A device's bytes after slice s of the buffer v was written.
Wrote(d, e, s, v) ==
  e = [d EXCEPT ![s.tgt] =
         [i \in DOMAIN @ |-> IF i >= s.at /\ i < s.at + s.len THEN v[s.buf + i - s.at + 1] ELSE @[i]]]

IsDisk(d) == DOMAIN d = Targets /\ \A x \in Targets : d[x] \in [0 .. Capacity[x] - 1 -> Val]

\* A byte of a device after a write.
LEMMA WroteAt ==
  ASSUME NEW d, NEW e, NEW s \in Slice, NEW v, IsDisk(d), Wrote(d, e, s, v),
         NEW x \in Targets, NEW q \in Nat, q < Capacity[x]
  PROVE  e[x][q] = IF x = s.tgt /\ q >= s.at /\ q < s.at + s.len
                   THEN v[s.buf + q - s.at + 1] ELSE d[x][q]
<1>1. s.tgt \in Targets
  BY DEF Slice
<1>2. PICK y \in Targets : y = s.tgt
  BY <1>1
<1>3. e = [d EXCEPT ![y] =
         [i \in DOMAIN d[y] |-> IF i >= s.at /\ i < s.at + s.len THEN v[s.buf + i - s.at + 1] ELSE d[y][i]]]
  BY <1>2 DEF Wrote
<1>4. Capacity[x] \in Nat
  BY TargetAssumption
<1>5. CASE x = y
  <2>1. q \in DOMAIN d[y]
    BY <1>4, <1>5 DEF IsDisk
  <2>2. e[x] = [i \in DOMAIN d[y] |-> IF i >= s.at /\ i < s.at + s.len THEN v[s.buf + i - s.at + 1] ELSE d[y][i]]
    BY <1>3, <1>5 DEF IsDisk
  <2> QED BY <1>2, <1>5, <2>1, <2>2
<1>6. CASE x # y
  <2>1. e[x] = d[x]
    BY <1>3, <1>6 DEF IsDisk
  <2> QED BY <1>2, <1>6, <2>1
<1> QED BY <1>5, <1>6

\* A byte of a list of blocks, none of which overlaps the slice's block, stays.
LEMMA WriteOther ==
  ASSUME NEW d, NEW e, NEW s \in Slice, NEW v, IsDisk(d), Wrote(d, e, s, v),
         NEW f \in BlobBlock, f.tgt = s.tgt, f.off <= s.at, s.at + s.len <= f.off + f.size,
         NEW cs \in Seq(BlobBlock), NEW k \in 1 .. Len(cs), NEW p \in Nat, In(cs, k, p),
         cs[k].off + cs[k].size <= Capacity[cs[k].tgt],
         cs[k].tgt = f.tgt => Apart(f, cs[k])
  PROVE  ByteOf(e, cs, p) = ByteOf(d, cs, p)
<1>1. /\ StartOf(cs, k) \in Nat /\ cs[k].tgt \in Targets /\ cs[k].off \in Nat /\ cs[k].size \in Nat \ {0}
  BY BlockFacts
<1>2. PICK st \in Nat, o \in Nat, z \in Nat, x \in Targets :
        st = StartOf(cs, k) /\ o = cs[k].off /\ z = cs[k].size /\ x = cs[k].tgt
  BY <1>1
<1>3. PICK sa \in Nat, sl \in Nat : sa = s.at /\ sl = s.len
  BY DEF Slice
<1>4. PICK fo \in Nat, fz \in Nat : fo = f.off /\ fz = f.size
  BY DEF BlobBlock
<1>5. st < p /\ p <= st + z
  BY <1>2 DEF In
<1>6. PICK q \in Nat : q = o + p - 1 - st
  BY <1>5
<1>7. o <= q /\ q < o + z
  BY <1>5, <1>6
<1>8. q < Capacity[x]
  <2>1. o + z <= Capacity[x] /\ Capacity[x] \in Nat
    BY <1>2, TargetAssumption
  <2> QED BY <1>7, <2>1
<1>9. ~ (x = s.tgt /\ q >= s.at /\ q < s.at + s.len)
  <2> SUFFICES ASSUME x = s.tgt, q >= sa, q < sa + sl PROVE FALSE
    BY <1>3
  <2>1. fo + fz <= o \/ o + z <= fo
    BY <1>2, <1>4 DEF Apart
  <2>2. fo <= sa /\ sa + sl <= fo + fz
    BY <1>3, <1>4
  <2> QED BY <1>7, <2>1, <2>2
<1>10. e[x][q] = d[x][q]
  BY <1>8, <1>9, WroteAt
<1>11. ByteOf(e, cs, p) = e[x][q] /\ ByteOf(d, cs, p) = d[x][q]
  BY <1>2, <1>6, ByteIn
<1> QED BY <1>10, <1>11

\* Blocks of one list that are apart and on their devices.
Laid(bs) ==
  /\ \A i \in 1 .. Len(bs) : bs[i].off + bs[i].size <= Capacity[bs[i].tgt]
  /\ \A i, j \in 1 .. Len(bs) : i # j /\ bs[j].tgt = bs[i].tgt => Apart(bs[i], bs[j])

\* A byte of the list that is written to is as in the buffer if the slice has
\* it, and as it was if not.
LEMMA WriteOwn ==
  ASSUME NEW d, NEW e, NEW s \in Slice, NEW v, IsDisk(d), Wrote(d, e, s, v),
         NEW bs \in Seq(BlobBlock), Laid(bs), NEW off \in Nat, NEW n \in Nat,
         NEW k \in 1 .. Len(bs), SliceOf(s, bs, off, n, k), NEW p \in 1 .. SizeOf(bs)
  PROVE  ByteOf(e, bs, p) = IF off + s.buf < p /\ p <= off + s.buf + s.len
                            THEN v[p - off] ELSE ByteOf(d, bs, p)
<1>1. /\ StartOf(bs, k) \in Nat /\ bs[k].tgt \in Targets /\ bs[k].off \in Nat /\ bs[k].size \in Nat \ {0}
      /\ bs[k] \in BlobBlock /\ SizeOf(bs) \in Nat
  BY BlockFacts
<1>2. PICK st \in Nat, o \in Nat, z \in Nat, x \in Targets :
        st = StartOf(bs, k) /\ o = bs[k].off /\ z = bs[k].size /\ x = bs[k].tgt
  BY <1>1
<1>3. PICK sa \in Nat, sb \in Nat, sl \in Nat : sa = s.at /\ sb = s.buf /\ sl = s.len
  BY DEF SliceOf
<1>4. /\ sa >= o /\ sa + sl <= o + z /\ off + sb - st = sa - o /\ s.tgt = x
  BY <1>2, <1>3 DEF SliceOf
<1>5. PICK l \in 1 .. Len(bs) : In(bs, l, p)
  BY ByteLies
<1>6. p \in Nat
  BY <1>1
<1>7. off + sb = st + (sa - o)
  BY <1>4
<1>8. CASE l = k
  <2>1. st < p /\ p <= st + z
    BY <1>2, <1>5, <1>8 DEF In
  <2>2. PICK q \in Nat : q = o + p - 1 - st
    BY <1>6, <2>1
  <2>3. ByteOf(e, bs, p) = e[x][q] /\ ByteOf(d, bs, p) = d[x][q]
    <3>1. In(bs, k, p)
      BY <1>5, <1>8
    <3>2. bs[k].off + p - 1 - StartOf(bs, k) = q /\ bs[k].tgt = x
      BY <1>2, <2>2
    <3>3. /\ ByteOf(e, bs, p) = e[bs[k].tgt][bs[k].off + p - 1 - StartOf(bs, k)]
          /\ ByteOf(d, bs, p) = d[bs[k].tgt][bs[k].off + p - 1 - StartOf(bs, k)]
      BY <1>6, <3>1, ByteIn
    <3> QED BY <3>2, <3>3
  <2>4. q < Capacity[x]
    <3>1. o + z <= Capacity[x] /\ Capacity[x] \in Nat
      BY <1>2, TargetAssumption DEF Laid
    <3>2. q < o + z
      BY <1>6, <2>1, <2>2
    <3> QED BY <3>1, <3>2
  <2>5. e[x][q] = IF q >= sa /\ q < sa + sl THEN v[sb + q - sa + 1] ELSE d[x][q]
    <3>1. e[x][q] = IF x = s.tgt /\ q >= s.at /\ q < s.at + s.len
                    THEN v[s.buf + q - s.at + 1] ELSE d[x][q]
      BY <2>4, WroteAt
    <3>2. x = s.tgt
      BY <1>4
    <3> QED BY <1>3, <3>1, <3>2
  <2>6. q >= sa <=> off + sb < p
    BY <1>6, <1>7, <2>2
  <2>7. q < sa + sl <=> p <= off + sb + sl
    BY <1>6, <1>7, <2>2
  <2>8. sb + q - sa + 1 = p - off
    BY <1>6, <1>7, <2>2
  <2>9. ByteOf(e, bs, p) = IF off + sb < p /\ p <= off + sb + sl THEN v[p - off] ELSE ByteOf(d, bs, p)
    BY <2>3, <2>5, <2>6, <2>7, <2>8
  <2> QED BY <1>3, <2>9
<1>9. CASE l # k
  <2>1. ~ (off + sb < p /\ p <= off + sb + sl)
    <3> SUFFICES ASSUME off + sb < p, p <= off + sb + sl PROVE FALSE
      OBVIOUS
    <3>1. st <= off + sb
      BY <1>4, <1>7
    <3>2. off + sb + sl <= st + z
      BY <1>4, <1>7
    <3>3. st < p
      BY <1>6, <3>1
    <3>4. p <= st + z
      BY <1>6, <3>2
    <3>5. In(bs, k, p)
      BY <1>2, <3>3, <3>4 DEF In
    <3>6. l = k
      BY <1>5, <1>6, <3>5, BlocksSized, LocatedOnce DEF In
    <3> QED BY <1>9, <3>6
  <2>2. PICK f \in BlobBlock : f = bs[k]
    BY <1>1
  <2>3. f.tgt = s.tgt /\ f.off <= s.at /\ s.at + s.len <= f.off + f.size
    BY <1>2, <1>3, <1>4, <2>2
  <2>4. bs[l].off + bs[l].size <= Capacity[bs[l].tgt] /\ (bs[l].tgt = f.tgt => Apart(f, bs[l]))
    BY <1>9, <2>2 DEF Laid
  <2>5. ByteOf(e, bs, p) = ByteOf(d, bs, p)
    BY <1>5, <1>6, <2>3, <2>4, WriteOther
  <2> QED BY <1>3, <2>1, <2>5
<1> QED BY <1>8, <1>9

-----------------------------------------------------------------------------
(* The bytes of the blobs other than a step's own.                         *)

SameBytes(d, e, bs) == \A p \in 1 .. SizeOf(bs) : ByteOf(e, bs, p) = ByteOf(d, bs, p)

\* What was put is still there when the bytes are.
LEMMA SameCovers ==
  ASSUME NEW d, NEW e, NEW bs \in Seq(BlobBlock), NEW c \in Seq(Val), SameBytes(d, e, bs)
  PROVE  /\ Covers(d, bs, c) => Covers(e, bs, c)
         /\ \A r : Beside(d, bs, r, c) => Beside(e, bs, r, c)
<1>1. SizeOf(bs) \in Nat /\ Len(c) \in Nat
  BY BlocksSized, EndsFacts
<1>2. \A i \in 1 .. Len(c) : Len(c) <= SizeOf(bs) => ByteOf(e, bs, i) = ByteOf(d, bs, i)
  BY <1>1 DEF SameBytes
<1> QED BY <1>2 DEF Covers, Beside

\* So does the buffer agree with them.
LEMMA SameAgrees ==
  ASSUME NEW d, NEW e, NEW bs \in Seq(BlobBlock), NEW r \in Request, NEW S, SameBytes(d, e, bs),
         Agrees(d, bs, r, S)
  PROVE  Agrees(e, bs, r, S)
<1> SUFFICES ASSUME NEW i \in 1 .. r.size, r.off + i <= SizeOf(bs)
             PROVE  \/ r.data[i] = ByteOf(e, bs, r.off + i)
                    \/ \E s \in S : s.buf < i /\ i <= s.buf + s.len
  BY DEF Agrees
<1>1. SizeOf(bs) \in Nat /\ r.off \in Nat /\ r.size \in Nat
  BY BlocksSized, EndsFacts DEF Request
<1>2. PICK o \in Nat, p \in Nat : o = r.off /\ p = o + i
  BY <1>1
<1>3. p \in 1 .. SizeOf(bs)
  BY <1>1, <1>2
<1>4. ByteOf(e, bs, p) = ByteOf(d, bs, p)
  BY <1>3 DEF SameBytes
<1> QED BY <1>2, <1>4 DEF Agrees

\* A handler's bytes are the same when those of its blocks are.
LEMMA SameData ==
  ASSUME NEW p, NEW d, NEW e, NEW bs \in Seq(BlobBlock), NEW r \in Request, NEW S, NEW c \in Seq(Val),
         p \notin {"free", "freed"} => SameBytes(d, e, bs), DataAt(p, d, bs, r, S, c)
  PROVE  DataAt(p, e, bs, r, S, c)
<1>1. CASE p \in {"free", "freed"}
  BY <1>1 DEF DataAt
<1>2. CASE p \notin {"free", "freed"}
  <2>1. SameBytes(d, e, bs)
    BY <1>2
  <2>2. /\ Covers(d, bs, c) => Covers(e, bs, c)
        /\ Beside(d, bs, r, c) => Beside(e, bs, r, c)
        /\ Agrees(d, bs, r, S) => Agrees(e, bs, r, S)
    BY <2>1, SameCovers, SameAgrees
  <2> QED BY <1>2, <2>2 DEF DataAt
<1> QED BY <1>1, <1>2

\* The bytes of the others stay: what a step has to say is about its own blob.
LEMMA DataStep ==
  ASSUME Inv, Data, NEW t \in Tasks, NEW b \in Blobs, Works(t, b), Only(t, b),
         \A c \in Blobs \ {b} : ~ BeingFreed(c) => SameBytes(disk, disk', blocks[c]),
         pc'[t] # "idle" => DataAt(pc'[t], disk', blocks'[b], req'[t], todo'[t], content'[b]),
         pc'[t] = "idle" => Covers(disk', blocks'[b], content'[b])
  PROVE  Data'
<1>0. Types /\ Alone
  BY DEF Inv
<1>1. ASSUME NEW u \in Tasks, pc'[u] # "idle" PROVE DataOK(u)'
  <2>1. CASE u = t
    <3>1. req'[t].blob = b
      BY <1>1, <2>1 DEF Only
    <3>2. DataAt(pc'[t], disk', blocks'[b], req'[t], todo'[t], content'[b])
      BY <1>1, <2>1
    <3> QED BY <2>1, <3>1, <3>2 DEF DataOK
  <2>2. CASE u # t
    <3>1. pc'[u] = pc[u] /\ req'[u] = req[u] /\ todo'[u] = todo[u]
      BY <2>2 DEF Only
    <3>2. pc[u] # "idle"
      BY <1>1, <3>1
    <3>3. req[u] \in Request /\ req[u].blob \in Blobs /\ Works(u, req[u].blob)
      BY <3>2, OwnBlob
    <3>4. PICK c \in Blobs : c = req[u].blob
      BY <3>3
    <3>5. c # b
      BY <2>2, <3>2, <3>4 DEF Works
    <3>6. blocks'[c] = blocks[c] /\ content'[c] = content[c]
      BY <3>5 DEF Only
    <3>7. blocks[c] \in Seq(BlobBlock) /\ content[c] \in Seq(Val)
      BY <1>0 DEF Types, BlobTypes, OtherTypes
    <3>8. DataAt(pc[u], disk, blocks[c], req[u], todo[u], content[c])
      BY <3>2, <3>4 DEF Data, DataOK
    <3>9. pc[u] \notin {"free", "freed"} => SameBytes(disk, disk', blocks[c])
      <4> SUFFICES ASSUME pc[u] \notin {"free", "freed"} PROVE ~ BeingFreed(c)
        BY <3>5
      <4> QED BY <3>3, <3>4 DEF BeingFreed, Works
    <3>10. DataAt(pc[u], disk', blocks[c], req[u], todo[u], content[c])
      BY <3>3, <3>7, <3>8, <3>9, SameData
    <3> QED BY <3>1, <3>4, <3>6, <3>10 DEF DataOK
  <2> QED BY <2>1, <2>2
<1>2. ASSUME NEW c \in Blobs, Unused(c)' PROVE Covers(disk', blocks'[c], content'[c])
  <2>1. CASE c = b
    <3>1. pc'[t] = "idle"
      BY <1>2, <2>1 DEF Unused, Only
    <3> QED BY <2>1, <3>1
  <2>2. CASE c # b
    <3>1. Unused(c)
      <4> SUFFICES ASSUME NEW u \in Tasks, pc[u] # "idle" PROVE req[u].blob # c
        BY DEF Unused
      <4>1. CASE u = t
        BY <2>2, <4>1 DEF Works
      <4>2. CASE u # t
        <5>1. pc'[u] = pc[u] /\ req'[u] = req[u]
          BY <4>2 DEF Only
        <5> QED BY <1>2, <5>1 DEF Unused
      <4> QED BY <4>1, <4>2
    <3>2. ~ BeingFreed(c)
      BY <3>1 DEF Unused, BeingFreed
    <3>3. SameBytes(disk, disk', blocks[c])
      BY <2>2, <3>2
    <3>4. blocks'[c] = blocks[c] /\ content'[c] = content[c]
      BY <2>2 DEF Only
    <3>5. blocks[c] \in Seq(BlobBlock) /\ content[c] \in Seq(Val)
      BY <1>0 DEF Types, BlobTypes, OtherTypes
    <3>6. Covers(disk, blocks[c], content[c])
      BY <3>1 DEF Data
    <3>7. Covers(disk', blocks[c], content[c])
      BY <3>3, <3>5, <3>6, SameCovers
    <3> QED BY <3>4, <3>7
  <2> QED BY <2>1, <2>2
<1> QED BY <1>1, <1>2 DEF Data

\* The same for a step that writes nothing.
LEMMA DataQuiet ==
  ASSUME Inv, Data, NEW t \in Tasks, NEW b \in Blobs, Works(t, b), Only(t, b), disk' = disk,
         pc'[t] # "idle" => DataAt(pc'[t], disk, blocks'[b], req'[t], todo'[t], content'[b]),
         pc'[t] = "idle" => Covers(disk, blocks'[b], content'[b])
  PROVE  Data'
<1>1. \A c \in Blobs \ {b} : ~ BeingFreed(c) => SameBytes(disk, disk', blocks[c])
  BY DEF SameBytes
<1> QED BY <1>1, DataStep

\* Steps that touch no blob and no handler.
LEMMA DataSame ==
  ASSUME Data, pc' = pc, req' = req, todo' = todo, blocks' = blocks, content' = content, disk' = disk
  PROVE  Data'
<1>1. \A t \in Tasks : DataOK(t) => DataOK(t)'
  BY DEF DataOK
<1>2. \A b \in Blobs : Unused(b)' => Unused(b)
  BY DEF Unused
<1> QED BY <1>1, <1>2 DEF Data

\* What a handler at work and its blob look like.
LEMMA OwnData ==
  ASSUME Inv, Data, NEW t \in Tasks, pc[t] # "idle"
  PROVE  \E b \in Blobs, r \in Request, bs \in Seq(BlobBlock), c \in Seq(Val) :
           /\ b = req[t].blob /\ r = req[t] /\ bs = blocks[b] /\ c = content[b]
           /\ Works(t, b) /\ r.blob = b
           /\ DataAt(pc[t], disk, bs, r, todo[t], c)
<1>1. req[t] \in Request /\ req[t].blob \in Blobs /\ Works(t, req[t].blob)
  BY OwnBlob
<1>2. PICK b \in Blobs, r \in Request : b = req[t].blob /\ r = req[t]
  BY <1>1
<1>3. PICK bs \in Seq(BlobBlock), c \in Seq(Val) : bs = blocks[b] /\ c = content[b]
  BY DEF Inv, Types, BlobTypes, OtherTypes
<1>4. DataAt(pc[t], disk, bs, r, todo[t], c)
  BY <1>2, <1>3 DEF Data, DataOK
<1> QED BY <1>1, <1>2, <1>3, <1>4

-----------------------------------------------------------------------------
(* Reading.                                                                *)

\* A slice read is as on the device.
LEMMA BdevReadData ==
  ASSUME Inv, Data, NEW t \in Tasks, NEW s, BdevRead(t, s)
  PROVE  Data'
<1>0. Types /\ TaskOK(t) /\ pc[t] = "read" /\ s \in todo[t]
  BY DEF Inv, BdevRead
<1>1. PICK b \in Blobs, r \in Request, bs \in Seq(BlobBlock), c \in Seq(Val) :
        /\ b = req[t].blob /\ r = req[t] /\ bs = blocks[b] /\ c = content[b]
        /\ Works(t, b) /\ r.blob = b
        /\ DataAt(pc[t], disk, bs, r, todo[t], c)
  BY <1>0, OwnData
<1>2. Only(t, b)
  BY <1>1, BdevReadInv
<1>3. pc' = pc /\ disk' = disk /\ blocks' = blocks /\ content' = content
  BY DEF BdevRead, blobVars, bdevVars, history
<1>4. r.off \in Nat /\ r.size \in Nat /\ r.data \in Seq(Val) /\ Len(r.data) = r.size
  <2>1. r.kind \in {"get", "reorg", "flush"} /\ Serves(t)
    BY <1>0, <1>1 DEF TaskOK, AtRead
  <2> QED BY <1>1, <2>1 DEF Serves, Request
<1>5. s \in Slices(bs, r.off, r.size)
  BY <1>0, <1>1 DEF TaskOK, AtRead
<1>6. PICK k \in 1 .. Len(bs) : SliceOf(s, bs, r.off, r.size, k)
  BY <1>4, <1>5, SlicesLie
<1>7. PICK e : e = [i \in DOMAIN r.data |-> IF i > s.buf /\ i <= s.buf + s.len
                                            THEN disk[s.tgt][s.at + i - s.buf - 1] ELSE r.data[i]]
  OBVIOUS
<1>8. PICK q : q = [r EXCEPT !.data = e]
  OBVIOUS
<1>9. req'[t] = q /\ todo'[t] = todo[t] \ {s} /\ pc'[t] = "read"
  <2>1. req' = [req EXCEPT ![t].data = [i \in DOMAIN @ |-> IF i > s.buf /\ i <= s.buf + s.len
                                            THEN disk[s.tgt][s.at + i - s.buf - 1] ELSE @[i]]]
    BY DEF BdevRead
  <2>2. req' = [req EXCEPT ![t] = q]
    BY <1>1, <1>7, <1>8, <2>1
  <2>3. todo' = [todo EXCEPT ![t] = todo[t] \ {s}]
    BY DEF BdevRead
  <2> QED BY <1>0, <1>3, <2>2, <2>3 DEF Types, TaskTypes
<1>10. q.off = r.off /\ q.size = r.size /\ q.data = e
  BY <1>1, <1>8 DEF Request
<1>11. Covers(disk, bs, c) /\ Agrees(disk, bs, r, todo[t])
  BY <1>0, <1>1 DEF DataAt
<1>12. Agrees(disk, bs, q, todo'[t])
  <2> SUFFICES ASSUME NEW i \in 1 .. r.size, r.off + i <= SizeOf(bs)
               PROVE  \/ e[i] = ByteOf(disk, bs, r.off + i)
                      \/ \E u \in todo'[t] : u.buf < i /\ i <= u.buf + u.len
    BY <1>10 DEF Agrees
  <2>0. i \in Nat /\ i \in DOMAIN r.data
    BY <1>4
  <2>1. CASE i > s.buf /\ i <= s.buf + s.len
    <3>1. s.buf < i
      BY <1>6, <2>0, <2>1 DEF SliceOf
    <3>2. ByteOf(disk, bs, r.off + i) = disk[s.tgt][s.at + i - s.buf - 1]
      BY <1>4, <1>6, <2>0, <2>1, <3>1, SliceBytes
    <3>3. e[i] = disk[s.tgt][s.at + i - s.buf - 1]
      BY <1>7, <2>0, <2>1
    <3> QED BY <3>2, <3>3
  <2>2. CASE ~ (i > s.buf /\ i <= s.buf + s.len)
    <3>1. e[i] = r.data[i]
      BY <1>7, <2>0, <2>2
    <3>2. ~ (s.buf < i /\ i <= s.buf + s.len)
      BY <1>6, <2>0, <2>2 DEF SliceOf
    <3>3. \/ r.data[i] = ByteOf(disk, bs, r.off + i)
          \/ \E u \in todo[t] : u.buf < i /\ i <= u.buf + u.len
      BY <1>11 DEF Agrees
    <3> QED BY <1>9, <3>1, <3>2, <3>3
  <2> QED BY <2>1, <2>2
<1>13. DataAt(pc'[t], disk, blocks'[b], req'[t], todo'[t], content'[b])
  BY <1>1, <1>3, <1>9, <1>11, <1>12 DEF DataAt
<1> QED BY <1>1, <1>2, <1>3, <1>9, <1>13, DataQuiet

\* A buffer that is filled is what the blocks hold.
LEMMA Filled ==
  ASSUME NEW d, NEW bs \in Seq(BlobBlock), NEW r \in Request,
         Agrees(d, bs, r, {}), NEW i \in 1 .. r.size, r.off + i <= SizeOf(bs)
  PROVE  r.data[i] = ByteOf(d, bs, r.off + i)
BY DEF Agrees

\* A blob that was read as a whole is in the buffer.
LEMMA ReadCarries ==
  ASSUME NEW d, NEW bs \in Seq(BlobBlock), NEW r \in Request, NEW c \in Seq(Val),
         Agrees(d, bs, r, {}), Covers(d, bs, c), r.off = 0, r.size = SizeOf(bs)
  PROVE  Carries(r, c)
<1>1. Len(c) <= SizeOf(bs) /\ SizeOf(bs) \in Nat /\ Len(c) \in Nat
  BY BlocksSized, EndsFacts DEF Covers
<1>2. ASSUME NEW i \in 1 .. Len(c), c[i] # 0 PROVE r.data[i] = c[i]
  <2>1. i \in 1 .. r.size /\ r.off + i <= SizeOf(bs) /\ r.off + i = i
    BY <1>1
  <2>2. r.data[i] = ByteOf(d, bs, i)
    BY <2>1, Filled
  <2> QED BY <1>2, <2>2 DEF Covers
<1> QED BY <1>1, <1>2 DEF Carries

\* The end of the reads: the buffer has what was put.
LEMMA ReadDoneData ==
  ASSUME Inv, Data, NEW t \in Tasks, ReadDone(t)
  PROVE  Data'
<1>0. Types /\ TaskOK(t) /\ pc[t] = "read" /\ todo[t] = {}
  BY DEF Inv, ReadDone
<1>1. PICK b \in Blobs, r \in Request, bs \in Seq(BlobBlock), c \in Seq(Val) :
        /\ b = req[t].blob /\ r = req[t] /\ bs = blocks[b] /\ c = content[b]
        /\ Works(t, b) /\ r.blob = b
        /\ DataAt(pc[t], disk, bs, r, todo[t], c)
  BY <1>0, OwnData
<1>2. Only(t, b)
  BY <1>1, ReadDoneInv
<1>3. disk' = disk /\ blocks' = blocks /\ content' = content
  BY DEF ReadDone, blobVars, bdevVars, history
<1>4. Covers(disk, bs, c) /\ Agrees(disk, bs, r, {})
  BY <1>0, <1>1 DEF DataAt
<1>5. CASE r.kind = "get"
  <2>1. pc' = [pc EXCEPT ![t] = "idle"]
    BY <1>1, <1>5 DEF ReadDone, Answer, Goto
  <2>2. pc'[t] = "idle"
    BY <1>0, <2>1 DEF Types, TaskTypes
  <2> QED BY <1>1, <1>2, <1>3, <1>4, <2>2, DataQuiet
<1>6. CASE r.kind # "get"
  <2>1. r.off = 0 /\ r.size = SizeOf(bs)
    <3>1. Serves(t) /\ AtRead(t)
      BY <1>0 DEF TaskOK
    <3> QED BY <1>1, <1>6, <3>1 DEF Serves, AtRead, Size
  <2>2. Carries(r, c)
    BY <1>4, <2>1, ReadCarries
  <2>3. req' = req /\ \E p \in {"reput", "free"} : pc' = [pc EXCEPT ![t] = p]
    BY <1>1, <1>6 DEF ReadDone, Goto
  <2>4. req'[t] = r /\ pc'[t] \in {"reput", "free"}
    BY <1>0, <1>1, <2>3 DEF Types, TaskTypes
  <2>5. DataAt(pc'[t], disk, blocks'[b], req'[t], todo'[t], content'[b])
    BY <1>1, <1>3, <2>2, <2>4 DEF DataAt
  <2>6. pc'[t] # "idle"
    BY <2>4
  <2> QED BY <1>1, <1>2, <1>3, <2>5, <2>6, DataQuiet
<1> QED BY <1>5, <1>6

\* ReadData begins with every byte in a slice to read.
LEMMA BeginReadData ==
  ASSUME Inv, Data, NEW t \in Tasks, NEW r \in Request, NEW b \in Blobs, b = r.blob, Works(t, b),
         Only(t, b), pc[t] = "idle", BeginRead(t, r), UNCHANGED <<disk, blocks, content>>
  PROVE  Data'
<1>0. Types
  BY DEF Inv
<1>1. PICK bs \in Seq(BlobBlock), c \in Seq(Val) : bs = blocks[b] /\ c = content[b]
  BY <1>0 DEF Types, BlobTypes, OtherTypes
<1>2. PICK q : q = [r EXCEPT !.data = Blank(r.size)]
  OBVIOUS
<1>3. q.off = r.off /\ q.size = r.size /\ r.off \in Nat /\ r.size \in Nat
  BY <1>2 DEF Request
<1>4. req'[t] = q /\ todo'[t] = Slices(bs, r.off, r.size) /\ pc'[t] = "read"
  BY <1>0, <1>1, <1>2 DEF BeginRead, Goto, Types, TaskTypes
<1>5. Unused(b)
  BY DEF Works, Unused
<1>6. Covers(disk, bs, c)
  BY <1>1, <1>5 DEF Data
<1>7. Agrees(disk, bs, q, todo'[t])
  <2>1. \A i \in 1 .. r.size : r.off + i <= SizeOf(bs) =>
           \E s \in Slices(bs, r.off, r.size) : s.buf < i /\ i <= s.buf + s.len
    BY <1>3, SlicesCover
  <2> QED BY <1>3, <1>4, <2>1 DEF Agrees
<1>8. DataAt(pc'[t], disk, blocks'[b], req'[t], todo'[t], content'[b])
  BY <1>1, <1>4, <1>6, <1>7 DEF DataAt
<1> QED BY <1>4, <1>8, DataQuiet

-----------------------------------------------------------------------------
(* Freeing and growing.                                                    *)

\* An empty history is held by any blocks.
LEMMA CoversNothing ==
  ASSUME NEW d, NEW bs \in Seq(BlobBlock)
  PROVE  Covers(d, bs, <<>>)
<1>1. SizeOf(bs) \in Nat
  BY BlocksSized, EndsFacts
<1> QED BY <1>1 DEF Covers

\* Frees and allocations leave the buffer and what was put.
LEMMA OnTheWayData ==
  ASSUME Inv, Data, NEW t \in Tasks, Only(t, req[t].blob),
         \/ pc[t] \in {"free", "freed"} /\ pc'[t] \in {"free", "freed"}
         \/ pc[t] \in {"extend", "alloc", "bdev"} /\ pc'[t] \in {"extend", "alloc", "bdev"},
         UNCHANGED <<disk, blocks, content, req>>
  PROVE  Data'
<1>1. PICK b \in Blobs, r \in Request, bs \in Seq(BlobBlock), c \in Seq(Val) :
        /\ b = req[t].blob /\ r = req[t] /\ bs = blocks[b] /\ c = content[b]
        /\ Works(t, b) /\ r.blob = b
        /\ DataAt(pc[t], disk, bs, r, todo[t], c)
  BY OwnData
<1>2. DataAt(pc'[t], disk, bs, r, todo'[t], c)
  BY <1>1 DEF DataAt
<1>3. DataAt(pc'[t], disk, blocks'[b], req'[t], todo'[t], content'[b]) /\ pc'[t] # "idle" /\ Only(t, b)
  BY <1>1, <1>2
<1> QED BY <1>1, <1>3, DataQuiet

\* FreeBlocks touches no byte.
LEMMA BdevFreeData ==
  ASSUME Inv, Data, NEW t \in Tasks, NEW g \in todo[t], BdevFree(t, g)
  PROVE  Data'
<1>1. Only(t, req[t].blob)
  BY BdevFreeInv
<1>2. UNCHANGED <<disk, blocks, content, req>>
  BY DEF BdevFree, blobVars, history
<1>3. pc[t] = "free" /\ pc'[t] = "freed"
  BY DEF BdevFree, Goto, Inv, Types, TaskTypes
<1> QED BY <1>1, <1>2, <1>3, OnTheWayData

\* The credit touches no byte.
LEMMA CreditData ==
  ASSUME Inv, Data, NEW t \in Tasks, Credit(t)
  PROVE  Data'
<1>1. Only(t, req[t].blob)
  BY CreditInv
<1>2. UNCHANGED <<disk, blocks, content, req>>
  BY DEF Credit, blobVars, bdevVars, history
<1>3. pc[t] = "freed" /\ pc'[t] = "free"
  BY DEF Credit, Goto, Inv, Types, TaskTypes
<1> QED BY <1>1, <1>2, <1>3, OnTheWayData

\* Trying a target touches no byte.
LEMMA TryTargetData ==
  ASSUME Inv, Data, NEW t \in Tasks, TryTarget(t)
  PROVE  Data'
<1>1. Only(t, req[t].blob)
  BY TryTargetInv
<1>2. UNCHANGED <<disk, blocks, content, req>>
  BY DEF TryTarget, blobVars, bdevVars, history
<1>3. pc[t] = "alloc" /\ pc'[t] \in {"alloc", "bdev"}
  <2>1. pc[t] = "alloc" /\ (pc' = pc \/ pc' = [pc EXCEPT ![t] = "bdev"])
    BY DEF TryTarget, Goto
  <2> QED BY <2>1 DEF Inv, Types, TaskTypes
<1> QED BY <1>1, <1>2, <1>3, OnTheWayData

\* AllocateBlocks touches no byte.
LEMMA BdevAllocateData ==
  ASSUME Inv, Data, NEW t \in Tasks, BdevAllocate(t)
  PROVE  Data'
<1>1. Only(t, req[t].blob)
  BY BdevAllocateInv
<1>2. UNCHANGED <<disk, blocks, content, req>>
  BY DEF BdevAllocate, blobVars, history
<1>3. pc[t] = "bdev" /\ pc'[t] \in {"alloc", "bdev"}
  <2>1. pc[t] = "bdev" /\ (pc' = pc \/ pc' = [pc EXCEPT ![t] = "alloc"])
    BY DEF BdevAllocate, Goto
  <2> QED BY <2>1 DEF Inv, Types, TaskTypes
<1> QED BY <1>1, <1>2, <1>3, OnTheWayData

\* The block AllocateFromTarget appends leaves the bytes before it.
LEMMA TakeFirstBlockData ==
  ASSUME Inv, Data, NEW t \in Tasks, TakeFirstBlock(t)
  PROVE  Data'
<1>0. Types /\ pc[t] = "bdev"
  BY DEF Inv, TakeFirstBlock
<1>1. PICK b \in Blobs, r \in Request, bs \in Seq(BlobBlock), c \in Seq(Val) :
        /\ b = req[t].blob /\ r = req[t] /\ bs = blocks[b] /\ c = content[b]
        /\ Works(t, b) /\ r.blob = b
        /\ DataAt(pc[t], disk, bs, r, todo[t], c)
  BY <1>0, OwnData
<1>2. Only(t, b) /\ Inv'
  BY <1>1, TakeFirstBlockInv
<1>3. disk' = disk /\ content' = content /\ req' = req /\ pc' = [pc EXCEPT ![t] = "alloc"]
  BY DEF TakeFirstBlock, bdevVars, history, Goto
<1>4. PICK e : blocks' = [blocks EXCEPT ![b] = Append(bs, e)]
  BY <1>1 DEF TakeFirstBlock
<1>5. blocks'[b] = Append(bs, e) /\ pc'[t] = "alloc"
  BY <1>0, <1>3, <1>4 DEF Types, BlobTypes, TaskTypes
<1>6. e \in BlobBlock
  <2>1. blocks'[b] \in Seq(BlobBlock)
    BY <1>2 DEF Inv, Types, BlobTypes
  <2>2. Append(bs, e) \in Seq(BlobBlock)
    BY <1>5, <2>1
  <2>3. Len(Append(bs, e)) = Len(bs) + 1 /\ Append(bs, e)[Len(bs) + 1] = e /\ Len(bs) \in Nat
    OBVIOUS
  <2>4. Append(bs, e)[Len(bs) + 1] \in BlobBlock
    BY <2>2, <2>3
  <2> QED BY <2>3, <2>4
<1>7. IF r.kind = "put" THEN Covers(disk, bs, c) ELSE Carries(r, c)
  BY <1>0, <1>1 DEF DataAt
<1>8. Covers(disk, bs, c) => Covers(disk, Append(bs, e), c)
  <2> SUFFICES ASSUME Covers(disk, bs, c) PROVE Covers(disk, Append(bs, e), c)
    OBVIOUS
  <2>1. Len(c) \in Nat /\ SizeOf(bs) \in Nat /\ Len(c) <= SizeOf(bs)
    BY BlocksSized, EndsFacts DEF Covers
  <2>2. SizeOf(Append(bs, e)) = SizeOf(bs) + e.size /\ e.size \in Nat
    <3>1. Sized(bs) /\ e.size \in Nat
      BY <1>6, BlocksSized DEF BlobBlock
    <3> QED BY <1>6, <3>1, AppendEnds
  <2>3. Len(c) <= SizeOf(Append(bs, e))
    BY <2>1, <2>2
  <2>4. ASSUME NEW i \in 1 .. Len(c), c[i] # 0 PROVE ByteOf(disk, Append(bs, e), i) = c[i]
    <3>1. i \in 1 .. SizeOf(bs)
      BY <2>1
    <3>2. ByteOf(disk, Append(bs, e), i) = ByteOf(disk, bs, i)
      BY <1>6, <3>1, AppendBytes
    <3> QED BY <2>4, <3>2 DEF Covers
  <2> QED BY <2>3, <2>4 DEF Covers
<1>9. DataAt(pc'[t], disk, blocks'[b], req'[t], todo'[t], content'[b])
  BY <1>1, <1>3, <1>5, <1>7, <1>8 DEF DataAt
<1> QED BY <1>1, <1>2, <1>3, <1>5, <1>9, DataQuiet

\* PutBlob gives up: what it had not cleared is there, what it carried is gone.
LEMMA FailData ==
  ASSUME Inv, Data, NEW t \in Tasks, pc[t] \in {"extend", "alloc"}, NEW code, Fail(t, code),
         Only(t, req[t].blob), UNCHANGED <<disk, blocks>>
  PROVE  Data'
<1>0. Types
  BY DEF Inv
<1>1. PICK b \in Blobs, r \in Request, bs \in Seq(BlobBlock), c \in Seq(Val) :
        /\ b = req[t].blob /\ r = req[t] /\ bs = blocks[b] /\ c = content[b]
        /\ Works(t, b) /\ r.blob = b
        /\ DataAt(pc[t], disk, bs, r, todo[t], c)
  BY OwnData
<1>2. pc'[t] = "idle"
  BY <1>0 DEF Fail, Answer, Goto, Types, TaskTypes
<1>3. content'[b] = IF r.kind = "put" THEN c ELSE <<>>
  BY <1>0, <1>1 DEF Fail, Types, OtherTypes
<1>4. r.kind = "put" => Covers(disk, bs, c)
  BY <1>1 DEF DataAt
<1>5. Covers(disk, blocks'[b], content'[b])
  BY <1>1, <1>3, <1>4, CoversNothing
<1> QED BY <1>1, <1>2, <1>5, DataQuiet

\* The writes begin with every byte of the buffer in a slice to write.
LEMMA BeginWriteData ==
  ASSUME Inv, Data, NEW t \in Tasks, pc[t] \in {"extend", "alloc"}, BeginWrite(t),
         Only(t, req[t].blob), UNCHANGED <<disk, blocks, content, req>>
  PROVE  Data'
<1>0. Types
  BY DEF Inv
<1>1. PICK b \in Blobs, r \in Request, bs \in Seq(BlobBlock), c \in Seq(Val) :
        /\ b = req[t].blob /\ r = req[t] /\ bs = blocks[b] /\ c = content[b]
        /\ Works(t, b) /\ r.blob = b
        /\ DataAt(pc[t], disk, bs, r, todo[t], c)
  BY OwnData
<1>2. pc'[t] = "write" /\ todo'[t] = Slices(bs, r.off, r.size)
  BY <1>0, <1>1 DEF BeginWrite, Goto, Types, TaskTypes
<1>3. r.off \in Nat /\ r.size \in Nat
  BY DEF Request
<1>4. Agrees(disk, bs, r, todo'[t])
  <2>1. \A i \in 1 .. r.size : r.off + i <= SizeOf(bs) =>
           \E s \in Slices(bs, r.off, r.size) : s.buf < i /\ i <= s.buf + s.len
    BY <1>3, SlicesCover
  <2> QED BY <1>2, <2>1 DEF Agrees
<1>5. IF r.kind = "put" THEN Covers(disk, bs, c) ELSE Carries(r, c)
  BY <1>1 DEF DataAt
<1>6. Covers(disk, bs, c) => Beside(disk, bs, r, c)
  BY DEF Covers, Beside
<1>7. DataAt(pc'[t], disk, bs, r, todo'[t], c)
  BY <1>2, <1>4, <1>5, <1>6 DEF DataAt
<1>8. DataAt(pc'[t], disk, blocks'[b], req'[t], todo'[t], content'[b]) /\ pc'[t] # "idle" /\ Only(t, b)
  BY <1>1, <1>2, <1>7
<1> QED BY <1>1, <1>8, DataQuiet

\* ExtendBlob leaves the bytes there are.
LEMMA ExtendBlobData ==
  ASSUME Inv, Data, NEW t \in Tasks, ExtendBlob(t)
  PROVE  Data'
<1>1. Only(t, req[t].blob)
  BY ExtendBlobInv
<1>2. pc[t] = "extend" /\ UNCHANGED <<disk, blocks>>
  BY DEF ExtendBlob, blobVars, bdevVars
<1>3. \/ BeginWrite(t) /\ UNCHANGED <<content, req>>
      \/ Goto(t, "alloc") /\ UNCHANGED <<content, req>>
      \/ \E code : Fail(t, code)
  BY DEF ExtendBlob
<1>4. Goto(t, "alloc") => pc'[t] = "alloc"
  BY DEF Goto, Inv, Types, TaskTypes
<1> QED BY <1>1, <1>2, <1>3, <1>4, BeginWriteData, FailData, OnTheWayData

\* So does the end of the loop over the targets.
LEMMA AllocatedData ==
  ASSUME Inv, Data, NEW t \in Tasks, Allocated(t)
  PROVE  Data'
<1>1. Only(t, req[t].blob)
  BY AllocatedInv
<1>2. pc[t] = "alloc" /\ UNCHANGED <<disk, blocks>>
  BY DEF Allocated, blobVars, bdevVars
<1>3. \/ BeginWrite(t) /\ UNCHANGED <<content, req>>
      \/ Fail(t, 3)
  BY DEF Allocated
<1> QED BY <1>1, <1>2, <1>3, BeginWriteData, FailData

\* The end of the frees: a blob put anew has nothing, one that moves is in the
\* buffer.
LEMMA FreedAllData ==
  ASSUME Inv, Data, NEW t \in Tasks, FreedAll(t)
  PROVE  Data'
<1>0. Types /\ pc[t] = "free"
  BY DEF Inv, FreedAll
<1>1. PICK b \in Blobs, r \in Request, bs \in Seq(BlobBlock), c \in Seq(Val) :
        /\ b = req[t].blob /\ r = req[t] /\ bs = blocks[b] /\ c = content[b]
        /\ Works(t, b) /\ r.blob = b
        /\ DataAt(pc[t], disk, bs, r, todo[t], c)
  BY <1>0, OwnData
<1>2. Only(t, b)
  BY <1>1, FreedAllInv
<1>3. disk' = disk
  BY DEF FreedAll, bdevVars
<1>4. r.kind \notin {"put", "del"} => Carries(r, c)
  BY <1>0, <1>1 DEF DataAt
<1>5. Covers(disk, <<>>, <<>>)
  <2>1. <<>> \in Seq(BlobBlock)
    OBVIOUS
  <2> QED BY <2>1, CoversNothing
<1>6. CASE r.kind = "flush"
  <2>1. /\ req' = [req EXCEPT ![t].kind = "reput"]
        /\ pc' = [pc EXCEPT ![t] = "reput"]
        /\ content' = content
    BY <1>1, <1>6 DEF FreedAll, Goto
  <2>2. PICK q : q = [r EXCEPT !.kind = "reput"]
    OBVIOUS
  <2>3. q.size = r.size /\ q.data = r.data
    BY <1>1, <2>2 DEF Request
  <2>4. req' = [req EXCEPT ![t] = q]
    BY <1>1, <2>1, <2>2
  <2>5. req'[t] = q /\ pc'[t] = "reput" /\ content'[b] = c
    BY <1>0, <1>1, <2>1, <2>4 DEF Types, TaskTypes
  <2>6. Carries(q, c)
    BY <1>4, <1>6, <2>3 DEF Carries
  <2>7. DataAt(pc'[t], disk, blocks'[b], req'[t], todo'[t], content'[b])
    BY <2>5, <2>6 DEF DataAt
  <2> QED BY <1>1, <1>2, <1>3, <2>5, <2>7, DataQuiet
<1>7. CASE r.kind = "del"
  <2>1. /\ blocks' = [blocks EXCEPT ![b] = <<>>]
        /\ content' = [content EXCEPT ![b] = <<>>]
        /\ pc' = [pc EXCEPT ![t] = "idle"]
    BY <1>1, <1>7 DEF FreedAll, Answer, Goto
  <2>2. pc'[t] = "idle" /\ blocks'[b] = <<>> /\ content'[b] = <<>>
    BY <1>0, <2>1 DEF Types, TaskTypes, BlobTypes, OtherTypes
  <2> QED BY <1>1, <1>2, <1>3, <1>5, <2>2, DataQuiet
<1>8. CASE r.kind \notin {"flush", "del"}
  <2>1. /\ blocks' = [blocks EXCEPT ![b] = <<>>]
        /\ content' = IF r.kind = "put" THEN [content EXCEPT ![b] = <<>>] ELSE content
        /\ pc' = [pc EXCEPT ![t] = "extend"]
        /\ req' = req
    BY <1>1, <1>8 DEF FreedAll, Goto
  <2>2. /\ pc'[t] = "extend" /\ blocks'[b] = <<>> /\ req'[t] = r
        /\ content'[b] = IF r.kind = "put" THEN <<>> ELSE c
    BY <1>0, <1>1, <2>1 DEF Types, TaskTypes, BlobTypes, OtherTypes
  <2>3. DataAt(pc'[t], disk, blocks'[b], req'[t], todo'[t], content'[b])
    BY <1>4, <1>5, <1>8, <2>2 DEF DataAt
  <2> QED BY <1>1, <1>2, <1>3, <2>2, <2>3, DataQuiet
<1> QED BY <1>6, <1>7, <1>8

\* A PutBlob begins: it frees the blob's blocks, or keeps them as they are.
LEMMA BeginPutData ==
  ASSUME Inv, Data, NEW t \in Tasks, NEW r \in Request, NEW b \in Blobs, b = r.blob, Works(t, b),
         Only(t, b), BeginPut(t, r), UNCHANGED <<disk, content>>,
         r.kind = "put" => Covers(disk, blocks[b], content[b]),
         r.kind # "put" => Carries(r, content[b])
  PROVE  Data'
<1>0. Types
  BY DEF Inv
<1>1. PICK p \in {"free", "extend"} : pc' = [pc EXCEPT ![t] = p]
  BY DEF BeginPut, Goto
<1>1a. PICK sc : req' = [req EXCEPT ![t] = [r EXCEPT !.score = sc]]
  BY DEF BeginPut
<1>1b. blocks' = blocks
  BY DEF BeginPut
<1>2. PICK q : q = [r EXCEPT !.score = sc]
  OBVIOUS
<1>3. q.kind = r.kind /\ q.size = r.size /\ q.data = r.data
  BY <1>2 DEF Request
<1>4. req'[t] = q /\ pc'[t] = p
  BY <1>0, <1>1, <1>1a, <1>2 DEF Types, TaskTypes
<1>5. Carries(r, content[b]) => Carries(q, content[b])
  BY <1>3 DEF Carries
<1>6. DataAt(p, disk, blocks[b], q, todo'[t], content[b])
  BY <1>3, <1>5 DEF DataAt
<1>7. DataAt(pc'[t], disk, blocks'[b], req'[t], todo'[t], content'[b]) /\ pc'[t] # "idle"
  BY <1>1, <1>1b, <1>4, <1>6
<1> QED BY <1>7, DataQuiet

\* The blob that moves stays in the buffer.
LEMMA RePutData ==
  ASSUME Inv, Data, NEW t \in Tasks, RePut(t)
  PROVE  Data'
<1>0. TaskOK(t) /\ pc[t] = "reput"
  BY DEF Inv, RePut
<1>1. PICK b \in Blobs, r \in Request, bs \in Seq(BlobBlock), c \in Seq(Val) :
        /\ b = req[t].blob /\ r = req[t] /\ bs = blocks[b] /\ c = content[b]
        /\ Works(t, b) /\ r.blob = b
        /\ DataAt(pc[t], disk, bs, r, todo[t], c)
  BY <1>0, OwnData
<1>2. Only(t, b)
  BY <1>1, RePutInv
<1>3. BeginPut(t, r) /\ UNCHANGED <<disk, content>>
  BY <1>1 DEF RePut, bdevVars, history
<1>4. Carries(r, c)
  BY <1>0, <1>1 DEF DataAt
<1>5. r.kind # "put"
  BY <1>0, <1>1 DEF TaskOK, AtReput
<1> QED BY <1>1, <1>2, <1>3, <1>4, <1>5, BeginPutData

-----------------------------------------------------------------------------
(* Writing.                                                                *)

\* The blocks of a blob that is not being freed are laid out, and apart from
\* those of another.
LEMMA BlobsLaid ==
  ASSUME Inv, NEW b \in Blobs, ~ BeingFreed(b)
  PROVE  /\ Laid(blocks[b])
         /\ \A c \in Blobs \ {b} : ~ BeingFreed(c) =>
              \A i \in 1 .. Len(blocks[b]) : \A j \in 1 .. Len(blocks[c]) :
                 blocks[c][j].tgt = blocks[b][i].tgt => Apart(blocks[b][i], blocks[c][j])
<1>0. BlocksApart /\ Types /\ \A c \in Blobs : BlobOK(c)
  BY InvApart DEF StorageInv, Inv
<1>1. \A c \in Blobs : DOMAIN blocks[c] = 1 .. Len(blocks[c])
  BY <1>0 DEF Types, BlobTypes
<1>2. \A c \in Blobs : c \notin exists => Len(blocks[c]) = 0
  BY <1>0 DEF BlobOK
<1>3. CASE b \notin exists
  BY <1>2, <1>3 DEF Laid
<1>4. CASE b \in exists
  <2>1. Laid(blocks[b])
    <3>1. \A i \in 1 .. Len(blocks[b]) :
            blocks[b][i].off + blocks[b][i].size <= Capacity[blocks[b][i].tgt]
      BY <1>0, <1>1, <1>4 DEF BlocksApart
    <3>2. \A i, j \in 1 .. Len(blocks[b]) :
            i # j /\ blocks[b][j].tgt = blocks[b][i].tgt => Apart(blocks[b][i], blocks[b][j])
      BY <1>0, <1>1, <1>4 DEF BlocksApart
    <3> QED BY <3>1, <3>2 DEF Laid
  <2>2. ASSUME NEW c \in Blobs \ {b}, ~ BeingFreed(c),
               NEW i \in 1 .. Len(blocks[b]), NEW j \in 1 .. Len(blocks[c]),
               blocks[c][j].tgt = blocks[b][i].tgt
        PROVE  Apart(blocks[b][i], blocks[c][j])
    <3>1. c \in exists
      BY <1>2, <2>2
    <3> QED BY <1>0, <1>1, <1>4, <2>2, <3>1 DEF BlocksApart
  <2> QED BY <2>1, <2>2
<1> QED BY <1>3, <1>4

\* A write of a slice changes the bytes of the slice, and no other blob's.
LEMMA BdevWriteData ==
  ASSUME Inv, Data, NEW t \in Tasks, NEW s, BdevWrite(t, s)
  PROVE  Data'
<1>0. Types /\ TaskOK(t) /\ pc[t] = "write" /\ s \in todo[t]
  BY DEF Inv, BdevWrite
<1>1. PICK b \in Blobs, r \in Request, bs \in Seq(BlobBlock), c \in Seq(Val) :
        /\ b = req[t].blob /\ r = req[t] /\ bs = blocks[b] /\ c = content[b]
        /\ Works(t, b) /\ r.blob = b
        /\ DataAt(pc[t], disk, bs, r, todo[t], c)
  BY <1>0, OwnData
<1>2. Only(t, b)
  BY <1>1, BdevWriteInv
<1>3. pc' = pc /\ req' = req /\ blocks' = blocks /\ content' = content
      /\ todo' = [todo EXCEPT ![t] = todo[t] \ {s}]
  BY DEF BdevWrite, blobVars, history
<1>4. r.off \in Nat /\ r.size \in Nat
  BY DEF Request
<1>5. s \in Slices(bs, r.off, r.size)
  BY <1>0, <1>1 DEF TaskOK, AtWrite
<1>6. s \in Slice /\ \E l \in 1 .. Len(bs) : SliceOf(s, bs, r.off, r.size, l)
  BY <1>4, <1>5, SlicesLie
<1>7. PICK k \in 1 .. Len(bs) : SliceOf(s, bs, r.off, r.size, k)
  BY <1>6
<1>8a. PICK d, e, v : d = disk /\ e = disk' /\ v = r.data
  OBVIOUS
<1>8b. PICK off \in Nat, n \in Nat : off = r.off /\ n = r.size
  BY <1>4
<1>8. d = disk /\ e = disk' /\ v = r.data /\ off = r.off /\ n = r.size
  BY <1>8a, <1>8b
<1>9. IsDisk(d)
  BY <1>0, <1>8 DEF IsDisk, Types, DiskTypes
<1>10. Wrote(d, e, s, v)
  BY <1>1, <1>8 DEF BdevWrite, Wrote
<1>11. ~ BeingFreed(b)
  BY <1>0, <1>1 DEF BeingFreed, Works
<1>12. Laid(bs) /\ SliceOf(s, bs, off, n, k)
  BY <1>1, <1>7, <1>8, <1>11, BlobsLaid
<1>13. \A p \in 1 .. SizeOf(bs) :
          ByteOf(e, bs, p) = IF off + s.buf < p /\ p <= off + s.buf + s.len
                             THEN v[p - off] ELSE ByteOf(d, bs, p)
  BY <1>6, <1>9, <1>10, <1>12, WriteOwn
<1>14. PICK sb \in Nat, sl \in Nat : sb = s.buf /\ sl = s.len /\ sb + sl <= n
  BY <1>12 DEF SliceOf
<1>15. SizeOf(bs) \in Nat /\ Len(c) \in Nat
  BY BlocksSized, EndsFacts
<1>16. pc'[t] = "write" /\ req'[t] = r /\ blocks'[b] = bs /\ content'[b] = c /\ todo'[t] = todo[t] \ {s}
  BY <1>0, <1>1, <1>3 DEF Types, TaskTypes
<1>17. Agrees(d, bs, r, todo[t]) /\ IF r.kind = "put" THEN Beside(d, bs, r, c) ELSE Carries(r, c)
  BY <1>0, <1>1, <1>8 DEF DataAt
<1>18. Agrees(e, bs, r, todo'[t])
  <2> SUFFICES ASSUME NEW i \in 1 .. n, off + i <= SizeOf(bs)
               PROVE  \/ v[i] = ByteOf(e, bs, off + i)
                      \/ \E u \in todo'[t] : u.buf < i /\ i <= u.buf + u.len
    BY <1>8 DEF Agrees
  <2>1. off + i \in 1 .. SizeOf(bs) /\ i \in Nat
    BY <1>15
  <2>2. PICK p \in 1 .. SizeOf(bs) : p = off + i
    BY <2>1
  <2>3. ByteOf(e, bs, p) = IF off + s.buf < p /\ p <= off + s.buf + s.len
                           THEN v[p - off] ELSE ByteOf(d, bs, p)
    BY <1>13
  <2>4. CASE sb < i /\ i <= sb + sl
    <3>1. off + sb < p /\ p <= off + sb + sl /\ p - off = i
      BY <2>1, <2>2, <2>4
    <3>2. ByteOf(e, bs, p) = v[i]
      BY <1>14, <2>3, <3>1
    <3> QED BY <2>2, <3>2
  <2>5. CASE ~ (sb < i /\ i <= sb + sl)
    <3>1. ~ (off + sb < p /\ p <= off + sb + sl)
      BY <2>1, <2>2, <2>5
    <3>2. ByteOf(e, bs, p) = ByteOf(d, bs, p)
      BY <1>14, <2>3, <3>1
    <3>3. \/ v[i] = ByteOf(d, bs, off + i)
          \/ \E u \in todo[t] : u.buf < i /\ i <= u.buf + u.len
      BY <1>8, <1>17 DEF Agrees
    <3>4. ~ (s.buf < i /\ i <= s.buf + s.len)
      BY <1>14, <2>5
    <3> QED BY <1>16, <2>2, <3>2, <3>3, <3>4
  <2> QED BY <2>4, <2>5
<1>19. Beside(d, bs, r, c) => Beside(e, bs, r, c)
  <2> SUFFICES ASSUME Beside(d, bs, r, c), NEW i \in 1 .. Len(c), c[i] # 0,
                      ~ (off < i /\ i <= off + n)
               PROVE  ByteOf(e, bs, i) = c[i]
    BY <1>8 DEF Beside
  <2>1. Len(c) <= SizeOf(bs) /\ ByteOf(d, bs, i) = c[i]
    BY <1>8 DEF Beside
  <2>2. i \in 1 .. SizeOf(bs)
    BY <1>15, <2>1
  <2>3. ~ (off + sb < i /\ i <= off + sb + sl)
    <3> SUFFICES ASSUME off + sb < i, i <= off + sb + sl PROVE FALSE
      OBVIOUS
    <3>1. i \in Nat
      BY <1>15
    <3>2. off < i
      BY <3>1
    <3>3. i <= off + n
      BY <1>14, <3>1
    <3> QED BY <3>2, <3>3
  <2>4. ByteOf(e, bs, i) = ByteOf(d, bs, i)
    BY <1>13, <1>14, <2>2, <2>3
  <2> QED BY <2>1, <2>4
<1>20. DataAt("write", e, bs, r, todo'[t], c)
  BY <1>17, <1>18, <1>19 DEF DataAt
<1>21. DataAt(pc'[t], disk', blocks'[b], req'[t], todo'[t], content'[b])
  BY <1>8, <1>16, <1>20
<1>22. ASSUME NEW g \in Blobs \ {b}, ~ BeingFreed(g) PROVE SameBytes(disk, disk', blocks[g])
  <2>1. PICK cs \in Seq(BlobBlock) : cs = blocks[g]
    BY <1>0 DEF Types, BlobTypes
  <2> SUFFICES ASSUME NEW p \in 1 .. SizeOf(cs) PROVE ByteOf(e, cs, p) = ByteOf(d, cs, p)
    BY <1>8, <2>1 DEF SameBytes
  <2>2. PICK l \in 1 .. Len(cs) : In(cs, l, p)
    BY ByteLies
  <2>3. Laid(cs)
    BY <1>22, <2>1, BlobsLaid
  <2>4. cs[l].tgt = bs[k].tgt => Apart(bs[k], cs[l])
    BY <1>1, <1>11, <1>22, <2>1, BlobsLaid
  <2>5. bs[k] \in BlobBlock
    BY BlockFacts
  <2>6. PICK f \in BlobBlock : f = bs[k]
    BY <2>5
  <2>7. f.tgt = s.tgt /\ f.off <= s.at /\ s.at + s.len <= f.off + f.size
    <3>1. s.at \in Nat /\ f.off \in Nat /\ s.at >= f.off /\ s.tgt = f.tgt /\ s.at + s.len <= f.off + f.size
      BY <1>12, <2>6 DEF SliceOf, BlobBlock
    <3> QED BY <3>1
  <2>8. cs[l].off + cs[l].size <= Capacity[cs[l].tgt] /\ (cs[l].tgt = f.tgt => Apart(f, cs[l]))
    BY <2>3, <2>4, <2>6 DEF Laid
  <2>9. p \in Nat
    BY BlocksSized, EndsFacts
  <2> QED BY <1>6, <1>9, <1>10, <2>2, <2>7, <2>8, <2>9, WriteOther
<1> QED BY <1>1, <1>2, <1>16, <1>21, <1>22, DataStep

\* The end of the writes: the blocks hold what is put now and what was before.
LEMMA PutDoneData ==
  ASSUME Inv, Data, NEW t \in Tasks, PutDone(t)
  PROVE  Data'
<1>0. Types /\ TaskOK(t) /\ pc[t] = "write" /\ todo[t] = {}
  BY DEF Inv, PutDone
<1>1. PICK b \in Blobs, r \in Request, bs \in Seq(BlobBlock), c \in Seq(Val) :
        /\ b = req[t].blob /\ r = req[t] /\ bs = blocks[b] /\ c = content[b]
        /\ Works(t, b) /\ r.blob = b
        /\ DataAt(pc[t], disk, bs, r, todo[t], c)
  BY <1>0, OwnData
<1>2. Only(t, b)
  BY <1>1, PutDoneInv
<1>3. disk' = disk /\ blocks' = blocks /\ pc'[t] = "idle"
  <2>1. pc' = [pc EXCEPT ![t] = "idle"]
    BY DEF PutDone, Answer, Goto
  <2> QED BY <1>0, <2>1 DEF PutDone, bdevVars, Types, TaskTypes
<1>4. r.off \in Nat /\ r.size \in Nat /\ r.data \in Seq(Val)
  BY DEF Request
<1>5. PICK off \in Nat, n \in Nat, v \in Seq(Val) : off = r.off /\ n = r.size /\ v = r.data
  BY <1>4
<1>6. /\ Len(v) = n /\ off + n <= SizeOf(bs) /\ r.kind \in {"put", "reorg", "reput"}
      /\ r.kind # "put" => off = 0
  <2>1. Serves(t) /\ AtGrow(t) /\ AtWrite(t)
    BY <1>0 DEF TaskOK
  <2> QED BY <1>1, <1>5, <2>1 DEF Serves, AtGrow, AtWrite, Size
<1>7. Agrees(disk, bs, r, {}) /\ IF r.kind = "put" THEN Beside(disk, bs, r, c) ELSE Carries(r, c)
  BY <1>0, <1>1 DEF DataAt
<1>8. SizeOf(bs) \in Nat /\ Len(c) \in Nat
  BY BlocksSized, EndsFacts
<1>9. \A i \in 1 .. n : v[i] = ByteOf(disk, bs, off + i)
  <2> SUFFICES ASSUME NEW i \in 1 .. n PROVE v[i] = ByteOf(disk, bs, off + i)
    OBVIOUS
  <2>1. off + i <= SizeOf(bs)
    BY <1>6, <1>8
  <2> QED BY <1>5, <1>7, <2>1, Filled
<1>10. CASE r.kind = "put"
  <2>1. content'[b] = Overlay(c, off, v)
    BY <1>0, <1>1, <1>5, <1>10 DEF PutDone, Types, OtherTypes
  <2>2. PICK o : o = Overlay(c, off, v)
    OBVIOUS
  <2>3. /\ Len(o) = (IF Len(c) >= off + n THEN Len(c) ELSE off + n)
        /\ \A i \in 1 .. Len(o) : o[i] = IF i > off /\ i <= off + n THEN v[i - off]
                                         ELSE IF i <= Len(c) THEN c[i] ELSE 0
    BY <1>6, <2>2, OverlayIs
  <2>4. Len(c) <= SizeOf(bs)
    BY <1>7, <1>10 DEF Beside
  <2>5. Len(o) <= SizeOf(bs) /\ Len(o) \in Nat
    BY <1>6, <1>8, <2>3, <2>4
  <2>6. ASSUME NEW i \in 1 .. Len(o), o[i] # 0 PROVE ByteOf(disk, bs, i) = o[i]
    <3>0. i \in Nat /\ 1 <= i
      BY <2>5
    <3>1. o[i] = IF i > off /\ i <= off + n THEN v[i - off] ELSE IF i <= Len(c) THEN c[i] ELSE 0
      BY <2>3
    <3>2. CASE i > off /\ i <= off + n
      <4>1. PICK j \in 1 .. n : j = i - off
        BY <3>0, <3>2
      <4>2. off + j = i
        BY <3>0, <4>1
      <4>3. v[j] = ByteOf(disk, bs, i)
        BY <1>9, <4>2
      <4> QED BY <3>1, <3>2, <4>1, <4>3
    <3>3. CASE ~ (i > off /\ i <= off + n)
      <4>1. i <= Len(c) /\ o[i] = c[i]
        BY <2>6, <3>1, <3>3
      <4>2. i \in 1 .. Len(c)
        BY <1>8, <3>0, <4>1
      <4>3. ~ (off < i /\ i <= off + n)
        BY <3>0, <3>3
      <4>4. ByteOf(disk, bs, i) = c[i]
        BY <1>5, <1>7, <1>10, <2>6, <4>1, <4>2, <4>3 DEF Beside
      <4> QED BY <4>1, <4>4
    <3> QED BY <3>2, <3>3
  <2>7. Covers(disk, bs, o)
    BY <2>5, <2>6 DEF Covers
  <2>8. Covers(disk, blocks'[b], content'[b])
    BY <1>1, <1>3, <2>1, <2>2, <2>7
  <2> QED BY <1>1, <1>2, <1>3, <2>8, DataQuiet
<1>11. CASE r.kind # "put"
  <2>1. content' = content
    BY <1>1, <1>11 DEF PutDone
  <2>2. Len(c) <= n /\ \A i \in 1 .. Len(c) : c[i] # 0 => v[i] = c[i]
    BY <1>5, <1>7, <1>11 DEF Carries
  <2>3. Len(c) <= SizeOf(bs)
    BY <1>6, <1>8, <1>11, <2>2
  <2>4. ASSUME NEW i \in 1 .. Len(c), c[i] # 0 PROVE ByteOf(disk, bs, i) = c[i]
    <3>1. i \in 1 .. n /\ off + i = i
      BY <1>6, <1>8, <1>11, <2>2
    <3>2. v[i] = ByteOf(disk, bs, i)
      BY <1>9, <3>1
    <3> QED BY <2>2, <2>4, <3>2
  <2>5. Covers(disk, bs, c)
    BY <2>3, <2>4 DEF Covers
  <2>6. Covers(disk, blocks'[b], content'[b])
    BY <1>1, <1>3, <2>1, <2>5
  <2> QED BY <1>1, <1>2, <1>3, <2>6, DataQuiet
<1> QED BY <1>10, <1>11

-----------------------------------------------------------------------------
(* Requests, and the whole of Next.                                        *)

\* A request begins on a blob nobody uses, whose blocks hold what was put.
LEMMA CallData ==
  ASSUME Fits, Inv, Data, NEW t \in Clients, NEW c \in Calls, Accepts(t, c)
  PROVE  /\ t \in Tasks /\ c \in CallSet /\ c \in Request /\ c.blob \in Blobs
         /\ pc[t] = "idle" /\ Works(t, c.blob)
         /\ Covers(disk, blocks[c.blob], content[c.blob])
<1>1. t \in Tasks /\ c \in CallSet /\ pc[t] = "idle" /\ c.blob \in Blobs /\ Works(t, c.blob)
  BY AcceptsAlone
<1>2. Unused(c.blob)
  BY <1>1 DEF Works, Unused
<1>3. c \in Request
  BY <1>1, CallIsRequest
<1> QED BY <1>1, <1>2, <1>3 DEF Data

\* PutBlob begins on blocks that hold what was put.
LEMMA PutBlobData ==
  ASSUME Fits, Inv, Data, NEW t \in Clients, NEW c \in Calls, PutBlob(t, c)
  PROVE  Data'
<1>0. Accepts(t, c) /\ c.kind = "put"
  BY DEF PutBlob
<1>1. /\ t \in Tasks /\ c \in CallSet /\ c \in Request /\ c.blob \in Blobs
      /\ pc[t] = "idle" /\ Works(t, c.blob)
      /\ Covers(disk, blocks[c.blob], content[c.blob])
  BY <1>0, CallData
<1>2. Only(t, c.blob)
  BY PutBlobInv
<1>3. PICK d : d = [i \in 1 .. c.size |-> ops + 1]
  OBVIOUS
<1>4. PICK r : r = [c EXCEPT !.data = d]
  OBVIOUS
<1>5. d \in Seq(Val)
  <2>1. c.size \in Nat
    BY <1>1 DEF CallSet
  <2>2. ops + 1 \in Val
    BY <1>0, AcceptsAlone
  <2> QED BY <1>3, <2>1, <2>2
<1>6. r \in Request /\ r.kind = "put" /\ r.blob = c.blob
  BY <1>0, <1>1, <1>4, <1>5 DEF Request
<1>7. BeginPut(t, r)
  BY <1>3, <1>4 DEF PutBlob
<1>8. UNCHANGED <<disk, content>>
  BY DEF PutBlob, bdevVars
<1> QED BY <1>1, <1>2, <1>6, <1>7, <1>8, BeginPutData

\* GetBlob begins on blocks that hold what was put.
LEMMA GetBlobData ==
  ASSUME Fits, Inv, Data, NEW t \in Clients, NEW c \in Calls, GetBlob(t, c)
  PROVE  Data'
<1>0. Accepts(t, c)
  BY DEF GetBlob
<1>1. /\ t \in Tasks /\ c \in Request /\ c.blob \in Blobs /\ pc[t] = "idle" /\ Works(t, c.blob)
      /\ Covers(disk, blocks[c.blob], content[c.blob])
  BY <1>0, CallData
<1>2. Only(t, c.blob)
  BY GetBlobInv
<1>3. UNCHANGED <<disk, blocks, content>>
  BY DEF GetBlob, bdevVars, blobVars
<1>4. BeginRead(t, c) \/ Answer(t, 1)
  BY DEF GetBlob
<1>5. Answer(t, 1) => pc'[t] = "idle"
  BY <1>1 DEF Answer, Goto, Inv, Types, TaskTypes
<1> QED BY <1>1, <1>2, <1>3, <1>4, <1>5, BeginReadData, DataQuiet

\* DelBlob owes nothing to what was put.
LEMMA DelBlobData ==
  ASSUME Fits, Inv, Data, NEW t \in Clients, NEW c \in Calls, DelBlob(t, c)
  PROVE  Data'
<1>0. Accepts(t, c) /\ c.kind = "del" /\ Types
  BY DEF DelBlob, Inv
<1>1. /\ t \in Tasks /\ c \in Request /\ c.blob \in Blobs /\ pc[t] = "idle" /\ Works(t, c.blob)
      /\ Covers(disk, blocks[c.blob], content[c.blob])
  BY <1>0, CallData
<1>2. Only(t, c.blob)
  BY DelBlobInv
<1>3. UNCHANGED <<disk, blocks, content>>
  BY DEF DelBlob, bdevVars, blobVars
<1>4. \/ req' = [req EXCEPT ![t] = c] /\ pc' = [pc EXCEPT ![t] = "free"]
      \/ pc' = [pc EXCEPT ![t] = "idle"]
  BY DEF DelBlob, Answer, Goto
<1>5. CASE pc' = [pc EXCEPT ![t] = "idle"]
  <2>1. pc'[t] = "idle"
    BY <1>0, <1>1, <1>5 DEF Types, TaskTypes
  <2> QED BY <1>1, <1>2, <1>3, <2>1, DataQuiet
<1>6. CASE req' = [req EXCEPT ![t] = c] /\ pc' = [pc EXCEPT ![t] = "free"]
  <2>1. pc'[t] = "free" /\ req'[t] = c
    BY <1>0, <1>1, <1>6 DEF Types, TaskTypes
  <2>2. DataAt(pc'[t], disk, blocks'[c.blob], req'[t], todo'[t], content'[c.blob])
    BY <1>0, <2>1 DEF DataAt
  <2> QED BY <1>1, <1>2, <1>3, <2>1, <2>2, DataQuiet
<1> QED BY <1>4, <1>5, <1>6

\* ReorganizeBlob begins on blocks that hold what was put.
LEMMA ReorganizeBlobData ==
  ASSUME Fits, Inv, Data, NEW t \in Clients, NEW c \in Calls, ReorganizeBlob(t, c)
  PROVE  Data'
<1>0. Accepts(t, c)
  BY DEF ReorganizeBlob
<1>1. /\ t \in Tasks /\ c \in Request /\ c.blob \in Blobs /\ pc[t] = "idle" /\ Works(t, c.blob)
      /\ Covers(disk, blocks[c.blob], content[c.blob])
  BY <1>0, CallData
<1>2. Only(t, c.blob)
  BY ReorganizeBlobInv
<1>3. UNCHANGED <<disk, blocks, content>>
  BY DEF ReorganizeBlob, bdevVars, blobVars
<1>4. PICK r : r = [c EXCEPT !.off = 0, !.size = Size(c.blob)]
  OBVIOUS
<1>5. r \in Request /\ r.blob = c.blob
  <2>1. Size(c.blob) \in Nat
    BY <1>1, SizeIsNat DEF Inv
  <2> QED BY <1>1, <1>4, <2>1 DEF Request
<1>6. BeginRead(t, r) \/ \E code : Answer(t, code)
  BY <1>4 DEF ReorganizeBlob
<1>7. \A code : Answer(t, code) => pc'[t] = "idle"
  BY <1>1 DEF Answer, Goto, Inv, Types, TaskTypes
<1>8. CASE BeginRead(t, r)
  BY <1>1, <1>2, <1>3, <1>5, <1>8, BeginReadData
<1>9. CASE \E code : Answer(t, code)
  <2>1. pc'[t] = "idle"
    BY <1>7, <1>9
  <2> QED BY <1>1, <1>2, <1>3, <2>1, DataQuiet
<1> QED BY <1>6, <1>8, <1>9

\* FlushData begins on blocks that hold what was put.
LEMMA FlushNextData ==
  ASSUME Inv, Data, NEW e \in flush, FlushNext(e)
  PROVE  Data'
<1>0. Types /\ ScanOK /\ e \in Scanned
  BY DEF Inv, Types, OtherTypes
<1>1. UNCHANGED <<disk, blocks, content>> /\ pc[Flusher] = "idle"
  BY DEF FlushNext, bdevVars, blobVars, history
<1>2. CASE pc' = pc /\ req' = req /\ todo' = todo
  BY <1>1, <1>2, DataSame
<1>3. CASE ~ (pc' = pc /\ req' = req /\ todo' = todo)
  <2>0. Only(Flusher, e.blob)
    BY <1>3, FlushNextInv
  <2>1. PICK r : r = [kind |-> "flush", blob |-> e.blob, off |-> 0, size |-> e.size,
                      score |-> e.score, level |-> FlushLevel, data |-> <<>>]
    OBVIOUS
  <2>2. BeginRead(Flusher, r)
    BY <1>3, <2>1 DEF FlushNext
  <2>3. e.blob \in Blobs /\ e.size \in Nat /\ e.score \in Nat
    BY <1>0 DEF Scanned
  <2>4. r \in Request /\ r.blob = e.blob
    BY <2>1, <2>3, TaskAssumption DEF Request
  <2>5. Works(Flusher, e.blob) /\ Flusher \in Tasks
    BY <1>0, <1>1 DEF Works, ScanOK, Tasks
  <2> QED BY <1>1, <2>0, <2>2, <2>3, <2>4, <2>5, BeginReadData
<1> QED BY <1>2, <1>3

\* Every step of a handler keeps the bytes.
LEMMA StepData ==
  ASSUME Inv, Data, NEW t \in Tasks, Step(t)
  PROVE  Data'
<1>1. CASE \E s \in todo[t] : BdevRead(t, s) \/ BdevWrite(t, s) \/ BdevFree(t, s)
  BY <1>1, BdevReadData, BdevWriteData, BdevFreeData
<1>2. CASE ReadDone(t) \/ RePut(t) \/ PutDone(t)
  BY <1>2, ReadDoneData, RePutData, PutDoneData
<1>3. CASE Credit(t) \/ FreedAll(t)
  BY <1>3, CreditData, FreedAllData
<1>4. CASE ExtendBlob(t) \/ TryTarget(t) \/ Allocated(t)
  BY <1>4, ExtendBlobData, TryTargetData, AllocatedData
<1>5. CASE BdevAllocate(t) \/ TakeFirstBlock(t)
  BY <1>5, BdevAllocateData, TakeFirstBlockData
<1> QED BY <1>1, <1>2, <1>3, <1>4, <1>5 DEF Step

\* Every step keeps the bytes.
LEMMA NextData ==
  ASSUME Fits, Inv, Data, [Next]_vars
  PROVE  Data'
<1>1. CASE \E t \in Clients, c \in Calls : Call(t, c)
  BY <1>1, PutBlobData, GetBlobData, DelBlobData, ReorganizeBlobData DEF Call
<1>2. CASE \E t \in Tasks : Step(t)
  BY <1>2, StepData
<1>3. CASE \E x \in Targets : StatTargets(x) \/ UnregisterTarget(x) \/ RegisterTarget(x)
  <2>1. UNCHANGED <<pc, req, todo, blocks, content, disk>>
    BY <1>3 DEF StatTargets, UnregisterTarget, RegisterTarget, blobVars, bdevVars
  <2> QED BY <2>1, DataSame
<1>4. CASE FlushData
  <2>1. UNCHANGED <<pc, req, todo, blocks, content, disk>>
    BY <1>4 DEF FlushData, blobVars, bdevVars
  <2> QED BY <2>1, DataSame
<1>5. CASE \E e \in flush : FlushNext(e)
  BY <1>5, FlushNextData
<1>6. CASE UNCHANGED vars
  <2>1. UNCHANGED <<pc, req, todo, blocks, content, disk>>
    BY <1>6 DEF vars, blobVars, bdevVars, history
  <2> QED BY <2>1, DataSame
<1> QED BY <1>1, <1>2, <1>3, <1>4, <1>5, <1>6 DEF Next

\* At the start there are none.
LEMMA InitData == Init => Data
<1> SUFFICES ASSUME Init PROVE Data
  OBVIOUS
<1>1. \A t \in Tasks : pc[t] = "idle"
  BY DEF Init
<1>2. \A b \in Blobs : Covers(disk, blocks[b], content[b])
  <2>1. <<>> \in Seq(BlobBlock)
    OBVIOUS
  <2>2. Covers(disk, <<>>, <<>>)
    BY <2>1, CoversNothing
  <2> QED BY <2>2 DEF Init
<1> QED BY <1>1, <1>2 DEF Data

\* The blocks of a blob at rest hold what was put.
LEMMA DataIntegrity ==
  ASSUME Inv, Data
  PROVE  Integrity
<1> SUFFICES ASSUME NEW b \in Blobs, ~ InUse(b), ~ FlushUses(b)
             PROVE  /\ Len(content[b]) <= Size(b)
                    /\ \A i \in DOMAIN content[b] :
                          content[b][i] # 0 => ByteAt(blocks[b], i) = content[b][i]
  BY DEF Integrity
<1>1. Unused(b)
  BY DEF Unused, InUse, FlushUses, Tasks
<1>2. Covers(disk, blocks[b], content[b])
  BY <1>1 DEF Data
<1>3. DOMAIN content[b] = 1 .. Len(content[b])
  BY DEF Inv, Types, OtherTypes
<1>4. \A i : ByteAt(blocks[b], i) = ByteOf(disk, blocks[b], i)
  BY DEF ByteAt, ByteOf
<1> QED BY <1>2, <1>3, <1>4 DEF Covers, Size

\* A buffer that a GetBlob has filled is what was put.
LEMMA DataReads ==
  ASSUME Inv, Data
  PROVE  ReadsReturn
<1> SUFFICES ASSUME NEW t \in Clients, pc[t] = "read", req[t].kind = "get", todo[t] = {},
                    NEW i \in 1 .. req[t].size,
                    req[t].off + i <= Len(content[req[t].blob]),
                    content[req[t].blob][req[t].off + i] # 0
             PROVE  req[t].data[i] = content[req[t].blob][req[t].off + i]
  BY DEF ReadsReturn
<1>0. t \in Tasks
  BY DEF Tasks
<1>1. PICK b \in Blobs, r \in Request, bs \in Seq(BlobBlock), c \in Seq(Val) :
        /\ b = req[t].blob /\ r = req[t] /\ bs = blocks[b] /\ c = content[b]
        /\ Works(t, b) /\ r.blob = b
        /\ DataAt(pc[t], disk, bs, r, todo[t], c)
  BY <1>0, OwnData
<1>2. Covers(disk, bs, c) /\ Agrees(disk, bs, r, {})
  BY <1>1 DEF DataAt
<1>3. r.off \in Nat /\ r.size \in Nat /\ Len(c) \in Nat /\ SizeOf(bs) \in Nat
  BY BlocksSized, EndsFacts DEF Request
<1>4. PICK off \in Nat, p \in Nat : off = r.off /\ p = off + i /\ 1 <= p
  BY <1>3
<1>5. i \in 1 .. r.size /\ p \in 1 .. Len(c) /\ c[p] # 0
  BY <1>1, <1>3, <1>4
<1>6. p <= SizeOf(bs)
  BY <1>2, <1>3, <1>5 DEF Covers
<1>7. r.data[i] = ByteOf(disk, bs, r.off + i)
  <2>1. i \in 1 .. r.size /\ r.off + i <= SizeOf(bs)
    BY <1>4, <1>5, <1>6
  <2> QED BY <1>2, <2>1 DEF Agrees
<1>8. ByteOf(disk, bs, p) = c[p]
  BY <1>2, <1>5 DEF Covers
<1> QED BY <1>1, <1>4, <1>7, <1>8

\* What clients have put into a blob is what its blocks hold, byte by byte, for any
\* targets, blobs, clients and calls, however its blocks were extended, written in
\* part, reorganized or flushed between the steps of other handlers (ModifyExistingData,
\* ExtendBlob, ClearBlob, ReorganizeBlob and FlushData of core_runtime.cc).
THEOREM BlobsKeepTheirBytes ==
  ASSUME Fits
  PROVE  Spec => []Integrity
<1>1. Init => Inv /\ Data
  BY InitInv, InitData
<1>2. Inv /\ Data /\ [Next]_vars => (Inv /\ Data)'
  BY NextInv, NextData
<1>3. Inv /\ Data => Integrity
  BY DataIntegrity
<1> QED BY <1>1, <1>2, <1>3, PTL DEF Spec

\* A GetBlob that is about to answer has in its buffer what clients have put, in
\* whatever order the devices answered its reads (ReadData of core_runtime.cc).
THEOREM ReadsReturnWhatWasPut ==
  ASSUME Fits
  PROVE  Spec => []ReadsReturn
<1>1. Init => Inv /\ Data
  BY InitInv, InitData
<1>2. Inv /\ Data /\ [Next]_vars => (Inv /\ Data)'
  BY NextInv, NextData
<1>3. Inv /\ Data => ReadsReturn
  BY DataReads
<1> QED BY <1>1, <1>2, <1>3, PTL DEF Spec
=============================================================================
