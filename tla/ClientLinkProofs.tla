--------------------------- MODULE ClientLinkProofs ---------------------------
(***************************************************************************)
(* Proofs about ClientLink: for any number of callers, addresses and hosts *)
(* and any configuration, every future that is waited for can be           *)
(* completed, the receiving thread refers to no freed future, and a call   *)
(* ends with its own answer.                                               *)
(***************************************************************************)
EXTENDS ClientLink, WellFoundedInduction, TLAPS

(* Types.                                                                   *)

Kinds == {"call", "register", "connect"}
Live == {"sent", "shm_read", "loop"}
Frames ==
  [kind : Kinds, key : Addresses, fut : Futures, try : Nat,
   origin : {"zmq", "shm"}, pc : Pcs, limited : BOOLEAN, attempts : Nat,
   strays : BOOLEAN, shared : BOOLEAN]
Messages ==
  [type : {"req", "rep"}, host : Hosts, key : Addresses, fut : Futures,
   try : Nat, left : BOOLEAN]
Outcomes == [answer : {"own", "none", "other"}, excused : BOOLEAN]
Runs == [host : Hosts, key : Addresses, fut : Futures]

Types ==
  /\ case \in Cases /\ mode \in {"tcp", "shm"} /\ link \in Hosts
  /\ attached \in BOOLEAN /\ alive \in BOOLEAN /\ reconnecting \in BOOLEAN
  /\ probe \in {"none", "up", "down"}
  /\ stack \in [Callers -> Seq(Frames)]
  /\ pending \in [Addresses -> Futures \cup {0}]
  /\ archives \in [Addresses -> Futures \cup {0}]
  /\ complete \subseteq Futures /\ written \subseteq Futures
  /\ freed \subseteq [fut : Futures, shared : {TRUE}]
  /\ leaked \subseteq Addresses /\ up \subseteq Hosts
  /\ msgs \subseteq Messages /\ running \subseteq Runs
  /\ result \in [Callers -> Outcomes]

(* Only the bottom of a stack is a call.                                    *)
Bottom ==
  \A c \in Callers : \A i \in 1 .. Len(stack[c]) :
    stack[c][i].kind = "call" <=> i = 1

(* No two frames share an address or a FutureShm.                           *)
Apart ==
  \A c, d \in Callers : \A i \in 1 .. Len(stack[c]), j \in 1 .. Len(stack[d]) :
    c # d \/ i # j => /\ stack[c][i].key # stack[d][j].key
                      /\ stack[c][i].fut # stack[d][j].fut

(* A FutureShm is registered once.                                          *)
Once ==
  \A j, k \in Addresses : pending[j] = pending[k] /\ pending[j] # 0 => j = k

(* A message that is not left belongs to a task that is waited for, or to   *)
(* one whose address is not used again.                                     *)
Owed ==
  \A m \in msgs : \/ m.left \/ m.key \in leaked
                  \/ \E f \in FrameSet : f.key = m.key

(* A frame's registration is under its own address, and gone when it is     *)
(* complete.                                                                *)
Filed(f) ==
  /\ f.key \notin leaked
  /\ \A k \in Addresses : pending[k] = f.fut => k = f.key
  /\ ~f.shared /\ f.fut \in complete => pending[f.key] # f.fut

(* Only what was sent through shared memory runs or is complete there.      *)
ViaShm(f) ==
  /\ f.origin = "shm" => f.shared /\ \A m \in msgs : m.fut # f.fut
  /\ f.origin = "zmq" /\ f.shared => f.try > 0
  /\ \A r \in running : r.fut = f.fut => f.shared

(* Registered, of one frame.                                                *)
CanComplete(f) ==
  f.fut \notin complete /\ f.fut \notin lost /\ f.pc \in Live
    => IF f.origin = "zmq" THEN pending[f.key] = f.fut
       ELSE \E r \in running : r.fut = f.fut

(* The messages to a frame's address: its own, or strays.  A task that was  *)
(* sent once has at most one, and none when it is complete.                 *)
Mail(f) ==
  /\ \A m \in msgs : m.key = f.key => m.fut = f.fut \/ (m.left /\ f.strays)
  /\ f.try = 0 /\ ~f.strays =>
       /\ \A m, n \in msgs : m.key = f.key /\ n.key = f.key => m = n
       /\ f.fut \in complete => \A m \in msgs : m.key # f.key

(* The answer of a task that was sent once is its own.                      *)
Loaded(f) ==
  f.origin = "zmq" /\ f.try = 0 /\ ~f.strays /\ f.fut \in complete /\ f.fut \notin lost
    => archives[f.key] = f.fut

FrameOK(f) == Filed(f) /\ ViaShm(f) /\ CanComplete(f) /\ Mail(f) /\ Loaded(f)

FramesOK == \A f \in FrameSet : FrameOK(f)

Inv == Types /\ Bottom /\ Apart /\ Once /\ Owed /\ FramesOK /\ OwnAnswer

-----------------------------------------------------------------------------
(* Stacks.                                                                  *)

(* g is the frame f further on in Recv: the same task, sent as often; it    *)
(* does not begin to wait for the first answer again.                       *)
Like(g, f) ==
  /\ g \in Frames
  /\ g.kind = f.kind /\ g.key = f.key /\ g.fut = f.fut /\ g.try = f.try
  /\ g.origin = f.origin
  /\ g.strays = f.strays /\ g.shared = f.shared
  /\ g.pc \in Live => f.pc \in Live

(* What a step does to the stacks: no frame comes or goes, the top one is   *)
(* sent again as n, one is pushed, one is popped.                           *)
Quiet ==
  /\ stack' \in [Callers -> Seq(Frames)]
  /\ \A d \in Callers :
       /\ Len(stack'[d]) = Len(stack[d])
       /\ \A i \in 1 .. Len(stack[d]) : Like(stack'[d][i], stack[d][i])

Resends(c, n) ==
  /\ stack' \in [Callers -> Seq(Frames)]
  /\ \A d \in Callers :
       /\ Len(stack'[d]) = Len(stack[d])
       /\ \A i \in 1 .. Len(stack[d]) :
            IF d = c /\ i = Len(stack[c]) THEN stack'[d][i] = n
            ELSE stack'[d][i] = stack[d][i]

Pushes(c, n) ==
  /\ stack' \in [Callers -> Seq(Frames)]
  /\ \A d \in Callers :
       /\ Len(stack'[d]) = IF d = c THEN Len(stack[d]) + 1 ELSE Len(stack[d])
       /\ \A i \in 1 .. Len(stack[d]) : Like(stack'[d][i], stack[d][i])
  /\ stack'[c][Len(stack[c]) + 1] = n

Pops(c) ==
  /\ stack' \in [Callers -> Seq(Frames)]
  /\ \A d \in Callers :
       /\ Len(stack'[d]) = IF d = c THEN Len(stack[d]) - 1 ELSE Len(stack[d])
       /\ \A i \in 1 .. Len(stack'[d]) : Like(stack'[d][i], stack[d][i])

\* A nonempty set of natural numbers has a least member: Least is defined.
LEMMA LeastNat ==
  ASSUME NEW T, T \subseteq Nat, T # {}
  PROVE  Least(T) \in T /\ \A y \in T : Least(T) <= y
<1>1. \E x \in T : \A y \in T : ~ (<<y, x>> \in OpToRel(<, Nat))
  BY WFMin, NatLessThanWellFounded
<1>2. PICK x \in T : \A y \in T : ~ (<<y, x>> \in OpToRel(<, Nat))
  BY <1>1
<1>3. \A y \in T : ~(y < x)
  BY <1>2 DEF OpToRel
<1>4. \A y \in T : x <= y
  BY <1>3
<1> QED BY <1>4 DEF Least

\* With room for a task, FreeAddress and NewFuture are free ones.
LEMMA RoomIsFree ==
  ASSUME Room
  PROVE  /\ FreeAddress \in Addresses /\ FreeAddress \notin leaked
         /\ \A f \in FrameSet : f.key # FreeAddress
         /\ NewFuture \in Futures
         /\ \A f \in FrameSet : f.fut # NewFuture
         /\ \A m \in msgs : m.fut # NewFuture
         /\ \A r \in running : r.fut # NewFuture
         /\ \A k \in Addresses : pending[k] # NewFuture
<1>1. FreeAddresses \subseteq Nat
  BY LinkAssumption DEF FreeAddresses
<1>2. FreeFutures \subseteq Nat
  BY DEF FreeFutures, Futures
<1>3. FreeAddress \in FreeAddresses
  BY <1>1, LeastNat DEF Room, FreeAddress
<1>4. NewFuture \in FreeFutures
  BY <1>2, LeastNat DEF Room, NewFuture
<1> QED BY <1>3, <1>4 DEF FreeAddresses, FreeFutures

\* The members of FrameSet are the frames of the stacks.
LEMMA FrameAt ==
  ASSUME stack \in [Callers -> Seq(Frames)]
  PROVE  /\ \A f : f \in FrameSet <=>
                \E c \in Callers : \E i \in 1 .. Len(stack[c]) : f = stack[c][i]
         /\ \A c \in Callers : \A i \in 1 .. Len(stack[c]) : stack[c][i] \in FrameSet
         /\ FrameSet \subseteq Frames
<1>1. \A c \in Callers : /\ DOMAIN stack[c] = 1 .. Len(stack[c])
                         /\ \A i \in 1 .. Len(stack[c]) : stack[c][i] \in Frames
  OBVIOUS
<1> QED BY <1>1 DEF FrameSet

\* The same after a step.
LEMMA FrameAtNext ==
  ASSUME stack' \in [Callers -> Seq(Frames)]
  PROVE  /\ \A f : f \in FrameSet' <=>
                \E c \in Callers : \E i \in 1 .. Len(stack'[c]) : f = stack'[c][i]
         /\ \A c \in Callers : \A i \in 1 .. Len(stack'[c]) : stack'[c][i] \in FrameSet'
         /\ FrameSet' \subseteq Frames
<1>1. \A c \in Callers : /\ DOMAIN stack'[c] = 1 .. Len(stack'[c])
                         /\ \A i \in 1 .. Len(stack'[c]) : stack'[c][i] \in Frames
  OBVIOUS
<1> QED BY <1>1 DEF FrameSet

\* The top of a stack and what is below it.
LEMMA TopOf ==
  ASSUME stack \in [Callers -> Seq(Frames)],
         NEW c \in Callers, stack[c] # <<>>
  PROVE  /\ Len(stack[c]) \in Nat \ {0}
         /\ Len(stack[c]) \in 1 .. Len(stack[c])
         /\ Top(c) = stack[c][Len(stack[c])]
         /\ Top(c) \in Frames
         /\ Below(c) \in Seq(Frames)
         /\ Len(Below(c)) = Len(stack[c]) - 1
         /\ \A i \in 1 .. Len(stack[c]) - 1 : Below(c)[i] = stack[c][i]
<1>1. stack[c] \in Seq(Frames)
  OBVIOUS
<1>2. Len(stack[c]) \in Nat \ {0}
  BY <1>1
<1>3. Top(c) = stack[c][Len(stack[c])] /\ Top(c) \in Frames
  BY <1>1, <1>2 DEF Top
<1>4. /\ Below(c) \in Seq(Frames)
      /\ Len(Below(c)) = Len(stack[c]) - 1
      /\ \A i \in 1 .. Len(stack[c]) - 1 : Below(c)[i] = stack[c][i]
  <2> DEFINE s == stack[c]
             n == Len(stack[c]) - 1
  <2>1. s \in Seq(Frames) /\ n \in Nat /\ n <= Len(s)
    BY <1>1, <1>2
  <2> HIDE DEF s, n
  <2>2. /\ SubSeq(s, 1, n) \in Seq(Frames) /\ Len(SubSeq(s, 1, n)) = n
        /\ \A i \in 1 .. n : SubSeq(s, 1, n)[i] = s[i]
    BY <2>1
  <2> QED BY <2>2 DEF s, n, Below
<1> QED BY <1>2, <1>3, <1>4

\* SetTop replaces the top frame.
LEMMA SetTopEffect ==
  ASSUME stack \in [Callers -> Seq(Frames)],
         NEW c \in Callers, stack[c] # <<>>,
         NEW n \in Frames, stack' = SetTop(c, n)
  PROVE  Resends(c, n)
<1>1. /\ Len(stack[c]) \in Nat \ {0}
      /\ Below(c) \in Seq(Frames)
      /\ Len(Below(c)) = Len(stack[c]) - 1
      /\ \A i \in 1 .. Len(stack[c]) - 1 : Below(c)[i] = stack[c][i]
  BY TopOf
<1>2. /\ Append(Below(c), n) \in Seq(Frames)
      /\ Len(Append(Below(c), n)) = Len(stack[c])
      /\ \A i \in 1 .. Len(stack[c]) :
           Append(Below(c), n)[i] = IF i = Len(stack[c]) THEN n ELSE stack[c][i]
  BY <1>1
<1>3. /\ stack' \in [Callers -> Seq(Frames)]
      /\ \A d \in Callers : stack'[d] = IF d = c THEN Append(Below(c), n) ELSE stack[d]
  BY <1>2 DEF SetTop
<1> QED BY <1>2, <1>3 DEF Resends

\* A frame is like itself.
LEMMA LikeItself ==
  ASSUME NEW f \in Frames
  PROVE  Like(f, f)
  BY DEF Like

\* Moving the top frame on is a quiet step.
LEMMA MovesOn ==
  ASSUME stack \in [Callers -> Seq(Frames)],
         NEW c \in Callers, stack[c] # <<>>,
         NEW n, Like(n, Top(c)), stack' = SetTop(c, n)
  PROVE  Quiet
<1>1. n \in Frames
  BY DEF Like
<1>2. Resends(c, n)
  BY <1>1, SetTopEffect
<1>3. Top(c) = stack[c][Len(stack[c])]
  BY TopOf
<1>4. \A d \in Callers : \A i \in 1 .. Len(stack[d]) : Like(stack[d][i], stack[d][i])
  BY LikeItself
<1> QED BY <1>2, <1>3, <1>4 DEF Resends, Quiet

-----------------------------------------------------------------------------
(* The shape of the stacks.                                                 *)

\* Bottom and Apart survive a step in which no frame comes or goes.
LEMMA QuietShape ==
  ASSUME stack \in [Callers -> Seq(Frames)], Bottom, Apart, Quiet
  PROVE  Bottom' /\ Apart'
<1>1. \A c \in Callers : \A i \in 1 .. Len(stack'[c]) :
        /\ i \in 1 .. Len(stack[c])
        /\ stack'[c][i].kind = stack[c][i].kind
        /\ stack'[c][i].key = stack[c][i].key
        /\ stack'[c][i].fut = stack[c][i].fut
  BY DEF Quiet, Like
<1>2. Bottom'
  BY <1>1 DEF Bottom
<1>3. Apart'
  BY <1>1 DEF Apart
<1> QED BY <1>2, <1>3

\* The same when the top frame is sent again.
LEMMA ResendShape ==
  ASSUME stack \in [Callers -> Seq(Frames)], Bottom, Apart,
         NEW c \in Callers, stack[c] # <<>>,
         NEW n, Resends(c, n),
         n.kind = Top(c).kind, n.key = Top(c).key, n.fut = Top(c).fut
  PROVE  Bottom' /\ Apart'
<1>0. Top(c) = stack[c][Len(stack[c])]
  BY TopOf
<1>1. \A d \in Callers : \A i \in 1 .. Len(stack'[d]) :
        /\ i \in 1 .. Len(stack[d])
        /\ stack'[d][i].kind = stack[d][i].kind
        /\ stack'[d][i].key = stack[d][i].key
        /\ stack'[d][i].fut = stack[d][i].fut
  BY <1>0 DEF Resends
<1>2. Bottom'
  BY <1>1 DEF Bottom
<1>3. Apart'
  BY <1>1 DEF Apart
<1> QED BY <1>2, <1>3

\* The same when a frame is popped.
LEMMA PopShape ==
  ASSUME stack \in [Callers -> Seq(Frames)], Bottom, Apart,
         NEW c \in Callers, Pops(c)
  PROVE  Bottom' /\ Apart'
<1>0. \A d \in Callers : Len(stack[d]) \in Nat
  OBVIOUS
<1>1. \A d \in Callers : \A i \in 1 .. Len(stack'[d]) :
        /\ i \in 1 .. Len(stack[d])
        /\ stack'[d][i].kind = stack[d][i].kind
        /\ stack'[d][i].key = stack[d][i].key
        /\ stack'[d][i].fut = stack[d][i].fut
  BY <1>0 DEF Pops, Like
<1>2. Bottom'
  BY <1>1 DEF Bottom
<1>3. Apart'
  BY <1>1 DEF Apart
<1> QED BY <1>2, <1>3

\* The same when a frame with an address and a FutureShm of its own is pushed.
LEMMA PushShape ==
  ASSUME stack \in [Callers -> Seq(Frames)], Bottom, Apart,
         NEW c \in Callers, NEW n \in Frames, Pushes(c, n),
         n.kind = "call" <=> stack[c] = <<>>,
         \A f \in FrameSet : f.key # n.key /\ f.fut # n.fut
  PROVE  Bottom' /\ Apart'
<1>0. \A d \in Callers : Len(stack[d]) \in Nat /\ (Len(stack[d]) = 0 <=> stack[d] = <<>>)
  OBVIOUS
<1> DEFINE New(d, i) == d = c /\ i = Len(stack[c]) + 1
<1>1. \A d \in Callers : \A i \in 1 .. Len(stack'[d]) :
        \/ New(d, i) /\ stack'[d][i] = n
        \/ /\ ~New(d, i)
           /\ i \in 1 .. Len(stack[d])
           /\ stack'[d][i].kind = stack[d][i].kind
           /\ stack'[d][i].key = stack[d][i].key
           /\ stack'[d][i].fut = stack[d][i].fut
  <2> TAKE d \in Callers
  <2> TAKE i \in 1 .. Len(stack'[d])
  <2>1. CASE New(d, i)
    BY <2>1 DEF Pushes
  <2>2. CASE ~New(d, i)
    <3>1. i \in 1 .. Len(stack[d])
      BY <2>2, <1>0 DEF Pushes
    <3> QED BY <2>2, <3>1 DEF Pushes, Like
  <2> QED BY <2>1, <2>2
<1>2. Bottom'
  <2> SUFFICES ASSUME NEW d \in Callers, NEW i \in 1 .. Len(stack'[d])
               PROVE  stack'[d][i].kind = "call" <=> i = 1
    BY DEF Bottom
  <2>1. CASE New(d, i)
    <3>1. stack'[d][i] = n
      BY <2>1, <1>1
    <3>2. stack[c] = <<>> <=> i = 1
      BY <2>1, <1>0
    <3> QED BY <3>1, <3>2
  <2>2. CASE ~New(d, i)
    <3>1. i \in 1 .. Len(stack[d]) /\ stack'[d][i].kind = stack[d][i].kind
      BY <2>2, <1>1
    <3> QED BY <3>1 DEF Bottom
  <2> QED BY <2>1, <2>2
<1>3. Apart'
  <2>1. \A d \in Callers : \A i \in 1 .. Len(stack[d]) :
          stack[d][i].key # n.key /\ stack[d][i].fut # n.fut
    BY FrameAt
  <2> SUFFICES ASSUME NEW d \in Callers, NEW e \in Callers,
                      NEW i \in 1 .. Len(stack'[d]), NEW j \in 1 .. Len(stack'[e]),
                      d # e \/ i # j
               PROVE  /\ stack'[d][i].key # stack'[e][j].key
                      /\ stack'[d][i].fut # stack'[e][j].fut
    BY DEF Apart
  <2>2. CASE New(d, i)
    <3>1. ~New(e, j)
      BY <2>2
    <3>2. stack'[d][i] = n
      BY <2>2, <1>1
    <3>3. /\ j \in 1 .. Len(stack[e])
          /\ stack'[e][j].key = stack[e][j].key
          /\ stack'[e][j].fut = stack[e][j].fut
      BY <3>1, <1>1
    <3> QED BY <3>2, <3>3, <2>1
  <2>3. CASE ~New(d, i) /\ New(e, j)
    <3>2. stack'[e][j] = n
      BY <2>3, <1>1
    <3>3. /\ i \in 1 .. Len(stack[d])
          /\ stack'[d][i].key = stack[d][i].key
          /\ stack'[d][i].fut = stack[d][i].fut
      BY <2>3, <1>1
    <3> QED BY <3>2, <3>3, <2>1
  <2>4. CASE ~New(d, i) /\ ~New(e, j)
    BY <2>4, <1>1 DEF Apart
  <2> QED BY <2>2, <2>3, <2>4
<1> QED BY <1>2, <1>3

\* What holds of a frame holds of it further on.
LEMMA LikeOK ==
  ASSUME NEW f \in Frames, NEW g, Like(g, f), FrameOK(f)'
  PROVE  FrameOK(g)'
<1>1. /\ g.key = f.key /\ g.fut = f.fut /\ g.try = f.try /\ g.origin = f.origin
      /\ g.strays = f.strays /\ g.shared = f.shared
      /\ g.pc \in Live => f.pc \in Live
  BY DEF Like
<1>2. /\ Filed(f)' /\ ViaShm(f)' /\ CanComplete(f)' /\ Mail(f)' /\ Loaded(f)'
  BY DEF FrameOK
<1>3. Filed(g)'
  BY <1>1, <1>2 DEF Filed
<1>4. ViaShm(g)'
  BY <1>1, <1>2 DEF ViaShm
<1>5. CanComplete(g)'
  BY <1>1, <1>2 DEF CanComplete
<1>6. Mail(g)'
  BY <1>1, <1>2 DEF Mail
<1>7. Loaded(g)'
  BY <1>1, <1>2 DEF Loaded
<1> QED BY <1>3, <1>4, <1>5, <1>6, <1>7 DEF FrameOK

-----------------------------------------------------------------------------
(* The end of a wait.                                                       *)

\* LeftBy marks messages and changes nothing else.
LEMMA LeftByMarks ==
  ASSUME msgs \subseteq Messages, NEW f, NEW x \in LeftBy(f)
  PROVE  \E m \in msgs : /\ x = IF m.fut = f.fut THEN [m EXCEPT !.left = TRUE] ELSE m
                         /\ x \in Messages
                         /\ x.key = m.key /\ x.fut = m.fut
                         /\ m.left => x.left
                         /\ m.fut = f.fut => x.left
<1>1. PICK m \in msgs : x = IF m.fut = f.fut THEN [m EXCEPT !.left = TRUE] ELSE m
  BY DEF LeftBy
<1>2. m \in Messages
  OBVIOUS
<1>3. CASE m.fut = f.fut
  <2>1. x = [m EXCEPT !.left = TRUE]
    BY <1>1, <1>3
  <2>2. x \in Messages
    BY <2>1, <1>2 DEF Messages
  <2>3. x.key = m.key /\ x.fut = m.fut /\ x.left
    BY <2>1, <1>2 DEF Messages
  <2> QED BY <1>1, <2>2, <2>3
<1>4. CASE m.fut # f.fut
  BY <1>1, <1>2, <1>4
<1> QED BY <1>3, <1>4

\* Another frame when the wait of f ends.
LEMMA PopOther ==
  ASSUME msgs \subseteq Messages, NEW f, NEW g \in Frames, FrameOK(g),
         g.key # f.key, g.fut # f.fut,
         pending' = pending, running' = running,
         complete' = complete \ {f.fut}, lost' = lost \ {f.fut},
         msgs' = msgs \/ msgs' = LeftBy(f),
         \A k \in Addresses : k # f.key => archives'[k] = archives[k],
         leaked' \subseteq leaked \cup {f.key}
  PROVE  FrameOK(g)'
<1>0. /\ Filed(g) /\ ViaShm(g) /\ CanComplete(g) /\ Mail(g) /\ Loaded(g)
      /\ g.key \in Addresses
  BY DEF FrameOK, Frames
<1>1. \A x \in msgs' : \E m \in msgs : /\ x.key = m.key /\ x.fut = m.fut
                                       /\ m.left => x.left
  <2>1. CASE msgs' = msgs
    BY <2>1
  <2>2. CASE msgs' = LeftBy(f)
    BY <2>2, LeftByMarks
  <2> QED BY <2>1, <2>2
<1>2. Filed(g)'
  BY <1>0 DEF Filed
<1>3. ViaShm(g)'
  BY <1>0, <1>1 DEF ViaShm
<1>4. CanComplete(g)'
  BY <1>0 DEF CanComplete
<1>5. Loaded(g)'
  BY <1>0 DEF Loaded
<1>6. Mail(g)'
  <2>1. \A m \in msgs' : m.key = g.key => m.fut = g.fut \/ (m.left /\ g.strays)
    BY <1>0, <1>1 DEF Mail
  <2>2. ASSUME g.try = 0, ~g.strays, g.fut \in complete'
        PROVE  \A m \in msgs' : m.key # g.key
    BY <2>2, <1>0, <1>1 DEF Mail
  <2>3. ASSUME g.try = 0, ~g.strays, NEW x \in msgs', NEW y \in msgs',
               x.key = g.key, y.key = g.key
        PROVE  x = y
    <3>1. CASE msgs' = msgs
      BY <3>1, <2>3, <1>0 DEF Mail
    <3>2. CASE msgs' = LeftBy(f)
      <4>1. PICK m \in msgs : /\ x = IF m.fut = f.fut THEN [m EXCEPT !.left = TRUE] ELSE m
                              /\ x.key = m.key
        BY <3>2, <2>3, LeftByMarks
      <4>2. PICK n \in msgs : /\ y = IF n.fut = f.fut THEN [n EXCEPT !.left = TRUE] ELSE n
                              /\ y.key = n.key
        BY <3>2, <2>3, LeftByMarks
      <4>3. m = n
        BY <4>1, <4>2, <2>3, <1>0 DEF Mail
      <4> QED BY <4>1, <4>2, <4>3
    <3> QED BY <3>1, <3>2
  <2> QED BY <2>1, <2>2, <2>3 DEF Mail
<1> QED BY <1>2, <1>3, <1>4, <1>5, <1>6 DEF FrameOK

\* What the end of a wait does to the stacks, the registrations and the
\* messages: the task's address is free again only if no message to it is
\* unmarked.
LEMMA PopOK ==
  ASSUME stack \in [Callers -> Seq(Frames)], msgs \subseteq Messages,
         Apart, Once, Owed, FramesOK,
         NEW c \in Callers, stack[c] # <<>>, Pops(c),
         NEW f, f = Top(c),
         pending' = pending, running' = running,
         complete' = complete \ {f.fut}, lost' = lost \ {f.fut},
         msgs' = msgs \/ msgs' = LeftBy(f),
         \A k \in Addresses : k # f.key => archives'[k] = archives[k],
         leaked' = leaked \/ leaked' = leaked \cup {f.key},
         \/ msgs' = LeftBy(f)
         \/ f.key \in leaked'
         \/ \A m \in msgs : m.key # f.key
  PROVE  /\ FramesOK' /\ Once' /\ Owed' /\ msgs' \subseteq Messages
<1>1. /\ Len(stack[c]) \in Nat \ {0} /\ Len(stack[c]) \in 1 .. Len(stack[c])
      /\ f = stack[c][Len(stack[c])] /\ f \in Frames
  BY TopOf
<1>2. \A d \in Callers : Len(stack[d]) \in Nat
  OBVIOUS
<1>3. \A d \in Callers : \A i \in 1 .. Len(stack'[d]) :
        /\ i \in 1 .. Len(stack[d])
        /\ d # c \/ i # Len(stack[c])
        /\ Like(stack'[d][i], stack[d][i])
  BY <1>1, <1>2 DEF Pops
<1>4. FramesOK'
  <2> SUFFICES ASSUME NEW h \in FrameSet' PROVE FrameOK(h)'
    BY DEF FramesOK
  <2>0. stack' \in [Callers -> Seq(Frames)]
    BY DEF Pops
  <2>1. PICK d \in Callers : \E i \in 1 .. Len(stack'[d]) : h = stack'[d][i]
    BY <2>0, FrameAtNext
  <2>2. PICK i \in 1 .. Len(stack'[d]) : h = stack'[d][i]
    BY <2>1
  <2>3. PICK g : g = stack[d][i]
    OBVIOUS
  <2>4. i \in 1 .. Len(stack[d]) /\ (d # c \/ i # Len(stack[c])) /\ Like(h, g)
    BY <1>3, <2>2, <2>3
  <2>5. g \in Frames /\ FrameOK(g)
    BY <2>3, <2>4, FrameAt DEF FramesOK
  <2>6. g.key # f.key /\ g.fut # f.fut
    BY <1>1, <2>3, <2>4 DEF Apart
  <2>7. leaked' \subseteq leaked \cup {f.key}
    OBVIOUS
  <2>8. FrameOK(g)'
    BY <2>5, <2>6, <2>7, PopOther
  <2> QED BY <2>4, <2>5, <2>8, LikeOK
<1>5. Once'
  BY DEF Once
<1>6. FrameOK(f)
  BY <1>1, FrameAt DEF FramesOK
<1>7. Owed'
  <2> SUFFICES ASSUME NEW x \in msgs', ~x.left, x.key \notin leaked'
               PROVE  \E h \in FrameSet' : h.key = x.key
    BY DEF Owed
  <2>1. PICK m \in msgs : /\ x.key = m.key /\ x.fut = m.fut
                          /\ m.left => x.left
                          /\ msgs' = LeftBy(f) /\ m.fut = f.fut => x.left
    <3>1. CASE msgs' = LeftBy(f)
      <4>1. x \in LeftBy(f)
        BY <3>1
      <4> QED BY <4>1, LeftByMarks
    <3>2. CASE msgs' = msgs /\ msgs' # LeftBy(f)
      BY <3>2
    <3> QED BY <3>1, <3>2
  <2>2. ~m.left /\ m.key \notin leaked
    BY <2>1
  <2>3. PICK d \in Callers : \E i \in 1 .. Len(stack[d]) : stack[d][i].key = m.key
    BY <2>2, FrameAt DEF Owed
  <2>4. PICK i \in 1 .. Len(stack[d]) : stack[d][i].key = m.key
    BY <2>3
  <2>5. m.key # f.key
    <3> SUFFICES ASSUME m.key = f.key PROVE FALSE
      OBVIOUS
    <3>1. m.fut = f.fut
      BY <1>6, <2>2 DEF FrameOK, Mail
    <3>2. CASE msgs' = LeftBy(f)
      BY <3>1, <3>2, <2>1
    <3>3. CASE f.key \in leaked'
      BY <3>3, <2>1
    <3>4. CASE \A n \in msgs : n.key # f.key
      BY <3>4
    <3> QED BY <3>2, <3>3, <3>4
  <2>6. d # c \/ i # Len(stack[c])
    BY <2>4, <2>5, <1>1
  <2>7. i \in 1 .. Len(stack'[d])
    BY <2>6, <1>1, <1>2 DEF Pops
  <2>8. stack'[d][i].key = stack[d][i].key
    BY <2>7, <1>3 DEF Like
  <2>9. stack'[d][i] \in FrameSet'
    BY <2>7, FrameAtNext DEF Pops
  <2> QED BY <2>1, <2>4, <2>8, <2>9
<1>8. msgs' \subseteq Messages
  BY LeftByMarks
<1> QED BY <1>4, <1>5, <1>7, <1>8

-----------------------------------------------------------------------------
(* Sending.                                                                 *)

\* The frames after one was pushed.
LEMMA PushFrames ==
  ASSUME stack \in [Callers -> Seq(Frames)],
         NEW c \in Callers, NEW n, Pushes(c, n)
  PROVE  /\ \A h \in FrameSet' : h = n \/ \E g \in FrameSet : Like(h, g)
         /\ \A g \in FrameSet : \E h \in FrameSet' : h.key = g.key
         /\ n \in FrameSet'
<1>0. /\ stack' \in [Callers -> Seq(Frames)]
      /\ \A d \in Callers : Len(stack[d]) \in Nat
  BY DEF Pushes
<1>1. ASSUME NEW h \in FrameSet' PROVE h = n \/ \E g \in FrameSet : Like(h, g)
  <2>1. PICK d \in Callers : \E i \in 1 .. Len(stack'[d]) : h = stack'[d][i]
    BY <1>0, <1>1, FrameAtNext
  <2>2. PICK i \in 1 .. Len(stack'[d]) : h = stack'[d][i]
    BY <2>1
  <2>3. CASE i \in 1 .. Len(stack[d])
    BY <2>2, <2>3, FrameAt DEF Pushes
  <2>4. CASE i \notin 1 .. Len(stack[d])
    <3>1. d = c /\ i = Len(stack[c]) + 1
      BY <2>4, <1>0 DEF Pushes
    <3> QED BY <3>1, <2>2 DEF Pushes
  <2> QED BY <2>3, <2>4
<1>2. ASSUME NEW g \in FrameSet PROVE \E h \in FrameSet' : h.key = g.key
  <2>1. PICK d \in Callers : \E i \in 1 .. Len(stack[d]) : g = stack[d][i]
    BY <1>2, FrameAt
  <2>2. PICK i \in 1 .. Len(stack[d]) : g = stack[d][i]
    BY <2>1
  <2>3. i \in 1 .. Len(stack'[d]) /\ stack'[d][i].key = g.key
    BY <2>2, <1>0 DEF Pushes, Like
  <2> QED BY <2>3, <1>0, FrameAtNext
<1>3. n \in FrameSet'
  <2>1. Len(stack[c]) + 1 \in 1 .. Len(stack'[c])
    BY <1>0 DEF Pushes
  <2>2. stack'[c][Len(stack[c]) + 1] \in FrameSet'
    BY <2>1, <1>0, FrameAtNext
  <2> QED BY <2>2 DEF Pushes
<1> QED BY <1>1, <1>2, <1>3

\* The frames after the top one was sent again.
LEMMA ResendFrames ==
  ASSUME stack \in [Callers -> Seq(Frames)], Apart,
         NEW c \in Callers, stack[c] # <<>>, NEW n, Resends(c, n),
         n.key = Top(c).key, n.fut = Top(c).fut
  PROVE  /\ \A h \in FrameSet' : \/ h = n
                                 \/ h \in FrameSet /\ h.key # n.key /\ h.fut # n.fut
         /\ \A g \in FrameSet : \E h \in FrameSet' : h.key = g.key
<1>0. /\ stack' \in [Callers -> Seq(Frames)]
      /\ Len(stack[c]) \in 1 .. Len(stack[c])
      /\ Top(c) = stack[c][Len(stack[c])]
  BY TopOf DEF Resends
<1>1. ASSUME NEW h \in FrameSet'
      PROVE  h = n \/ (h \in FrameSet /\ h.key # n.key /\ h.fut # n.fut)
  <2>1. PICK d \in Callers : \E i \in 1 .. Len(stack'[d]) : h = stack'[d][i]
    BY <1>0, <1>1, FrameAtNext
  <2>2. PICK i \in 1 .. Len(stack'[d]) : h = stack'[d][i]
    BY <2>1
  <2>3. i \in 1 .. Len(stack[d])
    BY DEF Resends
  <2>4. CASE d = c /\ i = Len(stack[c])
    BY <2>2, <2>4, <2>3 DEF Resends
  <2>5. CASE ~(d = c /\ i = Len(stack[c]))
    <3>1. h = stack[d][i]
      BY <2>2, <2>3, <2>5 DEF Resends
    <3>2. h \in FrameSet
      BY <3>1, <2>3, FrameAt
    <3>3. h.key # Top(c).key /\ h.fut # Top(c).fut
      BY <3>1, <2>3, <2>5, <1>0 DEF Apart
    <3> QED BY <3>2, <3>3
  <2> QED BY <2>4, <2>5
<1>2. ASSUME NEW g \in FrameSet PROVE \E h \in FrameSet' : h.key = g.key
  <2>1. PICK d \in Callers : \E i \in 1 .. Len(stack[d]) : g = stack[d][i]
    BY <1>2, FrameAt
  <2>2. PICK i \in 1 .. Len(stack[d]) : g = stack[d][i]
    BY <2>1
  <2>3. i \in 1 .. Len(stack'[d]) /\ stack'[d][i].key = g.key
    BY <2>2, <1>0 DEF Resends
  <2> QED BY <2>3, <1>0, FrameAtNext
<1> QED BY <1>1, <1>2

\* A frame other than the one that is sent, by SendZmq or ResendTask, or by
\* ReconnectToNewHost, which forgets what the others had registered.
LEMMA SendOther ==
  ASSUME Types, NEW n, n.key \in Addresses,
         NEW g \in Frames, FrameOK(g), g.key # n.key, g.fut # n.fut,
         pending'[n.key] = n.fut,
         running' = running, leaked' = leaked,
         complete' = complete \ {n.fut}, lost \ {n.fut} \subseteq lost',
         NEW q, q.key = n.key, q.fut = n.fut, msgs' \subseteq msgs \cup {q},
         \/ \A k \in Addresses : k # n.key => /\ pending'[k] = pending[k]
                                              /\ archives'[k] = archives[k]
         \/ /\ \A k \in Addresses : k # n.key => pending'[k] = 0
            /\ g.origin = "zmq" => g.fut \in lost'
  PROVE  FrameOK(g)'
<1>0. /\ Filed(g) /\ ViaShm(g) /\ CanComplete(g) /\ Mail(g) /\ Loaded(g)
      /\ g.key \in Addresses /\ g.fut \in Futures /\ g.fut # 0
  BY DEF FrameOK, Frames, Futures
<1>1. \A m \in msgs' : m \in msgs \/ (m.key # g.key /\ m.fut # g.fut)
  OBVIOUS
<1>2. Filed(g)'
  BY <1>0 DEF Filed
<1>3. ViaShm(g)'
  BY <1>0, <1>1 DEF ViaShm
<1>4. CanComplete(g)'
  BY <1>0 DEF CanComplete
<1>5. Loaded(g)'
  BY <1>0 DEF Loaded
<1>6. Mail(g)'
  BY <1>0, <1>1 DEF Mail
<1> QED BY <1>2, <1>3, <1>4, <1>5, <1>6 DEF FrameOK

\* The frame of a task that is sent for the first time over ZeroMQ.
LEMMA SendNew ==
  ASSUME Types, Owed, NEW n \in Frames,
         n.try = 0, n.origin = "zmq", ~n.shared,
         n.strays <=> \E m \in msgs : m.key = n.key /\ m.left,
         n.key \notin leaked,
         \A f \in FrameSet : f.key # n.key,
         \A r \in running : r.fut # n.fut,
         \A k \in Addresses : pending[k] # n.fut,
         pending'[n.key] = n.fut,
         \A k \in Addresses : k # n.key => pending'[k] \in {pending[k], 0},
         running' = running, leaked' = leaked,
         complete' = complete \ {n.fut},
         NEW q, q.key = n.key, q.fut = n.fut, msgs' \subseteq msgs \cup {q}
  PROVE  FrameOK(n)'
<1>0. /\ n.key \in Addresses /\ n.fut \in Futures /\ n.fut # 0
  BY DEF Frames, Futures
<1>1. \A m \in msgs : m.key = n.key => m.left /\ n.strays
  BY DEF Owed
<1>2. Filed(n)'
  BY <1>0 DEF Filed
<1>3. ViaShm(n)'
  BY <1>0 DEF ViaShm
<1>4. CanComplete(n)'
  BY <1>0 DEF CanComplete
<1>5. Loaded(n)'
  BY <1>0 DEF Loaded
<1>6. Mail(n)'
  BY <1>0, <1>1 DEF Mail
<1> QED BY <1>2, <1>3, <1>4, <1>5, <1>6 DEF FrameOK

\* The frame of a task that is sent through shared memory, and the others.
LEMMA SendShmNew ==
  ASSUME Types, Owed, NEW n \in Frames,
         n.origin = "shm", n.shared,
         n.strays <=> \E m \in msgs : m.key = n.key /\ m.left,
         n.key \notin leaked,
         \A f \in FrameSet : f.key # n.key,
         \A m \in msgs : m.fut # n.fut,
         \A k \in Addresses : pending[k] # n.fut,
         pending' = pending, msgs' = msgs, leaked' = leaked,
         complete' = complete \ {n.fut},
         n.fut \in lost' \/ \E r \in running' : r.fut = n.fut
  PROVE  FrameOK(n)'
<1>0. /\ n.key \in Addresses /\ n.fut \in Futures /\ n.fut # 0
  BY DEF Frames, Futures
<1>1. \A m \in msgs : m.key = n.key => m.left /\ n.strays
  BY DEF Owed
<1>2. Filed(n)'
  BY <1>0 DEF Filed
<1>3. ViaShm(n)'
  BY <1>0 DEF ViaShm
<1>4. CanComplete(n)'
  BY <1>0 DEF CanComplete
<1>5. Loaded(n)'
  BY <1>0 DEF Loaded
<1>6. Mail(n)'
  BY <1>0, <1>1 DEF Mail
<1> QED BY <1>2, <1>3, <1>4, <1>5, <1>6 DEF FrameOK

\* Another frame when a task is sent through shared memory.
LEMMA SendShmOther ==
  ASSUME NEW n, NEW g \in Frames, FrameOK(g), g.fut # n.fut,
         pending' = pending, msgs' = msgs, leaked' = leaked, archives' = archives,
         complete' = complete \ {n.fut}, lost \subseteq lost',
         running \subseteq running',
         \A r \in running' : r \in running \/ r.fut = n.fut
  PROVE  FrameOK(g)'
<1>0. Filed(g) /\ ViaShm(g) /\ CanComplete(g) /\ Mail(g) /\ Loaded(g)
  BY DEF FrameOK
<1>2. Filed(g)'
  BY <1>0 DEF Filed
<1>3. ViaShm(g)'
  BY <1>0 DEF ViaShm
<1>4. CanComplete(g)'
  BY <1>0 DEF CanComplete
<1>5. Loaded(g)'
  BY <1>0 DEF Loaded
<1>6. Mail(g)'
  BY <1>0 DEF Mail
<1> QED BY <1>2, <1>3, <1>4, <1>5, <1>6 DEF FrameOK

\* The frame of a task that is sent again.
LEMMA SendAgain ==
  ASSUME Types, NEW f \in Frames, FrameOK(f), NEW n \in Frames,
         n.key = f.key, n.fut = f.fut, n.try > 0, n.origin = "zmq",
         n.strays = f.strays, n.shared = f.shared,
         pending' = [pending EXCEPT ![n.key] = n.fut],
         running' = running, leaked' = leaked,
         complete' = complete \ {n.fut},
         NEW q, q.key = n.key, q.fut = n.fut, msgs' = msgs \cup {q}
  PROVE  FrameOK(n)'
<1>0. /\ Filed(f) /\ ViaShm(f) /\ CanComplete(f) /\ Mail(f) /\ Loaded(f)
      /\ n.key \in Addresses /\ n.fut \in Futures /\ n.fut # 0
      /\ n.try \in Nat /\ n.try # 0
      /\ pending'[n.key] = n.fut
      /\ \A k \in Addresses : k # n.key => pending'[k] = pending[k]
  BY DEF FrameOK, Frames, Futures, Types
<1>2. Filed(n)'
  BY <1>0 DEF Filed
<1>3. ViaShm(n)'
  BY <1>0 DEF ViaShm
<1>4. CanComplete(n)'
  BY <1>0 DEF CanComplete
<1>5. Loaded(n)'
  BY <1>0 DEF Loaded
<1>6. Mail(n)'
  BY <1>0 DEF Mail
<1> QED BY <1>2, <1>3, <1>4, <1>5, <1>6 DEF FrameOK

-----------------------------------------------------------------------------
(* Steps in which no frame comes or goes.                                   *)

\* The frames after a quiet step.
LEMMA QuietFrames ==
  ASSUME stack \in [Callers -> Seq(Frames)], Quiet
  PROVE  /\ \A h \in FrameSet' : \E g \in FrameSet : Like(h, g)
         /\ \A g \in FrameSet : \E h \in FrameSet' : h.key = g.key
<1>0. stack' \in [Callers -> Seq(Frames)]
  BY DEF Quiet
<1>1. ASSUME NEW h \in FrameSet' PROVE \E g \in FrameSet : Like(h, g)
  <2>1. PICK d \in Callers : \E i \in 1 .. Len(stack'[d]) : h = stack'[d][i]
    BY <1>0, <1>1, FrameAtNext
  <2>2. PICK i \in 1 .. Len(stack'[d]) : h = stack'[d][i]
    BY <2>1
  <2> QED BY <2>2, FrameAt DEF Quiet
<1>2. ASSUME NEW g \in FrameSet PROVE \E h \in FrameSet' : h.key = g.key
  <2>1. PICK d \in Callers : \E i \in 1 .. Len(stack[d]) : g = stack[d][i]
    BY <1>2, FrameAt
  <2>2. PICK i \in 1 .. Len(stack[d]) : g = stack[d][i]
    BY <2>1
  <2>3. i \in 1 .. Len(stack'[d]) /\ stack'[d][i].key = g.key
    BY <2>2 DEF Quiet, Like
  <2> QED BY <2>3, <1>0, FrameAtNext
<1> QED BY <1>1, <1>2

\* When nothing happens to the stacks.
LEMMA SameStack ==
  ASSUME stack \in [Callers -> Seq(Frames)], stack' = stack
  PROVE  Quiet
  BY LikeItself DEF Quiet

\* A frame when nothing it is about changes.
LEMMA StillOK ==
  ASSUME NEW g \in Frames, FrameOK(g),
         UNCHANGED <<pending, archives, complete, leaked, msgs, running, lost>>
  PROVE  FrameOK(g)'
<1>0. Filed(g) /\ ViaShm(g) /\ CanComplete(g) /\ Mail(g) /\ Loaded(g)
  BY DEF FrameOK
<1>2. Filed(g)'
  BY <1>0 DEF Filed
<1>3. ViaShm(g)'
  BY <1>0 DEF ViaShm
<1>4. CanComplete(g)'
  BY <1>0 DEF CanComplete
<1>5. Loaded(g)'
  BY <1>0 DEF Loaded
<1>6. Mail(g)'
  BY <1>0 DEF Mail
<1> QED BY <1>2, <1>3, <1>4, <1>5, <1>6 DEF FrameOK

\* A step in which frames only move on.
LEMMA StillStep ==
  ASSUME Inv, Types', Quiet,
         UNCHANGED <<pending, archives, complete, leaked, msgs, running, lost, result>>
  PROVE  Inv'
<1>0. stack \in [Callers -> Seq(Frames)] /\ Bottom /\ Apart /\ FramesOK
  BY DEF Inv, Types
<1>1. Bottom' /\ Apart'
  BY <1>0, QuietShape
<1>2. Once'
  BY DEF Inv, Once
<1>3. Owed'
  BY <1>0, QuietFrames DEF Inv, Owed
<1>4. OwnAnswer'
  BY DEF Inv, OwnAnswer
<1>5. FramesOK'
  <2> SUFFICES ASSUME NEW h \in FrameSet' PROVE FrameOK(h)'
    BY DEF FramesOK
  <2>1. PICK g \in FrameSet : Like(h, g)
    BY <1>0, QuietFrames
  <2>2. g \in Frames /\ FrameOK(g)
    BY <1>0, FrameAt DEF FramesOK
  <2>3. FrameOK(g)'
    BY <2>2, StillOK
  <2> QED BY <2>1, <2>2, <2>3, LikeOK
<1> QED BY <1>1, <1>2, <1>3, <1>4, <1>5 DEF Inv

\* A step of the threads beside the callers: the stacks stay, and so does the
\* claim on every message that was there before.
LEMMA BesideStep ==
  ASSUME Inv, Types', stack' = stack, result' = result, leaked' = leaked, Once',
         \A x \in msgs' : \E m \in msgs : x.key = m.key /\ x.left = m.left,
         \A g \in FrameSet : FrameOK(g)'
  PROVE  Inv'
<1>0. stack \in [Callers -> Seq(Frames)] /\ Bottom /\ Apart
  BY DEF Inv, Types
<1>1. Bottom' /\ Apart'
  BY <1>0, QuietShape, SameStack
<1>2. FrameSet' = FrameSet
  BY DEF FrameSet
<1>3. Owed'
  BY <1>2 DEF Inv, Owed
<1>4. OwnAnswer'
  BY DEF Inv, OwnAnswer
<1>5. FramesOK'
  BY <1>2 DEF FramesOK
<1> QED BY <1>1, <1>3, <1>4, <1>5 DEF Inv

\* A record with another pc is like the frame when it does not begin to wait.
LEMMA MovedFrame ==
  ASSUME NEW f \in Frames, NEW p \in Pcs, p \in Live => f.pc \in Live
  PROVE  Like([f EXCEPT !.pc = p], f)
<1> DEFINE g == [f EXCEPT !.pc = p]
<1>1. g \in Frames
  BY DEF Frames
<1>2. /\ g.kind = f.kind /\ g.key = f.key /\ g.fut = f.fut /\ g.try = f.try
      /\ g.origin = f.origin /\ g.pc = p
  BY DEF Frames
<1>3. g.strays = f.strays /\ g.shared = f.shared
  BY DEF Frames
<1> QED BY <1>1, <1>2, <1>3 DEF Like

\* The same for attempts.
LEMMA CountedFrame ==
  ASSUME NEW f \in Frames, NEW a \in Nat
  PROVE  Like([f EXCEPT !.attempts = a], f)
<1> DEFINE g == [f EXCEPT !.attempts = a]
<1>1. g \in Frames
  BY DEF Frames
<1>2. /\ g.kind = f.kind /\ g.key = f.key /\ g.fut = f.fut /\ g.try = f.try
      /\ g.origin = f.origin /\ g.pc = f.pc
  BY DEF Frames
<1>3. g.strays = f.strays /\ g.shared = f.shared
  BY DEF Frames
<1> QED BY <1>1, <1>2, <1>3 DEF Like

\* The same for both.
LEMMA RestartedFrame ==
  ASSUME NEW f \in Frames, NEW p \in Pcs, p \notin Live
  PROVE  Like([f EXCEPT !.pc = p, !.attempts = 0], f)
<1> DEFINE g == [f EXCEPT !.pc = p, !.attempts = 0]
<1>1. g \in Frames
  BY DEF Frames
<1>2. /\ g.kind = f.kind /\ g.key = f.key /\ g.fut = f.fut /\ g.try = f.try
      /\ g.origin = f.origin /\ g.pc = p
  BY DEF Frames
<1>3. g.strays = f.strays /\ g.shared = f.shared
  BY DEF Frames
<1> QED BY <1>1, <1>2, <1>3 DEF Like

-----------------------------------------------------------------------------
(* Recv.                                                                    *)

\* A frame that is no call has a waiter below it.
LEMMA HasWaiter ==
  ASSUME stack \in [Callers -> Seq(Frames)], Bottom,
         NEW c \in Callers, stack[c] # <<>>, Top(c).kind # "call"
  PROVE  /\ Len(Below(c)) \in Nat \ {0}
         /\ Len(Below(c)) \in 1 .. Len(Below(c))
         /\ Len(Below(c)) \in 1 .. Len(stack[c])
         /\ Below(c)[Len(Below(c))] = stack[c][Len(Below(c))]
         /\ Below(c)[Len(Below(c))] \in Frames
<1>1. /\ Len(stack[c]) \in Nat \ {0} /\ Len(stack[c]) \in 1 .. Len(stack[c])
      /\ Top(c) = stack[c][Len(stack[c])]
      /\ Below(c) \in Seq(Frames) /\ Len(Below(c)) = Len(stack[c]) - 1
      /\ \A i \in 1 .. Len(stack[c]) - 1 : Below(c)[i] = stack[c][i]
  BY TopOf
<1>2. Len(stack[c]) # 1
  BY <1>1 DEF Bottom
<1>3. /\ Len(Below(c)) \in Nat \ {0}
      /\ Len(Below(c)) \in 1 .. Len(Below(c))
      /\ Len(Below(c)) \in 1 .. Len(stack[c])
  BY <1>1, <1>2
<1> QED BY <1>1, <1>3

\* The end of a wait pops a frame.
LEMMA PopsTop ==
  ASSUME stack \in [Callers -> Seq(Frames)], Bottom,
         NEW c \in Callers, stack[c] # <<>>,
         NEW n, Top(c).kind # "call" => Like(n, Below(c)[Len(Below(c))]),
         stack' = [stack EXCEPT ![c] =
                     IF Top(c).kind = "call" THEN <<>>
                     ELSE [Below(c) EXCEPT ![Len(Below(c))] = n]]
  PROVE  Pops(c)
<1>1. /\ Len(stack[c]) \in Nat \ {0} /\ Len(stack[c]) \in 1 .. Len(stack[c])
      /\ Top(c) = stack[c][Len(stack[c])]
      /\ Below(c) \in Seq(Frames) /\ Len(Below(c)) = Len(stack[c]) - 1
      /\ \A i \in 1 .. Len(stack[c]) - 1 : Below(c)[i] = stack[c][i]
  BY TopOf
<1> DEFINE s == IF Top(c).kind = "call" THEN <<>>
                ELSE [Below(c) EXCEPT ![Len(Below(c))] = n]
<1>2. /\ s \in Seq(Frames)
      /\ Len(s) = Len(stack[c]) - 1
      /\ \A i \in 1 .. Len(s) : Like(s[i], stack[c][i])
  <2>1. CASE Top(c).kind = "call"
    <3>1. Len(stack[c]) = 1
      BY <1>1, <2>1 DEF Bottom
    <3>2. s = <<>>
      BY <2>1
    <3>3. <<>> \in Seq(Frames) /\ Len(<<>>) = 0
      OBVIOUS
    <3> HIDE DEF s
    <3>4. s \in Seq(Frames) /\ Len(s) = 0
      BY <3>2, <3>3
    <3> QED BY <3>1, <3>4
  <2>2. CASE Top(c).kind # "call"
    <3>1. /\ Len(Below(c)) \in Nat \ {0}
          /\ Below(c)[Len(Below(c))] = stack[c][Len(Below(c))]
      BY <2>2, HasWaiter
    <3>2. n \in Frames /\ Like(n, Below(c)[Len(Below(c))])
      BY <2>2 DEF Like
    <3>3. s = [Below(c) EXCEPT ![Len(Below(c))] = n]
      BY <2>2
    <3>4. /\ s \in Seq(Frames) /\ Len(s) = Len(Below(c))
          /\ \A i \in 1 .. Len(s) : s[i] = IF i = Len(Below(c)) THEN n ELSE Below(c)[i]
      BY <3>1, <3>2, <3>3, <1>1
    <3>5. \A i \in 1 .. Len(stack[c]) : stack[c][i] \in Frames
      OBVIOUS
    <3>6. ASSUME NEW i \in 1 .. Len(s) PROVE Like(s[i], stack[c][i])
      <4>1. i \in 1 .. Len(stack[c]) /\ i \in 1 .. Len(stack[c]) - 1
        BY <3>4, <1>1
      <4>2. CASE i = Len(Below(c))
        BY <4>2, <3>4, <3>1, <3>2
      <4>3. CASE i # Len(Below(c))
        <5>1. s[i] = stack[c][i] /\ stack[c][i] \in Frames
          BY <4>1, <4>3, <3>4, <3>5, <1>1
        <5> QED BY <5>1, LikeItself
      <4> QED BY <4>2, <4>3
    <3> QED BY <3>4, <3>6, <1>1
  <2> QED BY <2>1, <2>2
<1>3. \A d \in Callers : stack'[d] = IF d = c THEN s ELSE stack[d]
  OBVIOUS
<1>4. stack' \in [Callers -> Seq(Frames)]
  BY <1>2
<1>5. \A d \in Callers : \A i \in 1 .. Len(stack[d]) : Like(stack[d][i], stack[d][i])
  BY LikeItself
<1> HIDE DEF s
<1> QED BY <1>2, <1>3, <1>4, <1>5 DEF Pops

\* What the caller of Wait resumes with: the frame below, further on.
LEMMA Resumed ==
  ASSUME NEW w \in Frames
  PROVE  /\ Like([w EXCEPT !.pc = "verify"], w)
         /\ Like([w EXCEPT !.pc = "resend"], w)
         /\ Like([w EXCEPT !.attempts = @ + 1], w)
<1>1. "verify" \in Pcs /\ "verify" \notin Live /\ "resend" \in Pcs /\ "resend" \notin Live
  BY DEF Pcs, Live
<1>2. w.attempts + 1 \in Nat
  BY DEF Frames
<1> QED BY <1>1, <1>2, MovedFrame, CountedFrame

\* A wait fails: the task's address is not used again, or its messages are
\* marked.
LEMMA FailsOK ==
  ASSUME Inv, NEW c \in Callers, stack[c] # <<>>,
         NEW still \in BOOLEAN, WaitFails(c, still)
  PROVE  Inv'
<1> DEFINE f == Top(c)
           rest == Below(c)
           n == IF f.kind = "register" THEN [rest[Len(rest)] EXCEPT !.pc = "verify"]
                ELSE [rest[Len(rest)] EXCEPT !.attempts = @ + 1]
<1>0. /\ Types /\ stack \in [Callers -> Seq(Frames)] /\ Bottom /\ Apart /\ Once /\ Owed
      /\ FramesOK /\ OwnAnswer /\ msgs \subseteq Messages
  BY DEF Inv, Types
<1>1. f \in Frames /\ f.key \in Addresses
  BY <1>0, TopOf DEF Frames
<1>2. /\ leaked' = (IF f.kind = "connect" THEN leaked ELSE leaked \cup {f.key})
      /\ msgs' = (IF f.kind = "connect" THEN LeftBy(f) ELSE msgs)
      /\ archives' = archives /\ freed' = freed
      /\ pending' = pending /\ running' = running
      /\ complete' = complete \ {f.fut} /\ lost' = lost \ {f.fut}
      /\ written' = written \ {f.fut}
      /\ UNCHANGED <<case, mode, link, attached, probe, up>>
  BY DEF WaitFails, Failed, GoOn
<1>3. alive' \in BOOLEAN /\ reconnecting' \in BOOLEAN
  BY <1>0 DEF WaitFails, GoOn, Types
<1>4. result' = IF f.kind = "call" THEN [result EXCEPT ![c] = Own] ELSE result
  BY DEF WaitFails, GoOn, Outcome
<1>5. stack' = [stack EXCEPT ![c] = IF f.kind = "call" THEN <<>>
                                    ELSE [rest EXCEPT ![Len(rest)] = n]]
  BY DEF WaitFails, GoOn
<1>6. f.kind # "call" => Like(n, rest[Len(rest)])
  BY <1>0, HasWaiter, Resumed
<1> HIDE DEF n
<1>7. Pops(c)
  BY <1>0, <1>5, <1>6, PopsTop
<1>8. Bottom' /\ Apart'
  BY <1>0, <1>7, PopShape
<1>9. FramesOK' /\ Once' /\ Owed' /\ msgs' \subseteq Messages
  <2>1. msgs' = msgs \/ msgs' = LeftBy(f)
    BY <1>2
  <2>2. leaked' = leaked \/ leaked' = leaked \cup {f.key}
    BY <1>2
  <2>3. msgs' = LeftBy(f) \/ f.key \in leaked'
    BY <1>2
  <2>4. PICK g : g = Top(c)
    OBVIOUS
  <2> QED BY <1>0, <1>2, <1>7, <2>1, <2>2, <2>3, <2>4, PopOK
<1>10. Types'
  <2>1. stack' \in [Callers -> Seq(Frames)]
    BY <1>7 DEF Pops
  <2>2. result' \in [Callers -> Outcomes]
    BY <1>0, <1>4 DEF Types, Own, Outcomes
  <2> QED BY <1>0, <1>1, <1>2, <1>3, <1>9, <2>1, <2>2 DEF Types
<1>11. OwnAnswer'
  <2>1. \A d \in Callers : result'[d] = result[d] \/ result'[d] = Own
    BY <1>0, <1>4 DEF Types
  <2> QED BY <1>0, <2>1 DEF OwnAnswer, Own
<1> QED BY <1>8, <1>9, <1>10, <1>11 DEF Inv

\* A wait succeeds: nobody else completes the future, unless it was sent
\* through shared memory, and a task that was sent once has its own answer.
LEMMA SucceedsOK ==
  ASSUME Inv, NEW c \in Callers, stack[c] # <<>>,
         Top(c).fut \in complete, WaitSucceeds(c)
  PROVE  Inv'
<1> DEFINE f == Top(c)
           rest == Below(c)
           n == IF f.kind = "register" THEN [rest[Len(rest)] EXCEPT !.pc = "verify"]
                ELSE IF f.kind = "connect" THEN [rest[Len(rest)] EXCEPT !.pc = "resend"]
                ELSE [rest[Len(rest)] EXCEPT !.attempts = @ + 1]
<1>0. /\ Types /\ stack \in [Callers -> Seq(Frames)] /\ Bottom /\ Apart /\ Once /\ Owed
      /\ FramesOK /\ OwnAnswer /\ msgs \subseteq Messages
  BY DEF Inv, Types
<1>1. f \in Frames /\ f.key \in Addresses /\ f.fut \in Futures /\ f.try \in Nat
  BY <1>0, TopOf DEF Frames
<1>2. FrameOK(f)
  BY <1>0, TopOf, FrameAt DEF FramesOK
<1>3. /\ archives' = (IF f.origin = "shm" THEN archives
                      ELSE [archives EXCEPT ![f.key] = 0])
      /\ msgs' = (IF f.try > 0 \/ f.strays THEN LeftBy(f) ELSE msgs)
      /\ leaked' = leaked
  BY DEF WaitSucceeds, Consumed
<1>4. /\ pending' = pending /\ running' = running
      /\ complete' = complete \ {f.fut} /\ lost' = lost \ {f.fut}
      /\ written' = written \ {f.fut}
      /\ UNCHANGED <<case, mode, link, attached, probe, up>>
  BY DEF WaitSucceeds, GoOn
<1>5. freed' \subseteq freed \cup {[fut |-> f.fut, shared |-> TRUE]}
  <2>1. CASE f.shared
    <3>1. f.shared = TRUE
      BY <1>1, <2>1 DEF Frames
    <3> QED BY <3>1 DEF WaitSucceeds, Consumed
  <2>2. CASE ~f.shared
    <3>1. \A k \in Addresses : pending[k] # f.fut
      BY <1>2, <2>2 DEF FrameOK, Filed
    <3>2. \A r \in running : r.fut # f.fut
      BY <1>2, <2>2 DEF FrameOK, ViaShm
    <3> QED BY <3>1, <3>2 DEF WaitSucceeds, Consumed
  <2> QED BY <2>1, <2>2
<1>6. alive' \in BOOLEAN /\ reconnecting' \in BOOLEAN
  BY <1>0 DEF WaitSucceeds, GoOn, Types
<1>7. result' = IF f.kind = "call" THEN [result EXCEPT ![c] = Outcome(f, TRUE)] ELSE result
  BY DEF WaitSucceeds, GoOn
<1>8. stack' = [stack EXCEPT ![c] = IF f.kind = "call" THEN <<>>
                                    ELSE [rest EXCEPT ![Len(rest)] = n]]
  BY DEF WaitSucceeds, GoOn
<1>9. f.kind # "call" => Like(n, rest[Len(rest)])
  BY <1>0, HasWaiter, Resumed
<1> HIDE DEF n
<1>10. Pops(c)
  BY <1>0, <1>8, <1>9, PopsTop
<1>11. Bottom' /\ Apart'
  BY <1>0, <1>10, PopShape
<1>12. FramesOK' /\ Once' /\ Owed' /\ msgs' \subseteq Messages
  <2>1. msgs' = msgs \/ msgs' = LeftBy(f)
    BY <1>3
  <2>2. \A k \in Addresses : k # f.key => archives'[k] = archives[k]
    BY <1>0, <1>3 DEF Types
  <2>3. msgs' = LeftBy(f) \/ \A m \in msgs : m.key # f.key
    <3>1. CASE f.try > 0 \/ f.strays
      BY <3>1, <1>3
    <3>2. CASE ~(f.try > 0) /\ ~f.strays
      <4>1. f.try = 0
        BY <3>2, <1>1
      <4> QED BY <4>1, <3>2, <1>2 DEF FrameOK, Mail
    <3> QED BY <3>1, <3>2
  <2>4. PICK g : g = Top(c)
    OBVIOUS
  <2> QED BY <1>0, <1>3, <1>4, <1>10, <2>1, <2>2, <2>3, <2>4, PopOK
<1>13. Types'
  <2>1. stack' \in [Callers -> Seq(Frames)]
    BY <1>10 DEF Pops
  <2>2. archives' \in [Addresses -> Futures \cup {0}]
    BY <1>0, <1>1, <1>3 DEF Types
  <2>3. freed' \subseteq [fut : Futures, shared : {TRUE}]
    <3>1. [fut |-> f.fut, shared |-> TRUE] \in [fut : Futures, shared : {TRUE}]
      BY <1>1
    <3>2. freed \subseteq [fut : Futures, shared : {TRUE}]
      BY <1>0 DEF Types
    <3> QED BY <1>5, <3>1, <3>2
  <2>4. result' \in [Callers -> Outcomes]
    <3>1. Outcome(f, TRUE) \in Outcomes
      BY DEF Outcome, Own, Outcomes
    <3> QED BY <1>0, <1>7, <3>1 DEF Types
  <2> QED BY <1>0, <1>3, <1>4, <1>6, <1>12, <2>1, <2>2, <2>3, <2>4 DEF Types
<1>14. OwnAnswer'
  <2>1. ASSUME Outcome(f, TRUE).answer \in {"none", "other"}
        PROVE  Outcome(f, TRUE).excused
    <3>1. f.origin # "shm" /\ archives[f.key] # f.fut
      BY <2>1 DEF Outcome, Own
    <3>2. f.origin = "zmq"
      BY <3>1, <1>1 DEF Frames
    <3>3. f.strays \/ f.try > 0 \/ f.fut \in lost
      <4> SUFFICES ASSUME ~f.strays, f.fut \notin lost PROVE f.try > 0
        OBVIOUS
      <4>1. f.try # 0
        BY <3>1, <3>2, <1>2 DEF FrameOK, Loaded
      <4> QED BY <4>1, <1>1
    <3>4. Outcome(f, TRUE).excused = (f.strays \/ f.try > 0 \/ f.fut \in lost)
      BY <3>1 DEF Outcome
    <3> QED BY <3>3, <3>4
  <2>2. \A d \in Callers : result'[d] = result[d] \/ result'[d] = Outcome(f, TRUE)
    BY <1>0, <1>7 DEF Types
  <2> QED BY <1>0, <2>1, <2>2 DEF OwnAnswer
<1> QED BY <1>11, <1>12, <1>13, <1>14 DEF Inv

\* A frame moves on and nothing else changes.
LEMMA GotoOK ==
  ASSUME Inv, NEW c \in Callers, stack[c] # <<>>,
         NEW p \in Pcs, p \in Live => Top(c).pc \in Live, Goto(c, p)
  PROVE  Inv'
<1>0. Types /\ stack \in [Callers -> Seq(Frames)]
  BY DEF Inv, Types
<1>1. Like([Top(c) EXCEPT !.pc = p], Top(c))
  BY <1>0, TopOf, MovedFrame
<1>2. Quiet
  BY <1>0, <1>1, MovesOn DEF Goto
<1>3. Types'
  BY <1>0, <1>2 DEF Types, Goto, client, heart, server, ghost, Quiet
<1>4. UNCHANGED <<pending, archives, complete, leaked, msgs, running, lost, result>>
  BY DEF Goto, client, server, ghost
<1> QED BY <1>2, <1>3, <1>4, StillStep

\* Recv finds the server dead.
LEMMA ServerDeadOK ==
  ASSUME Inv, NEW c \in Callers, stack[c] # <<>>, ServerDead(c)
  PROVE  Inv'
<1>1. reconnecting \in BOOLEAN
  BY DEF Inv, Types
<1>2. "dead" \in Pcs /\ "dead" \notin Live
  BY DEF Pcs, Live
<1>3. CASE WaitFails(c, reconnecting)
  BY <1>1, <1>3, FailsOK
<1>4. CASE Goto(c, "dead")
  BY <1>2, <1>4, GotoOK
<1> QED BY <1>3, <1>4 DEF ServerDead

\* Wait, and Recv until the server is found dead.
LEMMA RecvOK ==
  ASSUME Inv, NEW c \in Callers,
         Wait(c) \/ RecvShm(c) \/ RecvShmFlag(c) \/ RecvZmq(c)
  PROVE  Inv'
<1>0. reconnecting \in BOOLEAN
  BY DEF Inv, Types
<1>1. CASE Wait(c)
  <2>1. stack[c] # <<>> /\ Top(c).pc \in Live
    BY <1>1 DEF Wait, At, Live
  <2>2. "loop" \in Pcs /\ "shm_read" \in Pcs
    BY DEF Pcs
  <2>3. Goto(c, "loop") \/ Goto(c, "shm_read") \/ ServerDead(c)
    BY <1>1 DEF Wait
  <2> QED BY <2>1, <2>2, <2>3, GotoOK, ServerDeadOK
<1>2. CASE RecvShm(c)
  <2>1. "shm_flag" \in Pcs /\ "shm_flag" \notin Live
    BY DEF Pcs, Live
  <2>2. stack[c] # <<>> /\ Goto(c, "shm_flag")
    BY <1>2 DEF RecvShm, At
  <2> QED BY <2>1, <2>2, GotoOK
<1>3. CASE RecvShmFlag(c)
  <2>1. stack[c] # <<>>
    BY <1>3 DEF RecvShmFlag, At
  <2>2. \/ Top(c).fut \in complete /\ WaitSucceeds(c)
        \/ ServerDead(c)
        \/ WaitFails(c, reconnecting)
    BY <1>3 DEF RecvShmFlag
  <2> QED BY <1>0, <2>1, <2>2, SucceedsOK, ServerDeadOK, FailsOK
<1>4. CASE RecvZmq(c)
  <2>1. stack[c] # <<>>
    BY <1>4 DEF RecvZmq, At
  <2>2. \/ Top(c).fut \in complete /\ WaitSucceeds(c)
        \/ ServerDead(c)
        \/ WaitFails(c, reconnecting)
    BY <1>4 DEF RecvZmq
  <2> QED BY <1>0, <2>1, <2>2, SucceedsOK, ServerDeadOK, FailsOK
<1> QED BY <1>1, <1>2, <1>3, <1>4

-----------------------------------------------------------------------------
(* Tasks that are sent.                                                     *)

\* A frame is pushed on a stack whose top moves on.
LEMMA PushesOn ==
  ASSUME stack \in [Callers -> Seq(Frames)],
         NEW c \in Callers, stack[c] # <<>>,
         NEW w, Like(w, Top(c)), NEW n \in Frames,
         stack' = [stack EXCEPT ![c] = Append(Append(Below(c), w), n)]
  PROVE  Pushes(c, n)
<1>1. /\ Len(stack[c]) \in Nat \ {0}
      /\ Top(c) = stack[c][Len(stack[c])]
      /\ Below(c) \in Seq(Frames)
      /\ Len(Below(c)) = Len(stack[c]) - 1
      /\ \A i \in 1 .. Len(stack[c]) - 1 : Below(c)[i] = stack[c][i]
  BY TopOf
<1>2. w \in Frames
  BY DEF Like
<1> DEFINE s == Append(Append(Below(c), w), n)
<1>3. /\ s \in Seq(Frames)
      /\ Len(s) = Len(stack[c]) + 1
      /\ s[Len(stack[c]) + 1] = n
      /\ \A i \in 1 .. Len(stack[c]) : s[i] = IF i = Len(stack[c]) THEN w ELSE stack[c][i]
  BY <1>1, <1>2
<1>4. \A d \in Callers : \A i \in 1 .. Len(stack[d]) : Like(stack[d][i], stack[d][i])
  BY LikeItself
<1>5. \A i \in 1 .. Len(stack[c]) : Like(s[i], stack[c][i])
  <2> SUFFICES ASSUME NEW i \in 1 .. Len(stack[c]) PROVE Like(s[i], stack[c][i])
    OBVIOUS
  <2> HIDE DEF s
  <2>1. CASE i = Len(stack[c])
    BY <2>1, <1>1, <1>3
  <2>2. CASE i # Len(stack[c])
    BY <2>2, <1>3, <1>4
  <2> QED BY <2>1, <2>2
<1>6. /\ stack' \in [Callers -> Seq(Frames)]
      /\ \A d \in Callers : stack'[d] = IF d = c THEN s ELSE stack[d]
  BY <1>3
<1> HIDE DEF s
<1> QED BY <1>3, <1>4, <1>5, <1>6 DEF Pushes

\* A frame is pushed on a stack that stays as it was.
LEMMA PushesAbove ==
  ASSUME stack \in [Callers -> Seq(Frames)], NEW c \in Callers, NEW n \in Frames,
         stack' = [stack EXCEPT ![c] = Append(stack[c], n)]
  PROVE  Pushes(c, n)
<1> DEFINE s == Append(stack[c], n)
<1>1. Len(stack[c]) \in Nat
  OBVIOUS
<1>3. /\ s \in Seq(Frames)
      /\ Len(s) = Len(stack[c]) + 1
      /\ s[Len(stack[c]) + 1] = n
      /\ \A i \in 1 .. Len(stack[c]) : s[i] = stack[c][i]
  BY <1>1
<1>4. \A d \in Callers : \A i \in 1 .. Len(stack[d]) : Like(stack[d][i], stack[d][i])
  BY LikeItself
<1>6. /\ stack' \in [Callers -> Seq(Frames)]
      /\ \A d \in Callers : stack'[d] = IF d = c THEN s ELSE stack[d]
  BY <1>3
<1> HIDE DEF s
<1> QED BY <1>3, <1>4, <1>6 DEF Pushes

\* The frame of a new task.
LEMMA NewFrame ==
  ASSUME NEW kind \in Kinds, NEW key \in Addresses, NEW fut \in Futures,
         NEW origin \in {"zmq", "shm"}, NEW pc \in Pcs,
         NEW limited \in BOOLEAN,
         NEW n, n = Frame(kind, key, fut, origin, pc, limited)
  PROVE  /\ n \in Frames
         /\ n.kind = kind /\ n.key = key /\ n.fut = fut /\ n.try = 0
         /\ n.origin = origin
         /\ n.strays <=> \E m \in msgs : m.key = key /\ m.left
         /\ n.shared <=> origin = "shm"
<1>1. n \in Frames
  BY DEF Frame, Frames
<1>2. /\ n.kind = kind /\ n.key = key /\ n.fut = fut /\ n.try = 0
      /\ n.origin = origin
  BY DEF Frame
<1>3. n.strays <=> \E m \in msgs : m.key = key /\ m.left
  BY DEF Frame
<1>4. n.shared <=> origin = "shm"
  BY DEF Frame
<1> QED BY <1>1, <1>2, <1>3, <1>4

\* A task is sent over ZeroMQ for the first time.
LEMMA PushOK ==
  ASSUME Inv, Types', NEW c \in Callers, NEW n \in Frames, Pushes(c, n),
         n.kind = "call" <=> stack[c] = <<>>,
         n.try = 0, n.origin = "zmq", ~n.shared,
         n.strays <=> \E m \in msgs : m.key = n.key /\ m.left,
         n.key \notin leaked,
         \A f \in FrameSet : f.key # n.key /\ f.fut # n.fut,
         \A r \in running : r.fut # n.fut,
         \A k \in Addresses : pending[k] # n.fut,
         pending'[n.key] = n.fut,
         running' = running, leaked' = leaked, result' = result,
         complete' = complete \ {n.fut}, lost \ {n.fut} \subseteq lost',
         NEW q, q.key = n.key, q.fut = n.fut, msgs' \subseteq msgs \cup {q},
         \/ \A k \in Addresses : k # n.key => /\ pending'[k] = pending[k]
                                              /\ archives'[k] = archives[k]
         \/ /\ \A k \in Addresses : k # n.key => pending'[k] = 0
            /\ \A g \in FrameSet : g.origin = "zmq" => g.fut \in lost'
  PROVE  Inv'
<1>0. /\ Types /\ stack \in [Callers -> Seq(Frames)] /\ Bottom /\ Apart /\ Once /\ Owed
      /\ FramesOK /\ OwnAnswer /\ n.key \in Addresses
  BY DEF Inv, Types, Frames
<1>1. Bottom' /\ Apart'
  BY <1>0, PushShape
<1>2. Once'
  BY <1>0 DEF Once
<1>3. Owed'
  <2> SUFFICES ASSUME NEW x \in msgs', ~x.left, x.key \notin leaked'
               PROVE  \E h \in FrameSet' : h.key = x.key
    BY DEF Owed
  <2>1. CASE x = q
    BY <2>1, <1>0, PushFrames
  <2>2. CASE x \in msgs
    <3>1. PICK g \in FrameSet : g.key = x.key
      BY <2>2, <1>0 DEF Owed
    <3> QED BY <3>1, <1>0, PushFrames
  <2> QED BY <2>1, <2>2
<1>4. OwnAnswer'
  BY <1>0 DEF OwnAnswer
<1>5. FrameOK(n)'
  <2>1. \A k \in Addresses : k # n.key => pending'[k] \in {pending[k], 0}
    OBVIOUS
  <2>2. \A f \in FrameSet : f.key # n.key
    OBVIOUS
  <2> QED BY <1>0, <2>1, <2>2, SendNew
<1>6. FramesOK'
  <2> SUFFICES ASSUME NEW h \in FrameSet' PROVE FrameOK(h)'
    BY DEF FramesOK
  <2>1. CASE h = n
    BY <2>1, <1>5
  <2>2. CASE \E g \in FrameSet : Like(h, g)
    <3>1. PICK g \in FrameSet : Like(h, g)
      BY <2>2
    <3>2. g \in Frames /\ FrameOK(g) /\ g.key # n.key /\ g.fut # n.fut
      BY <1>0, FrameAt DEF FramesOK
    <3>3. FrameOK(g)'
      BY <3>2, <1>0, SendOther
    <3> QED BY <3>1, <3>2, <3>3, LikeOK
  <2> QED BY <2>1, <2>2, <1>0, PushFrames
<1> QED BY <1>1, <1>2, <1>3, <1>4, <1>6 DEF Inv

\* A task is sent through shared memory.
LEMMA PushShmOK ==
  ASSUME Inv, Types', NEW c \in Callers, NEW n \in Frames, Pushes(c, n),
         n.kind = "call" <=> stack[c] = <<>>,
         n.origin = "shm", n.shared,
         n.strays <=> \E m \in msgs : m.key = n.key /\ m.left,
         n.key \notin leaked,
         \A f \in FrameSet : f.key # n.key /\ f.fut # n.fut,
         \A m \in msgs : m.fut # n.fut,
         \A k \in Addresses : pending[k] # n.fut,
         pending' = pending, msgs' = msgs, leaked' = leaked, archives' = archives,
         result' = result,
         complete' = complete \ {n.fut}, lost \subseteq lost',
         running \subseteq running',
         \A r \in running' : r \in running \/ r.fut = n.fut,
         n.fut \in lost' \/ \E r \in running' : r.fut = n.fut
  PROVE  Inv'
<1>0. /\ Types /\ stack \in [Callers -> Seq(Frames)] /\ Bottom /\ Apart /\ Once /\ Owed
      /\ FramesOK /\ OwnAnswer /\ n.key \in Addresses
  BY DEF Inv, Types, Frames
<1>1. Bottom' /\ Apart'
  BY <1>0, PushShape
<1>2. Once'
  BY <1>0 DEF Once
<1>3. Owed'
  BY <1>0, PushFrames DEF Owed
<1>4. OwnAnswer'
  BY <1>0 DEF OwnAnswer
<1>5. FrameOK(n)'
  BY <1>0, SendShmNew
<1>6. FramesOK'
  <2> SUFFICES ASSUME NEW h \in FrameSet' PROVE FrameOK(h)'
    BY DEF FramesOK
  <2>1. CASE h = n
    BY <2>1, <1>5
  <2>2. CASE \E g \in FrameSet : Like(h, g)
    <3>1. PICK g \in FrameSet : Like(h, g)
      BY <2>2
    <3>2. g \in Frames /\ FrameOK(g) /\ g.fut # n.fut
      BY <1>0, FrameAt DEF FramesOK
    <3>3. FrameOK(g)'
      BY <3>2, SendShmOther
    <3> QED BY <3>1, <3>2, <3>3, LikeOK
  <2> QED BY <2>1, <2>2, <1>0, PushFrames
<1> QED BY <1>1, <1>2, <1>3, <1>4, <1>6 DEF Inv

\* What SendZmq does.
LEMMA SendZmqDoes ==
  ASSUME Types, NEW n \in Frames, SendZmq(n)
  PROVE  /\ pending' \in [Addresses -> Futures \cup {0}]
         /\ pending'[n.key] = n.fut
         /\ \A k \in Addresses : k # n.key => pending'[k] = pending[k]
         /\ pending' = [pending EXCEPT ![n.key] = n.fut]
         /\ Request(n).key = n.key /\ Request(n).fut = n.fut
         /\ msgs' = msgs \cup {Request(n)}
         /\ msgs' \subseteq Messages
         /\ complete' = complete \ {n.fut} /\ lost' = lost \ {n.fut}
         /\ complete' \subseteq Futures
<1>1. n.key \in Addresses /\ n.fut \in Futures /\ n.try \in Nat
  BY DEF Frames
<1>2. /\ Request(n).key = n.key /\ Request(n).fut = n.fut
      /\ Request(n) \in Messages
  BY <1>1 DEF Request, Messages, Types
<1> QED BY <1>1, <1>2 DEF SendZmq, Types

\* A task of the client itself is pushed and sent.
LEMMA OwnTaskOK ==
  ASSUME Inv, Room, NEW c \in Callers, stack[c] # <<>>,
         NEW w, Like(w, Top(c)), NEW kind \in {"register", "connect"},
         Push(c, w, kind, FreeAddress, NewFuture),
         attached' \in BOOLEAN,
         UNCHANGED <<case, mode, link, reconnecting, archives, freed, leaked,
                     heart, server, result>>
  PROVE  Inv'
<1> DEFINE F == Frame(kind, FreeAddress, NewFuture, "zmq", "loop", kind = "connect")
<1>0. /\ Types /\ stack \in [Callers -> Seq(Frames)]
  BY DEF Inv, Types
<1>1. PICK n : n = F
  OBVIOUS
<1>2. /\ FreeAddress \in Addresses /\ FreeAddress \notin leaked
      /\ \A f \in FrameSet : f.key # FreeAddress
      /\ NewFuture \in Futures
      /\ \A f \in FrameSet : f.fut # NewFuture
      /\ \A r \in running : r.fut # NewFuture
      /\ \A k \in Addresses : pending[k] # NewFuture
  BY RoomIsFree
<1>3. kind \in Kinds /\ kind # "call" /\ "loop" \in Pcs /\ "zmq" \in {"zmq", "shm"}
  BY DEF Kinds, Pcs
<1>4. PICK lim \in BOOLEAN : lim = (kind = "connect")
  OBVIOUS
<1>5. n = Frame(kind, FreeAddress, NewFuture, "zmq", "loop", lim)
  BY <1>1, <1>4
<1>6. /\ n \in Frames
      /\ n.kind = kind /\ n.key = FreeAddress /\ n.fut = NewFuture /\ n.try = 0
      /\ n.origin = "zmq"
      /\ n.strays <=> \E m \in msgs : m.key = FreeAddress /\ m.left
      /\ n.shared <=> "zmq" = "shm"
  BY <1>2, <1>3, <1>5, NewFrame
<1>7. /\ stack' = [stack EXCEPT ![c] = Append(Append(Below(c), w), n)]
      /\ SendZmq(n)
  BY <1>1 DEF Push
<1> HIDE DEF F
<1>8. Pushes(c, n)
  BY <1>0, <1>6, <1>7, PushesOn
<1>9. /\ pending' \in [Addresses -> Futures \cup {0}]
      /\ pending'[n.key] = n.fut
      /\ \A k \in Addresses : k # n.key => pending'[k] = pending[k]
      /\ Request(n).key = n.key /\ Request(n).fut = n.fut
      /\ msgs' = msgs \cup {Request(n)}
      /\ msgs' \subseteq Messages
      /\ complete' = complete \ {n.fut} /\ lost' = lost \ {n.fut}
      /\ complete' \subseteq Futures
  BY <1>0, <1>6, <1>7, SendZmqDoes
<1>10. Types'
  BY <1>0, <1>8, <1>9 DEF Types, Pushes, heart, server
<1>11. running' = running /\ leaked' = leaked /\ result' = result /\ archives' = archives
  BY DEF server
<1>12. /\ ~n.shared /\ n.kind # "call" /\ n.key \notin leaked
       /\ n.strays <=> \E m \in msgs : m.key = n.key /\ m.left
       /\ \A f \in FrameSet : f.key # n.key /\ f.fut # n.fut
       /\ \A r \in running : r.fut # n.fut
       /\ \A k \in Addresses : pending[k] # n.fut
  BY <1>2, <1>3, <1>6
<1>13. PICK q : q = Request(n)
  OBVIOUS
<1> QED BY <1>6, <1>8, <1>9, <1>10, <1>11, <1>12, <1>13, PushOK

\* WaitForServerAndReconnect begins, or stops trying the original host.
LEMMA BeginsOK ==
  ASSUME Inv, NEW c \in Callers, WaitForServerAndReconnect(c) \/ GiveUpOriginal(c)
  PROVE  Inv'
<1>0. /\ Types /\ stack \in [Callers -> Seq(Frames)]
  BY DEF Inv, Types
<1>1. stack[c] # <<>>
  BY DEF WaitForServerAndReconnect, GiveUpOriginal, At
<1>2. PICK p \in {"original", "newhost"} :
        stack' = SetTop(c, [Top(c) EXCEPT !.pc = p, !.attempts = 0])
  BY DEF WaitForServerAndReconnect, GiveUpOriginal
<1>3. p \in Pcs /\ p \notin Live
  BY <1>2 DEF Pcs, Live
<1>4. Like([Top(c) EXCEPT !.pc = p, !.attempts = 0], Top(c))
  BY <1>0, <1>1, <1>3, TopOf, RestartedFrame
<1>5. Quiet
  BY <1>0, <1>1, <1>2, <1>4, MovesOn
<1>6. /\ UNCHANGED <<case, mode, link, attached, alive, probe, pending, archives, complete,
                     freed, leaked, msgs, running, written, up, lost, result>>
      /\ reconnecting' \in BOOLEAN
  BY <1>0 DEF WaitForServerAndReconnect, GiveUpOriginal, client, heart, server, ghost, Types
<1>7. Types'
  BY <1>0, <1>5, <1>6 DEF Types, Quiet
<1> QED BY <1>5, <1>6, <1>7, StillStep

\* ReconnectToOriginalHost and WaitForLocalServer.
LEMMA OriginalOK ==
  ASSUME Inv, NEW c \in Callers, ReconnectToOriginalHost(c) \/ WaitForLocalServer(c)
  PROVE  Inv'
<1>0. /\ Types /\ stack \in [Callers -> Seq(Frames)]
  BY DEF Inv, Types
<1>1. stack[c] # <<>>
  BY DEF ReconnectToOriginalHost, WaitForLocalServer, At
<1>2. Top(c) \in Frames
  BY <1>0, <1>1, TopOf
<1>3. CASE WaitForLocalServer(c)
  <2>1. "original" \in Pcs /\ "original" \notin Live
    BY DEF Pcs, Live
  <2>2. Like([Top(c) EXCEPT !.pc = "original"], Top(c))
    BY <1>2, <2>1, MovedFrame
  <2>3. attached' \in BOOLEAN
    BY <1>0, <1>3 DEF WaitForLocalServer, Types
  <2>4. /\ Room
        /\ Push(c, [Top(c) EXCEPT !.pc = "original"], "connect", FreeAddress, NewFuture)
        /\ UNCHANGED <<case, mode, link, reconnecting, archives, freed, leaked,
                       heart, server, result>>
    BY <1>3 DEF WaitForLocalServer
  <2> QED BY <1>1, <2>2, <2>3, <2>4, OwnTaskOK
<1>4. CASE ReconnectToOriginalHost(c) /\ mode = "shm" /\ link \notin up
  <2>1. Top(c).attempts + 1 \in Nat
    BY <1>2 DEF Frames
  <2>2. Like([Top(c) EXCEPT !.attempts = Top(c).attempts + 1], Top(c))
    BY <1>2, <2>1, CountedFrame
  <2>3. stack' = SetTop(c, [Top(c) EXCEPT !.attempts = Top(c).attempts + 1])
    BY <1>4 DEF ReconnectToOriginalHost
  <2>4. Quiet
    BY <1>0, <1>1, <2>2, <2>3, MovesOn
  <2>5. /\ UNCHANGED <<case, mode, link, alive, probe, pending, archives, complete,
                       reconnecting, freed, leaked, msgs, running, written, up, lost, result>>
        /\ attached' \in BOOLEAN
    BY <1>4 DEF ReconnectToOriginalHost, heart, server
  <2>6. Types'
    BY <1>0, <2>4, <2>5 DEF Types, Quiet
  <2> QED BY <2>4, <2>5, <2>6, StillStep
<1>5. CASE ReconnectToOriginalHost(c) /\ ~(mode = "shm" /\ link \notin up)
  <2>1. PICK kind \in {"register", "connect"} :
           kind = IF mode = "shm" THEN "register" ELSE "connect"
    OBVIOUS
  <2>2. /\ Room
        /\ Push(c, Top(c), kind, FreeAddress, NewFuture)
        /\ attached' \in BOOLEAN
        /\ UNCHANGED <<case, mode, link, reconnecting, archives, freed, leaked,
                       heart, server, result>>
    BY <1>5, <2>1 DEF ReconnectToOriginalHost
  <2>3. Like(Top(c), Top(c))
    BY <1>2, LikeItself
  <2> QED BY <1>1, <2>2, <2>3, OwnTaskOK
<1> QED BY <1>3, <1>4, <1>5

\* ReconnectToNewHost: whatever was registered is counted as lost.
LEMMA NewHostOK ==
  ASSUME Inv, NEW c \in Callers, ReconnectToNewHost(c)
  PROVE  Inv'
<1>0. /\ Types /\ stack \in [Callers -> Seq(Frames)]
  BY DEF Inv, Types
<1>1. stack[c] # <<>> /\ Room
  BY DEF ReconnectToNewHost, At
<1>2. PICK n : n = Frame("connect", FreeAddress, NewFuture, "zmq", "loop", TRUE)
  OBVIOUS
<1>a. PICK lim \in BOOLEAN : lim = TRUE
  OBVIOUS
<1>b. n = Frame("connect", FreeAddress, NewFuture, "zmq", "loop", lim)
  BY <1>2, <1>a
<1>3. /\ FreeAddress \in Addresses /\ FreeAddress \notin leaked
      /\ \A f \in FrameSet : f.key # FreeAddress
      /\ NewFuture \in Futures
      /\ \A f \in FrameSet : f.fut # NewFuture
      /\ \A r \in running : r.fut # NewFuture
      /\ \A k \in Addresses : pending[k] # NewFuture
  BY <1>1, RoomIsFree
<1>4. "connect" \in Kinds /\ "loop" \in Pcs /\ "zmq" \in {"zmq", "shm"}
  BY DEF Kinds, Pcs
<1>5. /\ n \in Frames
      /\ n.kind = "connect" /\ n.key = FreeAddress /\ n.fut = NewFuture /\ n.try = 0
      /\ n.origin = "zmq"
      /\ n.strays <=> \E m \in msgs : m.key = FreeAddress /\ m.left
      /\ n.shared <=> "zmq" = "shm"
  BY <1>b, <1>3, <1>4, NewFrame
<1>6. PICK h \in Hosts :
         /\ link' = h
         /\ stack' = [stack EXCEPT ![c] = Append(@, n)]
         /\ pending' = [k \in Addresses |-> IF k = n.key THEN n.fut ELSE 0]
         /\ archives' = [k \in Addresses |-> 0]
         /\ \E read \in SUBSET {m \in msgs : m.type = "req" /\ m.host \in up} :
              msgs' = read \cup {[Request(n) EXCEPT !.host = h]}
         /\ complete' = complete \ {n.fut}
         /\ lost' = (lost \cup {g.fut : g \in {g \in FrameSet : g.origin = "zmq"}})
                    \ {n.fut}
  BY <1>2 DEF ReconnectToNewHost
<1>7. PICK q : q = [Request(n) EXCEPT !.host = h]
  OBVIOUS
<1>8. q.key = n.key /\ q.fut = n.fut /\ q \in Messages
  <2>1. n.key \in Addresses /\ n.fut \in Futures /\ n.try \in Nat
    BY <1>5 DEF Frames
  <2>2. q = [type |-> "req", host |-> h, key |-> n.key, fut |-> n.fut, try |-> n.try,
             left |-> FALSE]
    BY <1>7 DEF Request
  <2> QED BY <2>1, <2>2 DEF Messages
<1>9. msgs' \subseteq msgs \cup {q}
  BY <1>6, <1>7
<1>10. stack' = [stack EXCEPT ![c] = Append(stack[c], n)]
  BY <1>6
<1>11. Pushes(c, n)
  BY <1>0, <1>5, <1>10, PushesAbove
<1>12. /\ UNCHANGED <<case, reconnecting, freed, leaked, alive, probe, running, written, up,
                      result>>
       /\ mode' = "tcp" /\ attached' = FALSE
  BY DEF ReconnectToNewHost, heart, server
<1>13. n.key \in Addresses /\ n.fut \in Futures
  BY <1>3, <1>5
<1>14. Types'
  <2>1. stack' \in [Callers -> Seq(Frames)]
    BY <1>11 DEF Pushes
  <2>2. pending' \in [Addresses -> Futures \cup {0}] /\ archives' \in [Addresses -> Futures \cup {0}]
    BY <1>6, <1>13
  <2>3. msgs' \subseteq Messages /\ complete' \subseteq Futures /\ link' \in Hosts
    BY <1>0, <1>6, <1>8, <1>9 DEF Types
  <2> QED BY <1>0, <1>12, <2>1, <2>2, <2>3 DEF Types
<1>15. /\ \A k \in Addresses : k # n.key => pending'[k] = 0
       /\ pending'[n.key] = n.fut
  BY <1>6, <1>13
<1>16. /\ lost \ {n.fut} \subseteq lost'
       /\ \A g \in FrameSet : g.origin = "zmq" => g.fut \in lost'
  BY <1>3, <1>5, <1>6
<1>17. /\ ~n.shared /\ n.kind # "call" /\ n.key \notin leaked
       /\ n.strays <=> \E m \in msgs : m.key = n.key /\ m.left
       /\ \A f \in FrameSet : f.key # n.key /\ f.fut # n.fut
       /\ \A r \in running : r.fut # n.fut
       /\ \A k \in Addresses : pending[k] # n.fut
  BY <1>3, <1>5
<1> QED BY <1>1, <1>5, <1>6, <1>8, <1>9, <1>11, <1>12, <1>14, <1>15, <1>16, <1>17, PushOK

\* ResendTask.
LEMMA ResendOK ==
  ASSUME Inv, NEW c \in Callers, ResendTask(c)
  PROVE  Inv'
<1> DEFINE f == Top(c)
<1>0. /\ Types /\ stack \in [Callers -> Seq(Frames)] /\ Bottom /\ Apart /\ Once /\ Owed
      /\ FramesOK /\ OwnAnswer
  BY DEF Inv, Types
<1>1. stack[c] # <<>>
  BY DEF ResendTask, At
<1>2. f \in Frames /\ f \in FrameSet /\ FrameOK(f)
  BY <1>0, <1>1, TopOf, FrameAt DEF FramesOK
<1>3. PICK n : n = [f EXCEPT !.pc = "loop", !.origin = "zmq", !.try = @ + 1]
  OBVIOUS
<1>4. n \in Frames
  <2>1. /\ f.try + 1 \in Nat /\ "loop" \in Pcs
    BY <1>2 DEF Frames, Pcs
  <2>2. n = [f EXCEPT !.pc = "loop", !.origin = "zmq", !.try = f.try + 1]
    BY <1>3
  <2> HIDE DEF f
  <2>3. PICK t \in Nat : t = f.try + 1
    BY <2>1
  <2>4. n = [f EXCEPT !.pc = "loop", !.origin = "zmq", !.try = t]
    BY <2>2, <2>3
  <2> QED BY <1>2, <2>1, <2>4, Zenon DEF Frames
<1>5. /\ n.kind = f.kind /\ n.key = f.key /\ n.fut = f.fut /\ n.try = f.try + 1
      /\ n.origin = "zmq"
  BY <1>2, <1>3 DEF Frames
<1>6. n.strays = f.strays /\ n.shared = f.shared
  BY <1>2, <1>3 DEF Frames
<1>7. n.try > 0 /\ n.key \in Addresses /\ n.fut \in Futures
  BY <1>2, <1>5 DEF Frames
<1>8. /\ stack' = SetTop(c, n)
      /\ archives' = [archives EXCEPT ![n.key] = 0]
      /\ SendZmq(n)
      /\ UNCHANGED <<case, mode, link, attached, reconnecting, freed, leaked,
                     alive, probe, running, written, up, result>>
  BY <1>3 DEF ResendTask, heart, server
<1>9. Resends(c, n)
  BY <1>0, <1>1, <1>4, <1>8, SetTopEffect
<1>10. /\ pending' \in [Addresses -> Futures \cup {0}]
       /\ pending'[n.key] = n.fut
       /\ \A k \in Addresses : k # n.key => pending'[k] = pending[k]
       /\ pending' = [pending EXCEPT ![n.key] = n.fut]
       /\ Request(n).key = n.key /\ Request(n).fut = n.fut
       /\ msgs' = msgs \cup {Request(n)}
       /\ msgs' \subseteq Messages
       /\ complete' = complete \ {n.fut} /\ lost' = lost \ {n.fut}
       /\ complete' \subseteq Futures
  BY <1>0, <1>4, <1>8, SendZmqDoes
<1>11. Types'
  <2>1. archives' \in [Addresses -> Futures \cup {0}]
    BY <1>0, <1>7, <1>8 DEF Types
  <2> QED BY <1>0, <1>8, <1>9, <1>10, <2>1 DEF Types, Resends
<1>12. Bottom' /\ Apart'
  BY <1>0, <1>1, <1>5, <1>9, ResendShape
<1>13. /\ \A h \in FrameSet' : \/ h = n
                               \/ h \in FrameSet /\ h.key # n.key /\ h.fut # n.fut
       /\ \A g \in FrameSet : \E h \in FrameSet' : h.key = g.key
  BY <1>0, <1>1, <1>5, <1>9, ResendFrames
<1>14. Once'
  <2>1. \A k \in Addresses : k # n.key => pending'[k] # n.fut
    BY <1>2, <1>5, <1>10 DEF FrameOK, Filed
  <2> QED BY <1>0, <1>10, <2>1 DEF Once
<1>15. PICK q : q = Request(n)
  OBVIOUS
<1>16. Owed'
  <2> SUFFICES ASSUME NEW x \in msgs', ~x.left, x.key \notin leaked'
               PROVE  \E h \in FrameSet' : h.key = x.key
    BY DEF Owed
  <2>1. CASE x = q
    BY <2>1, <1>2, <1>5, <1>10, <1>13, <1>15
  <2>2. CASE x \in msgs
    <3>1. PICK g \in FrameSet : g.key = x.key
      BY <2>2, <1>0, <1>8 DEF Owed
    <3> QED BY <3>1, <1>13
  <2> QED BY <2>1, <2>2, <1>10, <1>15
<1>17. OwnAnswer'
  BY <1>0, <1>8 DEF OwnAnswer
<1>18. FrameOK(n)'
  <2>1. running' = running /\ leaked' = leaked
    BY <1>8
  <2>2. PICK g \in Frames : g = f
    BY <1>2
  <2> QED BY <1>0, <1>2, <1>4, <1>5, <1>6, <1>7, <1>10, <1>15, <2>1, <2>2, SendAgain
<1>19. FramesOK'
  <2> SUFFICES ASSUME NEW h \in FrameSet' PROVE FrameOK(h)'
    BY DEF FramesOK
  <2>1. CASE h = n
    BY <2>1, <1>18
  <2>2. CASE h \in FrameSet /\ h.key # n.key /\ h.fut # n.fut
    <3>1. h \in Frames /\ FrameOK(h)
      BY <2>2, <1>0, FrameAt DEF FramesOK
    <3>2. \A k \in Addresses : k # n.key => archives'[k] = archives[k]
      BY <1>0, <1>8 DEF Types
    <3>3. lost \ {n.fut} \subseteq lost' /\ msgs' \subseteq msgs \cup {q}
      BY <1>10, <1>15
    <3>4. running' = running /\ leaked' = leaked
      BY <1>8
    <3>5. /\ n.key \in Addresses /\ pending'[n.key] = n.fut
          /\ complete' = complete \ {n.fut}
          /\ q.key = n.key /\ q.fut = n.fut
          /\ \A k \in Addresses : k # n.key => pending'[k] = pending[k]
      BY <1>7, <1>10, <1>15
    <3> QED BY <1>0, <2>2, <3>1, <3>2, <3>3, <3>4, <3>5, SendOther
  <2> QED BY <2>1, <2>2, <1>13
<1> QED BY <1>11, <1>12, <1>14, <1>16, <1>17, <1>19 DEF Inv

\* GiveUp.
LEMMA GiveUpOK ==
  ASSUME Inv, NEW c \in Callers, GiveUp(c)
  PROVE  Inv'
<1>1. stack[c] # <<>> /\ WaitFails(c, FALSE) /\ FALSE \in BOOLEAN
  BY DEF GiveUp, At
<1> QED BY <1>1, FailsOK

\* Send.
LEMMA SendOK ==
  ASSUME Inv, NEW c \in Callers, Send(c)
  PROVE  Inv'
<1>0. /\ Types /\ stack \in [Callers -> Seq(Frames)]
  BY DEF Inv, Types
<1>1. stack[c] = <<>> /\ Room
  BY DEF Send
<1>2. PICK o \in {"zmq", "shm"} : o = IF mode = "shm" THEN "shm" ELSE "zmq"
  OBVIOUS
<1>3. PICK n : n = Frame("call", FreeAddress, NewFuture, o, "sent", case.limited)
  OBVIOUS
<1>4. /\ FreeAddress \in Addresses /\ FreeAddress \notin leaked
      /\ \A f \in FrameSet : f.key # FreeAddress
      /\ NewFuture \in Futures
      /\ \A f \in FrameSet : f.fut # NewFuture
      /\ \A m \in msgs : m.fut # NewFuture
      /\ \A r \in running : r.fut # NewFuture
      /\ \A k \in Addresses : pending[k] # NewFuture
  BY <1>1, RoomIsFree
<1>5. "call" \in Kinds /\ "sent" \in Pcs
  BY DEF Kinds, Pcs
<1>6. case.limited \in BOOLEAN
  BY <1>0, LinkAssumption DEF Types, CaseSet
<1>7. /\ n \in Frames
      /\ n.kind = "call" /\ n.key = FreeAddress /\ n.fut = NewFuture /\ n.try = 0
      /\ n.origin = o
      /\ n.strays <=> \E m \in msgs : m.key = FreeAddress /\ m.left
      /\ n.shared <=> o = "shm"
  BY <1>3, <1>4, <1>5, <1>6, NewFrame
<1>8. /\ n.key \in Addresses /\ n.fut \in Futures /\ n.key \notin leaked
      /\ n.strays <=> \E m \in msgs : m.key = n.key /\ m.left
      /\ \A f \in FrameSet : f.key # n.key /\ f.fut # n.fut
      /\ \A m \in msgs : m.fut # n.fut
      /\ \A r \in running : r.fut # n.fut
      /\ \A k \in Addresses : pending[k] # n.fut
      /\ n.kind = "call" <=> stack[c] = <<>>
  BY <1>1, <1>4, <1>7
<1>9. /\ stack' = [stack EXCEPT ![c] = <<n>>]
      /\ UNCHANGED <<case, mode, link, attached, reconnecting, archives, freed,
                     leaked, alive, probe, result>>
  BY <1>2, <1>3 DEF Send, heart
<1>10. Append(stack[c], n) = <<n>>
  BY <1>1
<1>11. Pushes(c, n)
  BY <1>0, <1>7, <1>9, <1>10, PushesAbove
<1>12. stack' \in [Callers -> Seq(Frames)]
  BY <1>11 DEF Pushes
<1>13. CASE mode = "shm"
  <2>1. o = "shm"
    BY <1>2, <1>13
  <2>2. SendShm(n) /\ pending' = pending /\ msgs' = msgs /\ up' = up
    BY <1>2, <1>3, <1>13 DEF Send
  <2>3. /\ complete' = complete \ {n.fut} /\ written' = written \ {n.fut}
        /\ lost \subseteq lost' /\ running \subseteq running'
        /\ \A r \in running' : r \in running \/ r.fut = n.fut
        /\ n.fut \in lost' \/ \E r \in running' : r.fut = n.fut
    <3> DEFINE r0 == [host |-> link, key |-> n.key, fut |-> n.fut]
    <3>1. r0.fut = n.fut
      OBVIOUS
    <3>2. complete' = complete \ {n.fut} /\ written' = written \ {n.fut}
      BY <2>2 DEF SendShm
    <3>3. CASE attached
      <4>1. running' = running \cup {r0} /\ lost' = lost
        BY <2>2, <3>3 DEF SendShm
      <4> HIDE DEF r0
      <4> QED BY <3>1, <3>2, <4>1
    <3>4. CASE ~attached
      <4>1. running' = running /\ lost' = lost \cup {n.fut}
        BY <2>2, <3>4 DEF SendShm
      <4> QED BY <3>2, <4>1
    <3> QED BY <3>3, <3>4
  <2>4. running' \subseteq Runs
    <3>1. running \subseteq Runs /\ link \in Hosts
      BY <1>0 DEF Types
    <3>2. [host |-> link, key |-> n.key, fut |-> n.fut] \in Runs
      BY <3>1, <1>8 DEF Runs
    <3> QED BY <2>2, <3>1, <3>2 DEF SendShm
  <2>5. Types'
    BY <1>0, <1>9, <1>12, <2>2, <2>3, <2>4 DEF Types
  <2>6. n.origin = "shm" /\ n.shared
    BY <1>7, <2>1
  <2> QED BY <1>7, <1>8, <1>9, <1>11, <2>2, <2>3, <2>5, <2>6, PushShmOK
<1>14. CASE mode # "shm"
  <2>1. o = "zmq"
    BY <1>2, <1>14
  <2>2. SendZmq(n) /\ running' = running /\ written' = written /\ up' = up
    BY <1>2, <1>3, <1>14 DEF Send, server
  <2>3. /\ pending' \in [Addresses -> Futures \cup {0}]
        /\ pending'[n.key] = n.fut
        /\ \A k \in Addresses : k # n.key => pending'[k] = pending[k]
        /\ Request(n).key = n.key /\ Request(n).fut = n.fut
        /\ msgs' = msgs \cup {Request(n)}
        /\ msgs' \subseteq Messages
        /\ complete' = complete \ {n.fut} /\ lost' = lost \ {n.fut}
        /\ complete' \subseteq Futures
    BY <1>0, <1>7, <2>2, SendZmqDoes
  <2>5. Types'
    BY <1>0, <1>9, <1>12, <2>2, <2>3 DEF Types
  <2>6. n.origin = "zmq" /\ ~n.shared
    BY <1>7, <2>1
  <2>7. PICK q : q = Request(n)
    OBVIOUS
  <2> QED BY <1>7, <1>8, <1>9, <1>11, <2>2, <2>3, <2>5, <2>6, <2>7, PushOK
<1> QED BY <1>13, <1>14

-----------------------------------------------------------------------------
(* The threads beside the callers, and the server.                          *)

\* HeartbeatThread and a runtime that starts touch no future.
LEMMA ElsewhereOK ==
  ASSUME Inv, HeartbeatThread \/ \E h \in Hosts : Restart(h)
  PROVE  Inv'
<1>0. Types /\ stack \in [Callers -> Seq(Frames)]
  BY DEF Inv, Types
<1>1. UNCHANGED <<case, mode, link, attached, reconnecting, stack, pending, archives, complete,
                  freed, leaked, msgs, running, written, lost, result>>
  BY DEF HeartbeatThread, IsServerAlive, StoreAlive, Restart, client, server, ghost
<1>2. alive' \in BOOLEAN /\ probe' \in {"none", "up", "down"} /\ up' \subseteq Hosts
  BY <1>0 DEF Types, HeartbeatThread, IsServerAlive, StoreAlive, Restart, heart, server
<1>3. Types'
  BY <1>0, <1>1, <1>2 DEF Types
<1>4. Quiet
  BY <1>0, <1>1, SameStack
<1> QED BY <1>1, <1>3, <1>4, StillStep

\* RecvZmqClientThread: the future that is registered for the answer's address
\* is completed.
LEMMA ReceiveOK ==
  ASSUME Inv, RecvZmqClientThread
  PROVE  Inv'
<1>0. /\ Types /\ stack \in [Callers -> Seq(Frames)] /\ Apart /\ Once /\ Owed /\ FramesOK
      /\ msgs \subseteq Messages
  BY DEF Inv, Types
<1>1. PICK m \in msgs :
        /\ m.type = "rep"
        /\ msgs' = msgs \ {m}
        /\ IF pending[m.key] # 0
           THEN /\ archives' = [archives EXCEPT ![m.key] = m.fut]
                /\ complete' = complete \cup {pending[m.key]}
                /\ pending' = [pending EXCEPT ![m.key] = 0]
           ELSE UNCHANGED <<archives, complete, pending>>
  BY DEF RecvZmqClientThread
<1>2. m \in Messages /\ m.key \in Addresses /\ m.fut \in Futures
  BY <1>0 DEF Messages
<1>3. UNCHANGED <<case, mode, link, attached, reconnecting, freed, leaked, alive, probe,
                  stack, running, written, up, lost, result>>
  BY DEF RecvZmqClientThread, heart, server, ghost
<1>4. /\ \A x \in msgs' : \E y \in msgs : x.key = y.key /\ x.left = y.left
      /\ msgs' \subseteq msgs
  BY <1>1
<1>5. CASE pending[m.key] = 0
  <2>1. UNCHANGED <<archives, complete, pending>>
    BY <1>1, <1>5
  <2>2. Types'
    BY <1>0, <1>3, <1>4, <2>1 DEF Types
  <2>3. Once'
    BY <1>0, <2>1 DEF Once
  <2>4. ASSUME NEW g \in FrameSet PROVE FrameOK(g)'
    <3>0. Filed(g) /\ ViaShm(g) /\ CanComplete(g) /\ Mail(g) /\ Loaded(g)
      BY <1>0 DEF FramesOK, FrameOK
    <3>2. Filed(g)'
      BY <3>0, <2>1, <1>3 DEF Filed
    <3>3. ViaShm(g)'
      BY <3>0, <2>1, <1>3, <1>4 DEF ViaShm
    <3>4. CanComplete(g)'
      BY <3>0, <2>1, <1>3 DEF CanComplete
    <3>5. Loaded(g)'
      BY <3>0, <2>1, <1>3 DEF Loaded
    <3>6. Mail(g)'
      BY <3>0, <2>1, <1>3, <1>4 DEF Mail
    <3> QED BY <3>2, <3>3, <3>4, <3>5, <3>6 DEF FrameOK
  <2> QED BY <1>3, <1>4, <2>2, <2>3, <2>4, BesideStep
<1>6. CASE pending[m.key] # 0
  <2>1. /\ archives' = [archives EXCEPT ![m.key] = m.fut]
        /\ complete' = complete \cup {pending[m.key]}
        /\ pending' = [pending EXCEPT ![m.key] = 0]
    BY <1>1, <1>6
  <2>2. /\ pending'[m.key] = 0 /\ archives'[m.key] = m.fut
        /\ \A k \in Addresses : k # m.key => /\ pending'[k] = pending[k]
                                             /\ archives'[k] = archives[k]
        /\ pending[m.key] \in Futures
    BY <1>0, <1>2, <1>6, <2>1 DEF Types
  <2>3. Types'
    <3>1. /\ archives' \in [Addresses -> Futures \cup {0}]
          /\ pending' \in [Addresses -> Futures \cup {0}]
      BY <1>0, <1>2, <2>1 DEF Types
    <3>2. complete' \subseteq Futures /\ msgs' \subseteq Messages
      BY <1>0, <1>4, <2>1, <2>2 DEF Types
    <3> QED BY <1>0, <1>3, <3>1, <3>2 DEF Types
  <2>4. Once'
    BY <1>0, <2>2 DEF Once
  <2>5. ASSUME NEW g \in FrameSet PROVE FrameOK(g)'
    <3>0. /\ Filed(g) /\ ViaShm(g) /\ CanComplete(g) /\ Mail(g) /\ Loaded(g)
          /\ g.key \in Addresses /\ g.fut \in Futures /\ g.fut # 0
      <4>1. g \in Frames /\ FrameOK(g)
        BY <1>0, FrameAt DEF FramesOK
      <4> QED BY <4>1 DEF FrameOK, Frames, Futures
    <3>1. g.fut \in complete' => g.fut \in complete \/ (g.key = m.key /\ pending[m.key] = g.fut)
      BY <3>0, <2>1, <1>2 DEF Filed
    <3>2. Filed(g)'
      <4>1. \A k \in Addresses : pending'[k] = g.fut => k = g.key
        BY <3>0, <2>2 DEF Filed
      <4>2. ~g.shared /\ g.fut \in complete' => pending'[g.key] # g.fut
        BY <3>0, <3>1, <2>2, <1>2 DEF Filed
      <4> QED BY <3>0, <4>1, <4>2, <1>3 DEF Filed
    <3>3. ViaShm(g)'
      BY <3>0, <1>3, <1>4 DEF ViaShm
    <3>4. CanComplete(g)'
      <4>1. complete \subseteq complete'
        BY <2>1
      <4>2. pending[g.key] = g.fut => g.fut \in complete' \/ pending'[g.key] = g.fut
        BY <3>0, <2>1, <2>2
      <4> QED BY <3>0, <1>3, <4>1, <4>2 DEF CanComplete
    <3>5. Mail(g)'
      <4>1. ASSUME g.try = 0, ~g.strays, g.fut \in complete', NEW x \in msgs'
            PROVE  x.key # g.key
        <5>1. CASE g.fut \in complete
          BY <4>1, <5>1, <3>0, <1>4 DEF Mail
        <5>2. CASE g.key = m.key
          <6> SUFFICES ASSUME x.key = g.key PROVE FALSE
            OBVIOUS
          <6>1. x = m
            BY <4>1, <5>2, <3>0, <1>4 DEF Mail
          <6> QED BY <6>1, <1>1, <4>1
        <5> QED BY <5>1, <5>2, <3>1, <4>1
      <4> QED BY <3>0, <4>1, <1>4 DEF Mail
    <3>6. Loaded(g)'
      <4> SUFFICES ASSUME g.origin = "zmq", g.try = 0, ~g.strays, g.fut \in complete',
                          g.fut \notin lost
                   PROVE  archives'[g.key] = g.fut
        BY <1>3 DEF Loaded
      <4>1. CASE g.key = m.key
        <5>1. m.fut = g.fut
          BY <4>1, <3>0 DEF Mail
        <5> QED BY <4>1, <5>1, <2>2
      <4>2. CASE g.key # m.key
        BY <4>2, <3>0, <3>1, <2>2 DEF Loaded
      <4> QED BY <4>1, <4>2
    <3> QED BY <3>2, <3>3, <3>4, <3>5, <3>6 DEF FrameOK
  <2> QED BY <1>3, <1>4, <2>3, <2>4, <2>5, BesideStep
<1> QED BY <1>5, <1>6

\* The server answers a request, to the connection it came from or to nobody.
LEMMA ServeOK ==
  ASSUME Inv, ServeZmq
  PROVE  Inv'
<1>0. /\ Types /\ stack \in [Callers -> Seq(Frames)] /\ Apart /\ Once /\ Owed /\ FramesOK
      /\ msgs \subseteq Messages
  BY DEF Inv, Types
<1>1. PICK m \in msgs :
        msgs' = (msgs \ {m}) \cup
                  (IF m.host = link THEN {[m EXCEPT !.type = "rep"]} ELSE {})
  BY DEF ServeZmq
<1>2. PICK a : a = [m EXCEPT !.type = "rep"]
  OBVIOUS
<1>3. m \in Messages
  BY <1>0
<1>4. a.key = m.key /\ a.fut = m.fut /\ a \in Messages
  BY <1>2, <1>3 DEF Messages
<1>5. a.left = m.left
  BY <1>2, <1>3 DEF Messages
<1>6. msgs' \subseteq (msgs \ {m}) \cup {a}
  BY <1>1, <1>2
<1>7. UNCHANGED <<case, mode, link, attached, reconnecting, pending, archives, freed, leaked,
                  alive, probe, stack, complete, running, written, up, lost, result>>
  BY DEF ServeZmq, client, heart, server, ghost
<1>8. Types'
  BY <1>0, <1>4, <1>6, <1>7 DEF Types
<1>9. Once'
  BY <1>0, <1>7 DEF Once
<1>10. \A x \in msgs' : \E y \in msgs : x.key = y.key /\ x.left = y.left
  BY <1>4, <1>5, <1>6
<1>11. ASSUME NEW g \in FrameSet PROVE FrameOK(g)'
  <2>0. Filed(g) /\ ViaShm(g) /\ CanComplete(g) /\ Mail(g) /\ Loaded(g)
    BY <1>0 DEF FramesOK, FrameOK
  <2>1. \A x \in msgs' : \E y \in msgs : /\ x.key = y.key /\ x.fut = y.fut /\ x.left = y.left
                                         /\ x = y \/ (x = a /\ y = m)
    BY <1>4, <1>5, <1>6
  <2>2. Filed(g)'
    BY <2>0, <1>7 DEF Filed
  <2>3. ViaShm(g)'
    BY <2>0, <2>1, <1>7 DEF ViaShm
  <2>4. CanComplete(g)'
    BY <2>0, <1>7 DEF CanComplete
  <2>5. Loaded(g)'
    BY <2>0, <1>7 DEF Loaded
  <2>6. Mail(g)'
    <3>1. \A x \in msgs' : x.key = g.key => x.fut = g.fut \/ (x.left /\ g.strays)
      BY <2>0, <2>1 DEF Mail
    <3>2. ASSUME g.try = 0, ~g.strays, NEW x \in msgs', NEW y \in msgs',
                 x.key = g.key, y.key = g.key
          PROVE  x = y
      <4>1. PICK x0 \in msgs : x.key = x0.key /\ (x = x0 \/ (x = a /\ x0 = m))
        BY <2>1, <3>2
      <4>2. PICK y0 \in msgs : y.key = y0.key /\ (y = y0 \/ (y = a /\ y0 = m))
        BY <2>1, <3>2
      <4>3. x0 = y0
        BY <3>2, <4>1, <4>2, <2>0 DEF Mail
      <4> QED BY <4>1, <4>2, <4>3, <1>6, <3>2
    <3>3. g.try = 0 /\ ~g.strays /\ g.fut \in complete' => \A x \in msgs' : x.key # g.key
      BY <2>0, <2>1, <1>7 DEF Mail
    <3> QED BY <3>1, <3>2, <3>3 DEF Mail
  <2> QED BY <2>2, <2>3, <2>4, <2>5, <2>6 DEF FrameOK
<1> QED BY <1>7, <1>8, <1>9, <1>10, <1>11, BesideStep

\* The server has a task from shared memory: it writes the outputs, or drops
\* the task that was sent again.
LEMMA ShmOutputsOK ==
  ASSUME Inv, ShmOutputs
  PROVE  Inv'
<1>0. /\ Types /\ stack \in [Callers -> Seq(Frames)] /\ Apart /\ Once /\ Owed /\ FramesOK
  BY DEF Inv, Types
<1>1. PICK r \in running :
         IF \E f \in FrameSet : f.fut = r.fut /\ f.origin = "zmq"
         THEN running' = running \ {r} /\ UNCHANGED written
         ELSE written' = written \cup {r.fut} /\ UNCHANGED running
  BY DEF ShmOutputs
<1>2. UNCHANGED <<case, mode, link, attached, reconnecting, pending, archives, freed, leaked,
                  alive, probe, stack, complete, msgs, up, lost, result>>
  BY DEF ShmOutputs, client, heart, ghost
<1>3. r.fut \in Futures
  BY <1>0 DEF Types, Runs
<1>4. Types'
  <2>1. written' \subseteq Futures /\ running' \subseteq Runs
    BY <1>0, <1>1, <1>3 DEF Types
  <2> QED BY <1>0, <1>2, <2>1 DEF Types
<1>5. Once'
  BY <1>0, <1>2 DEF Once
<1>6. \A f, g \in FrameSet : f.fut = g.fut => f = g
  BY <1>0, FrameAt DEF Apart
<1>7. running' \subseteq running
  BY <1>1
<1>8. ASSUME NEW g \in FrameSet PROVE FrameOK(g)'
  <2>0. Filed(g) /\ ViaShm(g) /\ CanComplete(g) /\ Mail(g) /\ Loaded(g)
    BY <1>0 DEF FramesOK, FrameOK
  <2>2. Filed(g)'
    BY <2>0, <1>2 DEF Filed
  <2>3. ViaShm(g)'
    BY <2>0, <1>2, <1>7 DEF ViaShm
  <2>4. CanComplete(g)'
    <3>1. ASSUME g.origin # "zmq", NEW s \in running, s.fut = g.fut
          PROVE  s \in running'
      BY <3>1, <1>1, <1>6
    <3> QED BY <2>0, <1>2, <3>1 DEF CanComplete
  <2>5. Loaded(g)'
    BY <2>0, <1>2 DEF Loaded
  <2>6. Mail(g)'
    BY <2>0, <1>2 DEF Mail
  <2> QED BY <2>2, <2>3, <2>4, <2>5, <2>6 DEF FrameOK
<1>9. \A x \in msgs' : \E y \in msgs : x.key = y.key /\ x.left = y.left
  BY <1>2
<1> QED BY <1>2, <1>4, <1>5, <1>8, <1>9, BesideStep

\* FUTURE_COMPLETE is set in shared memory.
LEMMA ShmCompleteOK ==
  ASSUME Inv, ShmComplete
  PROVE  Inv'
<1>0. /\ Types /\ stack \in [Callers -> Seq(Frames)] /\ Apart /\ Once /\ Owed /\ FramesOK
  BY DEF Inv, Types
<1>1. PICK r \in running : /\ complete' = complete \cup {r.fut}
                           /\ running' = running \ {r}
  BY DEF ShmComplete
<1>2. UNCHANGED <<case, mode, link, attached, reconnecting, pending, archives, freed, leaked,
                  alive, probe, stack, written, msgs, up, lost, result>>
  BY DEF ShmComplete, client, heart, ghost
<1>3. r.fut \in Futures
  BY <1>0 DEF Types, Runs
<1>4. Types'
  <2>1. complete' \subseteq Futures /\ running' \subseteq Runs
    BY <1>0, <1>1, <1>3 DEF Types
  <2> QED BY <1>0, <1>2, <2>1 DEF Types
<1>5. Once'
  BY <1>0, <1>2 DEF Once
<1>8. ASSUME NEW g \in FrameSet PROVE FrameOK(g)'
  <2>0. /\ Filed(g) /\ ViaShm(g) /\ CanComplete(g) /\ Mail(g) /\ Loaded(g)
        /\ g.origin \in {"zmq", "shm"} /\ g.try \in Nat
    BY <1>0, FrameAt DEF FramesOK, FrameOK, Frames
  <2>1. g.fut \in complete' => g.fut \in complete \/ g.shared
    BY <2>0, <1>1 DEF ViaShm
  <2>2. Filed(g)'
    BY <2>0, <2>1, <1>2 DEF Filed
  <2>3. ViaShm(g)'
    BY <2>0, <1>1, <1>2 DEF ViaShm
  <2>4. CanComplete(g)'
    <3>1. ASSUME g.fut \notin complete', NEW s \in running, s.fut = g.fut
          PROVE  s \in running'
      BY <3>1, <1>1
    <3> QED BY <2>0, <1>1, <1>2, <3>1 DEF CanComplete
  <2>5. g.shared /\ g.origin = "zmq" => g.try # 0
    <3>1. g.shared /\ g.origin = "zmq" => g.try > 0
      BY <2>0 DEF ViaShm
    <3> QED BY <3>1
  <2>6. Loaded(g)'
    BY <2>0, <2>1, <2>5, <1>2 DEF Loaded
  <2>7. Mail(g)'
    <3>1. ASSUME g.try = 0, ~g.strays, g.fut \in complete', NEW x \in msgs
          PROVE  x.key # g.key
      <4>1. CASE g.fut \in complete
        BY <4>1, <3>1, <2>0 DEF Mail
      <4>2. CASE g.shared
        <5>1. g.origin = "shm"
          BY <4>2, <3>1, <2>0, <2>5
        <5>2. x.fut # g.fut
          BY <5>1, <2>0 DEF ViaShm
        <5> QED BY <5>2, <3>1, <2>0 DEF Mail
      <4> QED BY <4>1, <4>2, <3>1, <2>1
    <3> QED BY <2>0, <1>2, <3>1 DEF Mail
  <2> QED BY <2>2, <2>3, <2>4, <2>6, <2>7 DEF FrameOK
<1>9. \A x \in msgs' : \E y \in msgs : x.key = y.key /\ x.left = y.left
  BY <1>2
<1> QED BY <1>2, <1>4, <1>5, <1>8, <1>9, BesideStep

\* A runtime dies.
LEMMA CrashOK ==
  ASSUME Inv, NEW h \in Hosts, Crash(h)
  PROVE  Inv'
<1>0. /\ Types /\ stack \in [Callers -> Seq(Frames)] /\ Apart /\ Once /\ Owed /\ FramesOK
  BY DEF Inv, Types
<1>1. PICK dropped \in SUBSET {m \in msgs : m.host = h} :
       /\ msgs' = msgs \ dropped
       /\ lost' = lost \cup {f.fut : f \in {f \in FrameSet :
                               /\ f.fut \notin complete
                               /\ ~Served(f.fut, msgs \ dropped, running')}}
  BY DEF Crash
<1>2. /\ UNCHANGED <<case, mode, link, reconnecting, pending, archives, freed, leaked,
                     alive, probe, stack, complete, written, result>>
      /\ up' \subseteq up /\ running' \subseteq running
  BY DEF Crash, heart
<1>3. attached' \in BOOLEAN
  BY DEF Crash
<1>4. msgs' \subseteq msgs /\ lost \subseteq lost'
  BY <1>1
<1>5. Types'
  BY <1>0, <1>2, <1>3, <1>4 DEF Types
<1>6. Once'
  BY <1>0, <1>2 DEF Once
<1>8. ASSUME NEW g \in FrameSet PROVE FrameOK(g)'
  <2>0. /\ Filed(g) /\ ViaShm(g) /\ CanComplete(g) /\ Mail(g) /\ Loaded(g)
        /\ g.origin \in {"zmq", "shm"}
    BY <1>0, FrameAt DEF FramesOK, FrameOK, Frames
  <2>2. Filed(g)'
    BY <2>0, <1>2 DEF Filed
  <2>3. ViaShm(g)'
    BY <2>0, <1>2, <1>4 DEF ViaShm
  <2>4. CanComplete(g)'
    <3>1. ASSUME g.fut \notin complete', g.fut \notin lost', g.origin = "shm"
          PROVE  \E r \in running' : r.fut = g.fut
      <4>1. Served(g.fut, msgs \ dropped, running')
        BY <1>1, <1>2, <3>1
      <4>2. \A m \in msgs : m.fut # g.fut
        BY <2>0, <3>1 DEF ViaShm
      <4> QED BY <4>1, <4>2 DEF Served
    <3> QED BY <2>0, <1>2, <1>4, <3>1 DEF CanComplete
  <2>5. Loaded(g)'
    BY <2>0, <1>2, <1>4 DEF Loaded
  <2>6. Mail(g)'
    BY <2>0, <1>2, <1>4 DEF Mail
  <2> QED BY <2>2, <2>3, <2>4, <2>5, <2>6 DEF FrameOK
<1>9. \A x \in msgs' : \E y \in msgs : x.key = y.key /\ x.left = y.left
  BY <1>4
<1> QED BY <1>2, <1>5, <1>6, <1>8, <1>9, BesideStep

-----------------------------------------------------------------------------
(* The invariant.                                                           *)

\* It holds after ClientInit.
LEMMA InitOK ==
  ASSUME Init
  PROVE  Inv
<1>1. /\ stack = [c \in Callers |-> <<>>]
      /\ pending = [k \in Addresses |-> 0] /\ archives = [k \in Addresses |-> 0]
      /\ complete = {} /\ freed = {} /\ leaked = {} /\ msgs = {} /\ running = {}
      /\ written = {} /\ result = [c \in Callers |-> Own]
  BY DEF Init
<1>2. stack \in [Callers -> Seq(Frames)] /\ \A c \in Callers : Len(stack[c]) = 0
  BY <1>1
<1>3. FrameSet = {}
  BY <1>2, FrameAt
<1>4. Own \in Outcomes
  BY DEF Own, Outcomes
<1>5. case \in Cases /\ mode \in {"tcp", "shm"} /\ link \in Hosts
  BY LinkAssumption DEF Init, CaseSet
<1>6. Types
  BY <1>1, <1>2, <1>4, <1>5 DEF Types, Init
<1>7. Bottom /\ Apart
  BY <1>2 DEF Bottom, Apart
<1>8. Once /\ Owed /\ FramesOK
  BY <1>1, <1>3 DEF Once, Owed, FramesOK
<1>9. OwnAnswer
  BY <1>1 DEF OwnAnswer, Own
<1> QED BY <1>6, <1>7, <1>8, <1>9 DEF Inv

\* Every step preserves it.
LEMMA StepOK ==
  ASSUME Inv, [Next]_vars
  PROVE  Inv'
<1>1. CASE \E c \in Callers : Send(c) \/ Wait(c) \/ Recv(c)
  <2>1. PICK c \in Callers : Send(c) \/ Wait(c) \/ Recv(c)
    BY <1>1
  <2>2. CASE Send(c)
    BY <2>2, SendOK
  <2>3. CASE Wait(c) \/ RecvShm(c) \/ RecvShmFlag(c) \/ RecvZmq(c)
    BY <2>3, RecvOK
  <2>4. CASE WaitForServerAndReconnect(c) \/ GiveUpOriginal(c)
    BY <2>4, BeginsOK
  <2>5. CASE ReconnectToOriginalHost(c) \/ WaitForLocalServer(c)
    BY <2>5, OriginalOK
  <2>6. CASE ReconnectToNewHost(c)
    BY <2>6, NewHostOK
  <2>7. CASE GiveUp(c)
    BY <2>7, GiveUpOK
  <2>8. CASE ResendTask(c)
    BY <2>8, ResendOK
  <2> QED BY <2>1, <2>2, <2>3, <2>4, <2>5, <2>6, <2>7, <2>8 DEF Recv, Reconnect
<1>2. CASE RecvZmqClientThread
  BY <1>2, ReceiveOK
<1>3. CASE HeartbeatThread
  BY <1>3, ElsewhereOK
<1>4. CASE Server
  BY <1>4, ServeOK, ShmOutputsOK, ShmCompleteOK DEF Server
<1>5. CASE \E h \in Hosts : Crash(h) \/ Restart(h)
  BY <1>5, CrashOK, ElsewhereOK
<1>6. CASE UNCHANGED vars
  <2>1. UNCHANGED <<case, mode, link, attached, alive, probe, reconnecting, stack, pending,
                    archives, complete, freed, leaked, msgs, running, written, up, lost, result>>
    BY <1>6 DEF vars, client, heart, server, ghost
  <2>2. Types /\ stack \in [Callers -> Seq(Frames)]
    BY DEF Inv, Types
  <2>3. Types'
    BY <2>1, <2>2 DEF Types
  <2>4. Quiet
    BY <2>1, <2>2, SameStack
  <2> QED BY <2>1, <2>3, <2>4, StillStep
<1> QED BY <1>1, <1>2, <1>3, <1>4, <1>5, <1>6 DEF Next

\* It implies what the properties say.
LEMMA InvSuffices ==
  ASSUME Inv
  PROVE  LinkInv
<1>0. /\ Types /\ stack \in [Callers -> Seq(Frames)] /\ FramesOK
  BY DEF Inv, Types
<1>1. FrameSet \subseteq Frames
  BY <1>0, FrameAt
<1>2. \A d \in freed : d.shared /\ d.fut \in Futures
  BY <1>0 DEF Types
<1>3. TypeOK
  <2>1. \A f \in FrameSet :
          /\ f.kind \in {"call", "register", "connect"} /\ f.pc \in Pcs
          /\ f.key \in Addresses /\ f.fut \in Futures
          /\ f.origin \in {"zmq", "shm"}
    BY <1>1 DEF Frames, Kinds
  <2>2. {d.fut : d \in freed} \subseteq Futures
    BY <1>2
  <2> QED BY <1>0, <2>1, <2>2 DEF TypeOK, Types
<1>4. NoDangling
  BY <1>2 DEF NoDangling
<1>5. Registered
  BY <1>0 DEF Registered, FramesOK, FrameOK, CanComplete, Live
<1> QED BY <1>3, <1>4, <1>5 DEF LinkInv

\* However often servers die, come back or are replaced, and whatever addresses
\* are used again, a future that Recv waits for and that is neither complete nor
\* lost is registered in pending_zmq_futures_ under the address of its task, or
\* runs on the server; and RecvZmqClientThread refers to no FutureShm that was
\* freed, but for tasks sent again that also ran through shared memory.
THEOREM FuturesCanComplete == Spec => []LinkInv
<1>1. Init => Inv
  BY InitOK
<1>2. Inv /\ [Next]_vars => Inv'
  BY StepOK
<1>3. Inv => LinkInv
  BY InvSuffices
<1> QED BY <1>1, <1>2, <1>3, PTL DEF Spec

\* A call that was sent once, to an address to which no stray answer is on its
\* way, and whose answer no change of the host took, ends with the answer to
\* its own task.
THEOREM CallsGetTheirOwnAnswer == Spec => []OwnAnswer
<1>1. Init => Inv
  BY InitOK
<1>2. Inv /\ [Next]_vars => Inv'
  BY StepOK
<1>3. Inv => OwnAnswer
  BY DEF Inv
<1> QED BY <1>1, <1>2, <1>3, PTL DEF Spec
=============================================================================
