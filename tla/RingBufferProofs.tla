-------------------------- MODULE RingBufferProofs --------------------------
(***************************************************************************)
(* The lossless ring buffers, for any capacity, any number of producers    *)
(* and pushes: no producer overwrites an entry that Pop has not read, and  *)
(* the buffer implements a first-in first-out queue.  The circular variant *)
(* overwrites on purpose and is excluded by the mode of the behaviour.     *)
(***************************************************************************)
EXTENDS RingBuffer, SequenceTheorems, TLAPS

-----------------------------------------------------------------------------
(* The inductive invariant.                                                *)

InFlight(p) == pc[p] \in {"space", "write", "ready"}

\* One entry of pushed per ticket handed out and not given back; a producer
\* never saw a head that Pop has not reached.
Cursors ==
    /\ mode # "circular"
    /\ Len(pushed) = tail
    /\ \A p \in Producers : seen[p] <= head
    /\ \A p \in Producers : pc[p] # "idle" => val[p] >= 1

\* A producer between fetch_add and ready_ = true owns its ticket, and it
\* writes only within the capacity counted from the present head.
Tickets ==
    \A p \in Producers : InFlight(p) =>
        /\ head <= ticket[p] /\ ticket[p] < tail
        /\ pushed[ticket[p] + 1] = val[p]
        /\ Writing(p) => ticket[p] < head + Depth
        /\ pc[p] = "ready" => slot[Idx(ticket[p])].data = val[p]
        /\ \A q \in Producers : q # p /\ InFlight(q) => ticket[q] # ticket[p]
        /\ mode = "error" => ticket[p] = tail - 1

\* The "error" variant is used by one producer at a time.
Alone ==
    mode = "error" =>
        \A p, q \in Producers : p # q => pc[p] = "idle" \/ pc[q] = "idle"

\* A ready entry holds the value of the one ticket that maps to it now, and
\* its producer is done with it.
Entries ==
    \A i \in head .. head + Depth : slot[Idx(i)].ready =>
        /\ i < tail
        /\ slot[Idx(i)].data = pushed[i + 1]
        /\ \A p \in Producers : InFlight(p) => ticket[p] # i

\* What Pop has read and not removed yet is the oldest value.
Popping ==
    cpc \in {"clear", "advance"} =>
        /\ head < tail
        /\ got = pushed[head + 1]
        /\ \A p \in Producers : InFlight(p) => ticket[p] # head
        /\ cpc = "advance" => ~ slot[Idx(head)].ready

Inv == TypeOK /\ Cursors /\ Tickets /\ Alone /\ Entries /\ Popping

-----------------------------------------------------------------------------
(* Arithmetic of the indices.                                              *)

\* Division with remainder over the naturals.
LEMMA NatDiv ==
    ASSUME NEW a \in Nat, NEW b \in Nat \ {0}
    PROVE  /\ a \div b \in Nat
           /\ a % b \in 0 .. b - 1
           /\ a = b * (a \div b) + (a % b)
  BY SMT

\* Two tickets less than Size apart share a slot only if they are the same.
LEMMA IdxClose ==
    ASSUME NEW a \in Nat, NEW b \in Nat,
           a - b <= Depth, b - a <= Depth, Idx(a) = Idx(b)
    PROVE  a = b
<1> DEFINE x == a \div Size
           y == b \div Size
           r == a % Size
           s == b % Size
<1>0. Size \in Nat \ {0} /\ Depth = Size - 1 /\ r = s
  BY DepthAssumption DEF Size, Idx
<1>1. r \in 0 .. Size - 1 /\ a = Size * x + r /\ x \in Nat
  BY <1>0, NatDiv
<1>2. s \in 0 .. Size - 1 /\ b = Size * y + s /\ y \in Nat
  BY <1>0, NatDiv
<1> HIDE DEF x, y, r, s
<1>3. a - b = Size * (x - y)
  BY <1>0, <1>1, <1>2
<1>4. x - y < 1
  BY <1>0, <1>1, <1>2, <1>3
<1>5. y - x < 1
  BY <1>0, <1>1, <1>2, <1>3
<1> QED
  BY <1>0, <1>1, <1>2, <1>3, <1>4, <1>5

\* A ticket's slot is a slot, and comes round after Size tickets.
LEMMA IdxWraps ==
    ASSUME NEW a \in Nat
    PROVE  Idx(a) \in 0 .. Depth /\ Idx(a + Size) = Idx(a)
<1> DEFINE x == a \div Size
           y == (a + Size) \div Size
           r == a % Size
           s == (a + Size) % Size
<1>0. Size \in Nat \ {0} /\ Depth = Size - 1 /\ a + Size \in Nat
  BY DepthAssumption DEF Size
<1>1. r \in 0 .. Size - 1 /\ a = Size * x + r /\ x \in Nat
  BY <1>0, NatDiv
<1>2. s \in 0 .. Size - 1 /\ a + Size = Size * y + s /\ y \in Nat
  BY <1>0, NatDiv
<1> HIDE DEF x, y, r, s
<1>3. s - r = Size * (x + 1 - y)
  BY <1>0, <1>1, <1>2
<1>4. x + 1 - y < 1 /\ x + 1 - y > -1
  BY <1>0, <1>1, <1>2, <1>3
<1>5. s = r
  BY <1>0, <1>1, <1>2, <1>3, <1>4
<1> QED
  BY <1>0, <1>1, <1>5 DEF r, s, Idx

-----------------------------------------------------------------------------
(* Initial states and steps.                                               *)

\* A fresh buffer satisfies the invariant.
LEMMA InitInv == Init /\ mode # "circular" => Inv
<1> SUFFICES ASSUME Init, mode # "circular" PROVE Inv
  OBVIOUS
<1>1. TypeOK
  <2>1. 0 \in 0 .. MaxPush
    BY RunAssumption
  <2>2. pushed \in Seq(1 .. MaxPush) /\ taken \in Seq(0 .. MaxPush)
    BY EmptySeq DEF Init
  <2>3. slot \in [0 .. Depth -> [ready : BOOLEAN, data : 0 .. MaxPush]]
    BY <2>1 DEF Init
  <2>4. wasEmpty \in [Producers -> BOOLEAN] /\ signal \in BOOLEAN
    BY DEF Init
  <2>5. /\ pc \in [Producers -> Labels]
        /\ seen \in [Producers -> Nat] /\ ticket \in [Producers -> Nat]
        /\ val \in [Producers -> 0 .. MaxPush]
    BY <2>1 DEF Init, Labels
  <2>6. /\ head \in Nat /\ tail \in Nat /\ head <= tail
        /\ got \in 0 .. MaxPush /\ made \in 0 .. MaxPush
        /\ mode \in Modes /\ cpc = "pop"
    BY <2>1 DEF Init
  <2> QED
    BY <2>2, <2>3, <2>4, <2>5, <2>6 DEF TypeOK
<1>2. Cursors /\ Tickets /\ Alone /\ Popping
  BY DEF Init, Cursors, Tickets, Alone, Popping, InFlight
<1>3. Entries
  <2>1. \A i \in 0 .. Depth : i \in Nat /\ Idx(i) \in 0 .. Depth
    BY DepthAssumption, IdxWraps
  <2>2. head = 0 /\ \A i \in 0 .. Depth : ~ slot[i].ready
    BY DEF Init
  <2> QED
    BY <2>1, <2>2, DepthAssumption DEF Entries
<1> QED
  BY <1>1, <1>2, <1>3 DEF Inv

\* The caller's look at the queue.
LEMMA BeginPushInv ==
    ASSUME Inv, NEW p \in Producers, BeginPush(p)
    PROVE  Inv'
<1> USE DEF Inv
<1>0. head \in Nat /\ tail \in Nat /\ Depth \in Nat
  BY DepthAssumption DEF TypeOK
<1>1. TypeOK'
  <2>1. wasEmpty' \in [Producers -> BOOLEAN]
    <3>1. Empty \in BOOLEAN
      BY DEF Empty
    <3> QED
      BY <3>1, Zenon DEF BeginPush, TypeOK
  <2>2. made' \in 0 .. MaxPush /\ val' \in [Producers -> 0 .. MaxPush]
    BY RunAssumption DEF BeginPush, TypeOK
  <2>3. pc' \in [Producers -> Labels]
    BY DEF BeginPush, TypeOK, Goto, Labels
  <2> QED
    BY <2>1, <2>2, <2>3 DEF BeginPush, TypeOK, ring, consumer
<1>2. Cursors'
  BY <1>0 DEF BeginPush, TypeOK, Goto, Cursors, ring, producer, consumer
<1>3. Tickets'
  BY <1>0 DEF BeginPush, TypeOK, Goto, Tickets, InFlight, Writing, ring, producer, consumer
<1>4. Alone'
  BY <1>0 DEF BeginPush, TypeOK, Goto, Alone, ring, producer, consumer
<1>5. Entries'
  BY <1>0 DEF BeginPush, TypeOK, Goto, Entries, InFlight, ring, producer, consumer
<1>6. Popping'
  BY <1>0 DEF BeginPush, TypeOK, Goto, Popping, InFlight, ring, producer, consumer
<1> QED
  BY <1>1, <1>2, <1>3, <1>4, <1>5, <1>6

\* Loading head_.
LEMMA LoadHeadInv ==
    ASSUME Inv, NEW p \in Producers, LoadHead(p)
    PROVE  Inv'
<1> USE DEF Inv
<1>0. head \in Nat /\ tail \in Nat /\ Depth \in Nat
  BY DepthAssumption DEF TypeOK
<1>1. TypeOK'
  BY <1>0, RunAssumption DEF LoadHead, TypeOK, Labels, Goto, Cursors, ring, producer, consumer
<1>2. Cursors'
  BY <1>0 DEF LoadHead, TypeOK, Goto, Cursors, ring, producer, consumer
<1>3. Tickets'
  BY <1>0 DEF LoadHead, TypeOK, Goto, Tickets, InFlight, Writing, ring, producer, consumer
<1>4. Alone'
  BY <1>0 DEF LoadHead, TypeOK, Goto, Alone, ring, producer, consumer
<1>5. Entries'
  BY <1>0 DEF LoadHead, TypeOK, Goto, Entries, InFlight, ring, producer, consumer
<1>6. Popping'
  BY <1>0 DEF LoadHead, TypeOK, Goto, Popping, InFlight, ring, producer, consumer
<1> QED
  BY <1>1, <1>2, <1>3, <1>4, <1>5, <1>6

\* A turn of the loop that waits for the consumer.
LEMMA WaitForSpaceInv ==
    ASSUME Inv, NEW p \in Producers, WaitForSpace(p)
    PROVE  Inv'
<1> USE DEF Inv
<1>0. head \in Nat /\ tail \in Nat /\ Depth \in Nat
  BY DepthAssumption DEF TypeOK
<1>1. TypeOK'
  BY <1>0, RunAssumption DEF WaitForSpace, TypeOK, Labels, Goto, Cursors, ring, producer, consumer, NoSpace
<1>2. Cursors'
  BY <1>0 DEF WaitForSpace, TypeOK, Goto, Cursors, ring, producer, consumer, NoSpace
<1>3. Tickets'
  BY <1>0 DEF WaitForSpace, TypeOK, Goto, Tickets, InFlight, Writing, ring, producer, consumer, NoSpace
<1>4. Alone'
  BY <1>0 DEF WaitForSpace, TypeOK, Goto, Alone, ring, producer, consumer, NoSpace
<1>5. Entries'
  BY <1>0 DEF WaitForSpace, TypeOK, Goto, Entries, InFlight, ring, producer, consumer, NoSpace
<1>6. Popping'
  BY <1>0 DEF WaitForSpace, TypeOK, Goto, Popping, InFlight, ring, producer, consumer, NoSpace
<1> QED
  BY <1>1, <1>2, <1>3, <1>4, <1>5, <1>6

\* The wake-up after the push.
LEMMA AwakenInv ==
    ASSUME Inv, NEW p \in Producers, Awaken(p)
    PROVE  Inv'
<1> USE DEF Inv
<1>0. head \in Nat /\ tail \in Nat /\ Depth \in Nat
  BY DepthAssumption DEF TypeOK
<1>1. TypeOK'
  BY <1>0, RunAssumption DEF Awaken, TypeOK, Labels, Goto, Cursors, ring, producer, consumer
<1>2. Cursors'
  BY <1>0 DEF Awaken, TypeOK, Goto, Cursors, ring, producer, consumer
<1>3. Tickets'
  BY <1>0 DEF Awaken, TypeOK, Goto, Tickets, InFlight, Writing, ring, producer, consumer
<1>4. Alone'
  BY <1>0 DEF Awaken, TypeOK, Goto, Alone, ring, producer, consumer
<1>5. Entries'
  BY <1>0 DEF Awaken, TypeOK, Goto, Entries, InFlight, ring, producer, consumer
<1>6. Popping'
  BY <1>0 DEF Awaken, TypeOK, Goto, Popping, InFlight, ring, producer, consumer
<1> QED
  BY <1>1, <1>2, <1>3, <1>4, <1>5, <1>6

\* fetch_add: the new ticket is the youngest.
LEMMA FetchAddInv ==
    ASSUME Inv, NEW p \in Producers, FetchAdd(p)
    PROVE  Inv'
<1> USE DEF Inv
<1>0. head \in Nat /\ tail \in Nat /\ Depth \in Nat
  BY DepthAssumption DEF TypeOK
<1>a. /\ pushed \in Seq(1 .. MaxPush) /\ val[p] \in 1 .. MaxPush
      /\ pushed' = Append(pushed, val[p]) /\ Len(pushed) = tail
      /\ tail' = tail + 1 /\ head' = head /\ slot' = slot /\ val' = val
      /\ ticket' = [ticket EXCEPT ![p] = tail]
      /\ pc' = [pc EXCEPT ![p] = "space"]
      /\ UNCHANGED <<mode, seen, wasEmpty, cpc, got, taken, signal, made>>
  BY RunAssumption DEF FetchAdd, TypeOK, Cursors, Goto, consumer
<1>b. /\ pushed' \in Seq(1 .. MaxPush) /\ Len(pushed') = tail + 1
      /\ pushed'[tail + 1] = val[p]
      /\ \A i \in 1 .. tail : pushed'[i] = pushed[i]
  BY <1>a, <1>0, AppendProperties
<1>c. \A q \in Producers : q # p => pc'[q] = pc[q] /\ ticket'[q] = ticket[q]
  BY <1>a DEF TypeOK
<1>d. pc'[p] = "space" /\ ticket'[p] = tail /\ ~ InFlight(p)
  BY <1>a DEF TypeOK, FetchAdd, InFlight
<1>1. TypeOK'
  BY <1>0, <1>a, <1>b DEF TypeOK, Labels
<1>2. Cursors'
  BY <1>0, <1>a, <1>b, <1>c, <1>d DEF Cursors, FetchAdd
<1>3. Tickets'
  <2> SUFFICES ASSUME NEW q \in Producers, InFlight(q)'
               PROVE  /\ head' <= ticket'[q] /\ ticket'[q] < tail'
                      /\ pushed'[ticket'[q] + 1] = val'[q]
                      /\ Writing(q)' => ticket'[q] < head' + Depth
                      /\ pc'[q] = "ready" => slot'[Idx(ticket'[q])].data = val'[q]
                      /\ \A r \in Producers : r # q /\ InFlight(r)' => ticket'[r] # ticket'[q]
                      /\ mode' = "error" => ticket'[q] = tail' - 1
    BY DEF Tickets, Idx, Size
  <2>1. CASE q = p
    BY <2>1, <1>0, <1>a, <1>b, <1>c, <1>d DEF Tickets, InFlight, Writing, TypeOK
  <2>2. CASE q # p
    <3>1. InFlight(q) /\ ticket'[q] = ticket[q] /\ pc'[q] = pc[q]
      BY <2>2, <1>c DEF InFlight
    <3>2. ticket[q] \in Nat /\ head <= ticket[q] /\ ticket[q] < tail
      BY <3>1 DEF Tickets, TypeOK
    <3>3. mode # "error"
      BY <3>1, <2>2 DEF Alone, FetchAdd, InFlight
    <3>4. pushed'[ticket[q] + 1] = val[q]
      BY <1>0, <1>b, <3>1, <3>2 DEF Tickets
    <3> QED
      BY <1>0, <1>a, <1>c, <1>d, <3>1, <3>2, <3>3, <3>4 DEF Tickets, InFlight, Writing
  <2> QED
    BY <2>1, <2>2
<1>4. Alone'
  BY <1>a, <1>c, <1>d DEF Alone, FetchAdd
<1>5. Entries'
  BY <1>0, <1>a, <1>b, <1>c, <1>d DEF Entries, InFlight, Idx, Size
<1>6. Popping'
  BY <1>0, <1>a, <1>b, <1>c, <1>d DEF Popping, InFlight, Idx, Size
<1> QED
  BY <1>1, <1>2, <1>3, <1>4, <1>5, <1>6

\* The producer that finds room may write within the capacity: the head it
\* loaded is at most the present one.
LEMMA HasSpaceInv ==
    ASSUME Inv, NEW p \in Producers, HasSpace(p)
    PROVE  Inv'
<1> USE DEF Inv
<1>0. head \in Nat /\ tail \in Nat /\ Depth \in Nat
  BY DepthAssumption DEF TypeOK
<1>1. TypeOK'
  BY DEF HasSpace, TypeOK, Labels, Goto, ring, consumer
<1>2. Cursors'
  BY DEF HasSpace, TypeOK, Goto, Cursors, ring, consumer
<1>3. Tickets'
  <2>1. ticket[p] < head + Depth
    BY <1>0 DEF HasSpace, NoSpace, Cursors, TypeOK, Size
  <2> QED
    BY <2>1 DEF HasSpace, TypeOK, Goto, Tickets, InFlight, Writing, ring, consumer
<1>4. Alone'
  BY DEF HasSpace, TypeOK, Goto, Alone
<1>5. Entries'
  BY DEF HasSpace, TypeOK, Goto, Entries, InFlight, ring
<1>6. Popping'
  BY DEF HasSpace, TypeOK, Goto, Popping, InFlight, ring, consumer
<1> QED
  BY <1>1, <1>2, <1>3, <1>4, <1>5, <1>6

\* Giving the ticket back: the only producer is the last one that took one.
LEMMA ErrorOnNoSpaceInv ==
    ASSUME Inv, NEW p \in Producers, ErrorOnNoSpace(p)
    PROVE  Inv'
<1> USE DEF Inv
<1>0. head \in Nat /\ tail \in Nat /\ Depth \in Nat
  BY DepthAssumption DEF TypeOK
<1>a. /\ mode = "error" /\ pc[p] = "space" /\ pc' = [pc EXCEPT ![p] = "idle"]
      /\ tail' = tail - 1 /\ pushed' = SubSeq(pushed, 1, Len(pushed) - 1)
      /\ UNCHANGED <<mode, head, slot, wasEmpty, seen, ticket, val, cpc, got, taken, signal, made>>
  BY DEF ErrorOnNoSpace, Goto, consumer
<1>b. ticket[p] \in Nat /\ ticket[p] = tail - 1 /\ head <= tail - 1 /\ tail - 1 \in Nat
  BY <1>0, <1>a DEF Tickets, InFlight, TypeOK
<1>c. \A q \in Producers : ~ InFlight(q)'
  BY <1>a DEF Alone, InFlight, TypeOK
<1>d. /\ pushed' \in Seq(1 .. MaxPush) /\ Len(pushed') = tail - 1
      /\ \A i \in 1 .. tail - 1 : pushed'[i] = pushed[i]
  <2>1. pushed \in Seq(1 .. MaxPush) /\ Len(pushed) = tail
    BY DEF TypeOK, Cursors
  <2>2. \A i \in 1 .. tail - 1 : pushed[i] \in 1 .. MaxPush
    <3> TAKE i \in 1 .. tail - 1
    <3>1. i \in 1 .. Len(pushed)
      BY <1>0, <2>1
    <3> QED
      BY <2>1, <3>1, ElementOfSeq
  <2>3. pushed' = SubSeq(pushed, 1, tail - 1) /\ 1 \in Int /\ tail - 1 \in Int
    BY <1>a, <1>b, <2>1
  <2>4. /\ SubSeq(pushed, 1, tail - 1) \in Seq(1 .. MaxPush)
        /\ Len(SubSeq(pushed, 1, tail - 1)) = IF 1 <= tail - 1 THEN tail - 1 - 1 + 1 ELSE 0
        /\ \A i \in 1 .. tail - 1 - 1 + 1 : SubSeq(pushed, 1, tail - 1)[i] = pushed[1 + i - 1]
    BY <2>2, <2>3, SubSeqProperties
  <2> QED
    BY <1>b, <2>3, <2>4
<1>1. TypeOK'
  BY <1>0, <1>a, <1>b, <1>d DEF TypeOK, Labels
<1>2. Cursors'
  BY <1>a, <1>d DEF TypeOK, Cursors
<1>3. Tickets'
  BY <1>c DEF Tickets
<1>4. Alone'
  BY <1>a DEF Alone, TypeOK
<1>5. Entries'
  <2> SUFFICES ASSUME NEW i \in head .. head + Depth, slot[Idx(i)].ready
               PROVE  i < tail' /\ slot[Idx(i)].data = pushed'[i + 1]
    BY <1>a, <1>c DEF Entries, Idx, Size
  <2>1. i < tail /\ i # tail - 1 /\ slot[Idx(i)].data = pushed[i + 1]
    BY <1>a, <1>b DEF Entries, InFlight
  <2> QED
    BY <1>0, <1>a, <1>b, <1>d, <2>1
<1>6. Popping'
  <2> SUFFICES ASSUME cpc \in {"clear", "advance"}
               PROVE  /\ head < tail' /\ got = pushed'[head + 1]
                      /\ cpc = "advance" => ~ slot[Idx(head)].ready
    BY <1>a, <1>c DEF Popping, Idx, Size
  <2>1. head # tail - 1 /\ head < tail /\ got = pushed[head + 1]
    BY <1>a, <1>b DEF Popping, InFlight
  <2> QED
    BY <1>0, <1>a, <1>b, <1>d, <2>1 DEF Popping
<1> QED
  BY <1>1, <1>2, <1>3, <1>4, <1>5, <1>6

\* A writer's entry: a slot of the buffer, within the capacity, not ready, and
\* no other writer's.
LEMMA WriterOwnsSlot ==
    ASSUME Inv, NEW p \in Producers, Writing(p)
    PROVE  /\ ticket[p] \in head .. head + Depth - 1
           /\ ticket[p] \in Nat /\ ticket[p] < tail
           /\ Idx(ticket[p]) \in 0 .. Depth
           /\ ~ slot[Idx(ticket[p])].ready
           /\ \A q \in Producers : q # p /\ Writing(q) => Idx(ticket[q]) # Idx(ticket[p])
           /\ cpc \in {"clear", "advance"} => Idx(ticket[p]) # Idx(head)
<1> USE DEF Inv
<1>0. head \in Nat /\ tail \in Nat /\ Depth \in Nat
  BY DepthAssumption DEF TypeOK
<1>1. InFlight(p)
  BY DEF InFlight, Writing
<1>2. ticket[p] \in head .. head + Depth - 1 /\ ticket[p] \in Nat /\ ticket[p] < tail
  BY <1>0, <1>1 DEF Tickets, TypeOK
<1>3. Idx(ticket[p]) \in 0 .. Depth
  BY <1>2, IdxWraps
<1>4. ~ slot[Idx(ticket[p])].ready
  BY <1>0, <1>1, <1>2 DEF Entries
<1>5. ASSUME NEW q \in Producers, q # p, Writing(q)
      PROVE  Idx(ticket[q]) # Idx(ticket[p])
  <2>1. InFlight(q) /\ ticket[q] # ticket[p]
    BY <1>1, <1>5 DEF InFlight, Writing, Tickets
  <2>2. ticket[q] \in head .. head + Depth - 1 /\ ticket[q] \in Nat
    BY <1>0, <2>1, <1>5 DEF Tickets, TypeOK
  <2>3. ticket[q] - ticket[p] <= Depth /\ ticket[p] - ticket[q] <= Depth
    BY <1>0, <1>2, <2>2
  <2> QED
    BY <1>2, <2>1, <2>2, <2>3, IdxClose
<1>6. ASSUME cpc \in {"clear", "advance"}
      PROVE  Idx(ticket[p]) # Idx(head)
  <2>1. ticket[p] # head
    BY <1>1, <1>6 DEF Popping
  <2>2. ticket[p] - head <= Depth /\ head - ticket[p] <= Depth
    BY <1>0, <1>2
  <2> QED
    BY <1>0, <1>2, <2>1, <2>2, IdxClose
<1> QED
  BY <1>2, <1>3, <1>4, <1>5, <1>6

\* Writing the entry touches no ready entry and no other writer's.
LEMMA WriteDataInv ==
    ASSUME Inv, NEW p \in Producers, WriteData(p)
    PROVE  Inv'
<1> USE DEF Inv
<1>0. head \in Nat /\ tail \in Nat /\ Depth \in Nat
  BY DepthAssumption DEF TypeOK
<1> DEFINE k == Idx(ticket[p])
<1>a. /\ pc[p] = "write" /\ pc' = [pc EXCEPT ![p] = "ready"]
      /\ slot' = [slot EXCEPT ![k].data = val[p]]
      /\ UNCHANGED <<mode, head, tail, wasEmpty, seen, ticket, val, cpc, got, taken, signal, made, pushed>>
  BY DEF WriteData, Goto, consumer
<1>b. Writing(p)
  BY <1>a DEF Writing
<1>c. k \in 0 .. Depth /\ ~ slot[k].ready
  BY <1>b, WriterOwnsSlot
<1>d. \A q \in Producers : q # p /\ Writing(q) => Idx(ticket[q]) # k
  BY <1>b, WriterOwnsSlot
<1> HIDE DEF k
<1>e. /\ slot \in [0 .. Depth -> [ready : BOOLEAN, data : 0 .. MaxPush]]
      /\ slot' = [slot EXCEPT ![k] = [slot[k] EXCEPT !.data = val[p]]]
      /\ val[p] \in 0 .. MaxPush
  BY <1>a DEF TypeOK
<1>f. /\ slot' \in [0 .. Depth -> [ready : BOOLEAN, data : 0 .. MaxPush]]
      /\ \A i \in 0 .. Depth : i # k => slot'[i] = slot[i]
      /\ ~ slot'[k].ready /\ slot'[k].data = val[p]
  BY <1>c, <1>e
<1>g. \A t \in Nat : Idx(t) \in 0 .. Depth /\ Idx(t)' = Idx(t)
  BY IdxWraps DEF Idx, Size
<1>1. TypeOK'
  BY <1>a, <1>f DEF TypeOK, Labels
<1>2. Cursors'
  BY <1>a DEF TypeOK, Cursors
<1>3. Tickets'
  <2> SUFFICES ASSUME NEW q \in Producers, pc'[q] = "ready"
               PROVE  slot'[Idx(ticket[q])].data = val[q]
    BY <1>a DEF Tickets, InFlight, Writing, TypeOK, Idx, Size
  <2>1. CASE q = p
    BY <2>1, <1>f DEF k
  <2>2. CASE q # p
    <3>1. pc[q] = "ready" /\ ticket[q] \in Nat
      BY <2>2, <1>a DEF TypeOK
    <3>2. slot[Idx(ticket[q])].data = val[q] /\ Idx(ticket[q]) # k
      BY <3>1, <2>2, <1>d DEF Tickets, InFlight, Writing
    <3> QED
      BY <3>1, <3>2, <1>f, <1>g
  <2> QED
    BY <2>1, <2>2
<1>4. Alone'
  BY <1>a DEF TypeOK, Alone
<1>5. Entries'
  <2> SUFFICES ASSUME NEW i \in head .. head + Depth, slot'[Idx(i)].ready
               PROVE  slot'[Idx(i)] = slot[Idx(i)]
    BY <1>a DEF Entries, InFlight, TypeOK, Idx, Size
  <2>1. Idx(i) # k /\ i \in Nat
    BY <1>0, <1>f
  <2> QED
    BY <2>1, <1>f, <1>g
<1>6. Popping'
  <2> SUFFICES ASSUME cpc = "advance"
               PROVE  ~ slot'[Idx(head)].ready
    BY <1>a DEF Popping, InFlight, TypeOK, Idx, Size
  <2>1. ~ slot[Idx(head)].ready
    BY DEF Popping
  <2> QED
    BY <2>1, <1>0, <1>f, <1>g
<1> QED
  BY <1>1, <1>2, <1>3, <1>4, <1>5, <1>6

\* Publishing the entry.
LEMMA SetReadyInv ==
    ASSUME Inv, NEW p \in Producers, SetReady(p)
    PROVE  Inv'
<1> USE DEF Inv
<1>0. head \in Nat /\ tail \in Nat /\ Depth \in Nat
  BY DepthAssumption DEF TypeOK
<1> DEFINE k == Idx(ticket[p])
<1>a. /\ pc[p] = "ready" /\ pc' = [pc EXCEPT ![p] = "wake"]
      /\ slot' = [slot EXCEPT ![k].ready = TRUE]
      /\ UNCHANGED <<mode, head, tail, wasEmpty, seen, ticket, val, cpc, got, taken, signal, made, pushed>>
  BY DEF SetReady, Goto, consumer
<1>b. Writing(p) /\ InFlight(p)
  BY <1>a DEF Writing, InFlight
<1>c. k \in 0 .. Depth /\ ticket[p] \in Nat /\ ticket[p] \in head .. head + Depth /\ ticket[p] < tail
  BY <1>0, <1>b, WriterOwnsSlot
<1>d. cpc \in {"clear", "advance"} => k # Idx(head)
  BY <1>b, WriterOwnsSlot
<1>e. slot[k].data = val[p] /\ pushed[ticket[p] + 1] = val[p]
  BY <1>a, <1>b DEF Tickets
<1>g. \A t \in Nat : Idx(t) \in 0 .. Depth
  BY IdxWraps
<1>h. \A i \in head .. head + Depth : Idx(i) = k => i = ticket[p]
  BY <1>0, <1>c, IdxClose
<1> HIDE DEF k
<1>f. /\ slot' \in [0 .. Depth -> [ready : BOOLEAN, data : 0 .. MaxPush]]
      /\ \A i \in 0 .. Depth : i # k => slot'[i] = slot[i]
      /\ slot'[k].data = slot[k].data
  <2>1. /\ slot \in [0 .. Depth -> [ready : BOOLEAN, data : 0 .. MaxPush]]
        /\ slot' = [slot EXCEPT ![k] = [slot[k] EXCEPT !.ready = TRUE]]
    BY <1>a DEF TypeOK
  <2>2. [slot[k] EXCEPT !.ready = TRUE] \in [ready : BOOLEAN, data : 0 .. MaxPush]
    BY <2>1, <1>c
  <2> QED
    BY <1>c, <2>1, <2>2
<1>1. TypeOK'
  BY <1>a, <1>f DEF TypeOK, Labels
<1>2. Cursors'
  BY <1>a DEF TypeOK, Cursors
<1>3. Tickets'
  <2> SUFFICES ASSUME NEW q \in Producers, q # p, pc[q] = "ready"
               PROVE  slot'[Idx(ticket[q])].data = slot[Idx(ticket[q])].data
    BY <1>a DEF Tickets, InFlight, Writing, TypeOK, Idx, Size
  <2>1. Idx(ticket[q]) \in 0 .. Depth
    BY <1>g DEF TypeOK
  <2> QED
    BY <2>1, <1>f
<1>4. Alone'
  BY <1>a DEF TypeOK, Alone
<1>5. Entries'
  <2> SUFFICES ASSUME NEW i \in head .. head + Depth, slot'[Idx(i)].ready
               PROVE  /\ i < tail
                      /\ slot'[Idx(i)].data = pushed[i + 1]
                      /\ \A q \in Producers : InFlight(q)' => ticket[q] # i
    BY <1>a DEF Entries, Idx, Size
  <2>1. \A q \in Producers : InFlight(q)' => q # p /\ InFlight(q)
    BY <1>a DEF InFlight, TypeOK
  <2>2. CASE Idx(i) = k
    <3>1. i = ticket[p]
      BY <2>2, <1>h
    <3>2. slot'[Idx(i)].data = pushed[i + 1]
      BY <3>1, <2>2, <1>e, <1>f
    <3>3. \A q \in Producers : InFlight(q)' => ticket[q] # i
      BY <3>1, <2>1, <1>b DEF Tickets
    <3> QED
      BY <3>1, <3>2, <3>3, <1>c
  <2>3. CASE Idx(i) # k
    <3>1. slot'[Idx(i)] = slot[Idx(i)]
      <4>1. i \in Nat
        BY <1>0
      <4> QED
        BY <4>1, <2>3, <1>f, <1>g
    <3> QED
      BY <3>1, <2>1 DEF Entries
  <2> QED
    BY <2>2, <2>3
<1>6. Popping'
  <2> SUFFICES ASSUME cpc = "advance"
               PROVE  slot'[Idx(head)] = slot[Idx(head)]
    BY <1>a DEF Popping, InFlight, TypeOK, Idx, Size
  <2> QED
    BY <1>0, <1>d, <1>f, <1>g
<1> QED
  BY <1>1, <1>2, <1>3, <1>4, <1>5, <1>6

\* The worker's steps that leave the buffer alone: it found nothing, polls
\* again, goes to sleep or wakes.
LEMMA IdleWorkerInv ==
    ASSUME Inv, PopNothing \/ BusyWait \/ Sleep \/ Wake
    PROVE  Inv'
<1> USE DEF Inv
<1>a. /\ cpc' \in {"pop", "idle", "asleep"} /\ signal' \in BOOLEAN
      /\ UNCHANGED <<mode, ring, producer, got, taken, made, pushed>>
  BY DEF PopNothing, BusyWait, Sleep, Wake, TypeOK
<1>1. TypeOK'
  BY <1>a DEF TypeOK, ring, producer
<1>2. Cursors'
  BY <1>a DEF Cursors, ring, producer
<1>3. Tickets'
  BY <1>a DEF Tickets, InFlight, Writing, ring, producer, Idx, Size
<1>4. Alone'
  BY <1>a DEF Alone, producer
<1>5. Entries'
  BY <1>a DEF Entries, InFlight, ring, producer, Idx, Size
<1>6. Popping'
  BY <1>a DEF Popping
<1> QED
  BY <1>1, <1>2, <1>3, <1>4, <1>5, <1>6

\* Pop reads the oldest entry.
LEMMA PopDataInv ==
    ASSUME Inv, PopData
    PROVE  Inv'
<1> USE DEF Inv
<1>0. head \in Nat /\ tail \in Nat /\ Depth \in Nat
  BY DepthAssumption DEF TypeOK
<1>a. /\ head < tail /\ slot[Idx(head)].ready
      /\ got' = slot[Idx(head)].data /\ cpc' = "clear"
      /\ UNCHANGED <<mode, ring, producer, taken, signal, made, pushed>>
  BY DEF PopData
<1>b. /\ slot[Idx(head)].data = pushed[head + 1]
      /\ \A p \in Producers : InFlight(p) => ticket[p] # head
  BY <1>0, <1>a DEF Entries
<1>1. TypeOK'
  <2>1. got' \in 0 .. MaxPush
    BY <1>0, <1>a, IdxWraps DEF TypeOK
  <2> QED
    BY <2>1, <1>a DEF TypeOK, ring, producer
<1>2. Cursors'
  BY <1>a DEF Cursors, ring, producer
<1>3. Tickets'
  BY <1>a DEF Tickets, InFlight, Writing, ring, producer, Idx, Size
<1>4. Alone'
  BY <1>a DEF Alone, producer
<1>5. Entries'
  BY <1>a DEF Entries, InFlight, ring, producer, Idx, Size
<1>6. Popping'
  BY <1>a, <1>b DEF Popping, InFlight, ring, producer
<1> QED
  BY <1>1, <1>2, <1>3, <1>4, <1>5, <1>6

\* Pop takes the flag away from the oldest entry.
LEMMA ClearReadyInv ==
    ASSUME Inv, ClearReady
    PROVE  Inv'
<1> USE DEF Inv
<1>0. head \in Nat /\ tail \in Nat /\ Depth \in Nat
  BY DepthAssumption DEF TypeOK
<1> DEFINE k == Idx(head)
<1>a. /\ cpc = "clear" /\ cpc' = "advance"
      /\ slot' = [slot EXCEPT ![k].ready = FALSE]
      /\ UNCHANGED <<mode, head, tail, producer, got, taken, signal, made, pushed>>
  BY DEF ClearReady
<1>g. \A t \in Nat : Idx(t) \in 0 .. Depth
  BY IdxWraps
<1>c. k \in 0 .. Depth
  BY <1>0, <1>g
<1> HIDE DEF k
<1>f. /\ slot' \in [0 .. Depth -> [ready : BOOLEAN, data : 0 .. MaxPush]]
      /\ \A i \in 0 .. Depth : i # k => slot'[i] = slot[i]
      /\ slot'[k].data = slot[k].data /\ ~ slot'[k].ready
  <2>1. /\ slot \in [0 .. Depth -> [ready : BOOLEAN, data : 0 .. MaxPush]]
        /\ slot' = [slot EXCEPT ![k] = [slot[k] EXCEPT !.ready = FALSE]]
    BY <1>a DEF TypeOK
  <2>2. [slot[k] EXCEPT !.ready = FALSE] \in [ready : BOOLEAN, data : 0 .. MaxPush]
    BY <2>1, <1>c
  <2> QED
    BY <1>c, <2>1, <2>2
<1>h. \A i \in 0 .. Depth : slot'[i].data = slot[i].data /\ (slot'[i].ready => slot[i].ready)
  BY <1>f
<1>1. TypeOK'
  BY <1>a, <1>f DEF TypeOK, producer
<1>2. Cursors'
  BY <1>a DEF Cursors, producer
<1>3. Tickets'
  <2> SUFFICES ASSUME NEW p \in Producers
               PROVE  slot'[Idx(ticket[p])].data = slot[Idx(ticket[p])].data
    BY <1>a DEF Tickets, InFlight, Writing, producer, Idx, Size
  <2> QED
    BY <1>g, <1>h DEF TypeOK
<1>4. Alone'
  BY <1>a DEF Alone, producer
<1>5. Entries'
  <2> SUFFICES ASSUME NEW i \in head .. head + Depth
               PROVE  slot'[Idx(i)].data = slot[Idx(i)].data /\ (slot'[Idx(i)].ready => slot[Idx(i)].ready)
    BY <1>a DEF Entries, InFlight, producer, Idx, Size
  <2>1. i \in Nat
    BY <1>0
  <2> QED
    BY <2>1, <1>g, <1>h
<1>6. Popping'
  BY <1>a, <1>f DEF Popping, InFlight, producer, k, Idx, Size
<1> QED
  BY <1>1, <1>2, <1>3, <1>4, <1>5, <1>6

\* Pop moves the head: the entry it leaves becomes the last of the window.
LEMMA AdvanceInv ==
    ASSUME Inv, Advance
    PROVE  Inv'
<1> USE DEF Inv
<1>0. head \in Nat /\ tail \in Nat /\ Depth \in Nat
  BY DepthAssumption DEF TypeOK
<1>a. /\ cpc = "advance" /\ cpc' = "pop"
      /\ head' = head + 1 /\ taken' = Append(taken, got)
      /\ UNCHANGED <<mode, tail, slot, producer, got, signal, made, pushed>>
  BY DEF Advance
<1>b. /\ head < tail /\ ~ slot[Idx(head)].ready
      /\ \A p \in Producers : InFlight(p) => ticket[p] # head
  BY <1>a DEF Popping
<1>1. TypeOK'
  <2>1. taken' \in Seq(0 .. MaxPush)
    BY <1>a, AppendProperties DEF TypeOK
  <2> QED
    BY <2>1, <1>0, <1>a, <1>b DEF TypeOK, producer
<1>2. Cursors'
  BY <1>0, <1>a DEF TypeOK, Cursors, producer
<1>3. Tickets'
  <2>1. \A p \in Producers : InFlight(p) =>
            head + 1 <= ticket[p] /\ (Writing(p) => ticket[p] < head + 1 + Depth)
    BY <1>0, <1>b DEF TypeOK, Tickets
  <2> QED
    BY <2>1, <1>a DEF Tickets, InFlight, Writing, producer, Idx, Size
<1>4. Alone'
  BY <1>a DEF Alone, producer
<1>5. Entries'
  <2> SUFFICES ASSUME NEW i \in head + 1 .. head + 1 + Depth, slot[Idx(i)].ready
               PROVE  i \in head .. head + Depth
    BY <1>a DEF Entries, InFlight, producer, Idx, Size
  <2>1. i # head + 1 + Depth
    <3>1. Idx(head + 1 + Depth) = Idx(head)
      <4>1. head + Size = head + 1 + Depth
        BY <1>0 DEF Size
      <4> QED
        BY <4>1, <1>0, IdxWraps
    <3> QED
      BY <3>1, <1>b
  <2> QED
    BY <2>1, <1>0
<1>6. Popping'
  BY <1>a DEF Popping
<1> QED
  BY <1>1, <1>2, <1>3, <1>4, <1>5, <1>6

\* Every step keeps the invariant.
LEMMA NextInv == Inv /\ [Next]_vars => Inv'
<1> SUFFICES ASSUME Inv, [Next]_vars PROVE Inv'
  OBVIOUS
<1>1. ASSUME NEW p \in Producers, BeginPush(p) \/ Push(p) PROVE Inv'
  BY <1>1, BeginPushInv, LoadHeadInv, FetchAddInv, HasSpaceInv, WaitForSpaceInv,
     ErrorOnNoSpaceInv, WriteDataInv, SetReadyInv, AwakenInv DEF Push
<1>2. CASE Worker
  BY <1>2, IdleWorkerInv, PopDataInv, ClearReadyInv, AdvanceInv DEF Worker
<1>3. CASE UNCHANGED vars
  <2> USE <1>3 DEF vars, ring, producer, consumer
  <2>1. TypeOK'
    BY DEF Inv, TypeOK
  <2>2. Cursors' /\ Alone'
    BY DEF Inv, Cursors, Alone
  <2>3. Tickets'
    BY DEF Inv, Tickets, InFlight, Writing, Idx, Size
  <2>4. Entries' /\ Popping'
    BY DEF Inv, Entries, Popping, InFlight, Idx, Size
  <2> QED
    BY <2>1, <2>2, <2>3, <2>4 DEF Inv
<1> QED
  BY <1>1, <1>2, <1>3 DEF Next

\* The inductive invariant holds in every behaviour of a lossless buffer.
LEMMA Invariant == Spec /\ mode # "circular" => []Inv
  BY InitInv, NextInv, PTL DEF Spec

\* No producer writes an entry that another one writes, that is published or
\* that Pop is reading, although tickets are handed out beyond the capacity
\* (Emplace, Pop): for every capacity and number of producers.
THEOREM NoEntryOverwritten == Spec /\ mode # "circular" => []RingInv
<1>1. Inv => RingInv
  <2> SUFFICES ASSUME Inv PROVE NoOverwrite
    BY DEF RingInv, Inv
  <2> QED
    BY WriterOwnsSlot DEF NoOverwrite
<1> QED
  BY <1>1, Invariant, PTL

-----------------------------------------------------------------------------
(* Refinement of the queue.                                                *)

\* What is in the buffer, in the order of the tickets.
Waiting == SubSeq(pushed, head + 1, Len(pushed))

\* The queue's length and members.
LEMMA WaitingProperties ==
    ASSUME NEW S, NEW s \in Seq(S), NEW h \in Nat, h <= Len(s)
    PROVE  /\ SubSeq(s, h + 1, Len(s)) \in Seq(S)
           /\ Len(SubSeq(s, h + 1, Len(s))) = Len(s) - h
           /\ \A i \in 1 .. Len(s) - h : SubSeq(s, h + 1, Len(s))[i] = s[h + i]
<1>1. \A i \in h + 1 .. Len(s) : s[i] \in S
  <2> TAKE i \in h + 1 .. Len(s)
  <2>1. i \in 1 .. Len(s)
    OBVIOUS
  <2> QED
    BY <2>1, ElementOfSeq
<1>2. h + 1 \in Int /\ Len(s) \in Int
  OBVIOUS
<1> DEFINE w == SubSeq(s, h + 1, Len(s))
<1>3. /\ w \in Seq(S)
      /\ Len(w) = IF h + 1 <= Len(s) THEN Len(s) - (h + 1) + 1 ELSE 0
      /\ \A i \in 1 .. Len(s) - (h + 1) + 1 : w[i] = s[h + 1 + i - 1]
  BY <1>1, <1>2, SubSeqProperties
<1> HIDE DEF w
<1>4. Len(w) = Len(s) - h /\ \A i \in 1 .. Len(s) - h : w[i] = s[h + i]
  BY <1>2, <1>3
<1> QED
  BY <1>3, <1>4 DEF w

\* fetch_add puts the value at the end of the queue.
LEMMA PutStep ==
    ASSUME NEW S, NEW s \in Seq(S), NEW v \in S, NEW h \in Nat, h <= Len(s)
    PROVE  SubSeq(Append(s, v), h + 1, Len(Append(s, v))) =
           Append(SubSeq(s, h + 1, Len(s)), v)
<1> DEFINE t == Append(s, v)
           w == SubSeq(s, h + 1, Len(s))
           u == SubSeq(t, h + 1, Len(t))
<1>1. /\ t \in Seq(S) /\ Len(t) = Len(s) + 1 /\ t[Len(s) + 1] = v
      /\ \A i \in 1 .. Len(s) : t[i] = s[i]
  BY AppendProperties
<1>2. w \in Seq(S) /\ Len(w) = Len(s) - h /\ \A i \in 1 .. Len(s) - h : w[i] = s[h + i]
  BY WaitingProperties
<1>3. h <= Len(t)
  BY <1>1
<1> HIDE DEF t
<1>4. u \in Seq(S) /\ Len(u) = Len(t) - h /\ \A i \in 1 .. Len(t) - h : u[i] = t[h + i]
  BY <1>1, <1>3, WaitingProperties
<1> HIDE DEF u, w
<1>5. /\ Append(w, v) \in Seq(S) /\ Len(Append(w, v)) = Len(w) + 1
      /\ Append(w, v)[Len(w) + 1] = v
      /\ \A i \in 1 .. Len(w) : Append(w, v)[i] = w[i]
  BY <1>2, AppendProperties
<1>6. Len(u) = Len(Append(w, v))
  BY <1>1, <1>2, <1>4, <1>5
<1>7. \A i \in 1 .. Len(u) : u[i] = Append(w, v)[i]
  <2> TAKE i \in 1 .. Len(u)
  <2>1. CASE i = Len(w) + 1
    BY <2>1, <1>1, <1>2, <1>4, <1>5
  <2>2. CASE i # Len(w) + 1
    <3>1. i \in 1 .. Len(w)
      BY <2>2, <1>5, <1>6
    <3>2. u[i] = t[h + i] /\ t[h + i] = s[h + i] /\ w[i] = s[h + i]
      BY <3>1, <1>1, <1>2, <1>4
    <3> QED
      BY <3>1, <3>2, <1>5
  <2> QED
    BY <2>1, <2>2
<1>8. u = Append(w, v)
  BY <1>4, <1>5, <1>6, <1>7, SeqEqual
<1> QED
  BY <1>8 DEF t, u, w

\* Giving the youngest ticket back removes the end of the queue.
LEMMA WithdrawStep ==
    ASSUME NEW S, NEW s \in Seq(S), NEW h \in Nat, h < Len(s)
    PROVE  LET t == SubSeq(s, 1, Len(s) - 1)
               w == SubSeq(s, h + 1, Len(s))
           IN  w # <<>> /\ SubSeq(t, h + 1, Len(t)) = SubSeq(w, 1, Len(w) - 1)
<1> DEFINE t == SubSeq(s, 1, Len(s) - 1)
           w == SubSeq(s, h + 1, Len(s))
           u == SubSeq(t, h + 1, Len(t))
           x == SubSeq(w, 1, Len(w) - 1)
<1>1. t \in Seq(S) /\ Len(t) = Len(s) - 1 /\ \A i \in 1 .. Len(s) - 1 : t[i] = s[i]
  <2>1. \A i \in 1 .. Len(s) - 1 : s[i] \in S
    <3> TAKE i \in 1 .. Len(s) - 1
    <3> QED
      BY ElementOfSeq
  <2>2. /\ t \in Seq(S)
        /\ Len(t) = IF 1 <= Len(s) - 1 THEN Len(s) - 1 - 1 + 1 ELSE 0
        /\ \A i \in 1 .. Len(s) - 1 - 1 + 1 : t[i] = s[1 + i - 1]
    BY <2>1, SubSeqProperties
  <2> HIDE DEF t
  <2>3. Len(s) \in Nat \ {0}
    OBVIOUS
  <2>4. Len(t) = Len(s) - 1
    <3>1. PICK n \in Nat : n = Len(s)
      OBVIOUS
    <3>2. n >= 1 /\ Len(t) = IF 1 <= n - 1 THEN n - 1 - 1 + 1 ELSE 0
      BY <3>1, <2>2, <2>3
    <3>3. Len(t) = n - 1
      BY <3>2
    <3> QED
      BY <3>1, <3>3
  <2>5. ASSUME NEW i \in 1 .. Len(s) - 1 PROVE t[i] = s[i]
    <3>1. i \in 1 .. Len(s) - 1 - 1 + 1 /\ 1 + i - 1 = i
      BY <2>3
    <3> QED
      BY <2>2, <3>1
  <2> QED
    BY <2>2, <2>4, <2>5
<1>2. w \in Seq(S) /\ Len(w) = Len(s) - h /\ \A i \in 1 .. Len(s) - h : w[i] = s[h + i]
  BY WaitingProperties
<1>3. h <= Len(t)
  BY <1>1
<1> HIDE DEF t
<1>4. u \in Seq(S) /\ Len(u) = Len(t) - h /\ \A i \in 1 .. Len(t) - h : u[i] = t[h + i]
  BY <1>1, <1>3, WaitingProperties
<1> HIDE DEF u, w
<1>5. x \in Seq(S) /\ Len(x) = Len(w) - 1 /\ \A i \in 1 .. Len(w) - 1 : x[i] = w[i]
  <2>1. \A i \in 1 .. Len(w) - 1 : w[i] \in S
    <3> TAKE i \in 1 .. Len(w) - 1
    <3> QED
      BY <1>2, ElementOfSeq
  <2>2. /\ x \in Seq(S)
        /\ Len(x) = IF 1 <= Len(w) - 1 THEN Len(w) - 1 - 1 + 1 ELSE 0
        /\ \A i \in 1 .. Len(w) - 1 - 1 + 1 : x[i] = w[1 + i - 1]
    BY <1>2, <2>1, SubSeqProperties
  <2> HIDE DEF x
  <2> QED
    BY <1>2, <2>2
<1> HIDE DEF x
<1>6. Len(u) = Len(x) /\ \A i \in 1 .. Len(u) : u[i] = x[i]
  <2>1. Len(u) = Len(s) - 1 - h /\ Len(x) = Len(s) - h - 1 /\ Len(s) \in Nat
    BY <1>1, <1>2, <1>4, <1>5
  <2>2. ASSUME NEW i \in 1 .. Len(s) - 1 - h PROVE u[i] = x[i]
    <3>1. i \in 1 .. Len(t) - h /\ h + i \in 1 .. Len(s) - 1
      BY <2>1, <1>1
    <3>2. i \in 1 .. Len(w) - 1 /\ i \in 1 .. Len(s) - h
      BY <2>1, <1>2
    <3>3. u[i] = s[h + i]
      BY <3>1, <1>1, <1>4
    <3> QED
      BY <3>2, <3>3, <1>2, <1>5
  <2> QED
    BY <2>1, <2>2
<1>7. u = x
  BY <1>4, <1>5, <1>6, SeqEqual
<1>8. w # <<>>
  BY <1>2
<1> QED
  BY <1>7, <1>8 DEF t, u, w, x

\* Pop's last step takes the oldest value off the queue.
LEMMA TakeStep ==
    ASSUME NEW S, NEW s \in Seq(S), NEW h \in Nat, h < Len(s)
    PROVE  LET w == SubSeq(s, h + 1, Len(s))
           IN  w # <<>> /\ Head(w) = s[h + 1] /\ SubSeq(s, h + 2, Len(s)) = Tail(w)
<1>1. h + 1 \in 1 .. Len(s) /\ Len(s) \in h + 1 .. Len(s)
  OBVIOUS
<1>2. Head(SubSeq(s, h + 1, Len(s))) = s[h + 1] /\ Tail(SubSeq(s, h + 1, Len(s))) = SubSeq(s, h + 1 + 1, Len(s))
  BY <1>1, HeadTailOfSubSeq
<1> DEFINE w == SubSeq(s, h + 1, Len(s))
<1>3. w \in Seq(S) /\ Len(w) = Len(s) - h
  BY WaitingProperties
<1> HIDE DEF w
<1>4. w # <<>>
  BY <1>3
<1>5. h + 1 + 1 = h + 2
  OBVIOUS
<1> QED
  BY <1>2, <1>4, <1>5 DEF w

\* Every step of the buffer is a put, a take, a withdrawal or no step of the
\* queue.
LEMMA QueueStep == Inv /\ [Next]_vars => [Queue!Next]_(Queue!vars)
<1> SUFFICES ASSUME Inv, [Next]_vars PROVE Queue!Next \/ UNCHANGED Queue!vars
  BY DEF Queue!Next, Queue!vars
<1>0. /\ head \in Nat /\ tail \in Nat /\ head <= tail
      /\ pushed \in Seq(1 .. MaxPush) /\ Len(pushed) = tail
  BY DEF Inv, TypeOK, Cursors
<1>1. ASSUME NEW p \in Producers, FetchAdd(p) PROVE Queue!Next
  <2>1. val[p] \in 1 .. MaxPush
    BY <1>1, RunAssumption DEF FetchAdd, Inv, TypeOK, Cursors
  <2>2. pushed' = Append(pushed, val[p]) /\ head' = head /\ taken' = taken
    BY <1>1 DEF FetchAdd, consumer
  <2>3. Waiting' = Append(Waiting, val[p])
    BY <1>0, <2>1, <2>2, PutStep DEF Waiting
  <2> QED
    BY <2>1, <2>2, <2>3 DEF Waiting, Queue!Next, Queue!Put
<1>2. ASSUME NEW p \in Producers, ErrorOnNoSpace(p) PROVE Queue!Next
  <2>1. head < tail
    BY <1>0, <1>2 DEF ErrorOnNoSpace, Inv, Tickets, InFlight, TypeOK
  <2>2. pushed' = SubSeq(pushed, 1, Len(pushed) - 1) /\ head' = head /\ taken' = taken
    BY <1>2 DEF ErrorOnNoSpace, consumer
  <2>3. Waiting # <<>> /\ Waiting' = SubSeq(Waiting, 1, Len(Waiting) - 1)
    BY <1>0, <2>1, <2>2, WithdrawStep DEF Waiting
  <2> QED
    BY <2>2, <2>3 DEF Waiting, Queue!Next, Queue!Withdraw
<1>3. CASE Advance
  <2>1. head < tail /\ got = pushed[head + 1]
    BY <1>3 DEF Advance, Inv, Popping
  <2>2. pushed' = pushed /\ head' = head + 1 /\ taken' = Append(taken, got)
    BY <1>3 DEF Advance
  <2>3. head' + 1 = head + 2
    BY <1>0, <2>2
  <2>4. Waiting # <<>> /\ got = Head(Waiting) /\ Waiting' = Tail(Waiting)
    BY <1>0, <2>1, <2>2, <2>3, TakeStep DEF Waiting
  <2> QED
    BY <2>2, <2>4 DEF Waiting, Queue!Next, Queue!Take
<1>4. ASSUME UNCHANGED <<head, pushed, taken>> PROVE UNCHANGED Queue!vars
  BY <1>4 DEF Queue!vars
<1>5. ASSUME NEW p \in Producers, BeginPush(p) \/ Push(p)
      PROVE  Queue!Next \/ UNCHANGED <<head, pushed, taken>>
  BY <1>1, <1>2, <1>5 DEF BeginPush, Push, LoadHead, HasSpace, WaitForSpace, WriteData,
     SetReady, Awaken, ring, consumer
<1>6. CASE Worker
  BY <1>3, <1>4, <1>6 DEF Worker, PopNothing, PopData, ClearReady, BusyWait, Sleep, Wake, ring
<1>7. CASE UNCHANGED vars
  BY <1>4, <1>7 DEF vars, ring, consumer
<1> QED
  BY <1>4, <1>5, <1>6, <1>7 DEF Next

\* The buffer is a queue: for every capacity and any interleaving of the
\* producers' steps with Pop, a value comes out once, in the order of the
\* tickets, and is the one that was written (Emplace, Pop).
THEOREM RefinesFifo == Spec /\ mode # "circular" => IsFifo
<1>1. Init => Queue!Init
  <2> SUFFICES ASSUME Init PROVE Waiting = <<>> /\ taken = <<>>
    BY DEF Queue!Init, Waiting
  <2>1. head + 1 \in Int /\ Len(pushed) \in Int /\ Len(pushed) < head + 1
    BY DEF Init
  <2> QED
    BY <2>1, SubSeqEmpty DEF Init, Waiting
<1> QED
  BY <1>1, Invariant, QueueStep, PTL DEF Spec, IsFifo, Queue!Spec
=============================================================================
