-------------------------------- MODULE Fifo --------------------------------
(***************************************************************************)
(* What a queue between threads promises: a value that was put is taken    *)
(* once, and values are taken in the order in which they were put.         *)
(***************************************************************************)
EXTENDS Sequences, Naturals

CONSTANT Values

VARIABLES
    queue,   \* values put and not taken yet, oldest first
    taken    \* values taken so far

vars == <<queue, taken>>

Init == queue = <<>> /\ taken = <<>>

Put(v) ==
    /\ queue' = Append(queue, v)
    /\ UNCHANGED taken

Take ==
    /\ queue # <<>>
    /\ taken' = Append(taken, Head(queue))
    /\ queue' = Tail(queue)

\* A put that found no room is undone before anybody saw it.
Withdraw ==
    /\ queue # <<>>
    /\ queue' = SubSeq(queue, 1, Len(queue) - 1)
    /\ UNCHANGED taken

Next == (\E v \in Values : Put(v)) \/ Take \/ Withdraw

Spec == Init /\ [][Next]_vars
=============================================================================
