---------------------------- MODULE BlockDevice ----------------------------
(***************************************************************************)
(* What an allocator of space promises its clients, as they see it: a      *)
(* request is answered once, either with extents that cover it and that    *)
(* nobody else holds, or with nothing; and extents are given back in one   *)
(* step, after which they are the holder's no more.  How the space is      *)
(* found, divided, cached and recycled is not visible here.                *)
(***************************************************************************)
EXTENDS Integers, Sequences

CONSTANTS
    Clients,   \* users of the space
    Space,     \* its size
    Pieces     \* Pieces[n]: the sizes of the pieces that serve a request for n

VARIABLES
    status,    \* what each client is doing
    size,      \* what it asked for last
    extents    \* what it holds

vars == <<status, size, extents>>

Apart(a, b) ==
    \/ a.offset + a.size <= b.offset
    \/ b.offset + b.size <= a.offset

Init ==
    /\ status = [c \in Clients |-> "idle"]
    /\ size = [c \in Clients |-> 0]
    /\ extents = [c \in Clients |-> <<>>]

Ask(c) ==
    /\ status[c] = "idle"
    /\ status' = [status EXCEPT ![c] = "asked"]
    /\ size' = [size EXCEPT ![c] = size'[c]]
    /\ UNCHANGED extents

\* A request for nothing is served on the spot.
AskNothing(c) ==
    /\ status[c] = "idle"
    /\ status' = [status EXCEPT ![c] = "held"]
    /\ size' = [size EXCEPT ![c] = 0]
    /\ UNCHANGED extents

\* One extent per piece of the request, large enough for it, inside the space,
\* and apart from each other and from all that is held.
Grant(c) ==
    LET e == extents'[c]
    IN /\ status[c] = "asked"
       /\ status' = [status EXCEPT ![c] = "held"]
       /\ extents' = [extents EXCEPT ![c] = e]
       /\ Len(e) = Len(Pieces[size[c]])
       /\ \A i \in 1 .. Len(e) :
             /\ e[i].size >= Pieces[size[c]][i]
             /\ e[i].offset + e[i].size <= Space
             /\ \A j \in 1 .. Len(e) : i # j => Apart(e[i], e[j])
             /\ \A d \in Clients : \A j \in 1 .. Len(extents[d]) :
                    Apart(e[i], extents[d][j])
       /\ UNCHANGED size

Refuse(c) ==
    /\ status[c] = "asked"
    /\ status' = [status EXCEPT ![c] = "idle"]
    /\ UNCHANGED <<size, extents>>

Release(c) ==
    /\ status[c] = "held"
    /\ status' = [status EXCEPT ![c] = "idle"]
    /\ extents' = [extents EXCEPT ![c] = <<>>]
    /\ UNCHANGED size

Answer(c) == Grant(c) \/ Refuse(c)

Next == \E c \in Clients : Ask(c) \/ AskNothing(c) \/ Answer(c) \/ Release(c)

Spec == Init /\ [][Next]_vars
=============================================================================
