---------------------------- MODULE MCPoolRouting ----------------------------
(***************************************************************************)
(* Pools of three to seven nodes, and who asks what.                       *)
(***************************************************************************)
EXTENDS PoolRouting

Identity == [c \in Containers |-> c]

\* The container of the last node was recovered on the node before it.
Recovered == [c \in Containers |-> IF c = N - 1 THEN N - 2 ELSE c]

Ask3 == { [node |-> 0, query |-> Broadcast],
          [node |-> 1, query |-> DirectHash(5)],
          [node |-> 1, query |-> RangeOf(0, 0)] }
AskAll == { [node |-> 0, query |-> Broadcast],
            [node |-> 1, query |-> RangeOf(1, N - 1)],
            [node |-> 0, query |-> DirectId(1)],
            [node |-> 0, query |-> Physical(1)] }
AskOne == { [node |-> 0, query |-> DirectHash(1)] }
AskNone == {}

\* Container 1 is moved away by its node and then by another one.
Move2 == { [from |-> 1, container |-> 1, to |-> 2], [from |-> 0, container |-> 1, to |-> 0] }
MoveNone == {}
=============================================================================
