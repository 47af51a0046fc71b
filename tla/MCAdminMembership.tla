------------------------- MODULE MCAdminMembership -------------------------
(* Instances of AdminMembership for TLC.                                      *)
EXTENDS AdminMembership, TLC

CONSTANTS c1

\* The container is on the node with the highest id.
MCHome == [c \in Containers |-> Max(Nodes)]
=============================================================================
