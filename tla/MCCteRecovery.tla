--------------------------- MODULE MCCteRecovery ---------------------------
(* Instances of CteRecovery for TLC.                                          *)
EXTENDS CteRecovery, TLC

CONSTANTS n1, n2, b1, b2, c1, c2, blk1, blk2, blk3

OneWorker == c1 :> 0 @@ c2 :> 0
TwoWorkers == c1 :> 0 @@ c2 :> 1
\* The tag ids clients ask for.
NoWish == [n \in Names |-> {0}]
IdOne == [n \in Names |-> {0, 1}]
RemoteForN2 == [n \in Names |-> IF n = n2 THEN {0, 3} ELSE {0}]
=============================================================================
