----------------------------- MODULE MCCoRwLock -----------------------------
(* Instances of CoRwLock for TLC.                                             *)
EXTENDS CoRwLock, TLC

CONSTANTS t1, t2, t3

Symmetry == Permutations(Threads)
=============================================================================
