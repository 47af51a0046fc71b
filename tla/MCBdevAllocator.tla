-------------------------- MODULE MCBdevAllocator --------------------------
(***************************************************************************)
(* BdevAllocator on a small device: two workers, two clients, categories   *)
(* of 2 and 5 units aligned to 3, so that a block is larger than its       *)
(* category, and a device on which the third or fourth block does not fit. *)
(***************************************************************************)
EXTENDS BdevAllocator

MCBlockSizes == <<2, 5>>
=============================================================================
