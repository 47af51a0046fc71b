---------------------------- MODULE MCRingBuffer ----------------------------
(***************************************************************************)
(* RingBuffer with room for two entries, pushed into by two threads more   *)
(* often than there is room for.                                           *)
(***************************************************************************)
EXTENDS RingBuffer, TLC
=============================================================================
