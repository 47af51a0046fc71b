---------------------------- MODULE MCCteStorage ----------------------------
(* Instances of CteStorage for TLC: a fast volatile target and a slow          *)
(* persistent one, both small enough to fill up.                               *)
EXTENDS CteStorage, TLC

CONSTANTS ram, ssd, b1, b2, c1, c2

MCTargets == {ram, ssd}
MCLevel == ram :> 0 @@ ssd :> 1
MCTargetScore == ram :> 1 @@ ssd :> 0

call(kind, b, off, size, s) ==
    [kind |-> kind, blob |-> b, off |-> off, size |-> size, score |-> s,
     level |-> 0, data |-> <<>>]

Puts == {call("put", b1, 0, 1, 1), call("put", b1, 1, 2, -1), call("put", b2, 0, 2, 1)}
Gets == {call("get", b1, 0, 2, 0)}
Others == {call("del", b2, 0, 0, 0), call("reorg", b1, 0, 0, 0)}
AllCalls == Puts \cup Gets \cup Others

SmallDevices == ram :> 4 @@ ssd :> 4
FullSsd == ram :> 3 @@ ssd :> 1
BigDevices == ram :> 8 @@ ssd :> 8
Symmetry == Permutations({c1, c2})
OneBlobPuts == {call("put", b1, 0, 1, 1)}
LargePuts == {call("put", b1, 0, 4, 1), call("put", b2, 0, 4, 1)}
=============================================================================
