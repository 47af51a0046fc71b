----------------------------- MODULE MCAdminNet -----------------------------
(* Instances of AdminNet for TLC.  A broadcast becomes one Range query per    *)
(* container; a Physical query is always alone.                               *)
EXTENDS AdminNet, TLC

CONSTANTS n0, n1, n2, t1, t2, t3, c1, c2, a1, a2

OneOrigin == [t \in Tasks |-> n0]
TwoOrigins == [t \in Tasks |-> IF t = t1 THEN n0 ELSE n1]
LastElsewhere == [t \in Tasks |-> IF t = t3 THEN n1 ELSE n0]
MCHome == c1 :> n1 @@ c2 :> n2
Mixed == t1 :> <<Direct(c1), Direct(c2)>> @@ t2 :> <<Physical(n1)>>
Three == t1 :> <<Direct(c1), Direct(c2)>> @@ t2 :> <<Physical(n2)>> @@ t3 :> <<Physical(n2)>>
ToContainer == t1 :> <<Direct(c2)>> @@ t2 :> <<Direct(c2)>>
ToN1 == t1 :> <<Physical(n1)>> @@ t2 :> <<Physical(n1)>>
ToN2 == t1 :> <<Physical(n2)>> @@ t2 :> <<Physical(n2)>>
ToBoth == t1 :> <<Physical(n1)>> @@ t2 :> <<Physical(n2)>>
Default == [t \in Tasks |-> "default"]
ZeroTimeout == [t \in Tasks |-> "zero"]
=============================================================================
