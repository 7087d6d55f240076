--------------------------- MODULE MCProvisioning ---------------------------
(***************************************************************************)
(* Instances of domain provisioning for TLC.                               *)
(***************************************************************************)
EXTENDS ProvisioningProperties, TLC

CONSTANTS p1, p2, c1, c2, c3, w1, w2, w3, o1, o2, n1, n2

OneProc    == {p1}
TwoProcs   == {p1, p2}
OneConn    == {c1}
LocalConn  == c1 :> p1
TwoConns   == {c1, c2}
SplitPool  == c1 :> p1 @@ c2 :> p2
ThreeConns == {c1, c2, c3}
SplitPools == c1 :> p1 @@ c2 :> p1 @@ c3 :> p2
TwoWorkers == {w1, w2}
LocalPair  == w1 :> p1 @@ w2 :> p1
SplitPair  == w1 :> p1 @@ w2 :> p2
ThreeWorkers == {w1, w2, w3}
SplitThree == w1 :> p1 @@ w2 :> p1 @@ w3 :> p2
OneName    == {n1}
OneOrder   == {o1}
TwoOrders  == {o1, o2}
\* Two customers ask for one name.
Single     == o1 :> n1
Rivals     == o1 :> n1 @@ o2 :> n1
=============================================================================
