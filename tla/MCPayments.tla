----------------------------- MODULE MCPayments -----------------------------
(***************************************************************************)
(* Instances of order payments for TLC.                                    *)
(***************************************************************************)
EXTENDS OrderPayments, TLC

CONSTANTS p1, p2, c1, c2, w1, w2, o1, n1, r1, r2

OneProc      == {p1}
TwoProcs     == {p1, p2}
OneConn      == {c1}
LocalConn    == c1 :> p1
TwoConns     == {c1, c2}
SplitPool    == c1 :> p1 @@ c2 :> p2
OneWorker    == {w1}
LocalWorker  == w1 :> p1
TwoWorkers   == {w1, w2}
SplitPair    == w1 :> p1 @@ w2 :> p2
OneName      == {n1}
OneOrder     == {o1}
Single       == o1 :> n1
TwoRequests  == {r1, r2}
LocalPair    == r1 :> p1 @@ r2 :> p1
SplitHandler == r1 :> p1 @@ r2 :> p2
=============================================================================
