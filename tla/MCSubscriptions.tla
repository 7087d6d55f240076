-------------------------- MODULE MCSubscriptions --------------------------
(***************************************************************************)
(* Instances of the subscriptions of one customer for TLC.                 *)
(***************************************************************************)
EXTENDS Subscriptions, TLC

CONSTANTS s1, s2, r1, r2

TwoSubs     == {s1, s2}
TwoRequests == {r1, r2}
=============================================================================
