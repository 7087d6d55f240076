---------------------------- MODULE MCDatabases -----------------------------
(***************************************************************************)
(* Instances of the hosted databases for TLC.                              *)
(***************************************************************************)
EXTENDS HostedDatabases, TLC

CONSTANTS p1, u1, u2, x1, r1, r2, r3, n1, n2, n3

OneProc    == {p1}
TwoUsers   == {u1, u2}
OneOrg     == {x1}
Colleagues == u1 :> x1 @@ u2 :> x1
\* One user asks twice at once, and a colleague of his asks too.
ThreeRequests == {r1, r2, r3}
Local      == r1 :> p1 @@ r2 :> p1 @@ r3 :> p1
Askers     == r1 :> u1 @@ r2 :> u1 @@ r3 :> u2
ThreeNames == {n1, n2, n3}
OneDatabase == x1 :> 1
NameSymmetry == Permutations(ThreeNames) \cup Permutations({r1, r2})
=============================================================================
