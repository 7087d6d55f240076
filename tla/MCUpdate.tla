------------------------------ MODULE MCUpdate ------------------------------
(***************************************************************************)
(* Instances of the update pipeline for TLC.                               *)
(***************************************************************************)
EXTENDS UpdateProperties, TLC

CONSTANTS j1, j2, j3, a1

TwoJobs       == {j1, j2}
ThreeJobs     == {j1, j2, j3}
NoAdmins      == {}
OneAdmin      == {a1}
\* 1 stands for the base release "1.0.0".
BaseAndNewer  == {1, 2}
OlderAndNewer == {0, 1, 2}
=============================================================================
