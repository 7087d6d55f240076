---------------------------- MODULE AtomicUpdate ----------------------------
(***************************************************************************)
(* What the live update promises when nobody presses Rollback: one update  *)
(* at a time; the live release moves only while an update is in flight,    *)
(* in one step, to the target or back to the base release; a success is    *)
(* announced only when the target is live, a rollback only when the base   *)
(* release is.                                                             *)
(***************************************************************************)
CONSTANTS Versions, Base, NoVersion

VARIABLES
  live,      \* the release that serves requests
  inFlight,  \* the target of the update under way, or NoVersion
  outcome    \* how the last update ended, "none" while one is under way

absVars == <<live, inFlight, outcome>>

AbsInit == live = Base /\ inFlight = NoVersion /\ outcome = "none"

Begin ==
  /\ inFlight = NoVersion
  /\ inFlight' \in Versions
  /\ outcome' = "none"
  /\ UNCHANGED live

Switch ==
  /\ inFlight # NoVersion
  /\ live' \in {inFlight, Base}
  /\ UNCHANGED <<inFlight, outcome>>

Ended(result) ==
  /\ inFlight # NoVersion
  /\ inFlight' = NoVersion
  /\ outcome' = result
  /\ UNCHANGED live

Succeed  == live = inFlight /\ Ended("COMPLETED")
Restore  == live = Base /\ Ended("ROLLED_BACK")
GiveUp   == Ended("FAILED")

\* A crash forgets the update and how the last one ended.
Forget ==
  /\ inFlight' = NoVersion
  /\ outcome' = "none"
  /\ UNCHANGED live

AbsNext == Begin \/ Switch \/ Succeed \/ Restore \/ GiveUp \/ Forget

AbsSpec == AbsInit /\ [][AbsNext]_absVars
=============================================================================
