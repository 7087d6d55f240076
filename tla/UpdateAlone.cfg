\* Three updates, a target above and one below the base, one crash; nobody
\* presses Rollback.
SPECIFICATION FairSpec
CONSTANTS
  j1 = j1  j2 = j2  j3 = j3  a1 = a1
  Jobs <- ThreeJobs
  Callers <- ThreeJobs
  Admins <- NoAdmins
  Versions <- OlderAndNewer
  Accepted <- OlderAndNewer
  Base = 1
  NoVersion = NoVersion
  NoJob = NoJob
  MaxCrashes = 1
INVARIANTS TypeOK SingleExecutor OutcomeMatchesDisk
PROPERTIES FinalStatusIsFinal SwitchIsAnnounced ActivateSwitchesToTarget JobEnds ImplementsAtomicUpdate
\* The bounded supply of jobs runs out.
CHECK_DEADLOCK FALSE
