\* Two updates, an administrator who presses Rollback at any time, one crash.
SPECIFICATION FairSpec
CONSTANTS
  j1 = j1  j2 = j2  j3 = j3  a1 = a1
  Jobs <- TwoJobs
  Callers <- TwoJobs
  Admins <- OneAdmin
  Versions <- BaseAndNewer
  Accepted <- BaseAndNewer
  Base = 1
  NoVersion = NoVersion
  NoJob = NoJob
  MaxCrashes = 1
INVARIANTS CurrentNeverDangles QuietMeansUnlocked
PROPERTIES LockReleased
\* The bounded supply of jobs runs out.
CHECK_DEADLOCK FALSE
