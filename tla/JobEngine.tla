----------------------------- MODULE JobEngine -----------------------------
(***************************************************************************)
(* The update job engine and its in-memory repository                      *)
(* (apps/api/internal/update/job.go and job_repo_memory.go).               *)
(*                                                                         *)
(* Every engine call runs under je.mu, so it is one step.  The repository  *)
(* hands out copies and UpdateJob stores a whole copy: a caller's write    *)
(* replaces the stored status, whatever that has become since the caller   *)
(* read it.                                                                *)
(***************************************************************************)
EXTENDS Integers

CONSTANTS Jobs   \* job identifiers

VARIABLES
  status,   \* the stored status of each job, "ABSENT" before CreateJob
  target    \* the target version of each job

engineVars == <<status, target>>

ActiveStatuses ==
  {"PENDING", "PRECHECKING", "BACKING_UP", "PREPARING", "ACTIVATING",
   "HEALTH_CHECKING", "ROLLING_BACK"}
TerminalStatuses == {"COMPLETED", "FAILED", "ROLLED_BACK"}
JobStatus == ActiveStatuses \cup TerminalStatuses

IsActive(j)   == status[j] \in ActiveStatuses
IsTerminal(j) == status[j] \in TerminalStatuses

GetActiveJobs == {j \in Jobs : IsActive(j)}

EngineTypeOK(versions) ==
  /\ status \in [Jobs -> JobStatus \cup {"ABSENT"}]
  /\ target \in [Jobs -> versions]

EngineInit(base) ==
  /\ status = [j \in Jobs |-> "ABSENT"]
  /\ target = [j \in Jobs |-> base]

\* Bug: StartJob does not ask for an active job.
CreateJobUnlocked(j, v) ==
  /\ status[j] = "ABSENT"
  /\ status' = [status EXCEPT ![j] = "PENDING"]
  /\ target' = [target EXCEPT ![j] = v]

\* StartJob under je.mu: refused while any stored job is active.
CreateJob(j, v) ==
  /\ status[j] = "ABSENT"
  /\ GetActiveJobs = {}
  /\ status' = [status EXCEPT ![j] = "PENDING"]
  /\ target' = [target EXCEPT ![j] = v]

\* Transition stores the new status; it never looks at the stored one.
Transition(j, s) ==
  /\ status' = [status EXCEPT ![j] = s]
  /\ UNCHANGED target

FailAndRollback(j) == Transition(j, "ROLLING_BACK")
MarkRolledBack(j)  == Transition(j, "ROLLED_BACK")

\* The repository lives in the memory of the process.
EngineCrash ==
  /\ status' = [j \in Jobs |-> "ABSENT"]
  /\ UNCHANGED target
=============================================================================
