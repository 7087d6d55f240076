---------------------------- MODULE UpdateSystem ----------------------------
(***************************************************************************)
(* The live update pipeline: the update handler                            *)
(* (apps/api/internal/handlers/updates.go), one background goroutine per   *)
(* started job running ExecuteLiveUpdate                                   *)
(* (apps/api/internal/update/orchestrator.go), administrators who press    *)
(* Rollback, and a process that may die, over the job engine and the       *)
(* release deployer.                                                       *)
(***************************************************************************)
EXTENDS JobEngine, ReleaseDeployer

CONSTANTS
  Admins,      \* rollback requests that may be in flight at once
  NoJob,       \* GetActiveJob found nothing
  Accepted,    \* versions whose package the verifier accepts
  MaxCrashes   \* bound on the number of process crashes

ASSUME UpdateAssumption ==
  /\ Callers = Jobs
  /\ NoJob \notin Jobs
  /\ Accepted \subseteq Versions
  /\ MaxCrashes \in Nat

VARIABLES
  pc,        \* where the goroutine of each job is in ExecuteLiveUpdate
  rollback,  \* each administrator's TriggerRollback request
  lastJob,   \* history: the job started last
  crashes    \* crashes so far

vars == <<status, target, releases, current, tmpLink, call,
          pc, rollback, lastJob, crashes>>

WorkingPCs == {"precheck", "verify", "snapshot", "stage", "activate", "probe",
               "rollback"}
PCs == WorkingPCs \cup {"idle", "done", "dead"}

\* The goroutine of job j has been spawned and has not returned.
Executing(j) == pc[j] \in WorkingPCs

TypeOK ==
  /\ EngineTypeOK(Versions)
  /\ DeployerTypeOK
  /\ pc \in [Jobs -> PCs]
  /\ rollback \in [Admins -> [step : {"ready", "fail", "mark", "answered"},
                              job : Jobs \cup {NoJob}]]
  /\ lastJob \in Jobs \cup {NoJob}
  /\ crashes \in 0..MaxCrashes

Init ==
  /\ EngineInit(Base)
  /\ DeployerInit
  /\ pc = [j \in Jobs |-> "idle"]
  /\ rollback = [a \in Admins |-> [step |-> "ready", job |-> NoJob]]
  /\ lastJob = NoJob
  /\ crashes = 0

Advance(j, p) == pc' = [pc EXCEPT ![j] = p]

\* What an executor step leaves alone.
KeepRest  == UNCHANGED <<rollback, lastJob, crashes>>
KeepFiles == UNCHANGED <<releases, current, tmpLink>>

-----------------------------------------------------------------------------
(* The handler *)

\* StartUpdate: StartJob, then the goroutine is spawned with its own copy.
StartUpdate(j, v) ==
  /\ pc[j] = "idle"
  /\ CreateJob(j, v)
  /\ Advance(j, "precheck")
  /\ lastJob' = j
  /\ UNCHANGED <<rollback, crashes>> /\ KeepFiles /\ UNCHANGED call

\* TriggerRollback takes a copy of an active job, if there is one ...
RollbackRequested(a) ==
  /\ rollback[a].step = "ready"
  /\ \E j \in IF GetActiveJobs = {} THEN {NoJob} ELSE GetActiveJobs :
       rollback' = [rollback EXCEPT ![a] =
                      [step |-> IF j = NoJob THEN "answered" ELSE "fail", job |-> j]]
  /\ UNCHANGED <<status, target, call, pc, lastJob, crashes>> /\ KeepFiles

\* Bug: the request answers without the final status.
RollbackFailsUnfinished(a) ==
  /\ rollback[a].step = "fail"
  /\ FailAndRollback(rollback[a].job)
  /\ rollback' = [rollback EXCEPT ![a].step = "answered"]
  /\ UNCHANGED <<call, pc, lastJob, crashes>> /\ KeepFiles

\* ... stores it as ROLLING_BACK ...
RollbackFails(a) ==
  /\ rollback[a].step = "fail"
  /\ FailAndRollback(rollback[a].job)
  /\ rollback' = [rollback EXCEPT ![a].step = "mark"]
  /\ UNCHANGED <<call, pc, lastJob, crashes>> /\ KeepFiles

\* ... then as ROLLED_BACK, and answers.  The deployer is not called and the
\* goroutine of the job is not told.
RollbackMarks(a) ==
  /\ rollback[a].step = "mark"
  /\ MarkRolledBack(rollback[a].job)
  /\ rollback' = [rollback EXCEPT ![a].step = "answered"]
  /\ UNCHANGED <<call, pc, lastJob, crashes>> /\ KeepFiles

\* The request is over.  A later press of the button is a new request.
RollbackReturns(a) ==
  /\ rollback[a].step = "answered"
  /\ rollback' = [rollback EXCEPT ![a] = [step |-> "ready", job |-> NoJob]]
  /\ UNCHANGED <<status, target, call, pc, lastJob, crashes>> /\ KeepFiles

-----------------------------------------------------------------------------
(* ExecuteLiveUpdate *)

\* Bug: the job carries no previous version.
HandleRollbackNowhere(j) ==
  /\ FailAndRollback(j)
  /\ BeginActivate(j, NoVersion)
  /\ Advance(j, "rollback")

\* Bug: the symlink is not switched back.
HandleRollbackUnswitched(j) ==
  /\ FailAndRollback(j)
  /\ GoTo(j, "ok")
  /\ Advance(j, "rollback")

\* handleRollback, first half: record the failure, then call RollbackRelease
\* with the previous version, which StartUpdate always gives as Base.
HandleRollback(j) ==
  /\ FailAndRollback(j)
  /\ BeginActivate(j, Base)
  /\ Advance(j, "rollback")

Precheck(j) ==
  /\ pc[j] = "precheck"
  /\ Transition(j, "PRECHECKING")
  /\ Advance(j, "verify")
  /\ KeepRest /\ KeepFiles /\ UNCHANGED call

\* Bug: the early return is missing.
VerifyFailsContinues(j) ==
  /\ pc[j] = "verify"
  /\ Transition(j, "FAILED")
  /\ Advance(j, "snapshot")
  /\ KeepRest /\ KeepFiles /\ UNCHANGED call

\* The package, the compatibility check or the inventory capture fails.
VerifyFails(j) ==
  /\ pc[j] = "verify"
  /\ Transition(j, "FAILED")
  /\ Advance(j, "done")
  /\ KeepRest /\ KeepFiles /\ UNCHANGED call

\* VerifyPackage accepts the payload and EvaluateCompatibility, which compares
\* the target with the previous version it is given, Base, refuses only a lower
\* one.  StartUpdate of the handler sends no checksum and a payload that is no
\* archive, which VerifyPackage never accepts: as shipped Accepted is empty.  The
\* orchestrator's own tests drive it with genuine packages.
VerifyPasses(j) ==
  /\ pc[j] = "verify"
  /\ target[j] \in Accepted
  /\ target[j] >= Base
  /\ Transition(j, "BACKING_UP")
  /\ Advance(j, "snapshot")
  /\ KeepRest /\ KeepFiles /\ UNCHANGED call

\* Bug: the failure is returned and not stored.
SnapshotFailsUnstored(j) ==
  /\ pc[j] = "snapshot"
  /\ Advance(j, "done")
  /\ KeepRest /\ KeepFiles /\ UNCHANGED <<status, target, call>>

SnapshotFails(j) ==
  /\ pc[j] = "snapshot"
  /\ Transition(j, "FAILED")
  /\ Advance(j, "done")
  /\ KeepRest /\ KeepFiles /\ UNCHANGED call

SnapshotTaken(j) ==
  /\ pc[j] = "snapshot"
  /\ Transition(j, "PREPARING")
  /\ BeginStage(j, target[j])
  /\ Advance(j, "stage")
  /\ KeepRest /\ KeepFiles

\* Bug: the release is activated before the status says so.
StageReturnsSilently(j) ==
  /\ pc[j] = "stage"
  /\ \/ /\ call[j].step = "ok"
        /\ UNCHANGED <<status, target>>
        /\ BeginActivate(j, target[j])
        /\ Advance(j, "activate")
     \/ /\ call[j].step = "error"
        /\ HandleRollback(j)
  /\ KeepRest /\ KeepFiles

StageReturns(j) ==
  /\ pc[j] = "stage"
  /\ \/ /\ call[j].step = "ok"
        /\ Transition(j, "ACTIVATING")
        /\ BeginActivate(j, target[j])
        /\ Advance(j, "activate")
     \/ /\ call[j].step = "error"
        /\ HandleRollback(j)
  /\ KeepRest /\ KeepFiles

\* Bug: the error of ActivateRelease is dropped.
ActivateReturnsUnchecked(j) ==
  /\ pc[j] = "activate"
  /\ call[j].step \in {"ok", "error"}
  /\ Transition(j, "HEALTH_CHECKING")
  /\ EndCall(j)
  /\ Advance(j, "probe")
  /\ KeepRest /\ KeepFiles

ActivateReturns(j) ==
  /\ pc[j] = "activate"
  /\ \/ /\ call[j].step = "ok"
        /\ Transition(j, "HEALTH_CHECKING")
        /\ EndCall(j)
        /\ Advance(j, "probe")
     \/ /\ call[j].step = "error"
        /\ HandleRollback(j)
  /\ KeepRest /\ KeepFiles

\* The probe is critical, or the inventory shrank, or a directory is missing.
ProbeFails(j) ==
  /\ pc[j] = "probe"
  /\ HandleRollback(j)
  /\ KeepRest /\ KeepFiles

ProbePasses(j) ==
  /\ pc[j] = "probe"
  /\ Transition(j, "COMPLETED")
  /\ Advance(j, "done")
  /\ KeepRest /\ KeepFiles /\ UNCHANGED call

\* Bug: a failed rollback is not recorded.
RollbackReleaseReturnsOk(j) ==
  /\ pc[j] = "rollback"
  /\ call[j].step = "ok" /\ MarkRolledBack(j)
  /\ EndCall(j)
  /\ Advance(j, "done")
  /\ KeepRest /\ KeepFiles

\* handleRollback, second half.
RollbackReleaseReturns(j) ==
  /\ pc[j] = "rollback"
  /\ \/ call[j].step = "ok" /\ MarkRolledBack(j)
     \/ call[j].step = "error" /\ Transition(j, "FAILED")
  /\ EndCall(j)
  /\ Advance(j, "done")
  /\ KeepRest /\ KeepFiles

\* A file-system step of the deployer call the goroutine is in.
Deploy(j) ==
  /\ DeployerStep(j)
  /\ UNCHANGED <<status, target, pc>> /\ KeepRest

Execute(j) ==
  \/ Precheck(j)
  \/ VerifyFails(j)
  \/ VerifyPasses(j)
  \/ SnapshotFails(j)
  \/ SnapshotTaken(j)
  \/ StageReturns(j)
  \/ ActivateReturns(j)
  \/ ProbeFails(j)
  \/ ProbePasses(j)
  \/ RollbackReleaseReturns(j)
  \/ Deploy(j)

-----------------------------------------------------------------------------
\* The process dies and is started again: goroutines, requests and the job
\* repository are lost, and nothing at start-up looks for an unfinished update.
Crash ==
  /\ crashes < MaxCrashes
  /\ crashes' = crashes + 1
  /\ EngineCrash
  /\ DeployerCrash
  /\ pc' = [j \in Jobs |-> IF pc[j] = "idle" THEN "idle" ELSE "dead"]
  /\ rollback' = [a \in Admins |-> [step |-> "ready", job |-> NoJob]]
  /\ lastJob' = NoJob

TriggerRollback(a) == RollbackFails(a) \/ RollbackMarks(a) \/ RollbackReturns(a)

Next ==
  \/ \E j \in Jobs, v \in Versions : StartUpdate(j, v)
  \/ \E j \in Jobs : Execute(j)
  \/ \E a \in Admins : RollbackRequested(a) \/ TriggerRollback(a)
  \/ Crash

Spec == Init /\ [][Next]_vars

\* A goroutine runs on a background context, so it is not cancelled and goes on;
\* a request that has begun finishes.  Nobody has to start an update.
Fairness ==
  /\ \A j \in Jobs : WF_vars(Execute(j))
  /\ \A a \in Admins : WF_vars(TriggerRollback(a))

FairSpec == Spec /\ Fairness
=============================================================================
