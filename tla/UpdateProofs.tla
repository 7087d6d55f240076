---------------------------- MODULE UpdateProofs ----------------------------
(***************************************************************************)
(* Theorems about the update pipeline, for any jobs, versions, crashes and *)
(* administrators.                                                         *)
(***************************************************************************)
EXTENDS UpdateProperties, TLAPS

\* A step of the deployer keeps its variables typed.
LEMMA DeployerStepType ==
  ASSUME DeployerTypeOK, NEW c \in Callers, DeployerStep(c)
  PROVE  DeployerTypeOK'
<1> USE DEF DeployerTypeOK, DirStates, CallSteps, StageSteps, ActivateSteps, GoTo
<1>1. CASE StageMkdir(c)      BY <1>1 DEF StageMkdir
<1>10. CASE StageMkdirFails(c) BY <1>10 DEF StageMkdirFails
<1>2. CASE StageOpenFails(c)  BY <1>2 DEF StageOpenFails
<1>3. CASE StageOverwrite(c)  BY <1>3 DEF StageOverwrite
<1>4. CASE StageDone(c)
  <2>1. call[c].version \in Versions
    OBVIOUS
  <2>2. \E s \in DirStates : releases' = [releases EXCEPT ![call[c].version] = s]
    BY <1>4, <2>1 DEF StageDone
  <2> QED BY <1>4, <2>1, <2>2 DEF StageDone
<1>5. CASE StageFails(c)      BY <1>5 DEF StageFails
<1>6. CASE ActivateStat(c)    BY <1>6 DEF ActivateStat
<1>7. CASE ActivateUnlink(c)  BY <1>7 DEF ActivateUnlink
<1>8. CASE ActivateSymlink(c) BY <1>8 DEF ActivateSymlink
<1>9. CASE ActivateRename(c)  BY <1>9 DEF ActivateRename
<1> QED BY <1>1, <1>2, <1>3, <1>4, <1>5, <1>6, <1>7, <1>8, <1>9, <1>10 DEF DeployerStep

\* Entering or leaving a deployer call keeps the calls typed.
LEMMA CallType ==
  ASSUME DeployerTypeOK, NEW c \in Callers, NEW v \in Versions,
         BeginStage(c, v) \/ BeginActivate(c, v) \/ EndCall(c)
  PROVE  call' \in [Callers -> [step : CallSteps, version : Versions]]
BY DeployerAssumption
   DEF DeployerTypeOK, BeginStage, BeginActivate, BeginCall, EndCall, NoCall, CallSteps,
       StageSteps, ActivateSteps

\* An engine call keeps the repository typed.
LEMMA TransitionType ==
  ASSUME EngineTypeOK(Versions), NEW j \in Jobs, NEW s \in JobStatus, Transition(j, s)
  PROVE  EngineTypeOK(Versions)'
BY DEF EngineTypeOK, Transition

\* The statuses and program counters an executor step writes are legal ones.
LEMMA Names ==
  /\ {"PRECHECKING", "FAILED", "BACKING_UP", "PREPARING", "ACTIVATING", "HEALTH_CHECKING",
      "COMPLETED", "ROLLING_BACK", "ROLLED_BACK"} \subseteq JobStatus
  /\ {"verify", "done", "snapshot", "stage", "activate", "probe", "rollback"} \subseteq PCs
BY DEF JobStatus, ActiveStatuses, TerminalStatuses, PCs, WorkingPCs

\* What every executor step but Deploy does, as far as types are concerned.
Effect(j) ==
  /\ \E s \in JobStatus : Transition(j, s)
  /\ \E p \in PCs : Advance(j, p)
  /\ UNCHANGED call \/ \E v \in Versions :
       BeginStage(j, v) \/ BeginActivate(j, v) \/ EndCall(j)
  /\ KeepRest /\ KeepFiles

LEMMA ExecuteEffect ==
  ASSUME TypeOK, NEW j \in Jobs, Execute(j), ~Deploy(j)
  PROVE  Effect(j)
<1>1. target[j] \in Versions /\ Base \in Versions
  BY DeployerAssumption DEF TypeOK, EngineTypeOK
<1>2. HandleRollback(j) => /\ Transition(j, "ROLLING_BACK")
                           /\ Advance(j, "rollback")
                           /\ BeginActivate(j, Base)
  BY DEF HandleRollback, FailAndRollback
<1> USE <1>1, <1>2, Names DEF Effect
<1>3. CASE Precheck(j)        BY <1>3 DEF Precheck
<1>4. CASE VerifyFails(j)     BY <1>4 DEF VerifyFails
<1>5. CASE VerifyPasses(j)    BY <1>5 DEF VerifyPasses
<1>6. CASE SnapshotFails(j)   BY <1>6 DEF SnapshotFails
<1>7. CASE SnapshotTaken(j)   BY <1>7 DEF SnapshotTaken
<1>8. CASE StageReturns(j)    BY <1>8 DEF StageReturns
<1>9. CASE ActivateReturns(j) BY <1>9 DEF ActivateReturns
<1>10. CASE ProbeFails(j)     BY <1>10 DEF ProbeFails
<1>11. CASE ProbePasses(j)    BY <1>11 DEF ProbePasses
<1>12. CASE RollbackReleaseReturns(j)
  BY <1>12 DEF RollbackReleaseReturns, MarkRolledBack
<1> QED BY <1>3, <1>4, <1>5, <1>6, <1>7, <1>8, <1>9, <1>10, <1>11, <1>12 DEF Execute

\* A step of a job's goroutine keeps everything typed.
LEMMA ExecuteType ==
  ASSUME TypeOK, NEW j \in Jobs, Execute(j)
  PROVE  TypeOK'
<1>1. CASE Deploy(j)
  <2>1. DeployerTypeOK'
    BY <1>1, DeployerStepType, UpdateAssumption DEF Deploy, TypeOK
  <2> QED BY <1>1, <2>1 DEF Deploy, TypeOK, EngineTypeOK, KeepRest
<1>2. CASE ~Deploy(j)
  <2>1. Effect(j)
    BY <1>2, ExecuteEffect
  <2>2. EngineTypeOK(Versions)'
    BY <2>1, TransitionType DEF Effect, TypeOK
  <2>3. DeployerTypeOK'
    BY <2>1, CallType, UpdateAssumption DEF Effect, KeepFiles, TypeOK, DeployerTypeOK
  <2>4. pc' \in [Jobs -> PCs]
    BY <2>1 DEF Effect, Advance, TypeOK
  <2> QED BY <2>1, <2>2, <2>3, <2>4 DEF Effect, KeepRest, TypeOK
<1> QED BY <1>1, <1>2

LEMMA TypeInit == Init => TypeOK
BY UpdateAssumption, DeployerAssumption
   DEF Init, TypeOK, EngineInit, DeployerInit, EngineTypeOK, DeployerTypeOK, JobStatus,
       ActiveStatuses, TerminalStatuses, DirStates, CallSteps, NoCall, PCs

LEMMA TypeNext == TypeOK /\ [Next]_vars => TypeOK'
<1> SUFFICES ASSUME TypeOK, [Next]_vars PROVE TypeOK'
  OBVIOUS
<1> USE UpdateAssumption, DeployerAssumption
<1>1. ASSUME NEW j \in Jobs, NEW v \in Versions, StartUpdate(j, v) PROVE TypeOK'
  BY <1>1 DEF StartUpdate, CreateJob, Advance, KeepFiles, TypeOK, EngineTypeOK,
     DeployerTypeOK, JobStatus, ActiveStatuses, PCs, WorkingPCs
<1>2. ASSUME NEW j \in Jobs, Execute(j) PROVE TypeOK'
  BY <1>2, ExecuteType
<1>3. ASSUME NEW a \in Admins, RollbackRequested(a) \/ TriggerRollback(a) PROVE TypeOK'
  <2> USE DEF TypeOK, EngineTypeOK, DeployerTypeOK, KeepFiles
  <2>1. CASE RollbackRequested(a)
    BY <2>1 DEF RollbackRequested, GetActiveJobs
  <2>2. CASE RollbackFails(a)
    BY <2>2 DEF RollbackFails, FailAndRollback, Transition, JobStatus, ActiveStatuses
  <2>3. CASE RollbackMarks(a)
    BY <2>3 DEF RollbackMarks, MarkRolledBack, Transition, JobStatus, TerminalStatuses
  <2>4. CASE RollbackReturns(a)
    BY <2>4 DEF RollbackReturns
  <2> QED BY <1>3, <2>1, <2>2, <2>3, <2>4 DEF TriggerRollback
<1>4. CASE Crash
  BY <1>4 DEF Crash, EngineCrash, DeployerCrash, TypeOK, EngineTypeOK, DeployerTypeOK,
     DirStates, CallSteps, NoCall, PCs
<1>5. CASE UNCHANGED vars
  BY <1>5 DEF vars, TypeOK, EngineTypeOK, DeployerTypeOK
<1> QED BY <1>1, <1>2, <1>3, <1>4, <1>5 DEF Next

\* Every variable keeps its type, with any number of administrators.
THEOREM TypeCorrect == Spec => []TypeOK
<1>1. Init => TypeOK
  BY TypeInit
<1>2. TypeOK /\ [Next]_vars => TypeOK'
  BY TypeNext
<1> QED BY <1>1, <1>2, PTL DEF Spec

-----------------------------------------------------------------------------
(***************************************************************************)
(* The link.  os.Stat is asked before the temporary link is made, and the  *)
(* rename moves whatever that link is by then: both have to lead to a      *)
(* directory, and so does what a caller past os.Stat is going to link.  No *)
(* step removes a directory.                                               *)
(***************************************************************************)
LinksLead ==
  /\ releases[current] # "absent"
  /\ tmpLink # NoVersion => releases[tmpLink] # "absent"
  /\ \A c \in Callers : call[c].step \in {"unlink", "symlink", "rename"}
                          => releases[call[c].version] # "absent"

LEMMA DeployerKeepsLinks ==
  ASSUME DeployerTypeOK, LinksLead, NEW c \in Callers, DeployerStep(c)
  PROVE  LinksLead'
<1> USE DeployerAssumption DEF DeployerTypeOK, LinksLead, GoTo
<1>1. CASE StageMkdir(c)      BY <1>1 DEF StageMkdir
<1>10. CASE StageMkdirFails(c) BY <1>10 DEF StageMkdirFails
<1>2. CASE StageOpenFails(c)  BY <1>2 DEF StageOpenFails
<1>3. CASE StageOverwrite(c)  BY <1>3 DEF StageOverwrite
<1>4. CASE StageDone(c)
  <2>1. PICK s \in DirStates :
          /\ releases' = [releases EXCEPT ![call[c].version] = s]
          /\ s # "absent" \/ s = releases[call[c].version]
    BY <1>4 DEF StageDone, DirStates
  <2> QED BY <1>4, <2>1 DEF StageDone
<1>5. CASE StageFails(c)      BY <1>5 DEF StageFails
<1>6. CASE ActivateStat(c)    BY <1>6 DEF ActivateStat
<1>7. CASE ActivateUnlink(c)  BY <1>7 DEF ActivateUnlink
<1>8. CASE ActivateSymlink(c) BY <1>8 DEF ActivateSymlink
<1>9. CASE ActivateRename(c)  BY <1>9 DEF ActivateRename
<1> QED BY <1>1, <1>2, <1>3, <1>4, <1>5, <1>6, <1>7, <1>8, <1>9, <1>10 DEF DeployerStep

LEMMA LinksNext ==
  ASSUME TypeOK, LinksLead, [Next]_vars
  PROVE  LinksLead'
<1> USE UpdateAssumption, DeployerAssumption DEF TypeOK
<1>1. ASSUME NEW j \in Jobs, NEW v \in Versions, StartUpdate(j, v) PROVE LinksLead'
  BY <1>1 DEF StartUpdate, KeepFiles, LinksLead
<1>2. ASSUME NEW j \in Jobs, Execute(j) PROVE LinksLead'
  <2>1. CASE Deploy(j)
    BY <2>1, DeployerKeepsLinks DEF Deploy
  <2>2. CASE ~Deploy(j)
    <3>1. Effect(j)
      BY <1>2, <2>2, ExecuteEffect
    <3>2. \/ call' = call
          \/ \E v \in Versions, s \in {"mkdir", "stat", "none"} :
               call' = [call EXCEPT ![j] = [step |-> s, version |-> v]]
      BY <3>1 DEF Effect, BeginStage, BeginActivate, BeginCall, EndCall, NoCall
    <3> QED BY <3>1, <3>2 DEF Effect, KeepFiles, LinksLead, DeployerTypeOK
  <2> QED BY <2>1, <2>2
<1>3. ASSUME NEW a \in Admins, RollbackRequested(a) \/ TriggerRollback(a) PROVE LinksLead'
  BY <1>3 DEF RollbackRequested, TriggerRollback, RollbackFails, RollbackMarks,
     RollbackReturns, KeepFiles, LinksLead
<1>4. CASE Crash
  BY <1>4 DEF Crash, DeployerCrash, NoCall, LinksLead, DeployerTypeOK
<1>5. CASE UNCHANGED vars
  BY <1>5 DEF vars, LinksLead
<1> QED BY <1>1, <1>2, <1>3, <1>4, <1>5 DEF Next

\* The `current` link leads to a directory, whatever administrators do.
THEOREM LinkHolds == Spec => []CurrentNeverDangles
<1>1. Init => TypeOK /\ LinksLead
  BY TypeInit, DeployerAssumption DEF Init, DeployerInit, LinksLead, NoCall
<1>2. TypeOK /\ LinksLead /\ [Next]_vars => (TypeOK /\ LinksLead)'
  BY TypeNext, LinksNext
<1>3. LinksLead => CurrentNeverDangles
  BY DEF LinksLead, CurrentNeverDangles
<1> QED BY <1>1, <1>2, <1>3, PTL DEF Spec

-----------------------------------------------------------------------------
(***************************************************************************)
(* The update lock, whatever administrators do: a stored job is active     *)
(* only while its goroutine runs, which ends by storing a final status, or *)
(* while a rollback request is between its two writes.                     *)
(***************************************************************************)
\* A goroutine that returns leaves a final status.
LEMMA ReturnsFinal ==
  ASSUME TypeOK, NEW j \in Jobs, Executing(j), Execute(j), ~Executing(j)'
  PROVE  status'[j] \in TerminalStatuses /\ UNCHANGED <<current, target, lastJob>>
<1>2. ~Deploy(j)
  BY DEF Deploy, Executing
<1>3. UNCHANGED <<current, target, lastJob>>
  BY <1>2, ExecuteEffect DEF Effect, KeepRest, KeepFiles, Transition
<1> USE <1>3
    DEF TypeOK, EngineTypeOK, Transition, Advance, Executing, WorkingPCs, TerminalStatuses
<1>4. ~HandleRollback(j)
  BY DEF HandleRollback
<1>5. CASE Precheck(j)        BY <1>5 DEF Precheck
<1>6. CASE VerifyFails(j)     BY <1>6 DEF VerifyFails
<1>7. CASE VerifyPasses(j)    BY <1>7 DEF VerifyPasses
<1>8. CASE SnapshotFails(j)   BY <1>8 DEF SnapshotFails
<1>9. CASE SnapshotTaken(j)   BY <1>9 DEF SnapshotTaken
<1>10. CASE StageReturns(j)   BY <1>4, <1>10 DEF StageReturns
<1>11. CASE ActivateReturns(j) BY <1>4, <1>11 DEF ActivateReturns
<1>12. CASE ProbeFails(j)     BY <1>4, <1>12 DEF ProbeFails
<1>13. CASE ProbePasses(j)    BY <1>13 DEF ProbePasses
<1>14. CASE RollbackReleaseReturns(j) BY <1>14 DEF RollbackReleaseReturns, MarkRolledBack
<1> QED BY <1>2, <1>3, <1>5, <1>6, <1>7, <1>8, <1>9, <1>10, <1>11, <1>12, <1>13, <1>14 DEF Execute

LockIsOwned ==
  \A j \in Jobs : IsActive(j) =>
    Executing(j) \/ \E a \in Admins : rollback[a].step = "mark" /\ rollback[a].job = j

LEMMA LockNext ==
  ASSUME TypeOK, LockIsOwned, [Next]_vars
  PROVE  LockIsOwned'
<1> USE DEF IsActive, ActiveStatuses
<1>1. ASSUME NEW j \in Jobs, NEW v \in Versions, StartUpdate(j, v) PROVE LockIsOwned'
  BY <1>1 DEF StartUpdate, CreateJob, Advance, LockIsOwned, TypeOK, EngineTypeOK, Executing,
     WorkingPCs
<1>2. ASSUME NEW j \in Jobs, Execute(j) PROVE LockIsOwned'
  <2>1. rollback' = rollback
    BY <1>2 DEF Execute, Deploy, KeepRest, Precheck, VerifyFails, VerifyPasses, SnapshotFails,
       SnapshotTaken, StageReturns, ActivateReturns, ProbeFails, ProbePasses,
       RollbackReleaseReturns
  <2>2. CASE Deploy(j)
    BY <2>1, <2>2 DEF Deploy, LockIsOwned, Executing
  <2>3. CASE ~Deploy(j)
    <3>1. \A i \in Jobs \ {j} : status'[i] = status[i] /\ pc'[i] = pc[i]
      BY <1>2, <2>3, ExecuteEffect DEF Effect, Transition, Advance, TypeOK, EngineTypeOK
    <3>2. Executing(j)
      BY <1>2, <2>3 DEF Execute, Precheck, VerifyFails, VerifyPasses, SnapshotFails,
         SnapshotTaken, StageReturns, ActivateReturns, ProbeFails, ProbePasses,
         RollbackReleaseReturns, Executing, WorkingPCs
    <3>3. Executing(j)' \/ ~IsActive(j)'
      BY <1>2, <3>2, ReturnsFinal DEF TerminalStatuses
    <3> QED BY <2>1, <3>1, <3>3 DEF LockIsOwned, Executing
  <2> QED BY <2>2, <2>3
<1>3. ASSUME NEW a \in Admins, RollbackRequested(a) \/ TriggerRollback(a) PROVE LockIsOwned'
  <2> USE DEF TypeOK, EngineTypeOK, LockIsOwned, Executing
  <2>1. CASE RollbackRequested(a)
    BY <2>1 DEF RollbackRequested
  <2>2. CASE RollbackFails(a)
    <3>1. \A j \in Jobs : j # rollback[a].job => status'[j] = status[j]
      BY <2>2 DEF RollbackFails, FailAndRollback, Transition
    <3>2. /\ rollback'[a] = [rollback[a] EXCEPT !.step = "mark"] /\ pc' = pc
          /\ \A b \in Admins \ {a} : rollback'[b] = rollback[b]
          /\ rollback[a].step = "fail"
      BY <2>2 DEF RollbackFails
    <3>3. rollback'[a].step = "mark" /\ rollback'[a].job = rollback[a].job
      BY <3>2
    <3> QED BY <3>1, <3>2, <3>3
  <2>3. CASE RollbackMarks(a)
    <3>1. /\ \A j \in Jobs : j # rollback[a].job => status'[j] = status[j]
          /\ \A j \in Jobs : j = rollback[a].job => status'[j] = "ROLLED_BACK"
      BY <2>3 DEF RollbackMarks, MarkRolledBack, Transition
    <3>2. pc' = pc /\ \A b \in Admins \ {a} : rollback'[b] = rollback[b]
      BY <2>3 DEF RollbackMarks
    <3> QED BY <3>1, <3>2
  <2>4. CASE RollbackReturns(a)
    BY <2>4 DEF RollbackReturns
  <2> QED BY <1>3, <2>1, <2>2, <2>3, <2>4 DEF TriggerRollback
<1>4. CASE Crash
  BY <1>4 DEF Crash, EngineCrash, LockIsOwned
<1>5. CASE UNCHANGED vars
  BY <1>5 DEF vars, LockIsOwned, Executing
<1> QED BY <1>1, <1>2, <1>3, <1>4, <1>5 DEF Next

\* Once everybody has returned the update lock is free, whatever was pressed.
THEOREM LockFree == Spec => []QuietMeansUnlocked
<1>1. Init => TypeOK /\ LockIsOwned
  BY TypeInit DEF Init, EngineInit, LockIsOwned, IsActive, ActiveStatuses
<1>2. TypeOK /\ LockIsOwned /\ [Next]_vars => (TypeOK /\ LockIsOwned)'
  BY TypeNext, LockNext
<1>3. LockIsOwned => QuietMeansUnlocked
  BY DEF LockIsOwned, QuietMeansUnlocked, GetActiveJobs
<1> QED BY <1>1, <1>2, <1>3, PTL DEF Spec

-----------------------------------------------------------------------------
(***************************************************************************)
(* Mutual exclusion, when nobody presses Rollback.  StartJob's guard looks *)
(* at the stored statuses only, so the invariant has to tie the stored     *)
(* status to the goroutine: as long as a goroutine runs, its job is stored *)
(* as active, and at most one stored job is active.                        *)
(***************************************************************************)
Exclusion ==
  /\ \A j \in Jobs : Executing(j) => IsActive(j)
  /\ \A i, j \in Jobs : IsActive(i) /\ IsActive(j) => i = j

IInv == TypeOK /\ Exclusion

\* A step of a goroutine keeps its job active until it returns, and touches no
\* other job.
LEMMA ExecuteFrame ==
  ASSUME TypeOK, Exclusion, NEW j \in Jobs, Execute(j)
  PROVE  /\ IsActive(j) \/ UNCHANGED <<status, pc>>
         /\ Executing(j)' => IsActive(j)'
         /\ \A i \in Jobs \ {j} : status'[i] = status[i] /\ pc'[i] = pc[i]
<1> USE DEF TypeOK, EngineTypeOK, JobStatus, ActiveStatuses, TerminalStatuses, Exclusion,
            Executing, IsActive, PCs, WorkingPCs, Transition, Advance
<1>1. CASE Precheck(j)        BY <1>1 DEF Precheck
<1>2. CASE VerifyFails(j)     BY <1>2 DEF VerifyFails
<1>3. CASE VerifyPasses(j)    BY <1>3 DEF VerifyPasses
<1>4. CASE SnapshotFails(j)   BY <1>4 DEF SnapshotFails
<1>5. CASE SnapshotTaken(j)   BY <1>5 DEF SnapshotTaken
<1>6. CASE StageReturns(j)    BY <1>6 DEF StageReturns, HandleRollback, FailAndRollback
<1>7. CASE ActivateReturns(j) BY <1>7 DEF ActivateReturns, HandleRollback, FailAndRollback
<1>8. CASE ProbeFails(j)      BY <1>8 DEF ProbeFails, HandleRollback, FailAndRollback
<1>9. CASE ProbePasses(j)     BY <1>9 DEF ProbePasses
<1>10. CASE RollbackReleaseReturns(j) BY <1>10 DEF RollbackReleaseReturns, MarkRolledBack
<1>11. CASE Deploy(j)         BY <1>11 DEF Deploy
<1> QED BY <1>1, <1>2, <1>3, <1>4, <1>5, <1>6, <1>7, <1>8, <1>9, <1>10, <1>11 DEF Execute

LEMMA ExclusionNext ==
  ASSUME Admins = {}, IInv, [Next]_vars
  PROVE  Exclusion'
<1> USE DEF IInv
<1>1. ASSUME NEW j \in Jobs, NEW v \in Versions, StartUpdate(j, v) PROVE Exclusion'
  <2>1. \A i \in Jobs : ~IsActive(i)
    BY <1>1 DEF StartUpdate, CreateJob, GetActiveJobs
  <2>2. /\ status'[j] = "PENDING"
        /\ \A i \in Jobs \ {j} : status'[i] = status[i] /\ pc'[i] = pc[i]
    BY <1>1 DEF StartUpdate, CreateJob, Advance, TypeOK, EngineTypeOK
  <2>3. \A i \in Jobs : IsActive(i)' <=> i = j
    BY <2>1, <2>2 DEF IsActive, ActiveStatuses
  <2>4. \A i \in Jobs \ {j} : ~Executing(i)'
    BY <2>1, <2>2 DEF Exclusion, Executing
  <2> QED BY <2>3, <2>4 DEF Exclusion
<1>2. ASSUME NEW j \in Jobs, Execute(j) PROVE Exclusion'
  <2>1. /\ IsActive(j) \/ UNCHANGED <<status, pc>>
        /\ Executing(j)' => IsActive(j)'
        /\ \A i \in Jobs \ {j} : status'[i] = status[i] /\ pc'[i] = pc[i]
    BY <1>2, ExecuteFrame
  <2>2. CASE UNCHANGED <<status, pc>>
    BY <2>2 DEF Exclusion, Executing, IsActive
  <2>3. CASE IsActive(j)
    <3>1. \A i \in Jobs \ {j} : ~IsActive(i)' /\ ~Executing(i)'
      BY <2>1, <2>3 DEF Exclusion, IsActive, Executing
    <3> QED BY <2>1, <3>1 DEF Exclusion
  <2> QED BY <2>1, <2>2, <2>3
<1>3. CASE Crash
  BY <1>3 DEF Crash, EngineCrash, Exclusion, Executing, IsActive, WorkingPCs, ActiveStatuses, TypeOK
<1>4. CASE UNCHANGED vars
  BY <1>4 DEF vars, Exclusion, Executing, IsActive
<1> QED BY <1>1, <1>2, <1>3, <1>4 DEF Next

\* Without manual rollbacks no two goroutines are in ExecuteLiveUpdate at once.
\* With them TriggerRollback frees the update lock under a running goroutine.
THEOREM MutualExclusion == Admins = {} => (Spec => []SingleExecutor)
<1> SUFFICES ASSUME Admins = {} PROVE Spec => []SingleExecutor
  OBVIOUS
<1>1. Init => IInv
  BY TypeInit DEF IInv, Exclusion, Init, EngineInit, Executing, IsActive, WorkingPCs, ActiveStatuses
<1>2. IInv /\ [Next]_vars => IInv'
  BY TypeNext, ExclusionNext DEF IInv
<1>3. IInv => SingleExecutor
  BY DEF IInv, Exclusion, SingleExecutor
<1> QED BY <1>1, <1>2, <1>3, PTL DEF Spec

-----------------------------------------------------------------------------
(***************************************************************************)
(* The outcome, when nobody presses Rollback.  The stored status, the      *)
(* goroutine's place and the deployer call it is in tell one story (Phase),*)
(* and the disk goes along with it (Disk): what is being extracted, what   *)
(* is whole, and what the links lead to.                                   *)
(***************************************************************************)
Returned == {"ok", "error"}
Resting == {"idle", "done", "dead"}

Phase(j) ==
  /\ pc[j] \in Resting \cup {"precheck", "verify", "snapshot", "probe"} => call[j].step = "none"
  /\ pc[j] = "stage" => call[j].step \in StageSteps \cup Returned /\ call[j].version = target[j]
  /\ pc[j] = "activate" => /\ call[j].step \in ActivateSteps \cup Returned
                           /\ call[j].version = target[j] /\ status[j] = "ACTIVATING"
  /\ pc[j] = "rollback" => /\ call[j].step \in ActivateSteps \cup Returned
                           /\ call[j].version = Base /\ status[j] = "ROLLING_BACK"
  /\ Executing(j) => lastJob = j

Disk(j) ==
  /\ call[j].step = "extract" => releases[call[j].version] = "extracting"
  /\ pc[j] = "stage" /\ call[j].step = "ok" => releases[target[j]] = "complete"
  /\ pc[j] \in {"activate", "probe"} => releases[target[j]] = "complete"
  /\ call[j].step = "rename" => tmpLink = call[j].version
  /\ pc[j] = "probe" \/ (pc[j] = "activate" /\ call[j].step = "ok") => current = target[j]
  /\ pc[j] = "rollback" /\ call[j].step = "ok" => current = Base

Story == /\ IInv
         /\ \A j \in Jobs : Phase(j) /\ Disk(j)
         /\ OutcomeMatchesDisk

\* A goroutine at rest owes nothing to the disk.
LEMMA RestingDisk ==
  ASSUME NEW j \in Jobs, Phase(j), pc[j] \in Resting
  PROVE  Disk(j)
BY DEF Phase, Disk, Resting

\* Whoever takes a step is the one that runs, and the job it runs is the last.
LEMMA RunsAlone ==
  ASSUME Story, NEW j \in Jobs, Execute(j)
  PROVE  /\ Executing(j) /\ IsActive(j) /\ lastJob = j
         /\ \A i \in Jobs \ {j} : pc[i] \in Resting /\ call[i].step = "none"
<1>1. Executing(j)
  <2>1. CASE Deploy(j)
    <3>1. call[j].step # "none"
      BY <2>1 DEF Deploy, DeployerStep, StageMkdir, StageMkdirFails, StageOpenFails, StageOverwrite,
         StageDone, StageFails, ActivateStat, ActivateUnlink, ActivateSymlink, ActivateRename
    <3> QED BY <3>1 DEF Story, Phase, IInv, TypeOK, PCs, Executing, Resting
  <2>2. CASE ~Deploy(j)
    BY <2>2 DEF Execute, Precheck, VerifyFails, VerifyPasses, SnapshotFails, SnapshotTaken,
       StageReturns, ActivateReturns, ProbeFails, ProbePasses, RollbackReleaseReturns,
       Executing, WorkingPCs
  <2> QED BY <2>1, <2>2
<1>2. \A i \in Jobs \ {j} : ~Executing(i)
  BY <1>1 DEF Story, IInv, Exclusion
<1>3. \A i \in Jobs \ {j} : pc[i] \in Resting
  BY <1>2 DEF Story, IInv, TypeOK, PCs, Executing, Resting
<1> QED BY <1>1, <1>3 DEF Story, IInv, Exclusion, Phase

\* The deployer's steps keep the story of the job they are taken for.
LEMMA DeployTells ==
  ASSUME Story, NEW j \in Jobs, Deploy(j)
  PROVE  Phase(j)' /\ Disk(j)'
<1>1. /\ DeployerTypeOK /\ target[j] \in Versions /\ j \in Callers
      /\ Executing(j) /\ Phase(j) /\ Disk(j)
  BY RunsAlone, UpdateAssumption DEF Execute, Story, IInv, TypeOK, EngineTypeOK
<1>2. \A d \in Callers \ {j} : call[d].step = "none"
  BY RunsAlone, UpdateAssumption DEF Execute
<1>3. UNCHANGED <<status, target, pc, lastJob>> /\ DeployerStep(j)
  BY DEF Deploy, KeepRest
<1> USE <1>1, <1>3, DeployerAssumption
    DEF DeployerTypeOK, Phase, Disk, Executing, WorkingPCs, Resting, Returned, StageSteps,
        ActivateSteps, GoTo
<1>4. CASE StageMkdir(j)      BY <1>4 DEF StageMkdir
<1>13. CASE StageMkdirFails(j) BY <1>13 DEF StageMkdirFails
<1>5. CASE StageOpenFails(j)  BY <1>5 DEF StageOpenFails
<1>6. CASE StageOverwrite(j)  BY <1>6 DEF StageOverwrite
<1>7. CASE StageDone(j)
  <2>1. {d \in Callers \ {j} : Extracting(d, call[j].version)} = {}
    BY <1>2 DEF Extracting
  <2>2. releases' = [releases EXCEPT ![call[j].version] = "complete"]
    BY <1>7, <2>1 DEF StageDone
  <2> QED BY <1>7, <2>2 DEF StageDone
<1>8. CASE StageFails(j)      BY <1>8 DEF StageFails
<1>9. CASE ActivateStat(j)    BY <1>9 DEF ActivateStat
<1>10. CASE ActivateUnlink(j) BY <1>10 DEF ActivateUnlink
<1>11. CASE ActivateSymlink(j) BY <1>11 DEF ActivateSymlink
<1>12. CASE ActivateRename(j) BY <1>12 DEF ActivateRename
<1> QED BY <1>4, <1>5, <1>6, <1>7, <1>8, <1>9, <1>10, <1>11, <1>12, <1>13 DEF DeployerStep

\* So do the goroutine's own steps, and what they announce is so.
LEMMA GoroutineTells ==
  ASSUME Story, NEW j \in Jobs, Execute(j), ~Deploy(j)
  PROVE  /\ Phase(j)' /\ Disk(j)'
         /\ ~Executing(j)' => OutcomeMatchesDisk'
<1>1. /\ TypeOK /\ Phase(j) /\ Disk(j) /\ j \in Callers
      /\ Executing(j) /\ lastJob = j /\ j # NoJob
  BY RunsAlone, UpdateAssumption DEF Story, IInv
<1>2. UNCHANGED <<target, releases, current, tmpLink, lastJob>>
  BY ExecuteEffect, <1>1 DEF Effect, KeepRest, KeepFiles, Transition
<1> USE <1>1, <1>2
    DEF TypeOK, EngineTypeOK, DeployerTypeOK, Phase, Disk, Executing, WorkingPCs, Resting,
        Returned, StageSteps, ActivateSteps, Transition, Advance, OutcomeMatchesDisk
<1>3. HandleRollback(j) => Phase(j)' /\ Disk(j)' /\ Executing(j)'
  BY DEF HandleRollback, FailAndRollback, BeginActivate, BeginCall
<1>4. CASE Precheck(j)        BY <1>4 DEF Precheck
<1>5. CASE VerifyFails(j)     BY <1>5 DEF VerifyFails
<1>6. CASE VerifyPasses(j)    BY <1>6 DEF VerifyPasses
<1>7. CASE SnapshotFails(j)   BY <1>7 DEF SnapshotFails
<1>8. CASE SnapshotTaken(j)   BY <1>8 DEF SnapshotTaken, BeginStage, BeginCall
<1>9. CASE StageReturns(j)    BY <1>3, <1>9 DEF StageReturns, BeginActivate, BeginCall
<1>10. CASE ActivateReturns(j) BY <1>3, <1>10 DEF ActivateReturns, EndCall, NoCall
<1>11. CASE ProbeFails(j)     BY <1>3, <1>11 DEF ProbeFails
<1>12. CASE ProbePasses(j)    BY <1>12 DEF ProbePasses
<1>13. CASE RollbackReleaseReturns(j)
  BY <1>13 DEF RollbackReleaseReturns, MarkRolledBack, EndCall, NoCall
<1> QED BY <1>4, <1>5, <1>6, <1>7, <1>8, <1>9, <1>10, <1>11, <1>12, <1>13 DEF Execute

\* What the others do in a step of j's goroutine: nothing.
LEMMA OthersRest ==
  ASSUME Story, NEW j \in Jobs, Execute(j)
  PROVE  \A i \in Jobs \ {j} : /\ pc'[i] = pc[i] /\ status'[i] = status[i]
                               /\ call'[i] = call[i] /\ target'[i] = target[i]
<1>1. TypeOK /\ Exclusion /\ j \in Callers /\ Jobs = Callers
  BY UpdateAssumption DEF Story, IInv
<1>2. CASE Deploy(j)
  BY <1>1, <1>2 DEF Deploy, DeployerStep, StageMkdir, StageMkdirFails, StageOpenFails, StageOverwrite,
     StageDone, StageFails, ActivateStat, ActivateUnlink, ActivateSymlink, ActivateRename, GoTo,
     TypeOK, DeployerTypeOK
<1>3. CASE ~Deploy(j)
  <2>1. Effect(j)
    BY <1>1, <1>3, ExecuteEffect
  <2>2. target' = target /\ \A i \in Jobs \ {j} : status'[i] = status[i] /\ pc'[i] = pc[i]
    BY <1>1, <2>1 DEF Effect, Transition, Advance, TypeOK, EngineTypeOK
  <2>3. \A i \in Jobs \ {j} : call'[i] = call[i]
    BY <1>1, <2>1 DEF Effect, BeginStage, BeginActivate, BeginCall, EndCall, TypeOK, DeployerTypeOK
  <2> QED BY <2>2, <2>3
<1> QED BY <1>2, <1>3

LEMMA ExecuteTells ==
  ASSUME Story, NEW j \in Jobs, Execute(j)
  PROVE  (\A i \in Jobs : Phase(i) /\ Disk(i))' /\ OutcomeMatchesDisk'
<1>1. /\ Executing(j) /\ IsActive(j) /\ lastJob = j /\ j # NoJob
      /\ \A i \in Jobs \ {j} : pc[i] \in Resting /\ call[i].step = "none"
  BY RunsAlone, UpdateAssumption
<1>2. ASSUME NEW i \in Jobs \ {j} PROVE Phase(i)' /\ Disk(i)'
  <2>1. pc'[i] \in Resting /\ call'[i].step = "none"
    BY <1>1, OthersRest
  <2>2. Phase(i)'
    BY <2>1 DEF Phase, Executing, WorkingPCs, Resting
  <2> QED BY <2>1, <2>2, RestingDisk DEF Disk, Resting
<1>3. lastJob' = j
  BY <1>1 DEF Execute, Deploy, KeepRest, Precheck, VerifyFails, VerifyPasses, SnapshotFails,
     SnapshotTaken, StageReturns, ActivateReturns, ProbeFails, ProbePasses,
     RollbackReleaseReturns
<1>4. Phase(j)' /\ Disk(j)' /\ (~Executing(j)' => OutcomeMatchesDisk' \/ Deploy(j))
  BY DeployTells, GoroutineTells
<1>5. CASE Executing(j)'
  <2>1. IsActive(j)'
    BY <1>5, ExecuteFrame DEF Story, IInv
  <2>2. OutcomeMatchesDisk'
    BY <1>3, <2>1 DEF OutcomeMatchesDisk, IsActive, ActiveStatuses
  <2> QED BY <1>2, <1>4, <2>2
<1>6. CASE ~Executing(j)'
  <2>1. ~Deploy(j)
    BY <1>1, <1>6 DEF Deploy, Executing
  <2> QED BY <1>2, <1>4, <1>6, <2>1
<1> QED BY <1>5, <1>6

LEMMA StoryNext ==
  ASSUME Admins = {}, Story, [Next]_vars
  PROVE  Story'
<1>0. IInv'
  BY TypeNext, ExclusionNext DEF Story, IInv
<1>1. ASSUME NEW j \in Jobs, NEW v \in Versions, StartUpdate(j, v) PROVE Story'
  <2>1. /\ TypeOK /\ \A i \in Jobs : Phase(i) /\ pc[i] \in Resting
    <3>1. \A i \in Jobs : ~IsActive(i)
      BY <1>1 DEF StartUpdate, CreateJob, GetActiveJobs
    <3> QED BY <3>1 DEF Story, IInv, Exclusion, TypeOK, PCs, Executing, Resting
  <2>2. \A i \in Jobs : call[i].step = "none"
    BY <2>1 DEF Phase
  <2>3. \A i \in Jobs : Phase(i)' /\ Disk(i)'
    BY <1>1, <2>1, <2>2
       DEF StartUpdate, CreateJob, Advance, KeepFiles, Phase, Disk, Resting, Executing, WorkingPCs,
           TypeOK, EngineTypeOK
  <2>4. OutcomeMatchesDisk'
    BY <1>1, <2>1 DEF StartUpdate, CreateJob, OutcomeMatchesDisk, TypeOK, EngineTypeOK
  <2> QED BY <1>0, <2>3, <2>4 DEF Story
<1>2. ASSUME NEW j \in Jobs, Execute(j) PROVE Story'
  BY <1>0, <1>2, ExecuteTells DEF Story
<1>3. CASE Crash
  <2>1. \A i \in Jobs : pc'[i] \in Resting /\ call'[i].step = "none"
    BY <1>3, UpdateAssumption DEF Crash, DeployerCrash, NoCall, Resting
  <2>2. \A i \in Jobs : Phase(i)' /\ Disk(i)'
    BY <2>1 DEF Phase, Disk, Executing, WorkingPCs, Resting
  <2>3. OutcomeMatchesDisk'
    BY <1>3 DEF Crash, OutcomeMatchesDisk
  <2> QED BY <1>0, <2>2, <2>3 DEF Story
<1>4. CASE UNCHANGED vars
  BY <1>0, <1>4 DEF vars, Story, Phase, Disk, OutcomeMatchesDisk, Executing
<1> QED BY <1>1, <1>2, <1>3, <1>4 DEF Next

LEMMA StoryInit == Init => Story
<1>1. Init => IInv
  BY TypeInit DEF IInv, Exclusion, Init, EngineInit, Executing, IsActive, WorkingPCs, ActiveStatuses
<1>2. Init => \A j \in Jobs : Phase(j) /\ Disk(j)
  <2>1. ASSUME Init, NEW j \in Jobs PROVE pc[j] = "idle" /\ call[j].step = "none"
    <3>1. j \in Callers
      BY UpdateAssumption
    <3>2. call[j] = NoCall
      BY <2>1, <3>1 DEF Init, DeployerInit
    <3> QED BY <2>1, <3>2 DEF Init, NoCall
  <2> QED BY <2>1 DEF Phase, Disk, Executing, WorkingPCs, Resting
<1> QED BY <1>1, <1>2 DEF Story, Init, OutcomeMatchesDisk

\* A COMPLETED update is live and whole, a ROLLED_BACK one left the base live.
THEOREM OutcomeHolds == Admins = {} => (Spec => []OutcomeMatchesDisk)
<1> SUFFICES ASSUME Admins = {} PROVE Spec => []OutcomeMatchesDisk
  OBVIOUS
<1>1. Story /\ [Next]_vars => Story'
  BY StoryNext
<1>2. Story => OutcomeMatchesDisk
  BY DEF Story
<1> QED BY StoryInit, <1>1, <1>2, PTL DEF Spec

\* What changes the live release, and how.
LEMMA SwitchStep ==
  ASSUME Story, NEW j \in Jobs, Execute(j)
  PROVE  /\ current' # current =>
              /\ current' = call[j].version
              /\ pc[j] = "activate" \/ pc[j] = "rollback"
              /\ Deploy(j)
         /\ call[j].step = "rename" /\ call'[j].step = "ok" => current' = call[j].version
<1>1. Phase(j) /\ Disk(j) /\ Executing(j) /\ j \in Callers /\ DeployerTypeOK
  BY RunsAlone, UpdateAssumption DEF Story, IInv, TypeOK
<1>2. CASE Deploy(j)
  <2>1. current' # current => ActivateRename(j)
    BY <1>2 DEF Deploy, DeployerStep, StageMkdir, StageMkdirFails, StageOpenFails, StageOverwrite,
       StageDone, StageFails, ActivateStat, ActivateUnlink, ActivateSymlink
  <2>2. call[j].step = "rename" => ActivateRename(j)
    BY <1>2 DEF Deploy, DeployerStep, StageMkdir, StageMkdirFails, StageOpenFails, StageOverwrite,
       StageDone, StageFails, ActivateStat, ActivateUnlink, ActivateSymlink
  <2>3. ActivateRename(j) => /\ pc[j] = "activate" \/ pc[j] = "rollback"
                             /\ current' \in {current, call[j].version}
    BY <1>1 DEF ActivateRename, Phase, Disk, Executing, WorkingPCs, StageSteps, Returned
  <2>4. ActivateRename(j) /\ call'[j].step = "ok" => current' = call[j].version
    BY <1>1 DEF ActivateRename, Disk, GoTo, DeployerTypeOK
  <2> QED BY <1>2, <2>1, <2>2, <2>3, <2>4
<1>3. CASE ~Deploy(j)
  <2>1. current' = current
    BY <1>3, ExecuteEffect DEF Effect, KeepFiles, Story, IInv
  <2>2. call[j].step # "rename" \/ call'[j].step # "ok"
    BY <1>1, <1>3, ExecuteEffect
       DEF Effect, BeginStage, BeginActivate, BeginCall, EndCall, NoCall, Story, IInv, TypeOK,
           DeployerTypeOK
  <2> QED BY <2>1, <2>2
<1> QED BY <1>2, <1>3

\* Steps of anybody else leave the live release and the calls' outcomes alone.
LEMMA OthersSwitchNothing ==
  ASSUME Admins = {}, [Next]_vars, \A j \in Jobs : ~Execute(j)
  PROVE  current' = current /\ \A j \in Jobs : call'[j] = call[j] \/ call'[j].step = "none"
<1>1. ASSUME NEW j \in Jobs, NEW v \in Versions, StartUpdate(j, v)
      PROVE current' = current /\ call' = call
  BY <1>1 DEF StartUpdate, KeepFiles
<1>2. CASE Crash
  BY <1>2, UpdateAssumption DEF Crash, DeployerCrash, NoCall
<1>3. CASE UNCHANGED vars
  BY <1>3 DEF vars
<1> QED BY <1>1, <1>2, <1>3 DEF Next

\* COMPLETED, FAILED and ROLLED_BACK lead nowhere.
LEMMA FinalStep ==
  ASSUME Admins = {}, Story, [Next]_vars, NEW j \in Jobs, IsTerminal(j)
  PROVE  status'[j] \in {status[j], "ABSENT"}
<1> USE DEF IsTerminal, TerminalStatuses, IsActive, ActiveStatuses
<1>1. ASSUME NEW i \in Jobs, NEW v \in Versions, StartUpdate(i, v)
      PROVE status'[j] = status[j]
  BY <1>1 DEF StartUpdate, CreateJob, Story, IInv, TypeOK, EngineTypeOK
<1>2. ASSUME NEW i \in Jobs, Execute(i) PROVE status'[j] = status[j]
  <2>1. i # j
    BY <1>2, RunsAlone
  <2> QED BY <1>2, <2>1, OthersRest
<1>3. CASE Crash
  BY <1>3 DEF Crash, EngineCrash
<1>4. CASE UNCHANGED vars
  BY <1>4 DEF vars
<1> QED BY <1>1, <1>2, <1>3, <1>4 DEF Next

\* A finished update's status is never written again, except by a crash.
THEOREM FinalHolds == Admins = {} => (Spec => FinalStatusIsFinal)
<1> SUFFICES ASSUME Admins = {} PROVE Spec => FinalStatusIsFinal
  OBVIOUS
<1>1. Story /\ [Next]_vars => Story'
  BY StoryNext
<1>2. Story /\ [Next]_vars =>
        [\A j \in Jobs : IsTerminal(j) => status'[j] \in {status[j], "ABSENT"}]_vars
  BY FinalStep
<1> QED BY StoryInit, <1>1, <1>2, PTL DEF Spec, FinalStatusIsFinal

\* A call that reports success has switched to the release it was asked for.
THEOREM SwitchHolds == Admins = {} => (Spec => ActivateSwitchesToTarget)
<1> SUFFICES ASSUME Admins = {} PROVE Spec => ActivateSwitchesToTarget
  OBVIOUS
<1>1. Story /\ [Next]_vars => Story'
  BY StoryNext
<1>2. ASSUME Story, [Next]_vars, NEW j \in Jobs, call[j].step = "rename", call'[j].step = "ok"
      PROVE current' = call[j].version
  <2>1. PICK i \in Jobs : Execute(i)
    BY <1>2, OthersSwitchNothing
  <2>2. i = j
    BY <1>2, <2>1, RunsAlone
  <2> QED BY <1>2, <2>1, <2>2, SwitchStep
<1>3. Story /\ [Next]_vars =>
        [\A j \in Jobs : call[j].step = "rename" /\ call'[j].step = "ok"
           => current' = call[j].version]_vars
  BY <1>2
<1> QED BY StoryInit, <1>1, <1>3, PTL DEF Spec, ActivateSwitchesToTarget

\* The live release moves only under a job stored as being switched.
THEOREM AnnouncedHolds == Admins = {} => (Spec => SwitchIsAnnounced)
<1> SUFFICES ASSUME Admins = {} PROVE Spec => SwitchIsAnnounced
  OBVIOUS
<1>1. Story /\ [Next]_vars => Story'
  BY StoryNext
<1>2. ASSUME Story, [Next]_vars, current' # current
      PROVE \E j \in Jobs : status[j] \in {"ACTIVATING", "ROLLING_BACK"}
  <2>1. PICK j \in Jobs : Execute(j)
    BY <1>2, OthersSwitchNothing
  <2> QED BY <1>2, <2>1, SwitchStep DEF Story, Phase
<1>3. Story /\ [Next]_vars =>
        [current' # current =>
           \E j \in Jobs : status[j] \in {"ACTIVATING", "ROLLING_BACK"}]_vars
  BY <1>2
<1> QED BY StoryInit, <1>1, <1>3, PTL DEF Spec, SwitchIsAnnounced

-----------------------------------------------------------------------------
(***************************************************************************)
(* The refinement.  Flight and Ending are what AtomicUpdate's variables    *)
(* stand for: the target of the one active job, and the final status of    *)
(* the job started last.                                                   *)
(***************************************************************************)
Flight == IF GetActiveJobs = {} THEN NoVersion ELSE target[ActiveJob]
Ending == IF lastJob # NoJob /\ IsTerminal(lastJob) THEN status[lastJob] ELSE "none"
AbsVars == <<current, Flight, Ending>>

LEMMA FlightOf ==
  /\ \A j \in Jobs : Exclusion /\ IsActive(j) => Flight = target[j]
  /\ \A j \in Jobs : Exclusion' /\ IsActive(j)' => Flight' = target'[j]
  /\ (\A j \in Jobs : ~IsActive(j)) => Flight = NoVersion
  /\ (\A j \in Jobs : ~IsActive(j)') => Flight' = NoVersion
<1>1. ASSUME NEW j \in Jobs, Exclusion, IsActive(j) PROVE Flight = target[j]
  <2>1. ActiveJob = j
    BY <1>1 DEF ActiveJob, Exclusion
  <2> QED BY <1>1, <2>1 DEF Flight, GetActiveJobs
<1>2. ASSUME NEW j \in Jobs, Exclusion', IsActive(j)' PROVE Flight' = target'[j]
  <2>1. ActiveJob' = j
    BY <1>2 DEF ActiveJob, Exclusion
  <2> QED BY <1>2, <2>1 DEF Flight, GetActiveJobs
<1>3. ASSUME \A j \in Jobs : ~IsActive(j) PROVE Flight = NoVersion
  BY <1>3 DEF Flight, GetActiveJobs
<1>4. ASSUME \A j \in Jobs : ~IsActive(j)' PROVE Flight' = NoVersion
  BY <1>4 DEF Flight, GetActiveJobs
<1> QED BY <1>1, <1>2, <1>3, <1>4

LEMMA StartBegins ==
  ASSUME Story, Story', NEW j \in Jobs, NEW v \in Versions, StartUpdate(j, v)
  PROVE  /\ Flight = NoVersion /\ Flight' \in Versions
         /\ Ending' = "none" /\ current' = current
<1>1. \A i \in Jobs : ~IsActive(i)
  BY DEF StartUpdate, CreateJob, GetActiveJobs
<1>2. /\ status'[j] = "PENDING" /\ target'[j] = v /\ lastJob' = j /\ current' = current
  BY DEF StartUpdate, CreateJob, KeepFiles, Story, IInv, TypeOK, EngineTypeOK
<1>3. Flight' = v
  BY <1>2, FlightOf DEF Story, IInv, IsActive, ActiveStatuses
<1>4. Ending' = "none"
  BY <1>2 DEF Ending, IsTerminal, TerminalStatuses
<1> QED BY <1>1, <1>2, <1>3, <1>4, FlightOf

LEMMA ExecuteMaps ==
  ASSUME Story, Story', NEW j \in Jobs, Execute(j)
  PROVE  /\ Flight # NoVersion
         /\ \/ UNCHANGED <<Flight, Ending>> /\ current' \in {current, Flight, Base}
            \/ /\ Flight' = NoVersion /\ current' = current
               /\ \/ Ending' = "FAILED"
                  \/ Ending' = "COMPLETED" /\ current = Flight
                  \/ Ending' = "ROLLED_BACK" /\ current = Base
<1>1. /\ IsActive(j) /\ lastJob = j /\ j # NoJob /\ target[j] \in Versions /\ Flight = target[j]
      /\ \A i \in Jobs \ {j} : ~IsActive(i)
  BY RunsAlone, FlightOf, UpdateAssumption DEF Story, IInv, Exclusion, TypeOK, EngineTypeOK
<1>2. Flight # NoVersion
  BY <1>1, DeployerAssumption
<1>3. lastJob' = j /\ target' = target
  BY <1>1 DEF Execute, Deploy, KeepRest, Precheck, VerifyFails, VerifyPasses, SnapshotFails,
     SnapshotTaken, StageReturns, ActivateReturns, ProbeFails, ProbePasses,
     RollbackReleaseReturns, Transition, HandleRollback, FailAndRollback, MarkRolledBack
<1>4. CASE Executing(j)'
  <2>1. IsActive(j)'
    BY <1>4 DEF Story, IInv, Exclusion
  <2>2. Flight' = target[j]
    BY <1>3, <2>1, FlightOf DEF Story, IInv
  <2>3. Ending = "none" /\ Ending' = "none"
    BY <1>1, <1>3, <2>1 DEF Ending, IsTerminal, TerminalStatuses, IsActive, ActiveStatuses
  <2>4. current' \in {current, target[j], Base}
    BY SwitchStep DEF Story, Phase
  <2> QED BY <1>1, <1>2, <2>2, <2>3, <2>4
<1>5. CASE ~Executing(j)'
  <2>1. status'[j] \in TerminalStatuses /\ current' = current
    BY <1>5, ReturnsFinal, RunsAlone DEF Story, IInv
  <2>2. \A i \in Jobs : ~IsActive(i)'
    BY <1>1, <2>1, OthersRest DEF IsActive, TerminalStatuses, ActiveStatuses
  <2>3. Ending' = status'[j]
    BY <1>1, <1>3, <2>1 DEF Ending, IsTerminal
  <2>4. /\ status'[j] = "COMPLETED" => current = target[j]
        /\ status'[j] = "ROLLED_BACK" => current = Base
    BY <1>1, <1>3, <2>1 DEF Story, OutcomeMatchesDisk
  <2> QED BY <1>1, <1>2, <2>1, <2>2, <2>3, <2>4, FlightOf DEF TerminalStatuses
<1> QED BY <1>4, <1>5

LEMMA StepMaps ==
  ASSUME Admins = {}, Story, Story', [Next]_vars
  PROVE  [Atomic!AbsNext]_AbsVars
<1> USE DEF Atomic!AbsNext, Atomic!Begin, Atomic!Switch, Atomic!Succeed, Atomic!Restore,
            Atomic!GiveUp, Atomic!Ended, Atomic!Forget, AbsVars
<1>1. ASSUME NEW j \in Jobs, NEW v \in Versions, StartUpdate(j, v) PROVE Atomic!Begin
  BY <1>1, StartBegins DEF Flight, Ending
<1>2. ASSUME NEW j \in Jobs, Execute(j) PROVE [Atomic!AbsNext]_AbsVars
  <2>1. CASE UNCHANGED <<Flight, Ending>> /\ current' \in {current, Flight, Base}
    BY <1>2, <2>1, ExecuteMaps DEF Flight, Ending
  <2>2. CASE /\ Flight' = NoVersion /\ current' = current
             /\ \/ Ending' = "FAILED"
                \/ Ending' = "COMPLETED" /\ current = Flight
                \/ Ending' = "ROLLED_BACK" /\ current = Base
    BY <1>2, <2>2, ExecuteMaps DEF Flight, Ending
  <2> QED BY <1>2, <2>1, <2>2, ExecuteMaps
<1>3. CASE Crash
  <2>1. \A j \in Jobs : ~IsActive(j)'
    BY <1>3 DEF Crash, EngineCrash, IsActive, ActiveStatuses
  <2>2. Ending' = "none" /\ current' = current
    BY <1>3 DEF Crash, DeployerCrash, Ending
  <2> QED BY <2>1, <2>2, FlightOf DEF Flight, Ending
<1>4. CASE UNCHANGED vars
  BY <1>4 DEF vars, Flight, Ending, GetActiveJobs, ActiveJob, IsActive, IsTerminal
<1> QED BY <1>1, <1>2, <1>3, <1>4 DEF Next

\* Without manual rollbacks the pipeline is an atomic update, for any number
\* of jobs, versions and crashes.
THEOREM Refinement == Admins = {} => (Spec => ImplementsAtomicUpdate)
<1> SUFFICES ASSUME Admins = {} PROVE Spec => ImplementsAtomicUpdate
  OBVIOUS
<1>1. Init => Atomic!AbsInit
  BY FlightOf DEF Init, EngineInit, DeployerInit, Atomic!AbsInit, GetActiveJobs, IsActive,
     ActiveStatuses
<1>2. Story /\ [Next]_vars => Story'
  BY StoryNext
<1>3. Story /\ Story' /\ [Next]_vars => [Atomic!AbsNext]_(Atomic!absVars)
  BY StepMaps DEF AbsVars, Atomic!absVars, Flight, Ending
<1> QED BY StoryInit, <1>1, <1>2, <1>3, PTL DEF Spec, ImplementsAtomicUpdate, Atomic!AbsSpec
=============================================================================
