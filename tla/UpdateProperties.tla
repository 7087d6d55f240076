-------------------------- MODULE UpdateProperties --------------------------
(***************************************************************************)
(* What is claimed of the live update pipeline.                            *)
(***************************************************************************)
EXTENDS UpdateSystem

-----------------------------------------------------------------------------
(* Safety *)

\* "JobEngine ... prevents concurrent executions" (job.go:102): at most one
\* goroutine is inside ExecuteLiveUpdate.  StartJob only looks at the stored
\* status, so this needs the stored status of a job to stay active as long as
\* its goroutine runs.
SingleExecutor ==
  \A i, j \in Jobs : Executing(i) /\ Executing(j) => i = j

\* The status of the last job agrees with the disk: a COMPLETED job's release is
\* live and whole, a ROLLED_BACK job left the base release live.
OutcomeMatchesDisk ==
  lastJob # NoJob =>
    /\ status[lastJob] = "COMPLETED" =>
         current = target[lastJob] /\ releases[current] = "complete"
    /\ status[lastJob] = "ROLLED_BACK" => current = Base

\* The `current` link always leads to a directory that exists.
CurrentNeverDangles == releases[current] # "absent"

\* Once every goroutine and every rollback request has returned, no stored job
\* is active: no path through the pipeline or the handler leaves the update
\* lock held for ever.
QuietMeansUnlocked ==
  (\A j \in Jobs : ~Executing(j)) /\ (\A a \in Admins : rollback[a].step \in {"ready", "answered"})
    => GetActiveJobs = {}

-----------------------------------------------------------------------------
(* What a step may never do *)

\* docs/update-system.md:66-68: COMPLETED, ROLLED_BACK and FAILED lead nowhere.
\* A crash is excepted, it empties the repository.
FinalStatusIsFinal ==
  [][\A j \in Jobs : IsTerminal(j) => status'[j] \in {status[j], "ABSENT"}]_vars

\* deployer.go:125: a call that reports success has switched `current` to the
\* release it was asked for, not to the one a concurrent call asked for.
ActivateSwitchesToTarget ==
  [][\A j \in Jobs : call[j].step = "rename" /\ call'[j].step = "ok"
       => current' = call[j].version]_vars

\* The live release changes only under a job whose stored status says that it
\* is being activated or rolled back, so GetJobStatus never shows a finished or
\* earlier phase while the switch happens.
SwitchIsAnnounced ==
  [][current' # current =>
       \E j \in Jobs : status[j] \in {"ACTIVATING", "ROLLING_BACK"}]_vars

-----------------------------------------------------------------------------
(* Liveness *)

\* Every update that starts comes to an end, unless the process dies.
JobEnds == \A j \in Jobs : IsActive(j) ~> ~IsActive(j)

\* Whatever administrators do, a new update can be started again and again.
LockReleased == []<>(GetActiveJobs = {})

-----------------------------------------------------------------------------
(* Refinement: without manual rollbacks the pipeline is an atomic update. *)

ActiveJob == CHOOSE j \in Jobs : IsActive(j)

Atomic == INSTANCE AtomicUpdate WITH
  live     <- current,
  inFlight <- IF GetActiveJobs = {} THEN NoVersion ELSE target[ActiveJob],
  outcome  <- IF lastJob # NoJob /\ IsTerminal(lastJob) THEN status[lastJob] ELSE "none"

ImplementsAtomicUpdate == Atomic!AbsSpec
=============================================================================
