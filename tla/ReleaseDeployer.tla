-------------------------- MODULE ReleaseDeployer --------------------------
(***************************************************************************)
(* The release directories and the `current` symlink of the control plane *)
(* (apps/api/internal/update/deployer.go).                                 *)
(*                                                                         *)
(* Each caller is one goroutine inside StageRelease, ActivateRelease or    *)
(* RollbackRelease.  None of the three takes a lock, so the file-system    *)
(* calls of two callers interleave; the temporary link is named after the  *)
(* process id and is therefore shared by every caller of one process.      *)
(***************************************************************************)
EXTENDS Integers

CONSTANTS
  Callers,    \* goroutines that may use the deployer
  Versions,   \* release versions, ordered as integers
  Base,       \* the release installed at first, "1.0.0"
  NoVersion   \* the temporary link does not exist

ASSUME DeployerAssumption ==
  /\ Versions \subseteq Int
  /\ Base \in Versions
  /\ NoVersion \notin Versions

VARIABLES
  releases,   \* state of releases/<version> on disk
  current,    \* the version /opt/hostvra/current points to
  tmpLink,    \* the version current.tmp.<pid> points to, or NoVersion
  call        \* the deployer call each caller is in

deployerVars == <<releases, current, tmpLink, call>>

\* absent, being written, left incomplete, fully extracted
DirStates == {"absent", "extracting", "broken", "complete"}

StageSteps    == {"mkdir", "open", "extract"}
ActivateSteps == {"stat", "unlink", "symlink", "rename"}
CallSteps     == {"none", "ok", "error"} \cup StageSteps \cup ActivateSteps

NoCall == [step |-> "none", version |-> Base]

DeployerTypeOK ==
  /\ releases \in [Versions -> DirStates]
  /\ current \in Versions
  /\ tmpLink \in Versions \cup {NoVersion}
  /\ call \in [Callers -> [step : CallSteps, version : Versions]]

DeployerInit ==
  /\ releases = [v \in Versions |-> IF v = Base THEN "complete" ELSE "absent"]
  /\ current = Base
  /\ tmpLink = NoVersion
  /\ call = [c \in Callers |-> NoCall]

GoTo(c, s)       == call' = [call EXCEPT ![c].step = s]
BeginCall(c, s, v) == call' = [call EXCEPT ![c] = [step |-> s, version |-> v]]
EndCall(c)       == call' = [call EXCEPT ![c] = NoCall]

BeginStage(c, v)    == BeginCall(c, "mkdir", v)
BeginActivate(c, v) == BeginCall(c, "stat", v)

Extracting(c, v) == call[c].step = "extract" /\ call[c].version = v

-----------------------------------------------------------------------------
(* StageRelease *)

\* os.MkdirAll: a directory that exists already is kept as it is.
StageMkdir(c) ==
  LET v == call[c].version IN
  /\ call[c].step = "mkdir"
  /\ releases' = [releases EXCEPT ![v] = IF @ = "absent" THEN "broken" ELSE @]
  /\ GoTo(c, "open")
  /\ UNCHANGED <<current, tmpLink>>

\* os.MkdirAll fails: nothing has been made.
StageMkdirFails(c) ==
  /\ call[c].step = "mkdir"
  /\ GoTo(c, "error")
  /\ UNCHANGED <<releases, current, tmpLink>>

\* gzip.NewReader refuses the package before any file is written.
StageOpenFails(c) ==
  /\ call[c].step = "open"
  /\ GoTo(c, "error")
  /\ UNCHANGED <<releases, current, tmpLink>>

\* The first O_TRUNC: whatever the directory held is being overwritten in place.
StageOverwrite(c) ==
  LET v == call[c].version IN
  /\ call[c].step = "open"
  /\ releases' = [releases EXCEPT ![v] = "extracting"]
  /\ GoTo(c, "extract")
  /\ UNCHANGED <<current, tmpLink>>

\* io.EOF.  Only when no other caller writes or tore the directory meanwhile is
\* its content surely whole.
StageDone(c) ==
  LET v == call[c].version
      others == {d \in Callers \ {c} : Extracting(d, v)}
  IN
  /\ call[c].step = "extract"
  /\ \E s \in CASE others # {}             -> {releases[v]}
               [] releases[v] = "broken"   -> {"broken", "complete"}
               [] OTHER                    -> {"complete"} :
       releases' = [releases EXCEPT ![v] = s]
  /\ GoTo(c, "ok")
  /\ UNCHANGED <<current, tmpLink>>

\* Bug: a failed extraction removes the release directory.
StageFailsRemoves(c) ==
  /\ call[c].step = "extract"
  /\ releases' = [releases EXCEPT ![call[c].version] = "absent"]
  /\ GoTo(c, "error")
  /\ UNCHANGED <<current, tmpLink>>

\* A corrupt entry, an unsafe path or a write error: the files stay behind.
StageFails(c) ==
  LET v == call[c].version IN
  /\ call[c].step = "extract"
  /\ releases' = [releases EXCEPT ![v] = "broken"]
  /\ GoTo(c, "error")
  /\ UNCHANGED <<current, tmpLink>>

-----------------------------------------------------------------------------
(* ActivateRelease, which RollbackRelease calls with the previous version *)

\* os.Stat asks only whether the directory exists, not whether it is whole.
ActivateStat(c) ==
  /\ call[c].step = "stat"
  /\ GoTo(c, IF releases[call[c].version] = "absent" THEN "error" ELSE "unlink")
  /\ UNCHANGED <<releases, current, tmpLink>>

ActivateUnlink(c) ==
  /\ call[c].step = "unlink"
  /\ tmpLink' = NoVersion
  /\ GoTo(c, "symlink")
  /\ UNCHANGED <<releases, current>>

\* os.Symlink fails when the link exists (another caller made it).
ActivateSymlink(c) ==
  /\ call[c].step = "symlink"
  /\ \/ /\ tmpLink = NoVersion
        /\ tmpLink' = call[c].version
        /\ GoTo(c, "rename")
     \/ /\ tmpLink' = tmpLink
        /\ GoTo(c, "error")
  /\ UNCHANGED <<releases, current>>

\* os.Rename moves whatever the temporary link is by now.
ActivateRename(c) ==
  /\ call[c].step = "rename"
  /\ \/ /\ tmpLink # NoVersion
        /\ current' = tmpLink
        /\ GoTo(c, "ok")
     \/ /\ current' = current
        /\ GoTo(c, "error")
  /\ tmpLink' = NoVersion
  /\ UNCHANGED releases

DeployerStep(c) ==
  \/ StageMkdir(c)
  \/ StageMkdirFails(c)
  \/ StageOpenFails(c)
  \/ StageOverwrite(c)
  \/ StageDone(c)
  \/ StageFails(c)
  \/ ActivateStat(c)
  \/ ActivateUnlink(c)
  \/ ActivateSymlink(c)
  \/ ActivateRename(c)

-----------------------------------------------------------------------------
\* The process dies: its goroutines and their calls are gone, a directory that
\* was being written stays incomplete, the links stay.  The next process has
\* another id and so another temporary name.
DeployerCrash ==
  /\ releases' = [v \in Versions |->
                    IF releases[v] = "extracting" THEN "broken" ELSE releases[v]]
  /\ tmpLink' = NoVersion
  /\ call' = [c \in Callers |-> NoCall]
  /\ UNCHANGED current
=============================================================================
