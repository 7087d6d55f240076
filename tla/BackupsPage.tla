----------------------------- MODULE BackupsPage -----------------------------
(***************************************************************************)
(* Repositories, incremental snapshots and their restores                  *)
(* (apps/web/src/app/backups/page.tsx).  Every refresh is loadData, five   *)
(* lists at once.  sel[1] is the snapshot or repository a modal is about;  *)
(* sel[2] is "" until loadData has chosen the forms' first repository.     *)
(* Connection drills, presets, the runbook's text and filters change no    *)
(* fetched state.                                                          *)
(***************************************************************************)
EXTENDS PanelPage

CONSTANT Snapshots   \* snapshots, and the repository of each

All == {"repositories", "snapshots", "backups", "destinations", "schedules"}
Panes == {Pane(p, 0, TRUE) : p \in All} \cup {Pane("tree", 1, TRUE), Pane("policy", 1, TRUE)}
Tabs == {"incremental", "repositories", "recovery", "snapshots", "destinations", "schedules"}

Shown ==
  (CASE tab = "incremental" -> {"snapshots", "repositories"}
     [] tab = "snapshots" -> {"backups"}
     [] tab = "recovery" -> {"repositories"}
     [] OTHER -> {tab})
  \cup (CASE modal = "tree" -> {"tree"} [] modal = "prune" -> {"policy"} [] OTHER -> {})

Effects(t, s) == IF s[2] # sel[2] THEN All ELSE {}
Go(t) == Acts /\ Look(t, sel, {})

\* loadData depends on the chosen repository, which its first answer chooses.
chooseRepository == sel[2] = "" /\ Look(tab, <<sel[1], "chosen">>, All)

-----------------------------------------------------------------------------
(* The handlers.                                                           *)
loadData(writes) == Change(writes, All)

handleCreateRepository == Flagged(loadData({"repositories"}), "create")
handleCheckIntegrity == Flagged(Local({"repositories"}), "integrity")
\* Its snapshots are deleted with it and stay listed.
handleDeleteRepository ==
  IF eye.name = "snapshots" THEN Forgetting(Change({"snapshots"}, {})) ELSE Local({"repositories"})
handleToggleDeletionProtection == Local({"repositories"})
handleOpenPruneModal(r) == OpenFor("prune", <<r, sel[2]>>, {}, {"policy"})
handleExecutePrune ==
  {Staying(Flagged(loadData({"repositories", "snapshots"}), "prune")),
   Staying(Flagged(Change({}, {}), "prune"))}
handleCreateIncrementalSnapshot == Flagged(loadData({"snapshots", "repositories"}), "snap")
handleOpenFileTree(s) == OpenFor("tree", <<s, sel[2]>>, {}, {"tree"})
handleRestoreSelectedFiles == Staying(Flagged(Change({}, {}), "files"))
handleExecuteFullRestore == Flagged(Change({}, {}), "restore")
handleGenerateRunbook == Flagged(Change({}, {}), "runbook")

-----------------------------------------------------------------------------
(* The regions of the page.                                                *)
Header ==
  \/ Acts /\ ~busy /\ Look(tab, sel, All)
  \/ Open("newRepo") \/ Open("newSnap")

TabBar == \E t \in Tabs : t # tab /\ Go(t)

SnapshotTable ==
  /\ tab = "incremental"
  /\ \/ Open("newSnap")
     \/ /\ Loaded("snapshots")
        /\ Open("fullRestore") \/ \E s \in Snapshots : handleOpenFileTree(s)

RepositoryCards ==
  /\ tab = "repositories"
  /\ \/ Open("newRepo")
     \/ /\ Loaded("repositories")
        /\ \/ Does(handleToggleDeletionProtection) \/ Does(handleCheckIntegrity)
           \/ Does(handleDeleteRepository)
           \/ \E r \in Snapshots : handleOpenPruneModal(r)

\* Choosing a repository for the runbook runs the effect as well.
RunbookTab ==
  tab = "recovery" /\ (Does(handleGenerateRunbook) \/ (Acts /\ Look(tab, sel, All)))

FileTreeModal == In("tree", handleRestoreSelectedFiles)
FullRestoreModal == In("fullRestore", handleExecuteFullRestore)
NewRepoModal == In("newRepo", handleCreateRepository)
NewSnapModal ==
  \/ In("newSnap", handleCreateIncrementalSnapshot)
  \/ modal = "newSnap" /\ Room /\ Look(tab, sel, All)
PruneModal == \E h \in handleExecutePrune : In("prune", h)

-----------------------------------------------------------------------------
Opens == \E p \in Panes : Mount("backups", p, "incremental", <<"", "">>, All)

Acting ==
  \/ chooseRepository \/ Header \/ TabBar
  \/ SnapshotTable \/ RepositoryCards \/ RunbookTab
  \/ FileTreeModal \/ FullRestoreModal \/ NewRepoModal \/ NewSnapModal \/ PruneModal
=============================================================================
