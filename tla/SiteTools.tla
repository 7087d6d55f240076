------------------------------ MODULE SiteTools ------------------------------
(***************************************************************************)
(* The tools of one website, components that its modal mounts one at a     *)
(* time (apps/web/src/components): WordPressManagerTab, of which tab is    *)
(* the sub-tab, GitCicdTab, CachingTab and AppRuntimeTab.  Each shows only *)
(* a spinner while it loads.                                               *)
(***************************************************************************)
EXTENDS PanelPage

WordPress == {"details", "plugins", "themes", "popular"}
Git == {"repo", "deployments"}
Cache == {"services", "config", "metrics"}
App == {"app", "runtimes", "status"}
SubTabs == {"overview", "plugins", "themes", "security", "staging"}

\* A site without a repository or an application has its pane cleared.
Panes(t) ==
  CASE t = "git" -> {Pane("repo", 0, FALSE), Pane("deployments", 0, TRUE)}
    [] t = "caching" -> {Pane(p, 0, TRUE) : p \in Cache}
    [] t = "runtime" -> {Pane("app", 0, FALSE), Pane("runtimes", 0, TRUE), Pane("status", 0, TRUE)}
    [] OTHER -> {Pane(p, 0, TRUE) : p \in WordPress} \cup {Pane("staging", 0, FALSE)}

Shown ==
  CASE tab = "git" -> Git
    [] tab = "caching" -> Cache
    [] tab = "runtime" -> App
    [] tab = "overview" -> {"details"}
    [] tab = "plugins" -> {"plugins", "popular", "details"}
    [] tab \in {"themes", "staging"} -> {tab, "details"}
    [] tab = "installed" -> {}
    [] OTHER -> {"details"}

Effects(t, s) == IF t = "staging" /\ t # tab THEN {"staging"} ELSE {}

-----------------------------------------------------------------------------
(* WordPress.                                                              *)
loadAllData(writes) == Change(writes, WordPress)

\* A page of its own reports the installation; leaving it loads everything.
handleInstallWordPress ==
  Leading(Flagged(Change(WordPress \ {"popular"}, {}), "install"), "installed", <<"same", "same">>)
handleToggleMaintenance == Rewriting(Flagged(Local({"details"}), "maintenance"))
handleToggleDebug == Rewriting(Flagged(Local({"details"}), "debug"))
handleFlushCache == Flagged(Change({}, {}), "cache")
handleOptimizeDB == Flagged(Change({}, {}), "db")
handleUpdateCore == Flagged(loadAllData({"details"}), "core")
handleResetPassword == Flagged(Change({}, {}), "reset")
handleTogglePlugin == Flagged(Local({"plugins"}), "toggle")
handleInstallPlugin == Flagged(Change({"plugins"}, {"plugins"}), "plugin")
handleDeletePlugin == Flagged(Local({"plugins"}), "delete")
handleActivateTheme == Flagged(Local({"themes"}), "theme")
handleCreateStaging == Flagged(Change({"staging"}, {"staging"}), "staging")
\* The production site that it overwrites is not loaded again.
handlePushToLive ==
  Flagged(IF eye.name = "staging" THEN Change({"staging"}, {"staging"})
          ELSE Forgetting(Change(WordPress \ {"popular"}, {})), "push")
handleDeleteStaging == Rewriting(Local({"staging"}))

(* Git.                                                                    *)
handleSaveRepo == Rewriting(Flagged(Local({"repo"}), "repo"))
handleTriggerDeploy == Flagged(Change(Git, Git), "deploy")
handleRollback == Flagged(Change(Git, Git), "rollback")
handleDeleteRepo == Rewriting(Local(Git))

(* Caching: the form holds what is being saved.                            *)
handleSaveConfig == Flagged(Following(Optimistic({"config"}), {"metrics"}), "saving")
handleDisableCache == Rewriting(Flagged(Local({"config", "metrics"}), "saving"))
handleFlush == Flagged(Change({"metrics"}, {"metrics"}), "flush")
handleBenchmark == Flagged(Change({}, {}), "benchmark")
handleToggleWP == Local({"config"})

(* The managed application; its status is polled.                          *)
handleSaveApp == Rewriting(Flagged(Patching(Change({"app", "status"}, App), {"app"}), "submit"))
handleControl == Flagged(Change({"app", "status"}, App), "control")
handleDeleteApp == Rewriting(Local({"app", "status"}))
poll == tab = "runtime" /\ Loaded("app") /\ Room /\ Look(tab, sel, {"status"})

-----------------------------------------------------------------------------
(* The regions.                                                            *)
WordPressShown == tab \in SubTabs /\ \A p \in WordPress : eye.name = p => ~busy

\* Details that could not be read look like those of a site without WordPress.
Installer ==
  /\ tab = "overview" /\ WordPressShown
  /\ eye.name = "details" => copy.of = NoKey
  /\ Does(handleInstallWordPress)

Installed == tab = "installed" /\ Acts /\ Look("overview", sel, WordPress)

Header ==
  /\ WordPressShown /\ Loaded("details") /\ Acts
  /\ \/ Look(tab, sel, WordPress)
     \/ \E t \in SubTabs : t # tab /\ Look(t, sel, Effects(t, sel))

Overview ==
  /\ tab = "overview" /\ WordPressShown /\ Loaded("details")
  /\ \/ Does(handleToggleMaintenance) \/ Does(handleToggleDebug)
     \/ Does(handleFlushCache) \/ Does(handleOptimizeDB) \/ Does(handleUpdateCore)

Plugins ==
  /\ tab = "plugins" /\ WordPressShown
  /\ \/ Loaded("plugins") /\ (Does(handleTogglePlugin) \/ Does(handleDeletePlugin))
     \/ Loaded("popular") /\ Does(handleInstallPlugin)

Themes == tab = "themes" /\ WordPressShown /\ Loaded("themes") /\ Does(handleActivateTheme)
Security == tab = "security" /\ WordPressShown /\ Does(handleResetPassword)

Staging ==
  /\ tab = "staging" /\ WordPressShown
  /\ \/ Open("staging")
     \/ Filled("staging") /\ (Does(handlePushToLive) \/ Does(handleDeleteStaging))
StagingModal == In("staging", handleCreateStaging)

GitForm == Does(handleSaveRepo)
GitHeader == Loaded("repo") /\ (Does(handleTriggerDeploy) \/ Does(handleDeleteRepo))
Deployments == (Acts /\ Look(tab, sel, Git)) \/ (Loaded("deployments") /\ Does(handleRollback))
GitTab == /\ tab = "git" /\ ~busy
          /\ GitHeader \/ GitForm \/ Deployments

Telemetry ==
  \/ Acts /\ Look(tab, sel, {"metrics"})
  \/ Does(handleFlush) \/ Does(handleBenchmark)
ObjectCache == Does(handleToggleWP)
CacheForm == Does(handleDisableCache) \/ Does(handleSaveConfig)
CachingTab == /\ tab = "caching" /\ (eye.name = "metrics" \/ ~busy)
              /\ Telemetry \/ ObjectCache \/ CacheForm

AppHeader == Loaded("app") /\ (Does(handleControl) \/ Does(handleDeleteApp))
AppForm == Does(handleSaveApp)
RuntimeTab == /\ tab = "runtime" /\ (eye.name = "status" \/ ~busy)
              /\ AppHeader \/ AppForm

-----------------------------------------------------------------------------
Opens ==
  \E t \in {"overview", "git", "caching", "runtime"} : \E p \in Panes(t) :
    Mount("tools", p, t, <<"", "">>, WordPress \cup Git \cup Cache \cup App)

Acting ==
  \/ Installer \/ Installed \/ Header
  \/ Overview \/ Plugins \/ Themes \/ Security \/ Staging \/ StagingModal
  \/ GitTab \/ CachingTab \/ RuntimeTab \/ poll
=============================================================================
