------------------------------- MODULE PhpPage -------------------------------
(***************************************************************************)
(* PHP on the node (apps/web/src/app/php/page.tsx).  sel[1] is the version *)
(* the page shows; five panes are fetched for it when it changes, and then *)
(* each only by the handlers that think of it.  The settings are shown as  *)
(* directives and as the raw text of the same file.                        *)
(***************************************************************************)
EXTENDS PanelPage

CONSTANT Versions

PerVersion == {"extensions", "directives", "raw", "fpm", "health", "pools"}
Panes == {Pane("versions", 0, TRUE)} \cup {Pane(p, 1, TRUE) : p \in PerVersion}

Shown ==
  {"versions"} \cup
  CASE tab = "overview" -> {"fpm"}
    [] tab = "ini" -> {"directives", "raw"}
    [] tab = "versions" -> {}
    [] OTHER -> {tab}

Effects(t, s) == IF s[1] # sel[1] THEN PerVersion ELSE {}

-----------------------------------------------------------------------------
(* The handlers.                                                           *)
\* Bug: the settings are fetched only when the page is opened.
selectVersionOnly == \E v \in Versions : v # sel[1] /\ Look(tab, <<v, "">>, {})

selectVersion == \E v \in Versions : v # sel[1] /\ Look(tab, <<v, "">>, PerVersion)

\* Each answer selects the first installed version: a selectVersion of its own.
loadVersions == {"versions"}

\* Nothing of the version itself is fetched unless it becomes the selected one.
OfVersions == Change({"versions"}, {"versions"})
handleInstallVersion ==
  Flagged(IF eye.name = "versions" THEN OfVersions ELSE Forgetting(Change(PerVersion, {})), "install")
handleRemoveVersion ==
  Flagged(IF eye.name = "versions" THEN OfVersions ELSE Forgetting(Change(PerVersion, {})), "remove")
handleSetDefaultCLI == Flagged(OfVersions, "cli")
handleToggleExtension == Flagged(Change({"extensions"}, {"extensions"}), "toggle")
handleInstallExtension == Flagged(Change({"extensions"}, {"extensions"}), "extension")
\* The list of versions and the health report say whether it runs, too.
handleFpmAction ==
  Flagged(IF eye.name = "fpm" THEN Change({"fpm"}, {"fpm"})
          ELSE Forgetting(Change({"versions", "health"}, {})), "service")
\* What one mode saves, the other goes on showing as it was, and may save back.
saveDirective == IF eye.name = "raw" THEN Forgetting(Change({"raw"}, {})) ELSE Optimistic({"directives"})
saveRaw ==
  Flagged(IF eye.name = "directives" THEN Forgetting(Change({"directives"}, {}))
          ELSE Optimistic({"raw"}), "ini")

-----------------------------------------------------------------------------
(* The regions of the page.                                                *)
Header ==
  \/ Room /\ Loaded("versions") /\ selectVersion
  \/ Acts /\ Look(tab, sel, loadVersions \cup {"extensions", "fpm", "health"})

TabBar == \E t \in {"overview", "versions", "extensions", "ini", "fpm", "pools", "health"} :
            t # tab /\ Acts /\ Look(t, sel, {})

VersionsTab ==
  /\ tab = "versions" /\ Loaded("versions")
  /\ \/ Does(handleSetDefaultCLI)
     \/ \E v \in Versions : \E h \in {handleInstallVersion, handleRemoveVersion} :
          Acts /\ SubmitFor(h, <<v, "">>)

ExtensionsTab ==
  /\ tab = "extensions" /\ Loaded("extensions")
  /\ Does(handleToggleExtension) \/ Does(handleInstallExtension)

IniTab ==
  /\ tab = "ini"
  /\ \/ Loaded("directives") /\ Does(saveDirective)
     \/ Does(saveRaw)
     \/ Acts /\ Look(tab, sel, {"directives", "raw"})

FpmTab == tab = "fpm" /\ Does(handleFpmAction)
HealthTab == tab = "health" /\ Acts /\ Look(tab, sel, {"health"})

-----------------------------------------------------------------------------
Opens == \E p \in Panes, v \in Versions :
           Mount("php", p, "overview", <<v, "">>, loadVersions \cup PerVersion)

Acting == Header \/ TabBar \/ VersionsTab \/ ExtensionsTab \/ IniTab \/ FpmTab \/ HealthTab
=============================================================================
