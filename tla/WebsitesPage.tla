---------------------------- MODULE WebsitesPage ----------------------------
(***************************************************************************)
(* The list of websites (apps/web/src/app/websites/page.tsx).  sel[1] is   *)
(* the site a modal is about.  Project tabs, filters, paging and columns   *)
(* only choose what is shown of the list.  The modals for the              *)
(* configuration text, logs, rewriting, speed and the firewall's rules are *)
(* never opened by this page.                                              *)
(***************************************************************************)
EXTENDS PanelPage

CONSTANT Sites

\* "setup": the servers and the domains without a site, fetched with the list.
Panes == {Pane("sites", 0, TRUE), Pane("setup", 0, TRUE), Pane("statistics", 0, TRUE),
          Pane("isolation", 1, TRUE)}

fetchData == {"sites", "setup"}

Shown == {"sites", "setup"}
         \cup (IF modal = "statistics" THEN {"statistics"} ELSE {})
         \cup (IF modal = "isolation" THEN {"isolation"} ELSE {})

\* No effect depends on the site of a modal.
Effects(t, s) == {}

-----------------------------------------------------------------------------
(* The handlers.                                                           *)
handleSyncDomains == Flagged(Change(fetchData, fetchData), "sync")
handleToggleStatus == Optimistic({"sites"})
\* What was created before another domain failed is in the list already.
handleCreateWebsite == Flagged(Patching(Change(fetchData, fetchData), {"sites"}), "create")
handleTriggerBackup == Staying(Flagged(Unchecked(Local({"sites"})), "backup"))
handleSwitchPhp == Flagged(Unchecked(Optimistic({"sites"})), "php")
handleIssueSsl == Flagged(Unchecked(Local({"sites"})), "ssl")
handleToggleWaf == Optimistic({"sites"})
\* The answer brings the limits of the site they were saved for.
handleSaveIsolation == Staying(Flagged(Change({"isolation"}, {"isolation"}), "isolation"))
confirmDeleteWebsite == Flagged(Change(fetchData, fetchData), "delete")
handleExecuteBatch ==
  {Flagged(Unchecked(Change(fetchData, fetchData)), "batch"),
   Flagged(Optimistic({"sites"}), "batch")}
handleNginxAction == Staying(Flagged(Change({}, {}), "nginx"))
handleRepairAllRouting == Flagged(Change({"sites"}, fetchData), "repair")
onInstalled == Change({"sites"}, fetchData)

openModal(m) == \E w \in Sites : OpenFor(m, <<w, "">>, {}, {})
openIsolationModal == \E w \in Sites : OpenFor("isolation", <<w, "">>, {}, {"isolation"})
statsEffect == OpenFor("statistics", sel, {}, {"statistics"})

-----------------------------------------------------------------------------
(* The regions of the page.                                                *)
ControlCenter == Does(handleNginxAction) \/ Does(handleRepairAllRouting)

Toolbar ==
  \/ Open("addSite") \/ Open("nginx") \/ statsEffect
  \/ Does(handleSyncDomains) \/ Does(handleRepairAllRouting)

UnlinkedBanner == Loaded("setup") /\ (Open("addSite") \/ Does(handleSyncDomains))

StatusCell == Loaded("sites") /\ Does(handleToggleStatus)
BackupCell == Loaded("sites") /\ openModal("backup")
QuickActions == Loaded("sites") /\ openModal("php")
SslCell == Loaded("sites") /\ openModal("ssl")
WafCell == Loaded("sites") /\ Does(handleToggleWaf)
BatchBar == Loaded("sites") /\ \E h \in handleExecuteBatch : Does(h)
ActionMenu ==
  Loaded("sites") /\ (openIsolationModal \/ openModal("installer") \/ openModal("delete"))

AddSiteModal == In("addSite", handleCreateWebsite)
BackupModal == In("backup", handleTriggerBackup)
PhpModal == In("php", handleSwitchPhp)
SslModal == In("ssl", handleIssueSsl)
NginxModal == In("nginx", handleNginxAction)
\* The button to save is not held back while the limits are being fetched.
IsolationModal == In("isolation", handleSaveIsolation)
InstallerModal == In("installer", onInstalled)
DeleteModal == In("delete", confirmDeleteWebsite)

-----------------------------------------------------------------------------
Opens == \E p \in Panes : Mount("websites", p, "list", <<"", "">>, fetchData)

Acting ==
  \/ ControlCenter \/ Toolbar \/ UnlinkedBanner
  \/ StatusCell \/ BackupCell \/ QuickActions \/ SslCell \/ WafCell \/ BatchBar \/ ActionMenu
  \/ AddSiteModal \/ BackupModal \/ PhpModal \/ SslModal \/ NginxModal
  \/ IsolationModal \/ InstallerModal \/ DeleteModal
=============================================================================
