------------------------------ MODULE SiteModal ------------------------------
(***************************************************************************)
(* The modal of one website                                                *)
(* (apps/web/src/components/SiteModificationModal.tsx).  "site" is the row *)
(* its page hands it and takes back through onUpdateWebsite; only the logs *)
(* are fetched.  Every other form starts from constants, and the tabs for  *)
(* domains, redirects, proxies and Composer send nothing at all.           *)
(***************************************************************************)
EXTENDS PanelPage

Panes == {Pane("site", 0, TRUE), Pane("logs", 0, TRUE)}
Tabs == {"domain", "directory", "limit", "rewrite", "defaultDoc", "config", "ssl", "php",
         "webserver", "hotlink", "maintenance", "logs"}
Shown == {"site"} \cup {tab}
Effects(t, s) == IF t = "logs" /\ t # tab THEN {"logs"} ELSE {}

-----------------------------------------------------------------------------
(* The handlers.  Four of them put the text of the configuration, each the *)
(* whole of it; two send the same firewall settings whatever the form says.*)
saveConf == Change({}, {})
saveWaf == Change({}, {})

handleSaveVhost == Flagged(saveConf, "config")
handleSaveDirectorySettings == Flagged(saveConf, "directory")
handleSaveRewriteRules == Flagged(saveConf, "rewrite")
handleSaveDefaultDocs == Flagged(saveConf, "docs")
handleSaveAccessLimits == Flagged(saveWaf, "limits")
handleSaveHotlink == Flagged(saveWaf, "hotlink")
handleApplyLetsEncrypt == Flagged(Local({"site"}), "issue")
handleDeployCustomCert == Flagged(Local({"site"}), "deploy")
\* It sends the row's status only, and shows the version it did not send.
handleSwitchPhp == Flagged(Unchecked(Patching(Change({}, {}), {"site"})), "php")
\* It sends the row's status, too.
handleSaveWebServerSettings == Flagged(Change({}, {}), "webserver")
handleToggleMaintenanceMode == Flagged(Local({"site"}), "maintenance")
poll == tab = "logs" /\ Room /\ Look(tab, sel, {"logs"})

-----------------------------------------------------------------------------
(* The regions: one per tab.                                               *)
Sidebar == \E t \in Tabs : t # tab /\ Acts /\ Look(t, sel, Effects(t, sel))

DirectoryTab == tab = "directory" /\ Does(handleSaveDirectorySettings)
LimitTab == tab = "limit" /\ Does(handleSaveAccessLimits)
RewriteTab == tab = "rewrite" /\ Does(handleSaveRewriteRules)
DefaultDocTab == tab = "defaultDoc" /\ Does(handleSaveDefaultDocs)
ConfigTab == tab = "config" /\ Does(handleSaveVhost)
SslTab == tab = "ssl" /\ (Does(handleApplyLetsEncrypt) \/ Does(handleDeployCustomCert))
PhpTab == tab = "php" /\ Does(handleSwitchPhp)
WebServerTab == tab = "webserver" /\ Does(handleSaveWebServerSettings)
HotlinkTab == tab = "hotlink" /\ Does(handleSaveHotlink)
MaintenanceTab == tab = "maintenance" /\ Does(handleToggleMaintenanceMode)
LogsTab == poll

-----------------------------------------------------------------------------
Opens == \E p \in Panes : Mount("site", p, "domain", <<"", "">>, {"site"})

\* Nothing is rendered without a website.
Acting ==
  /\ Loaded("site")
  /\ \/ Sidebar \/ DirectoryTab \/ LimitTab \/ RewriteTab \/ DefaultDocTab \/ ConfigTab
     \/ SslTab \/ PhpTab \/ WebServerTab \/ HotlinkTab \/ MaintenanceTab \/ LogsTab
=============================================================================
