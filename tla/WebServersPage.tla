--------------------------- MODULE WebServersPage ---------------------------
(***************************************************************************)
(* Web servers of a node (apps/web/src/app/webservers/page.tsx).  sel[1]   *)
(* is the node, sel[2] the engine whose master configuration the editor    *)
(* shows.  The virtual host a modal inspects is read once and not kept.    *)
(***************************************************************************)
EXTENDS PanelPage

CONSTANTS Servers, Engines

Data == {"engines", "conflicts", "websites"}
Panes == {Pane("servers", 0, TRUE), Pane("websites", 0, TRUE), Pane("engines", 1, TRUE),
          Pane("conflicts", 1, TRUE), Pane("config", 2, TRUE)}

Shown ==
  {"servers", "conflicts"} \cup
  CASE tab = "overview" -> {"engines"}
    [] tab = "vhosts" -> {"websites"}
    [] OTHER -> {tab}

Effects(t, s) ==
  (IF s[1] # sel[1] THEN Data ELSE {})
  \cup (IF t = "config" /\ (t # tab \/ s # sel) THEN {"config"} ELSE {})
Go(t, s) == Look(t, s, Effects(t, s))

-----------------------------------------------------------------------------
(* The handlers.                                                           *)
fetchServerData(writes) == Change(writes, Data)

\* The first server answered is the one selected.
loadServers == sel[1] = "" /\ Loaded("servers") /\ \E v \in Servers : Go(tab, <<v, sel[2]>>)
loadMasterConfig == \E e \in Engines : e # sel[2] /\ Acts /\ Go(tab, <<sel[1], e>>)
\* The editor holds what is being saved, whichever engine's text it is.
handleSaveConfig == Flagged(Optimistic({"config"}), "config")
handleServiceAction == Flagged(fetchServerData({"engines", "conflicts"}), "action")
handleInstall == Flagged(fetchServerData({"engines", "conflicts"}), "action")
handleUninstall == Flagged(fetchServerData({"engines", "conflicts"}), "action")
handleExecuteMigration == Flagged(fetchServerData(Data), "migrate")
handleSwitchWebsite == Flagged(fetchServerData({"websites"}), "switch")
handleInspectVHost == Change({}, {})

-----------------------------------------------------------------------------
(* The regions of the page.                                                *)
Header ==
  \/ Acts /\ Loaded("servers") /\ \E v \in Servers : v # sel[1] /\ Go(tab, <<v, sel[2]>>)
  \/ Acts /\ ~busy /\ sel[1] # "" /\ Look(tab, sel, Data)

TabBar == \E t \in {"overview", "vhosts", "migration", "config"} : t # tab /\ Acts /\ Go(t, sel)

EngineCards ==
  /\ tab = "overview" /\ Loaded("engines")
  /\ Does(handleServiceAction) \/ Does(handleInstall) \/ Does(handleUninstall)

VHostsTab ==
  tab = "vhosts" /\ Loaded("websites") /\ (Does(handleSwitchWebsite) \/ Does(handleInspectVHost))

MigrationTab == tab = "migration" /\ Does(handleExecuteMigration)

ConfigTab ==
  /\ tab = "config"
  /\ \/ loadMasterConfig
     \/ (eye.name = "config" => ~busy) /\ Does(handleSaveConfig)

-----------------------------------------------------------------------------
Opens == \E p \in Panes, e \in Engines : Mount("webservers", p, "overview", <<"", e>>, {"servers"})

Acting ==
  \/ loadServers
  \/ /\ sel[1] # ""
     /\ Header \/ TabBar \/ EngineCards \/ VHostsTab \/ MigrationTab \/ ConfigTab
=============================================================================
