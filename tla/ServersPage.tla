----------------------------- MODULE ServersPage -----------------------------
(***************************************************************************)
(* The fleet of nodes and the migrations between them                      *)
(* (apps/web/src/app/servers/page.tsx).  Every refresh is fetchFleetData.  *)
(* Modals keep the row they were opened from; tokens, keys and preflight   *)
(* reports are shown once and not kept.                                    *)
(***************************************************************************)
EXTENDS PanelPage

All == {"servers", "workloads", "websites", "databases", "migrations"}
Panes == {Pane(p, 0, TRUE) : p \in All}

Shown ==
  (IF tab = "nodes" THEN {"servers", "workloads"} ELSE {"migrations"})
  \cup (IF modal = "migration" THEN {"servers", "websites", "databases"} ELSE {})

Effects(t, s) == {}

-----------------------------------------------------------------------------
(* The handlers.                                                           *)
fetchFleetData(writes) == Change(writes, All)

handleToggleMaintenance == fetchFleetData({"servers"})
handleExecuteDrain == fetchFleetData({"servers", "workloads"})
handleRotateKey == Opening(Change({}, {}), "key", {})
handleDeleteServer == fetchFleetData(All)
handleRunPreflight == Staying(Flagged(Change({}, {}), "preflight"))
handleStartMigration ==
  Leading(Flagged(fetchFleetData({"migrations"}), "migrate"), "migrations", <<"same", "same">>)
handleCutover == fetchFleetData(All)
handleRollback == fetchFleetData({"migrations"})
handleGenerateEnrollment == Staying(Flagged(Change({}, {}), "enroll"))

-----------------------------------------------------------------------------
(* The regions of the page.                                                *)
Header == (Acts /\ Look(tab, sel, All)) \/ Open("migration") \/ Open("enroll")

TabBar == \E t \in {"nodes", "migrations"} : t # tab /\ Acts /\ Look(t, sel, {})

NodeCards ==
  /\ tab = "nodes" /\ ~busy
  /\ \/ Open("enroll")
     \/ /\ Loaded("servers")
        /\ \/ Does(handleToggleMaintenance) \/ Does(handleRotateKey)
           \/ Open("drain") \/ Open("delete")

MigrationCards ==
  /\ tab = "migrations"
  /\ \/ Open("migration")
     \/ Loaded("migrations") /\ (Does(handleCutover) \/ Does(handleRollback))

MigrationModal == In("migration", handleRunPreflight) \/ In("migration", handleStartMigration)
DrainModal == In("drain", handleExecuteDrain)
DeleteModal == In("delete", handleDeleteServer)
\* Leaving it with a token in hand fetches the fleet.
EnrollModal ==
  \/ In("enroll", handleGenerateEnrollment)
  \/ modal = "enroll" /\ Room
     /\ modal' = "none" /\ queue' = queue \o Asked(All, sel, FALSE)
     /\ busy' = (busy \/ Asked(All, sel, FALSE) # <<>>)
     /\ UNCHANGED <<page, eye, tab, sel, copy, changes>>

-----------------------------------------------------------------------------
Opens == \E p \in Panes : Mount("servers", p, "nodes", <<"", "">>, All)

Acting ==
  \/ Header \/ TabBar \/ NodeCards \/ MigrationCards
  \/ MigrationModal \/ DrainModal \/ DeleteModal \/ EnrollModal
=============================================================================
