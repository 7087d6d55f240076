---------------------------- MODULE DatabasesPage ----------------------------
(***************************************************************************)
(* Databases (apps/web/src/app/databases/page.tsx).  sel[1] is the engine  *)
(* whose tab is active: changing it fetches everything again, the list of  *)
(* databases included, which does not depend on it.  Most handlers read    *)
(* no answer: they patch the lists and report whatever happened.  Exports, *)
(* the tools' output, filters and sorting change no fetched state; the     *)
(* console, tables, remote access and health modals are components of      *)
(* their own.                                                              *)
(***************************************************************************)
EXTENDS PanelPage

CONSTANT Engines

All == {"servers", "databases", "status", "recycle", "setup"}
Panes == {Pane(p, 0, TRUE) : p \in All \ {"status"}} \cup {Pane("status", 1, TRUE)}

Shown == {"databases", "status", "recycle"}
         \cup (CASE modal = "create" -> {"servers"} [] modal = "setup" -> {"setup"} [] OTHER -> {})

Effects(t, s) == IF s[1] # sel[1] THEN All ELSE {}

-----------------------------------------------------------------------------
(* The handlers.                                                           *)
Patches(panes) == Unchecked(Local(panes))
\* It asks for the status, and so does the effect.
handleEngineChange(e) ==
  Ask(tab, <<e, "">>, Asked({"status"}, <<e, "">>, FALSE) \o Asked(All, <<e, "">>, FALSE))

handleToggleAutoBackup == Flagged(Change({}, {}), "autoBackup")
\* The answer carries the new database, or the list is fetched.
handleCreateDatabase ==
  {Flagged(Local({"databases"}), "create"), Flagged(Change({"databases"}, {"databases"}), "create")}
handleDeleteDatabase == Patches({"databases", "recycle"})
handleSaveNote == Unchecked(Optimistic({"databases"}))
handleRunTools == Staying(Flagged(Unchecked(Change({}, {})), "tools"))
handleChangePassword == Patches({"databases"})
handleChangePermission == Patches({"databases"})
handleImportSql == Staying(Flagged(Change({"databases"}, {"databases"}), "import"))
\* What it found on the server is not fetched.
handleSyncAll == Forgetting(Unchecked(Change({"databases"}, {})))
\* The ticked databases: dropped, marked as backed up, or exported.
handleExecuteBatch ==
  {Flagged(Patches({"databases"}), "batch"), Flagged(Unchecked(Change({}, {})), "batch")}
handleImmediateBackup == Patches({"databases"})
handleRestoreDb == Patches({"databases", "recycle"})
handlePermanentDelete == Patches({"recycle"})
handleChangeRootPassword == Flagged(Unchecked(Change({}, {})), "root")
\* The form holds what is being saved.
applySetup == Unchecked(Optimistic({"setup"}))

-----------------------------------------------------------------------------
(* The regions of the page.                                                *)
EngineTabs == \E e \in Engines : Acts /\ handleEngineChange(e)

AutoBackupCard == Does(handleToggleAutoBackup)

Toolbar ==
  \/ Does(handleSyncAll)
  \/ \E m \in {"create", "root", "setup", "recycle"} : Open(m)

BackupCell == Loaded("databases") /\ Does(handleImmediateBackup)
NoteCell == Loaded("databases") /\ Does(handleSaveNote)
OperateCell ==
  /\ Loaded("databases")
  /\ \/ Does(handleDeleteDatabase)
     \/ \E m \in {"permission", "tools", "password", "import"} : Open(m)

BatchFooter == Loaded("databases") /\ \E h \in handleExecuteBatch : Does(h)

CreateModal == \E h \in handleCreateDatabase : In("create", h)
RootPasswordModal == In("root", handleChangeRootPassword)
PermissionModal == In("permission", handleChangePermission)
ToolsModal == In("tools", handleRunTools)
PasswordModal == In("password", handleChangePassword)
ImportModal == In("import", handleImportSql)
RecycleBinModal ==
  /\ Loaded("recycle")
  /\ In("recycle", Staying(handleRestoreDb)) \/ In("recycle", Staying(handlePermanentDelete))
AdvancedSetupModal == In("setup", applySetup)

-----------------------------------------------------------------------------
Opens == \E p \in Panes, e \in Engines : Mount("databases", p, "list", <<e, "">>, All)

Acting ==
  \/ EngineTabs \/ AutoBackupCard \/ Toolbar
  \/ BackupCell \/ NoteCell \/ OperateCell \/ BatchFooter
  \/ CreateModal \/ RootPasswordModal \/ PermissionModal \/ ToolsModal
  \/ PasswordModal \/ ImportModal \/ RecycleBinModal \/ AdvancedSetupModal
=============================================================================
