----------------------------- MODULE AccountsPage -----------------------------
(***************************************************************************)
(* Hosting accounts (apps/web/src/app/accounts/page.tsx).  Every refresh   *)
(* is loadData: accounts, plans, servers and statistics.  The forms are    *)
(* filled from the row they are opened on.  sel[2] is "" until loadData    *)
(* has chosen the form's plan and server.  Exports, filters and generated  *)
(* passwords change no fetched state; logging in as a client leaves the    *)
(* page; the webhook and reseller tabs are components of their own.        *)
(***************************************************************************)
EXTENDS PanelPage

All == {"accounts", "plans", "servers", "stats"}
Panes == {Pane(p, 0, TRUE) : p \in All}
Tabs == {"accounts", "other"}

Shown == {"stats"} \cup (IF tab = "accounts" THEN {"accounts"} ELSE {})
         \cup (CASE modal = "create" -> {"plans", "servers"} [] modal = "limits" -> {"plans"}
                 [] modal = "migrate" -> {"servers"} [] OTHER -> {})

\* loadData depends on the plan and server its first answer chooses.
Effects(t, s) == IF s[2] # sel[2] THEN All ELSE {}
chooseDefaults == sel[2] = "" /\ Look(tab, <<sel[1], "chosen">>, All)

-----------------------------------------------------------------------------
(* The handlers.  Each button is held back by its own action on its row.   *)
loadData(flag) == Flagged(Change({"accounts", "stats"}, All), flag)

handleCreateAccount == loadData("create")
handleConfirmSuspend == loadData("suspend")
handleUnsuspend == loadData("unsuspend")
handleSaveLimits == loadData("limits")
handleSyncQuota == loadData("sync")
\* Open while it shows the password it made.
handleConfirmResetPassword ==
  {Flagged(Change({}, {}), "reset"), Staying(Flagged(Change({}, {}), "reset"))}
handleSaveDetails == loadData("details")
handleConfirmMigrate == loadData("migrate")
handleConfirmTerminate == loadData("terminate")
handleRestoreAccount == loadData("restore")

-----------------------------------------------------------------------------
(* The regions of the page.                                                *)
TabBar == \E t \in Tabs : t # tab /\ Acts /\ Look(t, sel, {})

Toolbar ==
  /\ tab = "accounts"
  /\ Open("create") \/ (Acts /\ ~busy /\ Look(tab, sel, All))

AccountRow ==
  /\ tab = "accounts" /\ Loaded("accounts")
  /\ \/ Does(handleSyncQuota) \/ Does(handleUnsuspend) \/ Does(handleRestoreAccount)
     \/ \E m \in {"suspend", "limits", "reset", "details", "migrate", "terminate"} : Open(m)

CreateModal == In("create", handleCreateAccount)
SuspendModal == In("suspend", handleConfirmSuspend)
LimitsModal == In("limits", handleSaveLimits)
ResetModal == \E h \in handleConfirmResetPassword : In("reset", h)
DetailsModal == In("details", handleSaveDetails)
MigrateModal == In("migrate", handleConfirmMigrate)
TerminateModal == In("terminate", handleConfirmTerminate)

-----------------------------------------------------------------------------
Opens == \E p \in Panes : Mount("accounts", p, "accounts", <<"", "">>, All)

Acting ==
  \/ chooseDefaults \/ TabBar \/ Toolbar \/ AccountRow
  \/ CreateModal \/ SuspendModal \/ LimitsModal \/ ResetModal
  \/ DetailsModal \/ MigrateModal \/ TerminateModal
=============================================================================
