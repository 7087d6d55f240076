------------------------------ MODULE ListPages ------------------------------
(***************************************************************************)
(* The pages that are lists and modals: every list of the page is loaded   *)
(* again after whatever changed one of them.  One of them is mounted, and  *)
(* tab tells which: certificates (apps/web/src/app/ssl/page.tsx), the      *)
(* users of the administrator (admin/users), the two tabs of the firewall  *)
(* (firewall), FTP accounts (ftp), scheduled jobs (cron) and the three     *)
(* tabs of domain administration (admin/domains).                          *)
(***************************************************************************)
EXTENDS PanelPage

Certs == {"certificates", "websites"}
People == {"users", "plans"}
Firewall == {"status", "rules", "jails", "banned"}
Ftp == {"daemon", "accounts"}
Cron == {"crond", "jobs"}
Registry == {"metrics", "prices", "orders"}

FirewallTabs == {"rules", "fail2ban"}
RegistryTabs == {"prices", "orders", "connection"}

\* What the page of tab t loads, all at once or one list after the other.
Lists(t) ==
  CASE t = "ssl" -> Certs [] t = "users" -> People [] t = "ftp" -> Ftp [] t = "cron" -> Cron
    [] t \in FirewallTabs -> Firewall
    [] OTHER -> Registry

\* Only the certificates and their websites are cleared by a failure.
Panes(t) == {Pane(p, 0, t # "ssl") : p \in Lists(t)}

Shown ==
  CASE tab = "rules" -> {"status", "rules"}
    [] tab = "fail2ban" -> {"status", "jails", "banned"}
    [] tab \in {"prices", "orders"} -> {"metrics", tab}
    [] tab = "connection" -> {"metrics"}
    [] OTHER -> Lists(tab)

Effects(t, s) == {}

-----------------------------------------------------------------------------
(* The handlers.                                                           *)
Reloading(writes) == Change(writes, Lists(tab))

\* A challenge that the user must publish is shown; nothing is issued yet.
handleIssueSubmit ==
  {Flagged(Reloading({"certificates"}), "issuing"), Staying(Flagged(Change({}, {}), "issuing"))}
handleVerifyManualChallenge == Flagged(Reloading({"certificates"}), "verifying")
handleCustomImport == Flagged(Reloading({"certificates"}), "importing")
handleRenew == Reloading({"certificates"})
handleAutoRenewScan == Flagged(Reloading({"certificates"}), "scan")
handleDeleteCert == Reloading({"certificates"})

handleSavePlan == Flagged(Reloading({"users"}), "saving")
handleSaveRole == Flagged(Reloading({"users"}), "saving")
handleSaveEmail == Flagged(Reloading({"users"}), "saving")
handleSavePassword == Flagged(Reloading({}), "saving")
handleSaveOverrides == Flagged(Reloading({"users"}), "saving")
handleClearOverrides == Reloading({"users"})
handleToggleStatus == Reloading({"users"})
handleImpersonate == Change({}, {})

handleToggleFirewall == Flagged(Reloading({"status", "rules"}), "toggle")
handleAddRule == Flagged(Reloading({"rules"}), "rule")
handleDeleteRule == Reloading({"rules"})
handleBanIP == Flagged(Reloading({"jails", "banned"}), "ban")
handleUnbanIP == Reloading({"jails", "banned"})

handleCreateUser == Flagged(Reloading({"accounts"}), "add")
handleChangePassword == Flagged(Change({}, {}), "password")
handleUpdateUser == Flagged(Reloading({"accounts"}), "edit")
handleToggleUser == Local({"accounts"})

\* Bug: the deleted account stays in the list.
handleDeleteUserUnlisted == Change({"accounts"}, {})

handleDeleteUser == Reloading({"accounts"})

\* An edited job is enabled, whatever it was.
handleSubmitJob == Flagged(Reloading({"jobs"}), "job")
handleToggleJob == Local({"jobs"})
handleDeleteJob == Reloading({"jobs"})
handleRunNow == Opening(Reloading({"jobs"}), "output", {})

handleTestConnection == Flagged(Change({}, {}), "test")
handleReconciliation == Flagged(Reloading({"metrics", "orders"}), "reconcile")
handleSavePrice == Flagged(Local({"prices"}), "price")
handleRetryOrder == Reloading({"metrics", "orders"})

-----------------------------------------------------------------------------
(* The regions of the pages.                                               *)
Refresh == Acts /\ Look(tab, sel, Lists(tab))

CertHeader == Does(handleAutoRenewScan) \/ Open("issue") \/ Open("custom")
CertTable == Filled("certificates") /\ (Open("details") \/ Does(handleRenew) \/ Open("delete"))
IssueModal == \E h \in handleIssueSubmit \cup {handleVerifyManualChallenge} : In("issue", h)
CustomModal == In("custom", handleCustomImport)
DeleteModal == In("delete", handleDeleteCert)
Certificates == tab = "ssl" /\ (CertHeader \/ CertTable \/ IssueModal \/ CustomModal \/ DeleteModal)

UserTable ==
  /\ ~busy /\ Loaded("users")
  /\ \/ \E m \in {"role", "email", "password", "plan", "overrides"} : Open(m)
     \/ Does(handleToggleStatus) \/ Does(handleImpersonate) \/ Does(handleClearOverrides)
PlanModal == Loaded("plans") /\ In("plan", handleSavePlan)
OverrideModal == In("overrides", handleSaveOverrides)
RoleModal == In("role", handleSaveRole)
EmailModal == In("email", handleSaveEmail)
PasswordModal == In("password", handleSavePassword)
Users ==
  /\ tab = "users"
  /\ \/ ~busy /\ Refresh
     \/ UserTable \/ PlanModal \/ OverrideModal \/ RoleModal \/ EmailModal \/ PasswordModal

FirewallHeader == Refresh \/ Open("rule") \/ Open("ban") \/ (Loaded("status") /\ Does(handleToggleFirewall))
FirewallTabBar == \E t \in FirewallTabs : t # tab /\ Acts /\ Look(t, sel, {})
RulesTable == tab = "rules" /\ Loaded("rules") /\ Does(handleDeleteRule)
BannedTable == tab = "fail2ban" /\ Loaded("banned") /\ Does(handleUnbanIP)
RuleModal == In("rule", handleAddRule)
BanModal == In("ban", handleBanIP)
FirewallPage ==
  /\ tab \in FirewallTabs
  /\ FirewallHeader \/ FirewallTabBar \/ RulesTable \/ BannedTable \/ RuleModal \/ BanModal

AccountTable ==
  /\ Loaded("accounts")
  /\ \/ Open("password") \/ Open("edit")
     \/ Does(handleToggleUser) \/ Does(handleDeleteUser)
AddModal == In("add", handleCreateUser)
FtpPasswordModal == In("password", handleChangePassword)
EditModal == In("edit", handleUpdateUser)
FtpPage ==
  /\ tab = "ftp"
  /\ Refresh \/ Open("add") \/ AccountTable \/ AddModal \/ FtpPasswordModal \/ EditModal

JobTable ==
  /\ Loaded("jobs")
  /\ Open("job") \/ Does(handleRunNow) \/ Does(handleToggleJob) \/ Does(handleDeleteJob)
JobModal == In("job", handleSubmitJob)
CronPage == tab = "cron" /\ (Refresh \/ Open("job") \/ JobTable \/ JobModal)

RegistryHeader == Does(handleTestConnection) \/ Does(handleReconciliation)
RegistryTabBar == \E t \in RegistryTabs : t # tab /\ Acts /\ Look(t, sel, {})
PriceTable == tab = "prices" /\ Loaded("prices") /\ Open("price")
OrderTable == tab = "orders" /\ Loaded("orders") /\ Does(handleRetryOrder)
PriceModal == In("price", handleSavePrice)
RegistryPage ==
  /\ tab \in RegistryTabs
  /\ RegistryHeader \/ RegistryTabBar \/ PriceTable \/ OrderTable \/ PriceModal

-----------------------------------------------------------------------------
Opens ==
  \E t \in {"ssl", "users", "rules", "ftp", "cron", "prices"} : \E p \in Panes(t) :
    Mount("lists", p, t, <<"", "">>, Lists(t))

Acting == Certificates \/ Users \/ FirewallPage \/ FtpPage \/ CronPage \/ RegistryPage
=============================================================================
