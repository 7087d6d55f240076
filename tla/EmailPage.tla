------------------------------ MODULE EmailPage ------------------------------
(***************************************************************************)
(* The mail pages (apps/web/src/app/email/page.tsx): mail servers,         *)
(* domains, mailboxes and what is fetched for one of them.  sel[1] is the  *)
(* domain or mailbox the watched pane is about: the one its modal was      *)
(* opened for, or the one its selector is at.  The relay, spam and         *)
(* migration studios and the mail client of the page are not part of this  *)
(* module.  Confirmations and wizards change no state here.                *)
(***************************************************************************)
EXTENDS PanelPage

CONSTANT Domains   \* mail domains, and one mailbox in each

Panes == {Pane("domains", 0, TRUE), Pane("mailboxes", 0, TRUE), Pane("servers", 0, TRUE),
          Pane("queue", 0, TRUE), Pane("rateControl", 0, TRUE), Pane("logs", 0, TRUE),
          Pane("suppressions", 0, TRUE), Pane("services", 0, TRUE), Pane("smtp", 1, TRUE),
          Pane("health", 1, TRUE), Pane("records", 1, TRUE), Pane("limits", 1, TRUE),
          Pane("probe", 1, TRUE)}

fetchEmailData == {"domains", "mailboxes", "servers"}
fetchQueue == {"queue", "rateControl"}

\* The tabs that fetch or change something, and "other" for the rest.
Tabs == {"servers", "mailboxes", "domains", "health", "smtp", "queue", "logs",
         "suppressions", "services", "tester", "other"}

Shown ==
  (CASE tab = "queue" -> fetchQueue [] tab \in {"tester", "other"} -> {} [] OTHER -> {tab})
  \cup (CASE modal = "dns" -> {"records"} [] modal = "limits" -> {"limits"}
          [] modal = "probe" -> {"probe"} [] OTHER -> {})

\* An entry is chosen for the panes named; the others' selectors stay.
Entry(names, d) == IF eye.name \in names THEN <<d, "">> ELSE sel
To(names, d) == <<IF eye.name \in names THEN d ELSE "same", "same">>

\* React to tab changes, and to the selectors of the two tabs that have one.
Effects(t, s) ==
  IF t # tab \/ (s # sel /\ eye.name = t) THEN
    CASE t = "queue" -> fetchQueue
      [] t \in {"servers", "logs", "suppressions", "services", "smtp", "health"} -> {t}
      [] OTHER -> {}
  ELSE {}

Go(t, s) == Acts /\ Look(t, s, Effects(t, s))

\* The first answer of fetchEmailData sets the selectors to a domain.
firstDomain ==
  \E d \in Domains : LET s == Entry({"smtp", "health"}, d) IN
    sel[1] = "" /\ s # sel /\ Look(tab, s, Effects(tab, s))

-----------------------------------------------------------------------------
(* The handlers.                                                           *)
handleCreateMailServer ==
  Flagged(Leading(Change({"servers"}, fetchEmailData), "servers", <<"same", "same">>), "server")
handleDeleteMailServer == Local({"servers"})
handleResetCooldown == Flagged(Unchecked(Change({"rateControl"}, {"rateControl"})), "cooldown")
handleSimulate421 == Flagged(Unchecked(Change({"rateControl"}, {"rateControl"})), "simulate")
handleFlushQueue == Flagged(Change(fetchQueue, fetchQueue), "flush")
handleDeleteQueueItem == Local({"queue"})
handleClearQueue == Rewriting(Flagged(Patching(Change({"queue"}, {"queue"}), {"queue"}), "clear"))
handleRemoveSuppression == Local({"suppressions"})
handleServiceAction == Change({"services"}, {"services"})

\* The answer brings the domain's records, whichever the modal is open for.
handleVerifyDNS ==
  [Flagged(Patching(Change({"domains", "records"}, {"records"}), {"domains"}), "verify")
     EXCEPT !.opens = "verified"]
handleAutoFixDNS ==
  Staying(Flagged(Patching(Change({"domains", "records"}, {"records"}), {"domains"}), "autofix"))
\* The modal is opened again for the domain it was open for.
handleRegenerateDKIM(d) ==
  Opening(Leading(Flagged(Change({"records"}, {}), "dkim"), "same", To({"records"}, d)),
          "dns", {"records"})

\* The answer brings the limits and windows of the mailbox they were saved for.
handleSaveRateLimit ==
  Staying(Flagged(Patching(Change({"mailboxes", "limits"}, {"limits"}), {"mailboxes"}), "limits"))
handleResetRateLimit == Staying(Flagged(Change({"limits"}, {"limits"}), "reset"))

\* All selectors go to the new domain, and its records are shown.
handleAddDomain(d) ==
  Opening(Leading(Flagged(Else(Local({"domains"}),
                               fetchEmailData), "addDomain"),
                  "same", To({"records", "smtp", "health"}, d)), "dns", {"records"})
handleAddMailbox ==
  [Rewriting(Flagged(Else(Local({"mailboxes"}), fetchEmailData), "addMailbox"))
     EXCEPT !.closes = "always"]
handleDeleteMailbox == Rewriting(Unchecked(Local({"mailboxes"})))
handleToggleSuspendMailbox == Local({"mailboxes"})
handleDeleteDomain == Rewriting(Unchecked(Local({"domains", "mailboxes"})))
handleSavePassword == Unchecked(Change({}, {}))
handleSendTestEmail == Flagged(Change({"queue", "logs"}, {}), "send")

openDNSModal(d) == OpenFor("dns", Entry({"records"}, d), {"records"}, {"records"})
handleOpenRateLimitModal(d) == OpenFor("limits", Entry({"limits"}, d), {"limits"}, {"limits"})
handleTestMailbox(d) == OpenFor("probe", Entry({"probe"}, d), {"probe"}, {"probe"})

-----------------------------------------------------------------------------
(* The regions of the page.                                                *)
Header ==
  \/ \E t \in {"other", "tester"} : Go(t, sel)
  \/ Loaded("domains") /\ \E d \in Domains : openDNSModal(d)
  \/ Open("addDomain") \/ Open("addMailbox")

TabBar == \E t \in Tabs : t # tab /\ Go(t, sel)

ServersTab ==
  /\ tab = "servers"
  /\ \/ Acts /\ (eye.name = "servers" => ~busy) /\ Look(tab, sel, {"servers"})
     \/ Open("addServer")
     \/ Loaded("servers") /\ Does(handleDeleteMailServer)

MailboxesTab ==
  /\ tab = "mailboxes" /\ Loaded("mailboxes")
  /\ \/ \E t \in {"other"} : Go(t, sel)
     \/ \E d \in Domains : handleOpenRateLimitModal(d) \/ handleTestMailbox(d)
     \/ Open("password")
     \/ Does(handleToggleSuspendMailbox) \/ Does(handleDeleteMailbox)

DomainsTab ==
  /\ tab = "domains"
  /\ \/ Open("addDomain")
     \/ /\ Loaded("domains")
        /\ \/ \E d \in Domains :
                openDNSModal(d) \/ (Acts /\ SubmitFor(handleVerifyDNS, Entry({"records"}, d)))
           \/ Does(handleDeleteDomain)

HealthTab ==
  /\ tab = "health"
  /\ \/ \E d \in Domains : Go(tab, Entry({"health"}, d))
     \/ sel[1] # "" /\ Acts /\ ~busy /\ Look(tab, sel, {"health"})

SmtpTab ==
  /\ tab = "smtp"
  /\ (\E d \in Domains : Go(tab, Entry({"smtp"}, d))) \/ Go("other", sel)

RateControlPanel ==
  tab = "queue" /\ Loaded("rateControl") /\ (Does(handleSimulate421) \/ Does(handleResetCooldown))

QueueTable ==
  /\ tab = "queue"
  /\ \/ Acts /\ ~busy /\ Look(tab, sel, fetchQueue)
     \/ Does(handleFlushQueue)
     \/ Loaded("queue") /\ Does(handleClearQueue)
     \/ Filled("queue") /\ Does(handleDeleteQueueItem)

LogsTab == tab = "logs" /\ Acts /\ ~busy /\ Look(tab, sel, {"logs"})

SuppressionsTab ==
  /\ tab = "suppressions"
  /\ \/ Acts /\ ~busy /\ Look(tab, sel, {"suppressions"})
     \/ Loaded("suppressions") /\ Does(handleRemoveSuppression)

ServicesTab ==
  /\ tab = "services"
  /\ \/ Acts /\ ~busy /\ Look(tab, sel, {"services"})
     \/ Loaded("services") /\ Does(handleServiceAction)

TesterTab == tab = "tester" /\ Does(handleSendTestEmail)

AddDomainModal == \E d \in Domains : In("addDomain", handleAddDomain(d))
AddMailboxModal == Loaded("domains") /\ In("addMailbox", handleAddMailbox)
DnsModalHeader ==
  \/ In("dns", handleAutoFixDNS)
  \/ \E d \in Domains : Entry({"records"}, d) = sel /\ In("dns", handleRegenerateDKIM(d))
  \/ In("dns", handleVerifyDNS)
RateLimitModal ==
  \/ In("limits", handleSaveRateLimit)
  \/ (eye.name = "limits" => ~busy) /\ In("limits", handleResetRateLimit)
PasswordModal == In("password", handleSavePassword)
ServerWizard == In("addServer", handleCreateMailServer)

-----------------------------------------------------------------------------
Opens == \E p \in Panes : Mount("email", p, "servers", <<"", "">>, fetchEmailData)

Acting ==
  \/ firstDomain \/ Header \/ TabBar
  \/ ServersTab \/ MailboxesTab \/ DomainsTab \/ HealthTab \/ SmtpTab
  \/ RateControlPanel \/ QueueTable \/ LogsTab \/ SuppressionsTab \/ ServicesTab \/ TesterTab
  \/ AddDomainModal \/ AddMailboxModal \/ DnsModalHeader \/ RateLimitModal
  \/ PasswordModal \/ ServerWizard
=============================================================================
