---------------------------- MODULE DomainsPage ----------------------------
(***************************************************************************)
(* Registered domains (apps/web/src/app/domains/page.tsx): fetchAllData    *)
(* refreshes every list at once; the management modal works on one domain, *)
(* sel[1], in the sub-tab sel[2], whose click fetches what it shows.       *)
(* Currency, filters and the order form's fields change no fetched state.  *)
(***************************************************************************)
EXTENDS PanelPage

CONSTANT Domains

All == {"registered", "websites", "tlds"}
Managed == {"nameservers", "lock", "dns", "epp", "contacts"}
Panes == {Pane(p, 0, TRUE) : p \in All \cup {"whois"}} \cup {Pane("results", 0, FALSE)}
         \cup {Pane(p, 1, p # "dns") : p \in Managed}

Shown ==
  (CASE tab = "registered" -> {"registered"}
     [] tab = "search" -> {"results", "tlds"}
     [] tab = "hosted" -> {"websites"}
     [] tab = "whois" -> {"whois"}
     [] OTHER -> {})
  \cup IF modal # "manage" THEN {}
       ELSE IF sel[2] = "security" THEN {"lock", "epp"} ELSE {sel[2]}

Effects(t, s) == {}
Within(m) == modal = m /\ Room

-----------------------------------------------------------------------------
(* The handlers.                                                           *)
fetchAllData(writes) == Change(writes, All)

\* The row stands in until the domain's own values are fetched.
openManageModal(d) ==
  OpenFor("manage", <<d, "nameservers">>, {"nameservers", "lock", "epp"}, {"nameservers", "lock"})

\* The form holds what is being saved.
handleSaveNameservers == Staying(Flagged(Optimistic({"nameservers"}), "ns"))
handleLoadDomainDns == {"dns"}
handleAddDomainDns == Staying(Flagged(Putting(Local({"dns"})), "addDns"))
handleDeleteDomainDns == Staying(Local({"dns"}))
\* The row behind the modal keeps its old lock.
handleToggleLock ==
  Staying(Flagged(IF eye.name = "registered" THEN Forgetting(Change({"registered"}, {}))
                  ELSE Putting(Local({"lock"})), "lock"))
handleFetchEppCode == {"epp"}
handleLoadContacts == {"contacts"}
handleRenewDomain == Flagged(fetchAllData({"registered"}), "renew")
handleDomainSearch == {"results"}
handleOrderRegistrationSubmit == Flagged(fetchAllData({"registered"}), "order")
handleTransferSubmit == Flagged(fetchAllData({"registered"}), "transfer")
handleWhoisLookup == OpenFor("none", sel, {"whois"}, {"whois"})

-----------------------------------------------------------------------------
(* The regions of the page.                                                *)
TabBar == \E t \in {"registered", "search", "transfer", "hosted", "whois"} :
            t # tab /\ Acts /\ Look(t, sel, {})

Refresh == Acts /\ ~busy /\ Look(tab, sel, All)

RegisteredTab ==
  /\ tab = "registered"
  /\ \/ Refresh
     \/ Filled("registered") /\ \E d \in Domains : openManageModal(d)

SearchTab ==
  /\ tab = "search"
  /\ \/ Acts /\ ~busy /\ Look(tab, sel, handleDomainSearch)
     \/ Loaded("results") /\ Open("order")

TransferTab == tab = "transfer" /\ Does(handleTransferSubmit)
HostedTab == tab = "hosted" /\ Refresh
WhoisTab == tab = "whois" /\ ~busy /\ handleWhoisLookup

SubTabs ==
  /\ Within("manage")
  /\ \E t \in {"nameservers", "dns", "security", "renew", "contacts"} :
       Look(tab, <<sel[1], t>>, CASE t = "dns" -> handleLoadDomainDns
                                  [] t = "contacts" -> handleLoadContacts
                                  [] OTHER -> {})

NameserverForm == sel[2] = "nameservers" /\ In("manage", handleSaveNameservers)

DnsTab ==
  /\ sel[2] = "dns"
  /\ \/ In("manage", handleAddDomainDns)
     \/ Filled("dns") /\ In("manage", handleDeleteDomainDns)

SecurityTab ==
  /\ sel[2] = "security"
  /\ \/ In("manage", handleToggleLock)
     \/ /\ Within("manage") /\ ~busy /\ (eye.name = "epp" => copy.of = NoKey)
        /\ Look(tab, sel, handleFetchEppCode)

RenewTab == sel[2] = "renew" /\ In("manage", handleRenewDomain)

ManageModal == NameserverForm \/ DnsTab \/ SecurityTab \/ RenewTab

OrderModal == In("order", handleOrderRegistrationSubmit)

-----------------------------------------------------------------------------
Opens == \E p \in Panes, t \in {"registered", "search"} : Mount("domains", p, t, <<"", "">>, All)

Acting ==
  \/ TabBar \/ RegisteredTab \/ SearchTab \/ TransferTab \/ HostedTab \/ WhoisTab
  \/ SubTabs \/ ManageModal \/ OrderModal
=============================================================================
