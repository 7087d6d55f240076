----------------------------- MODULE BillingPage -----------------------------
(***************************************************************************)
(* Packages, subscriptions, invoices, gateways and trials                  *)
(* (apps/web/src/app/billing/page.tsx).  Every refresh is loadData, which  *)
(* fetches all six lists one after the other.  apiFetch does not throw:    *)
(* what the handlers do in a catch is never done, and those that do not    *)
(* look at the answer go on after any.  actionLoading is one flag for all  *)
(* the buttons: any of them frees the others.  Test, copy and print        *)
(* buttons, the coupon and the currency change no fetched state.           *)
(***************************************************************************)
EXTENDS PanelPage

All == {"plans", "subscriptions", "invoices", "gateways", "trialSettings", "trials"}
Panes == {Pane(p, 0, TRUE) : p \in All}
Tabs == {"packages", "subscriptions", "trials", "invoices", "gateways", "admin"}

Shown == CASE tab \in {"packages", "admin"} -> {"plans"}
           [] tab = "trials" -> {"trials", "trialSettings", "subscriptions"}
           [] OTHER -> {tab}

\* Tabs only show what is there.
Effects(t, s) == {}
Go(t) == Acts /\ Look(t, sel, {})

-----------------------------------------------------------------------------
(* The handlers.                                                           *)
loadData(writes) == Change(writes, All)
ThenTab(h, t) == Leading(h, t, <<"same", "same">>)

\* A payer comes back from the gateway.
verifyReturn == ThenTab(loadData({"invoices", "subscriptions", "trials"}), "subscriptions")
\* Unless the order is to be paid elsewhere, which leaves the page.
handleConfirmCheckout ==
  {ThenTab(loadData({"subscriptions", "invoices"}), t) : t \in {"subscriptions", "invoices"}}
handlePayInvoice == {Change({}, All), Change({}, {})}
handleCancelSubscription == Unchecked(loadData({"subscriptions", "trials"}))
handleRenewSubscription == Unchecked(loadData({"subscriptions", "invoices"}))
handleSaveGateway == loadData({"gateways"})
handleToggleGateway == Optimistic({"gateways"})
handleSavePlan == Unchecked(loadData({"plans"}))
handleDeletePlan == Unchecked(loadData({"plans"}))
handleStartFreeTrial == ThenTab(loadData({"subscriptions", "trials"}), "subscriptions")
handleSaveTrialSettings == Rewriting(Local({"trialSettings"}))
handleConfirmExtendTrial == loadData({"subscriptions", "trials"})
handleEndTrial == loadData({"subscriptions", "trials"})
handleConvertTrial ==
  ThenTab(loadData({"subscriptions", "trials", "invoices"}), "invoices")

-----------------------------------------------------------------------------
(* The regions of the page.                                                *)
TabBar ==
  \/ \E t \in Tabs : t # tab /\ Go(t)
  \/ Acts /\ ~busy /\ Look(tab, sel, All)

PlanCard ==
  /\ tab = "packages" /\ Loaded("plans")
  /\ Open("checkout") \/ Does(handleStartFreeTrial)

SubscriptionsEmpty == tab = "subscriptions" /\ Go("packages")
SubscriptionActions ==
  /\ tab = "subscriptions" /\ Loaded("subscriptions")
  /\ \/ Does(handleConvertTrial) \/ Open("extend") \/ Does(handleEndTrial)
     \/ Does(handleRenewSubscription) \/ Does(handleCancelSubscription)
     \/ Go("packages")

InvoiceRow ==
  tab = "invoices" /\ Loaded("invoices") /\ \E h \in handlePayInvoice : Does(h)

GatewayCard ==
  /\ tab = "gateways" /\ Loaded("gateways")
  /\ Does(handleToggleGateway) \/ Open("gateway")

PlanManager ==
  /\ tab = "admin"
  /\ Open("plan") \/ (Loaded("plans") /\ Does(handleDeletePlan))

TrialPolicy == tab = "trials" /\ Does(handleSaveTrialSettings)
TrialTable ==
  /\ tab = "trials"
  /\ \/ Acts /\ Look(tab, sel, All)
     \/ Go("packages")
     \/ /\ Loaded("trials")
        /\ Open("extend") \/ Does(handleConvertTrial) \/ Does(handleEndTrial)

CheckoutModal ==
  \/ \E h \in handleConfirmCheckout : In("checkout", h)
  \/ In("checkout", handleStartFreeTrial)
GatewayModal == In("gateway", handleSaveGateway)
PlanModal == In("plan", handleSavePlan)
ExtendModal == In("extend", handleConfirmExtendTrial)

-----------------------------------------------------------------------------
Opens == \E p \in Panes :
  \/ Mount("billing", p, "packages", <<"", "">>, All)
  \/ MountSending("billing", p, "packages", <<"", "">>, All, verifyReturn)

Acting ==
  \/ TabBar \/ PlanCard \/ SubscriptionsEmpty \/ SubscriptionActions
  \/ InvoiceRow \/ GatewayCard \/ PlanManager \/ TrialPolicy \/ TrialTable
  \/ CheckoutModal \/ GatewayModal \/ PlanModal \/ ExtendModal
=============================================================================
