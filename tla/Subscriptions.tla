--------------------------- MODULE Subscriptions ---------------------------
(***************************************************************************)
(* Subscriptions of one customer (apps/api/internal/handlers/billing.go    *)
(* over the PostgreSQL store): orders and free trials, payments by the     *)
(* customer, the gateway and an administrator, the changes of a status by  *)
(* hand, the quota service's write-back, and the hourly lifecycle worker   *)
(* that suspends those who do not pay.  Every request reads a row, goes on *)
(* without a lock and writes the row back; what happens between two        *)
(* statements is a step of somebody else.                                  *)
(* A subscription has one invoice that matters, so both have its name.     *)
(***************************************************************************)
EXTENDS Naturals, FiniteSets

CONSTANTS
  Subs,         \* subscriptions of the customer
  Requests,     \* requests in flight at once
  NoSub,        \* the subscription of an idle request
  Signed,       \* the gateway has a secret and is not in test mode: its events
                \* are believed only with a signature
  MaxRequests,  \* bound on the number of requests
  MaxCrashes    \* bound on the number of crashes

ASSUME SubscriptionAssumption ==
  /\ IsFiniteSet(Subs) /\ NoSub \notin Subs /\ Signed \in BOOLEAN
  /\ MaxRequests \in Nat /\ MaxCrashes \in Nat

VARIABLES
  sub,        \* subscriptions.status
  invoice,    \* invoices.status
  age,        \* 0: not due, 1: past its due date, 2: more than 48 hours past it
  account,    \* hosting_accounts.status of the customer's account
  site,       \* websites.status of the account's domain
  noted,      \* subscriptions whose "paid" event is in domain_webhooks
  charged,    \* history: the gateway has the money
  granted,    \* history: renewed, converted or marked paid by hand
  trusted,    \* history: a payment was believed unproven, by an unsigned event
              \* or by a reference to another payment
  activated,  \* history: a payment has set it active
  request,    \* the requests
  sweep,      \* the lifecycle worker
  asked, crashes

rows    == <<sub, invoice, account, site, noted>>
history == <<charged, granted, trusted, activated>>
bounds  == <<asked, crashes>>
vars    == <<rows, history, age, request, sweep, bounds>>

Statuses  == {"none", "pending", "trial", "active", "suspended", "cancelled", "expired"}
Bills     == {"none", "unpaid", "overdue", "paid"}
Hosting   == {"none", "active", "suspended"}
Events    == {"paid", "failed"}
Payments  == Events \cup {"verify", "admin", "checkout"}
Changes   == {"cancel", "renew", "extend", "end", "resolve"}  \* ConvertTrial is a "renew"
Openings  == {"buy", "trial"}
Kinds     == Openings \cup Payments \cup Changes
Free      == [at |-> "idle", kind |-> "buy", sub |-> NoSub, seen |-> "none"]
Asleep    == [at |-> "idle", late |-> {}, bad |-> {}, sub |-> NoSub]

Places == {"idle", "claims", "create", "bill", "event", "read", "confirm", "settle", "unpay",
           "rewrite", "load", "activate", "accounts", "open", "vhost", "enable", "revive",
           "site", "note", "lapse", "store"}
Row    == [at : Places, kind : Kinds, sub : Subs \cup {NoSub},
           seen : Statuses \cup Bills \cup Hosting]

SubTypeOK ==
  /\ sub \in [Subs -> Statuses]
  /\ invoice \in [Subs -> Bills]
  /\ age \in [Subs -> 0..2]
  /\ account \in Hosting /\ site \in Hosting
  /\ noted \subseteq Subs /\ charged \subseteq Subs
  /\ granted \subseteq Subs /\ trusted \subseteq Subs /\ activated \subseteq Subs
  /\ request \in [Requests -> Row]
  /\ sweep \in [at : {"idle", "next", "suspend", "accounts", "account", "site"},
                late : SUBSET Subs, bad : SUBSET Subs, sub : Subs \cup {NoSub}]
  /\ asked \in 0..MaxRequests /\ crashes \in 0..MaxCrashes

\* The customer may already have an account that an operator made.
Init ==
  /\ sub = [s \in Subs |-> "none"] /\ invoice = [s \in Subs |-> "none"]
  /\ age = [s \in Subs |-> 0]
  /\ account \in {"none", "active"} /\ site = account
  /\ noted = {} /\ charged = {} /\ granted = {} /\ trusted = {} /\ activated = {}
  /\ request = [r \in Requests |-> Free] /\ sweep = Asleep
  /\ asked = 0 /\ crashes = 0

Mine(r)    == request[r].sub
Kind(r)    == request[r].kind
At(r, a)   == request[r].at = a
Step(r, a) == request' = [request EXCEPT ![r].at = a]
See(r, a, x) == request' = [request EXCEPT ![r].at = a, ![r].seen = x]
Answer(r)  == request' = [request EXCEPT ![r] = Free]

SetSub(s, x)     == sub' = [sub EXCEPT ![s] = x]
SetInvoice(s, x) == invoice' = [invoice EXCEPT ![s] = x]

\* What a step of a handler leaves alone, by the row it writes.
KeepOthers  == UNCHANGED <<age, charged, granted, trusted, sweep, bounds>>
OnlySub     == UNCHANGED <<invoice, account, site, noted>> /\ KeepOthers
OnlyInvoice == UNCHANGED <<sub, account, site, noted, activated>> /\ KeepOthers
OnlyAccount == UNCHANGED <<sub, invoice, site, noted, activated>> /\ KeepOthers
OnlySite    == UNCHANGED <<sub, invoice, account, noted, activated>> /\ KeepOthers
OnlyReads   == UNCHANGED <<rows, activated>> /\ KeepOthers

-----------------------------------------------------------------------------
(* The world outside *)

\* There is a reason for it to be active; the first one is kept.
Funded == charged \cup granted \cup trusted

Outstanding(s) == invoice[s] \in {"unpaid", "overdue"}

\* The gateway takes the customer's money for an invoice.  (Money for a paid
\* invoice changes nothing: its events are answered at once.  Nor does money for
\* one granted or believed paid, where its event needs no money.)
Charge(s) ==
  /\ Outstanding(s)
  /\ Signed \/ s \notin granted \cup trusted
  /\ charged' = charged \cup {s}
  /\ UNCHANGED <<rows, age, granted, trusted, activated, request, sweep, bounds>>

\* Days pass; they matter for invoices that are not paid and for trials.
Age(s) ==
  /\ Outstanding(s) \/ sub[s] = "trial"
  /\ age[s] < 2
  /\ age' = [age EXCEPT ![s] = @ + 1]
  /\ UNCHANGED <<rows, history, request, sweep, bounds>>

\* A subscription that nobody has heard of.
New(s) == sub[s] = "none" /\ \A q \in Requests : Mine(q) # s

\* A request arrives: for a new subscription, or for one on record.  Which new
\* id it gets makes no difference, nor which free slot.  A request for a row
\* that is not there is answered "not found" and changes nothing.  The gateway
\* reports "paid" only for a charged invoice, late or repeatedly; without a
\* secret, and in test mode, an event of anybody is let in.
Arrive(r, k, s) ==
  /\ asked < MaxRequests
  /\ At(r, "idle") /\ r = CHOOSE q \in Requests : At(q, "idle")
  /\ k \in Openings => New(s) /\ s = CHOOSE t \in Subs : New(t)
  /\ k \in Payments => invoice[s] # "none"
  /\ k \in Changes  => sub[s] # "none"
  /\ k = "paid" /\ Signed => s \in charged
  /\ asked' = asked + 1
  /\ granted' = granted \cup (IF k \in {"admin", "renew"} THEN {s} \ Funded ELSE {})
  /\ trusted' = trusted \cup (IF k = "paid" THEN {s} \ Funded ELSE {})
  /\ request' = [request EXCEPT ![r] =
       [at |-> CASE k = "buy" -> "create" [] k = "trial" -> "claims"
                 [] k \in Events -> "event" [] k = "resolve" -> "load"
                 [] k \in Changes \ {"resolve"} -> "store"
                 [] k \in Payments \ Events -> "read",
        kind |-> k, sub |-> s, seen |-> "none"]]
  /\ UNCHANGED <<rows, charged, activated, age, sweep, crashes>>

-----------------------------------------------------------------------------
(* CreateSubscription, CreateCheckoutSession *)

\* One trial per customer: refused while a subscription is a trial.  The dates
\* of a trial that is over would also tell, but the store does not keep them.
Claims(r) ==
  /\ At(r, "claims")
  /\ IF \E s \in Subs : sub[s] = "trial" THEN Answer(r) ELSE Step(r, "create")
  /\ OnlyReads

\* CreateSubscription: a trial at once, an order pending.
Create(r) ==
  /\ At(r, "create")
  /\ SetSub(Mine(r), IF Kind(r) = "trial" THEN "trial" ELSE "pending")
  /\ Step(r, "bill")
  /\ OnlySub /\ UNCHANGED activated

\* CreateInvoice: of nothing and paid for a trial, due when the trial is over.
Bill(r) ==
  /\ At(r, "bill")
  /\ SetInvoice(Mine(r), IF Kind(r) = "trial" THEN "paid" ELSE "unpaid")
  /\ IF Kind(r) = "trial" THEN Step(r, "accounts") ELSE Answer(r)
  /\ OnlyInvoice

-----------------------------------------------------------------------------
(* HandleWebhook, VerifyInvoicePayment, PayInvoice, CheckoutInvoice *)

\* An event on record is answered as a duplicate.
SeeEvent(r) ==
  /\ At(r, "event")
  /\ IF Kind(r) = "paid" /\ Mine(r) \in noted THEN Answer(r) ELSE Step(r, "read")
  /\ OnlyReads

\* All four answer at once when the invoice is paid.
ReadInvoice(r) ==
  /\ At(r, "read")
  /\ IF invoice[Mine(r)] = "paid" THEN Answer(r)
     ELSE IF Kind(r) = "checkout" THEN See(r, "rewrite", invoice[Mine(r)])
     ELSE Step(r, CASE Kind(r) = "failed" -> "unpay" [] Kind(r) = "verify" -> "confirm"
                    [] OTHER -> "settle")
  /\ OnlyReads

\* Bug: the customer's reference is not shown to the gateway.
ConfirmUnchecked(r) ==
  /\ At(r, "confirm")
  /\ Step(r, "settle")
  /\ OnlyReads

\* VerifyInvoicePayment asks the gateway about the reference that the customer
\* gives.  No verifier compares it with the invoice, only sum and currency, and
\* the payments of subscriptions are not booked (see Note), so that nothing
\* tells a second use: the money may have been paid for something else.
Confirm(r) ==
  /\ At(r, "confirm")
  /\ \/ Step(r, "settle") /\ trusted' = trusted \cup ({Mine(r)} \ Funded)
     \/ Answer(r) /\ UNCHANGED trusted
  /\ UNCHANGED <<rows, charged, granted, activated, age, sweep, bounds>>

\* Bug: the row is built anew and its status forgotten.
RewriteBlank(r) ==
  /\ At(r, "rewrite")
  /\ SetInvoice(Mine(r), "")
  /\ Answer(r)
  /\ OnlyInvoice

\* CheckoutInvoice writes the row it read back with the chosen gateway.
Rewrite(r) ==
  /\ At(r, "rewrite")
  /\ SetInvoice(Mine(r), request[r].seen)
  /\ Answer(r)
  /\ OnlyInvoice

\* A "failed" event.
Unpay(r) ==
  /\ At(r, "unpay")
  /\ SetInvoice(Mine(r), "unpaid")
  /\ Answer(r)
  /\ OnlyInvoice

\* Bug: a webhook is put on record before it has activated anything.
SettleNotes(r) ==
  /\ At(r, "settle")
  /\ SetInvoice(Mine(r), "paid")
  /\ Step(r, IF Kind(r) = "paid" THEN "note" ELSE "activate")
  /\ OnlyInvoice

Settle(r) ==
  /\ At(r, "settle")
  /\ SetInvoice(Mine(r), "paid")
  /\ Step(r, "activate")
  /\ OnlyInvoice

\* The subscription of a paid invoice becomes active, whatever it was.
Activate(r) ==
  /\ At(r, "activate")
  /\ SetSub(Mine(r), "active")
  /\ activated' = activated \cup {Mine(r)}
  /\ Step(r, "accounts")
  /\ OnlySub

\* RecordDomainWebhook.  (RecordPaymentTransaction is left out: the invoice was
\* read without its organization, so the row is refused and the error dropped.)
Note(r) ==
  /\ At(r, "note")
  /\ noted' = noted \cup {Mine(r)}
  /\ Answer(r)
  /\ UNCHANGED <<sub, invoice, account, site, activated>> /\ KeepOthers

-----------------------------------------------------------------------------
(* provisionUserForPlan, autoProvisionAccount *)

\* A webhook is put on record last, the others have their answer.
Finish(r) == IF Kind(r) = "paid" THEN Step(r, "note") ELSE Answer(r)

\* The accounts of the customer are listed.  An account is opened for a trial
\* only: a payer's organization was not read, so that row is refused, too.
ListAccounts(r) ==
  /\ At(r, "accounts")
  /\ IF account # "none" THEN Step(r, IF account = "suspended" THEN "revive" ELSE "enable")
     ELSE IF Kind(r) = "trial" THEN Step(r, "open") ELSE Finish(r)
  /\ OnlyReads

\* CreateHostingAccount; a second account for the same domain is refused.
Open(r) ==
  /\ At(r, "open")
  /\ account' = IF account = "none" THEN "active" ELSE account
  /\ Step(r, "vhost")
  /\ OnlyAccount

\* CreateWebsite; a second one for the same domain is refused.
Vhost(r) ==
  /\ At(r, "vhost")
  /\ site' = IF site = "none" THEN "active" ELSE site
  /\ Answer(r)
  /\ OnlySite

\* UpdateHostingAccount with the new plan; the site follows if the account
\* was seen suspended.
Enable(r) ==
  /\ At(r, "enable") \/ At(r, "revive")
  /\ account' = "active"
  /\ IF At(r, "revive") THEN Step(r, "site") ELSE Finish(r)
  /\ OnlyAccount

EnableSite(r) ==
  /\ At(r, "site")
  /\ site' = IF site = "suspended" THEN "active" ELSE site
  /\ Finish(r)
  /\ OnlySite

-----------------------------------------------------------------------------
(* CancelSubscription, RenewSubscription, ExtendTrial, EndTrial,           *)
(* ConvertTrial, and the quota service's ResolveEffectivePlan              *)

\* ListSubscriptions of the quota service, which writes back what it has seen.
\* The handlers decide nothing by the row they read, so their read is no step.
Load(r) ==
  /\ At(r, "load")
  /\ See(r, IF sub[Mine(r)] = "active" THEN "lapse" ELSE "store", sub[Mine(r)])
  /\ OnlyReads

\* An active subscription that does not renew itself expires a week after its
\* billing date, which may or may not have come.
Lapse(r) ==
  /\ At(r, "lapse")
  /\ \/ Step(r, "store") /\ UNCHANGED sub
     \/ SetSub(Mine(r), "expired") /\ See(r, "store", "expired")
  /\ OnlySub /\ UNCHANGED activated

\* UpdateSubscription.  The quota service writes the status it has seen, when
\* the disk usage on record was stale.
Store(r) ==
  /\ At(r, "store")
  /\ \/ SetSub(Mine(r), CASE Kind(r) = "cancel" -> "cancelled" [] Kind(r) = "extend" -> "trial"
                          [] Kind(r) = "end" -> "expired" [] Kind(r) = "renew" -> "active"
                          [] OTHER -> request[r].seen)
     \/ Kind(r) = "resolve" /\ UNCHANGED sub
  /\ Answer(r)
  /\ OnlySub /\ UNCHANGED activated

Handle(r) ==
  \/ Claims(r) \/ Create(r) \/ Bill(r)
  \/ SeeEvent(r) \/ ReadInvoice(r) \/ Confirm(r) \/ Rewrite(r) \/ Unpay(r) \/ Settle(r)
  \/ Activate(r) \/ Note(r)
  \/ ListAccounts(r) \/ Open(r) \/ Vhost(r) \/ Enable(r) \/ EnableSite(r)
  \/ Load(r) \/ Lapse(r) \/ Store(r)

-----------------------------------------------------------------------------
(* ProcessBillingLifecycle.  Its second part, for trials that are over,    *)
(* selects by a date that no row has: the store neither writes nor reads   *)
(* trial_ends_at.                                                          *)

SweepKeeps == UNCHANGED <<age, noted, history, request, bounds>>

\* Bug: the grace period of 48 hours is forgotten.
SweepHarsh ==
  /\ sweep.at = "idle"
  /\ \E s \in Subs : Outstanding(s) /\ age[s] > 0
  /\ sweep' = [at |-> "next", sub |-> NoSub,
               late |-> {s \in Subs : invoice[s] = "unpaid" /\ age[s] > 0},
               bad  |-> {s \in Subs : Outstanding(s) /\ age[s] > 0}]
  /\ UNCHANGED <<sub, invoice, account, site>> /\ SweepKeeps

\* Bug: only invoices that this pass finds late are acted on.
SweepOnce ==
  /\ sweep.at = "idle"
  /\ \E s \in Subs : Outstanding(s) /\ age[s] > 0
  /\ sweep' = [at |-> "next", sub |-> NoSub,
               late |-> {s \in Subs : invoice[s] = "unpaid" /\ age[s] > 0},
               bad  |-> {s \in Subs : invoice[s] = "unpaid" /\ age[s] = 2}]
  /\ UNCHANGED <<sub, invoice, account, site>> /\ SweepKeeps

\* ListInvoices at one moment: the late ones, and those past their grace.  A
\* pass that finds neither changes nothing.
SweepList ==
  /\ sweep.at = "idle"
  /\ \E s \in Subs : Outstanding(s) /\ age[s] > 0
  /\ sweep' = [at |-> "next", sub |-> NoSub,
               late |-> {s \in Subs : invoice[s] = "unpaid" /\ age[s] > 0},
               bad  |-> {s \in Subs : Outstanding(s) /\ age[s] = 2}]
  /\ UNCHANGED <<sub, invoice, account, site>> /\ SweepKeeps

\* UpdateInvoice(overdue) with the row that was listed; the same invoice's
\* subscription is looked at next.
SweepMark(s) ==
  /\ sweep.at = "next" /\ sweep.sub = NoSub /\ s \in sweep.late
  /\ SetInvoice(s, "overdue")
  /\ sweep' = [sweep EXCEPT !.late = @ \ {s}, !.sub = IF s \in sweep.bad THEN s ELSE NoSub]
  /\ UNCHANGED <<sub, account, site>> /\ SweepKeeps

\* GetSubscriptionByID: only an active one is suspended.
SweepFetch(s) ==
  /\ sweep.at = "next" /\ s \in sweep.bad \ sweep.late /\ sweep.sub \in {NoSub, s}
  /\ sweep' = [sweep EXCEPT !.bad = @ \ {s}, !.sub = IF sub[s] = "active" THEN s ELSE NoSub,
                            !.at = IF sub[s] = "active" THEN "suspend" ELSE "next"]
  /\ UNCHANGED <<sub, invoice, account, site>> /\ SweepKeeps

SweepSuspend ==
  /\ sweep.at = "suspend"
  /\ SetSub(sweep.sub, "suspended")
  /\ sweep' = [sweep EXCEPT !.at = "accounts", !.sub = NoSub]
  /\ UNCHANGED <<invoice, account, site>> /\ SweepKeeps

\* ListHostingAccounts: every active account of the customer is suspended,
\* whichever subscription it belongs to.
SweepAccounts ==
  /\ sweep.at = "accounts"
  /\ sweep' = [sweep EXCEPT !.at = IF account = "active" THEN "account" ELSE "next"]
  /\ UNCHANGED <<sub, invoice, account, site>> /\ SweepKeeps

SweepAccount ==
  /\ sweep.at = "account"
  /\ account' = "suspended"
  /\ sweep' = [sweep EXCEPT !.at = "site"]
  /\ UNCHANGED <<sub, invoice, site>> /\ SweepKeeps

SweepSite ==
  /\ sweep.at = "site"
  /\ site' = IF site = "active" THEN "suspended" ELSE site
  /\ sweep' = [sweep EXCEPT !.at = "next"]
  /\ UNCHANGED <<sub, invoice, account>> /\ SweepKeeps

SweepEnd ==
  /\ sweep.at = "next" /\ sweep.late = {} /\ sweep.bad = {}
  /\ sweep' = Asleep
  /\ UNCHANGED <<sub, invoice, account, site>> /\ SweepKeeps

Sweep ==
  \/ SweepList \/ \E s \in Subs : SweepMark(s) \/ SweepFetch(s)
  \/ SweepSuspend \/ SweepAccounts \/ SweepAccount \/ SweepSite \/ SweepEnd

-----------------------------------------------------------------------------
\* The process dies with its requests and its worker, and is started again.
Crash ==
  /\ crashes < MaxCrashes
  /\ sweep # Asleep \/ \E r \in Requests : request[r] # Free
  /\ crashes' = crashes + 1
  /\ request' = [r \in Requests |-> Free] /\ sweep' = Asleep
  /\ UNCHANGED <<rows, history, age, asked>>

Next ==
  \/ \E s \in Subs : Charge(s) \/ Age(s)
  \/ \E r \in Requests, k \in Kinds, s \in Subs : Arrive(r, k, s)
  \/ \E r \in Requests : Handle(r)
  \/ Sweep
  \/ Crash

Spec == Init /\ [][Next]_vars

\* The worker's ticker never stops, and a request once begun goes on.
FairSpec == Spec /\ WF_vars(Sweep) /\ \A r \in Requests : WF_vars(Handle(r))

-----------------------------------------------------------------------------
(* No subscription is active, after whatever races and stale writes,       *)
(* unless the gateway has its money, somebody renewed, converted or marked *)
(* it paid by hand, or a payment was believed: an event that nobody had to *)
(* sign (billing.go:1648) or a reference that nobody compared with the     *)
(* invoice (gateways.go:329) ("NEVER activate without verified payment!",  *)
(* billing.go:857).                                                        *)
ActiveWasPaid ==
  \A s \in Subs : sub[s] = "active" => s \in Funded

(* A gateway's event is on record only after it, or another payment, has   *)
(* activated the subscription: the gateway's repetition after a crash is   *)
(* not taken for a duplicate too early (billing.go:1808).                  *)
NotedWasActivated == noted \subseteq activated

(* Nobody is suspended before an invoice is more than 48 hours late:       *)
(* "overdue past 2-day grace period (48h)", billing.go:2322.               *)
GraceIsKept ==
  (account = "suspended" \/ \E s \in Subs : sub[s] = "suspended") =>
    \E s \in Subs : age[s] = 2

(* The worker suspends in the end who does not pay, although passes are    *)
(* cut short by crashes and race with everybody else (billing.go:2323).    *)
NonPayerIsSuspended ==
  \A s \in Subs :
    (Outstanding(s) /\ age[s] = 2 /\ sub[s] = "active")
      ~> (sub[s] # "active" \/ invoice[s] = "paid")
=============================================================================
