--------------------------- MODULE OrderPayments ----------------------------
(***************************************************************************)
(* Payments of domain orders (apps/api/internal/handlers/billing.go) over  *)
(* domain provisioning: PayInvoice by an administrator,                    *)
(* VerifyInvoicePayment by the customer who returns from the gateway, and  *)
(* HandleWebhook for the gateway's own "paid" and "failed" events.  Each   *)
(* request reads the invoice, writes it, books the transaction, and only   *)
(* then marks the order paid and spawns a worker; nothing spans the steps. *)
(* An order has one invoice, so both have the order's name.                *)
(* The handlers check the store's answer when they write the invoice; that *)
(* and their other writes succeed here.                                    *)
(***************************************************************************)
EXTENDS DomainProvisioning

CONSTANTS
  Requests,     \* payment requests in flight at once
  HandlerOf,    \* the process that serves a request
  Signed,       \* the gateway has a secret and is not in test mode: its events
                \* are believed only with a signature
  PlanlessRows, \* whether the store takes invoices and transactions without a plan
  MaxRequests   \* bound on the number of requests

ASSUME PaymentAssumption ==
  /\ HandlerOf \in [Requests -> Procs]
  /\ Signed \in BOOLEAN /\ PlanlessRows \in BOOLEAN
  /\ MaxRequests \in Nat

VARIABLES
  invoice,   \* invoices: "none", "unpaid" or "paid"
  booked,    \* orders with a completed payment transaction
  noted,     \* orders whose "paid" event is in domain_webhooks
  charged,   \* orders the gateway has taken the money for
  override,  \* orders an administrator has asked to mark paid
  trusted,   \* history: orders for which a payment was believed unproven, by an
             \* unsigned event or by a reference to another payment
  request,   \* the requests
  asked      \* requests so far

payVars == <<invoice, booked, noted, charged, override, trusted, request, asked>>
vars    == <<provVars, payVars>>

Kinds == {"admin", "verify", "paid", "failed"}
Free  == [at |-> "idle", kind |-> "admin", order |-> NoOrder, seen |-> "pending"]

PaymentTypeOK ==
  /\ ProvisionTypeOK
  /\ invoice \in [Orders -> {"none", "unpaid", "paid"}]
  /\ booked \subseteq Orders /\ noted \subseteq Orders
  /\ charged \subseteq Orders /\ override \subseteq Orders /\ trusted \subseteq Orders
  /\ request \in [Requests ->
       [at : {"idle", "event", "read", "confirm", "settle", "book", "note", "order", "mark",
              "unpay"},
        kind : Kinds, order : Orders \cup {NoOrder}, seen : Provisioning]]
  /\ asked \in 0..MaxRequests

\* CreateRegistrationOrder's invoice names no plan.  The memory store takes it;
\* PostgreSQL's foreign key refuses it, the store then writes it to a memory
\* store of its own that nobody reads, and answers that it is stored.
Init ==
  /\ ProvisionInit
  /\ invoice = [o \in Orders |-> IF PlanlessRows THEN "unpaid" ELSE "none"]
  /\ booked = {} /\ noted = {} /\ charged = {} /\ override = {} /\ trusted = {}
  /\ request = [r \in Requests |-> Free]
  /\ asked = 0

Step(r, a) == request' = [request EXCEPT ![r].at = a]
Answer(r)  == request' = [request EXCEPT ![r] = Free]

KeepProvisioning == UNCHANGED provVars
KeepMoney == UNCHANGED <<charged, override, trusted, asked>>

-----------------------------------------------------------------------------
(* Customers, the gateway and administrators (external) *)

\* The gateway takes the money for an order, perhaps after failed attempts.
Charge(o) ==
  /\ charged' = charged \cup {o}
  /\ UNCHANGED <<invoice, booked, noted, override, trusted, request, asked>>
  /\ KeepProvisioning

\* A request arrives.  The gateway reports "paid" only for a charged order,
\* and may deliver any event late and more than once; without a secret, and in
\* test mode, an event of anybody is let in (the shipped gateways are so).
Arrive(r, k, o) ==
  /\ asked < MaxRequests
  /\ request[r].at = "idle"
  /\ k = "paid" /\ Signed => o \in charged
  /\ asked' = asked + 1
  /\ override' = IF k = "admin" THEN override \cup {o} ELSE override
  /\ trusted' = IF k = "paid" /\ o \notin charged THEN trusted \cup {o} ELSE trusted
  /\ request' = [request EXCEPT ![r] =
       [at |-> IF k \in {"paid", "failed"} THEN "event" ELSE "read",
        kind |-> k, order |-> o, seen |-> "pending"]]
  /\ UNCHANGED <<invoice, booked, noted, charged>> /\ KeepProvisioning

-----------------------------------------------------------------------------
(* The handlers *)

\* HandleWebhook: answer "idempotent_duplicate" to an event on record.
SeeEvent(r) ==
  /\ request[r].at = "event"
  /\ IF request[r].kind = "paid" /\ request[r].order \in noted
       THEN Answer(r) ELSE Step(r, "read")
  /\ UNCHANGED <<invoice, booked, noted>> /\ KeepMoney /\ KeepProvisioning

\* Every handler answers at once when there is no invoice or it is paid.
ReadInvoice(r) ==
  /\ request[r].at = "read"
  /\ IF invoice[request[r].order] # "unpaid" THEN Answer(r)
     ELSE Step(r, CASE request[r].kind = "failed" -> "unpay"
                    [] request[r].kind = "verify" -> "confirm"
                    [] OTHER -> "settle")
  /\ UNCHANGED <<invoice, booked, noted>> /\ KeepMoney /\ KeepProvisioning

\* Bug: the customer's word is taken for the payment.
ConfirmUnchecked(r) ==
  /\ request[r].at = "confirm"
  /\ Step(r, "settle")
  /\ UNCHANGED <<invoice, booked, noted>> /\ KeepMoney /\ KeepProvisioning

\* VerifyInvoicePayment asks the gateway about the reference that the customer
\* gives.  No verifier compares it with the invoice, only sum and currency, and
\* the guard against a second use knows of booked payments only: the money may
\* have been paid for something else.  Or the gateway knows of no payment.
Confirm(r) ==
  /\ request[r].at = "confirm"
  /\ \/ request[r].order \in charged /\ Step(r, "settle") /\ UNCHANGED trusted
     \/ Step(r, "settle") /\ trusted' = trusted \cup {request[r].order}
     \/ Answer(r) /\ UNCHANGED trusted
  /\ UNCHANGED <<invoice, booked, noted, charged, override, asked>> /\ KeepProvisioning

\* UpdateInvoice(paid) with the copy that was read.
Settle(r) ==
  /\ request[r].at = "settle"
  /\ invoice' = [invoice EXCEPT ![request[r].order] = "paid"]
  /\ Step(r, "book")
  /\ UNCHANGED <<booked, noted>> /\ KeepMoney /\ KeepProvisioning

\* UpdateInvoice(unpaid) for a "failed" event.
Unpay(r) ==
  /\ request[r].at = "unpay"
  /\ invoice' = [invoice EXCEPT ![request[r].order] = "unpaid"]
  /\ Answer(r)
  /\ UNCHANGED <<booked, noted>> /\ KeepMoney /\ KeepProvisioning

\* RecordPaymentTransaction, completed.
Book(r) ==
  /\ request[r].at = "book"
  /\ booked' = booked \cup {request[r].order}
  /\ Step(r, IF request[r].kind = "paid" THEN "note" ELSE "order")
  /\ UNCHANGED <<invoice, noted>> /\ KeepMoney /\ KeepProvisioning

\* Bug: the webhook answers as soon as the event is recorded.
NoteAnswers(r) ==
  /\ request[r].at = "note"
  /\ noted' = noted \cup {request[r].order}
  /\ Answer(r)
  /\ UNCHANGED <<invoice, booked>> /\ KeepMoney /\ KeepProvisioning

\* RecordDomainWebhook.
Note(r) ==
  /\ request[r].at = "note"
  /\ noted' = noted \cup {request[r].order}
  /\ Step(r, "order")
  /\ UNCHANGED <<invoice, booked>> /\ KeepMoney /\ KeepProvisioning

\* GetDomainOrderByInvoiceID: nothing to do for an order that is paid.
ReadOrder(r) ==
  /\ request[r].at = "order"
  /\ LET row == order[request[r].order] IN
       IF row.payment = "paid" THEN Answer(r)
       ELSE request' = [request EXCEPT ![r].at = "mark", ![r].seen = row.provisioning]
  /\ UNCHANGED <<invoice, booked, noted>> /\ KeepMoney /\ KeepProvisioning

\* UpdateDomainOrder with the copy that was read, marked paid, and a worker.
MarkOrder(r, w) ==
  /\ request[r].at = "mark"
  /\ ProcOf[w] = HandlerOf[r]
  /\ WriteOrder(request[r].order, request[r].seen)
  /\ Dispatch(w, request[r].order)
  /\ Answer(r)
  /\ UNCHANGED <<record, success, registry>> /\ KeepLocks /\ KeepBounds
  /\ UNCHANGED <<invoice, booked, noted>> /\ KeepMoney

Handle(r) ==
  \/ SeeEvent(r) \/ ReadInvoice(r) \/ Confirm(r) \/ Settle(r) \/ Unpay(r) \/ Book(r)
  \/ Note(r) \/ ReadOrder(r) \/ \E w \in Workers : MarkOrder(r, w)

-----------------------------------------------------------------------------
\* A process dies with its requests and its workers.
CrashAll(p) ==
  /\ Crash(p)
  /\ request' = [r \in Requests |-> IF HandlerOf[r] = p THEN Free ELSE request[r]]
  /\ UNCHANGED <<invoice, booked, noted, charged, override, trusted, asked>>

\* Retry, the workers, the registry and the connections are as they were.
Provision ==
  /\ \/ \E w \in Workers, o \in Orders : RetryOrder(w, o)
     \/ \E w \in Workers : Run(w)
     \/ \E n \in Names : Grab(n)
     \/ \E c \in Conns : CloseConn(c)
  /\ UNCHANGED payVars

Next ==
  \/ \E o \in Orders : Charge(o)
  \/ \E r \in Requests, k \in Kinds, o \in Orders : Arrive(r, k, o)
  \/ \E r \in Requests : Handle(r)
  \/ Provision
  \/ \E p \in Procs : CrashAll(p)

Spec == Init /\ [][Next]_vars

\* Handlers and workers go on once begun; the gateway delivers the event of a
\* charged order again as long as requests may come.
Fairness ==
  /\ \A r \in Requests : WF_vars(Handle(r))
  /\ \A w \in Workers : WF_vars(Run(w) /\ UNCHANGED payVars)
  /\ \A o \in Orders : WF_vars(\E r \in Requests : o \in charged /\ Arrive(r, "paid", o))

FairSpec == Spec /\ Fairness

-----------------------------------------------------------------------------
(* An order is paid only with the gateway's money, with an administrator's *)
(* word, or on trust: by an event that nobody had to sign (billing.go:1648)*)
(* or a reference nobody compared with the invoice (gateways.go:329); no   *)
(* whole-row write, crash or repetition pays an order besides.             *)
PaidWasCharged ==
  \A o \in Orders : order[o].payment = "paid" => o \in charged \cup override \cup trusted

(* However payers race, once none is at work and none has died every paid  *)
(* invoice has its order paid, and every paid order its transaction.       *)
QuietIsConsistent ==
  (crashes = 0 /\ \A r \in Requests : request[r].at = "idle") =>
    \A o \in Orders :
      /\ invoice[o] = "paid" => order[o].payment = "paid"
      /\ order[o].payment = "paid" => o \in booked

(* Every worker comes to an end, although connections are closed and other *)
(* processes die.                                                          *)
WorkersReturn ==
  \A w \in Workers : work[w].at # "idle" ~> work[w].at = "idle"

(* A gateway's "paid" event gets the order paid: "Once a verified payment  *)
(* webhook is received from bKash, Stripe, or PayPal, Hostvra updates the  *)
(* invoice to `paid` and invokes [the worker]",                            *)
(* docs/domains/troubleshooting.md:42.                                     *)
EventPaysOrder ==
  \A r \in Requests, o \in Orders :
    (request[r].at = "event" /\ request[r].kind = "paid" /\ request[r].order = o)
      ~> order[o].payment = "paid"
=============================================================================
