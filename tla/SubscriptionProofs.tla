------------------------ MODULE SubscriptionProofs -------------------------
(***************************************************************************)
(* Theorems about the subscriptions of a customer, for any number of       *)
(* subscriptions, requests and crashes.                                    *)
(***************************************************************************)
EXTENDS Subscriptions, TLAPS

SomeoneLate == \E s \in Subs : age[s] = 2

\* What a request knows when it has come to a step.
RowOK(row) ==
  /\ row \in Row
  /\ row.at # "idle" => row.sub \in Subs
  /\ row.at \in {"claims", "create", "bill"} => row.kind \in Openings
  /\ row.at = "event" => row.kind \in Events
  /\ row.at = "read" => row.kind \in Payments
  /\ row.at = "confirm" => row.kind = "verify"
  /\ row.at = "rewrite" => row.seen \in Bills
  /\ row.at \in {"load", "lapse"} => row.kind = "resolve"
  /\ row.at = "store" => row.kind \in Changes
  /\ row.kind \in {"paid", "admin", "renew"} => row.sub \in Funded
  /\ row.at \in {"settle", "activate"} =>
       row.kind \in {"paid", "admin", "verify"} /\ row.sub \in Funded
  /\ row.at = "lapse" => row.seen = "active"
  /\ row.at = "store" /\ row.kind = "resolve" =>
       /\ row.seen \in Statuses
       /\ row.seen = "active" => row.sub \in Funded
       /\ row.seen = "suspended" => SomeoneLate
  /\ row.at = "lapse" => row.sub \in Funded
  /\ row.at = "note" => row.kind = "paid"
  /\ (row.kind = "paid" /\ row.at \in {"accounts", "open", "vhost", "enable", "revive",
                                        "site", "note"}) => row.sub \in activated

RequestsOK == request \in [Requests -> Row] /\ \A r \in Requests : RowOK(request[r])

\* What the rows of the tables say.
TablesOK ==
  /\ sub \in [Subs -> Statuses] /\ invoice \in [Subs -> Bills] /\ age \in [Subs -> 0..2]
  /\ account \in Hosting /\ site \in Hosting
  /\ noted \subseteq Subs /\ charged \subseteq Subs
  /\ granted \subseteq Subs /\ trusted \subseteq Subs /\ activated \subseteq Subs
  /\ asked \in 0..MaxRequests /\ crashes \in 0..MaxCrashes

\* Whatever the worker is about to suspend, somebody is late.
SweepOK ==
  /\ sweep \in [at : {"idle", "next", "suspend", "accounts", "account", "site"},
                late : SUBSET Subs, bad : SUBSET Subs, sub : Subs \cup {NoSub}]
  /\ sweep.bad # {} \/ sweep.at \in {"suspend", "accounts", "account", "site"} => SomeoneLate

PaidOK == \A s \in Subs : sub[s] = "active" => s \in Funded

NotedOK == noted \subseteq activated

LateOK == (account = "suspended" \/ \E s \in Subs : sub[s] = "suspended") => SomeoneLate

SubInv == RequestsOK /\ TablesOK /\ SweepOK /\ PaidOK /\ NotedOK /\ LateOK

-----------------------------------------------------------------------------
(* Money, grants, trust, activations and lateness are never taken back.    *)
Grows == /\ charged \subseteq charged' /\ granted \subseteq granted'
         /\ trusted \subseteq trusted' /\ activated \subseteq activated'
         /\ SomeoneLate => SomeoneLate'

\* No handler of a request takes money, grants or lateness back.
LEMMA HandleGrows ==
  ASSUME NEW r \in Requests, Handle(r)
  PROVE  Grows /\ UNCHANGED <<age, charged, granted, sweep, bounds>>
<1>. USE DEF KeepOthers, OnlySub, OnlyInvoice, OnlyAccount, OnlySite, OnlyReads
<1>1. UNCHANGED <<age, charged, granted, sweep, bounds>>
  BY DEF Handle, Claims, Create, Bill, SeeEvent, ReadInvoice, Confirm, Rewrite, Unpay, Settle,
         Activate, Note, ListAccounts, Open, Vhost, Enable, EnableSite, Load, Lapse, Store
<1>2. activated \subseteq activated'
  BY DEF Handle, Claims, Create, Bill, SeeEvent, ReadInvoice, Confirm, Rewrite, Unpay, Settle,
         Activate, Note, ListAccounts, Open, Vhost, Enable, EnableSite, Load, Lapse, Store
<1>3. trusted \subseteq trusted'
  BY DEF Handle, Claims, Create, Bill, SeeEvent, ReadInvoice, Confirm, Rewrite, Unpay, Settle,
         Activate, Note, ListAccounts, Open, Vhost, Enable, EnableSite, Load, Lapse, Store
<1>. QED BY <1>1, <1>2, <1>3 DEF Grows, SomeoneLate

\* Neither does any other step.
LEMMA NextGrows ==
  ASSUME TablesOK, [Next]_vars
  PROVE  Grows
<1>1. CASE UNCHANGED vars BY <1>1 DEF vars, history, Grows, SomeoneLate
<1>2. ASSUME NEW s \in Subs, Charge(s) PROVE Grows
  BY <1>2 DEF Charge, Grows, SomeoneLate
<1>3. ASSUME NEW s \in Subs, Age(s) PROVE Grows
  <2>1. UNCHANGED history
    BY <1>3 DEF Age
  <2>2. \A q \in Subs : age[q] = 2 => age'[q] = 2
    BY <1>3 DEF Age, TablesOK
  <2>. QED BY <2>1, <2>2 DEF history, Grows, SomeoneLate
<1>4. ASSUME NEW r \in Requests, NEW k \in Kinds, NEW s \in Subs, Arrive(r, k, s) PROVE Grows
  BY <1>4 DEF Arrive, Grows, SomeoneLate
<1>5. ASSUME NEW r \in Requests, Handle(r) PROVE Grows
  BY <1>5, HandleGrows
<1>6. CASE Sweep
  BY <1>6 DEF Sweep, SweepList, SweepMark, SweepFetch, SweepSuspend, SweepAccounts, SweepAccount,
              SweepSite, SweepEnd, SweepKeeps, history, Grows, SomeoneLate
<1>7. CASE Crash BY <1>7 DEF Crash, history, Grows, SomeoneLate
<1>. QED BY <1>1, <1>2, <1>3, <1>4, <1>5, <1>6, <1>7 DEF Next

\* What a request knows stays true while others are at work.
LEMMA RowKept ==
  ASSUME Grows, NEW row, RowOK(row)
  PROVE  RowOK(row)'
BY DEF Grows, RowOK, Funded

-----------------------------------------------------------------------------
(* Requests.  `old' is the row of the request before the step.             *)

\* An unused row knows nothing.
LEMMA FreeRow == RowOK(Free)'
BY DEF RowOK, Free, Row, Places, Kinds, Openings, Statuses

\* A step that writes one row, and writes it well, keeps all rows well.
LEMMA PutRow ==
  ASSUME RequestsOK, Grows, NEW r \in Requests, NEW row, RowOK(row)',
         request' = [request EXCEPT ![r] = row]
  PROVE  RequestsOK'
<1>1. row \in Row
  BY DEF RowOK
<1>2. request' \in [Requests -> Row]
  BY <1>1 DEF RequestsOK
<1>3. ASSUME NEW q \in Requests PROVE RowOK(request[q])'
  <2>1. CASE q = r BY <2>1 DEF RequestsOK
  <2>2. CASE q # r
    <3>1. PICK x : x = request[q] OBVIOUS
    <3>2. RowOK(x)' BY <3>1, RowKept DEF RequestsOK
    <3>3. request'[q] = x BY <2>2, <3>1 DEF RequestsOK
    <3>. QED BY <3>2, <3>3
  <2>. QED BY <2>1, <2>2
<1>. QED BY <1>2, <1>3 DEF RequestsOK

\* The same for a request that goes on,
LEMMA StepOK ==
  ASSUME RequestsOK, Grows, NEW r \in Requests, NEW old, old = request[r], NEW a, Step(r, a),
         RowOK([old EXCEPT !.at = a])'
  PROVE  RequestsOK'
BY PutRow DEF Step, RequestsOK, Row

\* for one that also remembers what it read,
LEMMA SeeOK ==
  ASSUME RequestsOK, Grows, NEW r \in Requests, NEW old, old = request[r], NEW a, NEW x,
         See(r, a, x), RowOK([old EXCEPT !.at = a, !.seen = x])'
  PROVE  RequestsOK'
BY PutRow DEF See, RequestsOK, Row

\* and for one that ends.
LEMMA AnswerOK ==
  ASSUME RequestsOK, Grows, NEW r \in Requests, Answer(r)
  PROVE  RequestsOK'
BY PutRow, FreeRow DEF Answer

\* A request whose row allows it goes on to another step.
LEMMA RequestsHandled ==
  ASSUME RequestsOK, TablesOK, PaidOK, LateOK, NEW r \in Requests, Handle(r)
  PROVE  RequestsOK'
<1>. PICK old : old = request[r]
  OBVIOUS
<1>1. Grows
  BY HandleGrows
<1>2. RowOK(old) /\ RowOK(old)'
  BY <1>1, RowKept DEF RequestsOK
<1>3. old.at = request[r].at /\ Kind(r) = old.kind /\ Mine(r) = old.sub /\ old.seen = request[r].seen
  BY DEF Kind, Mine
<1>. USE <1>1, <1>2, <1>3, AnswerOK, StepOK, SeeOK DEF At
<1>4. CASE ReadInvoice(r)
  <2>1. old.kind \in {"paid", "failed", "verify", "admin", "checkout"} /\ old.sub \in Subs
    BY <1>4 DEF ReadInvoice, At, RowOK, Row, Payments, Events
  <2>2. invoice[old.sub] \in Bills
    BY <2>1 DEF TablesOK
  <2>3. CASE Answer(r) BY <2>3
  <2>4. CASE old.kind = "checkout" /\ See(r, "rewrite", invoice[old.sub])
    <3>1. PICK x \in Bills : x = invoice[old.sub] BY <2>2
    <3>2. RowOK([old EXCEPT !.at = "rewrite", !.seen = x])'
      BY <2>1, <2>4 DEF RowOK, Row, Places
    <3>. QED BY <2>4, <3>1, <3>2
  <2>5. CASE old.kind = "failed" /\ Step(r, "unpay")
    <3>1. RowOK([old EXCEPT !.at = "unpay"])' BY <2>1, <2>5 DEF RowOK, Row, Places
    <3>. QED BY <2>5, <3>1
  <2>6. CASE old.kind = "verify" /\ Step(r, "confirm")
    <3>1. RowOK([old EXCEPT !.at = "confirm"])' BY <2>1, <2>6 DEF RowOK, Row, Places
    <3>. QED BY <2>6, <3>1
  <2>7. CASE old.kind \in {"paid", "admin"} /\ Step(r, "settle")
    <3>1. RowOK([old EXCEPT !.at = "settle"])' BY <2>1, <2>7 DEF RowOK, Row, Places
    <3>. QED BY <2>7, <3>1
  <2>. QED BY <1>4, <2>1, <2>3, <2>4, <2>5, <2>6, <2>7 DEF ReadInvoice
<1>5. CASE Confirm(r)
  <2>1. CASE Answer(r) BY <2>1
  <2>2. CASE Step(r, "settle") /\ trusted' = trusted \cup ({old.sub} \ Funded)
    <3>1. old.sub \in Funded' BY <2>2 DEF Grows, Funded
    <3>2. RowOK([old EXCEPT !.at = "settle"])' BY <1>5, <3>1 DEF Confirm, RowOK, Row, Places
    <3>. QED BY <2>2, <3>2
  <2>. QED BY <1>5, <2>1, <2>2 DEF Confirm
<1>6. CASE ListAccounts(r)
  <2>1. ASSUME NEW a \in {"revive", "enable", "open"}, Step(r, a) PROVE RequestsOK'
    <3>1. RowOK([old EXCEPT !.at = a])' BY <1>6 DEF ListAccounts, RowOK, Row, Places
    <3>. QED BY <2>1, <3>1
  <2>2. CASE old.kind = "paid" /\ Step(r, "note")
    <3>1. RowOK([old EXCEPT !.at = "note"])' BY <1>6, <2>2 DEF ListAccounts, RowOK, Row, Places
    <3>. QED BY <2>2, <3>1
  <2>3. CASE Answer(r) BY <2>3
  <2>. QED BY <1>6, <2>1, <2>2, <2>3 DEF ListAccounts, Finish
<1>7. CASE Open(r)
  <2>1. RowOK([old EXCEPT !.at = "vhost"])' BY <1>7 DEF Open, RowOK, Row, Places
  <2>. QED BY <1>7, <2>1 DEF Open
<1>8. CASE Enable(r)
  <2>1. CASE Step(r, "site")
    <3>1. RowOK([old EXCEPT !.at = "site"])' BY <1>8 DEF Enable, RowOK, Row, Places
    <3>. QED BY <2>1, <3>1
  <2>2. CASE old.kind = "paid" /\ Step(r, "note")
    <3>1. RowOK([old EXCEPT !.at = "note"])' BY <1>8, <2>2 DEF Enable, RowOK, Row, Places
    <3>. QED BY <2>2, <3>1
  <2>3. CASE Answer(r) BY <2>3
  <2>. QED BY <1>8, <2>1, <2>2, <2>3 DEF Enable, Finish
<1>9. CASE Load(r)
  <2>1. old.kind = "resolve" /\ old.sub \in Subs
    BY <1>9 DEF Load, At, RowOK, Row, Payments, Events
  <2>2. PICK x \in Statuses : x = sub[old.sub]
    BY <2>1 DEF TablesOK
  <2>3. x = "active" => old.sub \in Funded'
    BY <2>1, <2>2 DEF PaidOK, Grows, Funded
  <2>4. x = "suspended" => SomeoneLate'
    BY <2>1, <2>2 DEF LateOK, Grows
  <2>5. CASE x = "active" /\ See(r, "lapse", x)
    <3>1. RowOK([old EXCEPT !.at = "lapse", !.seen = x])'
      BY <2>1, <2>3, <2>5 DEF RowOK, Row, Places
    <3>. QED BY <2>5, <3>1
  <2>6. CASE See(r, "store", x)
    <3>1. RowOK([old EXCEPT !.at = "store", !.seen = x])'
      BY <2>1, <2>3, <2>4, <2>6 DEF RowOK, Row, Places, Changes
    <3>. QED BY <2>6, <3>1
  <2>. QED BY <1>9, <2>2, <2>5, <2>6 DEF Load
<1>10. CASE Lapse(r)
  <2>1. CASE Step(r, "store")
    <3>1. RowOK([old EXCEPT !.at = "store"])'
      BY <1>10 DEF Lapse, Statuses, Changes, RowOK, Row, Places
    <3>. QED BY <2>1, <3>1
  <2>2. CASE See(r, "store", "expired")
    <3>1. RowOK([old EXCEPT !.at = "store", !.seen = "expired"])'
      BY <1>10 DEF Lapse, Statuses, Changes, RowOK, Row, Places
    <3>. QED BY <2>2, <3>1
  <2>. QED BY <1>10, <2>1, <2>2 DEF Lapse
<1>. USE DEF RowOK, Row, Places, Openings, Events, Payments, Changes
<1>11. CASE Claims(r) BY <1>11 DEF Claims
<1>12. CASE Create(r) BY <1>12 DEF Create
<1>13. CASE Bill(r) BY <1>13 DEF Bill
<1>14. CASE SeeEvent(r) BY <1>14 DEF SeeEvent
<1>15. CASE Rewrite(r) BY <1>15 DEF Rewrite
<1>16. CASE Unpay(r) BY <1>16 DEF Unpay
<1>17. CASE Settle(r) BY <1>17 DEF Settle
<1>18. CASE Activate(r) BY <1>18 DEF Activate
<1>19. CASE Note(r) BY <1>19 DEF Note
<1>20. CASE Vhost(r) BY <1>20 DEF Vhost
<1>21. CASE EnableSite(r) BY <1>21 DEF EnableSite, Finish
<1>22. CASE Store(r) BY <1>22 DEF Store
<1>. QED BY <1>4, <1>5, <1>6, <1>7, <1>8, <1>9, <1>10, <1>11, <1>12, <1>13, <1>14, <1>15, <1>16,
            <1>17, <1>18, <1>19, <1>20, <1>21, <1>22 DEF Handle

-----------------------------------------------------------------------------
(* A request arrives, and the process dies.                                *)

\* A new request starts where its kind lets it.
LEMMA RequestArrives ==
  ASSUME RequestsOK, TablesOK, NEW r \in Requests, NEW k \in Kinds, NEW s \in Subs, Arrive(r, k, s)
  PROVE  RequestsOK'
<1>. DEFINE place == CASE k = "buy" -> "create" [] k = "trial" -> "claims"
                       [] k \in Events -> "event" [] k = "resolve" -> "load"
                       [] k \in Changes \ {"resolve"} -> "store"
                       [] k \in Payments \ Events -> "read"
            row == [at |-> place, kind |-> k, sub |-> s, seen |-> "none"]
<1>1. Grows BY DEF Arrive, Grows, SomeoneLate
<1>2. /\ place \in Places \ {"idle"}
      /\ place \in {"claims", "create"} => k \in Openings
      /\ place = "event" => k \in Events
      /\ place = "read" => k \in Payments
      /\ place = "load" => k = "resolve"
      /\ place = "store" => k \in Changes /\ k # "resolve"
      /\ place \in {"claims", "create", "event", "read", "load", "store"}
  <2>. USE DEF Places, Openings, Events, Payments, Changes
  <2>1. CASE k = "buy" BY <2>1
  <2>2. CASE k = "trial" BY <2>2
  <2>3. CASE k \in Events BY <2>3
  <2>4. CASE k = "resolve" BY <2>4
  <2>5. CASE k \in Changes \ {"resolve"} BY <2>5
  <2>6. CASE k \in Payments \ Events BY <2>6
  <2>. QED BY <2>1, <2>2, <2>3, <2>4, <2>5, <2>6 DEF Kinds
<1>3. k \in {"paid", "admin", "renew"} => s \in Funded'
  BY DEF Arrive, Funded
<1>4. row \in Row
  <2>1. "none" \in Statuses BY DEF Statuses
  <2>. QED BY <1>2, <2>1 DEF Row
<1>5. PICK x : x = place OBVIOUS
<1>6. RowOK([at |-> x, kind |-> k, sub |-> s, seen |-> "none"])'
  BY <1>2, <1>3, <1>4, <1>5 DEF RowOK
<1>7. request' = [request EXCEPT ![r] = [at |-> x, kind |-> k, sub |-> s, seen |-> "none"]]
  BY <1>5 DEF Arrive
<1>. QED BY <1>1, <1>6, <1>7, PutRow

\* Every step keeps the rows of all requests.
LEMMA RequestsNext ==
  ASSUME SubInv, [Next]_vars
  PROVE  RequestsOK'
<1>. USE DEF SubInv
<1>1. Grows BY NextGrows
<1>2. ASSUME request' = request PROVE RequestsOK'
  <2>1. ASSUME NEW q \in Requests PROVE RowOK(request[q])'
    <3>1. PICK x : x = request[q] OBVIOUS
    <3>2. RowOK(x)' BY <1>1, <3>1, RowKept DEF RequestsOK
    <3>. QED BY <1>2, <3>1, <3>2
  <2>. QED BY <1>2, <2>1 DEF RequestsOK
<1>3. CASE UNCHANGED vars BY <1>2, <1>3 DEF vars
<1>4. ASSUME NEW s \in Subs, Charge(s) \/ Age(s) PROVE RequestsOK'
  BY <1>2, <1>4 DEF Charge, Age
<1>5. ASSUME NEW r \in Requests, NEW k \in Kinds, NEW s \in Subs, Arrive(r, k, s)
      PROVE  RequestsOK'
  BY <1>5, RequestArrives
<1>6. ASSUME NEW r \in Requests, Handle(r) PROVE RequestsOK'
  BY <1>6, RequestsHandled
<1>7. CASE Sweep
  <2>1. request' = request
    BY <1>7 DEF Sweep, SweepList, SweepMark, SweepFetch, SweepSuspend, SweepAccounts,
                SweepAccount, SweepSite, SweepEnd, SweepKeeps
  <2>. QED BY <1>2, <2>1
<1>8. CASE Crash
  <2>1. Free \in Row BY DEF Free, Row, Places, Kinds, Openings, Statuses
  <2>2. \A q \in Requests : request'[q] = Free BY <1>8 DEF Crash
  <2>3. ASSUME NEW q \in Requests PROVE RowOK(request[q])'
    <3>1. PICK x : x = Free OBVIOUS
    <3>2. RowOK(x)' BY <3>1, FreeRow
    <3>. QED BY <2>2, <3>1, <3>2
  <2>. QED BY <1>8, <2>1, <2>3 DEF Crash, RequestsOK
<1>. QED BY <1>3, <1>4, <1>5, <1>6, <1>7, <1>8 DEF Next

-----------------------------------------------------------------------------
(* Tables and the worker                                                   *)

\* One lemma per row that a handler writes: what it may have become.
LEMMA HandleTables ==
  ASSUME SubInv, NEW r \in Requests, Handle(r)
  PROVE  TablesOK' /\ PaidOK' /\ NotedOK' /\ LateOK'
<1>. USE DEF SubInv
<1>1. Grows /\ UNCHANGED <<age, charged, granted, sweep, bounds>>
  BY HandleGrows
<1>2. RowOK(request[r])
  BY DEF RequestsOK
<1>3. request[r].at # "idle" => Mine(r) \in Subs
  BY <1>2 DEF RowOK, Mine
<1>4. (SomeoneLate => SomeoneLate') /\ Funded \subseteq Funded'
  BY <1>1 DEF Grows, Funded
<1>24. trusted' \subseteq Subs
  <2>1. trusted \subseteq Subs BY DEF TablesOK
  <2>2. CASE Confirm(r) BY <1>3, <2>1, <2>2 DEF Confirm, At
  <2>3. CASE ~Confirm(r)
    <3>1. trusted' = trusted
      BY <2>3 DEF Handle, Claims, Create, Bill, SeeEvent, ReadInvoice, Rewrite, Unpay, Settle,
                  Activate, Note, ListAccounts, Open, Vhost, Enable, EnableSite, Load, Lapse,
                  Store, KeepOthers, OnlySub, OnlyInvoice, OnlyAccount, OnlySite, OnlyReads
    <3>. QED BY <2>1, <3>1
  <2>. QED BY <2>2, <2>3
<1>. USE <1>1, <1>3, <1>4, <1>24
     DEF TablesOK, PaidOK, NotedOK, LateOK, At, bounds, KeepOthers, OnlySub, OnlyInvoice,
         OnlyAccount, OnlySite, OnlyReads, rows, SetSub, SetInvoice
<1>5. CASE Claims(r) BY <1>5 DEF Claims
<1>6. CASE Create(r) BY <1>6 DEF Create, Statuses
<1>7. CASE Bill(r) BY <1>7 DEF Bill, Bills
<1>8. CASE SeeEvent(r) BY <1>8 DEF SeeEvent
<1>9. CASE ReadInvoice(r) BY <1>9 DEF ReadInvoice
<1>10. CASE Confirm(r) BY <1>10 DEF Confirm
<1>11. CASE Rewrite(r)
  <2>1. request[r].seen \in Bills BY <1>2, <1>11 DEF Rewrite, RowOK
  <2>. QED BY <1>11, <2>1 DEF Rewrite
<1>12. CASE Unpay(r) BY <1>12 DEF Unpay, Bills
<1>13. CASE Settle(r) BY <1>13 DEF Settle, Bills
<1>14. CASE Activate(r)
  <2>1. Mine(r) \in Funded BY <1>2, <1>14 DEF Activate, RowOK, Mine
  <2>. QED BY <1>14, <2>1 DEF Activate, Statuses
<1>15. CASE Note(r)
  <2>1. Mine(r) \in activated BY <1>2, <1>15 DEF Note, RowOK, Mine
  <2>. QED BY <1>15, <2>1 DEF Note
<1>16. CASE ListAccounts(r) BY <1>16 DEF ListAccounts
<1>17. CASE Open(r) BY <1>17 DEF Open, Hosting
<1>18. CASE Vhost(r) BY <1>18 DEF Vhost, Hosting
<1>19. CASE Enable(r) BY <1>19 DEF Enable, Hosting
<1>20. CASE EnableSite(r) BY <1>20 DEF EnableSite, Hosting
<1>21. CASE Load(r) BY <1>21 DEF Load
<1>22. CASE Lapse(r) BY <1>22 DEF Lapse, Statuses
<1>23. CASE Store(r)
  <2>1. ASSUME NEW x \in Statuses, SetSub(Mine(r), x),
               x = "active" => Mine(r) \in Funded, x = "suspended" => SomeoneLate
        PROVE  TablesOK' /\ PaidOK' /\ NotedOK' /\ LateOK'
    BY <1>23, <2>1 DEF Store
  <2>2. Kind(r) \in Changes /\ (Kind(r) = "renew" => Mine(r) \in Funded)
    BY <1>2, <1>23 DEF Store, RowOK, Mine, Kind
  <2>3. CASE SetSub(Mine(r), "cancelled") \/ SetSub(Mine(r), "trial") \/ SetSub(Mine(r), "expired")
    BY <2>1, <2>3 DEF Statuses
  <2>4. CASE Kind(r) = "renew" /\ SetSub(Mine(r), "active")
    BY <2>1, <2>2, <2>4 DEF Statuses
  <2>5. CASE Kind(r) = "resolve" /\ SetSub(Mine(r), request[r].seen)
    <3>1. /\ request[r].seen \in Statuses
          /\ request[r].seen = "active" => Mine(r) \in Funded
          /\ request[r].seen = "suspended" => SomeoneLate
      BY <1>2, <1>23, <2>5 DEF Store, RowOK, Mine, Kind
    <3>. QED BY <2>1, <2>5, <3>1
  <2>6. CASE UNCHANGED sub BY <1>23, <2>6 DEF Store
  <2>. QED BY <1>23, <2>2, <2>3, <2>4, <2>5, <2>6 DEF Store, Changes
<1>. QED BY <1>5, <1>6, <1>7, <1>8, <1>9, <1>10, <1>11, <1>12, <1>13, <1>14, <1>15, <1>16, <1>17,
            <1>18, <1>19, <1>20, <1>21, <1>22, <1>23 DEF Handle

\* Every step of the worker keeps the tables and what it carries.
LEMMA SweepTables ==
  ASSUME SubInv, Sweep
  PROVE  TablesOK' /\ PaidOK' /\ NotedOK' /\ LateOK' /\ SweepOK'
<1>. USE DEF SubInv
<1>1. UNCHANGED <<age, noted, history, request, bounds>>
  BY DEF Sweep, SweepList, SweepMark, SweepFetch, SweepSuspend, SweepAccounts, SweepAccount,
         SweepSite, SweepEnd, SweepKeeps
<1>2. SomeoneLate' = SomeoneLate /\ Funded' = Funded
  BY <1>1 DEF SomeoneLate, Funded, history
<1>. USE <1>1, <1>2
     DEF TablesOK, PaidOK, NotedOK, LateOK, SweepOK, bounds, history, SetSub, SetInvoice
<1>3. CASE SweepList
  <2>1. \A s \in Subs : age[s] = 2 => SomeoneLate BY DEF SomeoneLate
  <2>. QED BY <1>3, <2>1 DEF SweepList
<1>4. ASSUME NEW s \in Subs, SweepMark(s)
      PROVE  TablesOK' /\ PaidOK' /\ NotedOK' /\ LateOK' /\ SweepOK'
  BY <1>4 DEF SweepMark, Bills
<1>5. ASSUME NEW s \in Subs, SweepFetch(s)
      PROVE  TablesOK' /\ PaidOK' /\ NotedOK' /\ LateOK' /\ SweepOK'
  BY <1>5 DEF SweepFetch
<1>6. CASE SweepSuspend BY <1>6 DEF SweepSuspend, Statuses
<1>7. CASE SweepAccounts BY <1>7 DEF SweepAccounts
<1>8. CASE SweepAccount BY <1>8 DEF SweepAccount, Hosting
<1>9. CASE SweepSite BY <1>9 DEF SweepSite, Hosting
<1>10. CASE SweepEnd BY <1>10 DEF SweepEnd, Asleep
<1>. QED BY <1>3, <1>4, <1>5, <1>6, <1>7, <1>8, <1>9, <1>10 DEF Sweep

\* The world, and a crash.
LEMMA WorldTables ==
  ASSUME SubInv,
         \/ \E s \in Subs : Charge(s) \/ Age(s)
         \/ \E r \in Requests, k \in Kinds, s \in Subs : Arrive(r, k, s)
         \/ Crash
  PROVE  TablesOK' /\ PaidOK' /\ NotedOK' /\ LateOK' /\ SweepOK'
<1>. USE SubscriptionAssumption DEF SubInv, rows, history, bounds
<1>1. Grows
  <2>1. Next BY DEF Next
  <2>. QED BY <2>1, NextGrows
<1>2. ASSUME NEW s \in Subs, Charge(s)
      PROVE  TablesOK' /\ PaidOK' /\ NotedOK' /\ LateOK' /\ SweepOK'
  BY <1>1, <1>2 DEF Charge, TablesOK, PaidOK, Funded, NotedOK, LateOK, SweepOK, Grows
<1>3. ASSUME NEW s \in Subs, Age(s)
      PROVE  TablesOK' /\ PaidOK' /\ NotedOK' /\ LateOK' /\ SweepOK'
  BY <1>1, <1>3 DEF Age, TablesOK, PaidOK, Funded, NotedOK, LateOK, SweepOK, Grows
<1>4. ASSUME NEW r \in Requests, NEW k \in Kinds, NEW s \in Subs, Arrive(r, k, s)
      PROVE  TablesOK' /\ PaidOK' /\ NotedOK' /\ LateOK' /\ SweepOK'
  BY <1>1, <1>4 DEF Arrive, TablesOK, PaidOK, Funded, NotedOK, LateOK, SweepOK, Grows
<1>5. CASE Crash
  BY <1>1, <1>5 DEF Crash, Asleep, TablesOK, PaidOK, Funded, NotedOK, LateOK, SweepOK, Grows
<1>. QED BY <1>2, <1>3, <1>4, <1>5

-----------------------------------------------------------------------------
(* The inductive invariant                                                 *)

\* The first state has nobody at work and nothing paid.
LEMMA SubStart == Init => SubInv
<1>. SUFFICES ASSUME Init PROVE SubInv OBVIOUS
<1>. USE SubscriptionAssumption DEF Init
<1>1. TablesOK BY DEF TablesOK, Statuses, Bills, Hosting
<1>2. SweepOK BY DEF SweepOK, Asleep
<1>3. RowOK(Free) BY DEF RowOK, Free, Row, Places, Kinds, Openings, Statuses
<1>4. RequestsOK BY <1>3 DEF RequestsOK, RowOK
<1>5. PaidOK /\ NotedOK /\ LateOK BY DEF PaidOK, NotedOK, LateOK
<1>. QED BY <1>1, <1>2, <1>4, <1>5 DEF SubInv

\* Handlers, worker and world each keep the invariant.
LEMMA SubStep == SubInv /\ [Next]_vars => SubInv'
<1>. SUFFICES ASSUME SubInv, [Next]_vars PROVE SubInv' OBVIOUS
<1>1. RequestsOK' BY RequestsNext
<1>2. TablesOK' /\ PaidOK' /\ NotedOK' /\ LateOK' /\ SweepOK'
  <2>1. CASE UNCHANGED vars
    BY <2>1 DEF vars, rows, history, bounds, SubInv, TablesOK, PaidOK, Funded, NotedOK, LateOK,
                SweepOK, SomeoneLate
  <2>2. ASSUME NEW r \in Requests, Handle(r)
        PROVE  TablesOK' /\ PaidOK' /\ NotedOK' /\ LateOK' /\ SweepOK'
    <3>1. UNCHANGED <<age, sweep>> BY <2>2, HandleGrows
    <3>2. SweepOK' BY <3>1 DEF SubInv, SweepOK, SomeoneLate
    <3>. QED BY <2>2, <3>2, HandleTables
  <2>3. CASE Sweep BY <2>3, SweepTables
  <2>4. CASE \/ \E s \in Subs : Charge(s) \/ Age(s)
             \/ \E r \in Requests, k \in Kinds, s \in Subs : Arrive(r, k, s)
             \/ Crash
    BY <2>4, WorldTables
  <2>. QED BY <2>1, <2>2, <2>3, <2>4 DEF Next
<1>. QED BY <1>1, <1>2 DEF SubInv

(* A request knows, from the step it is at, that its subscription was paid *)
(* for, granted or activated; the tables and the worker agree with it      *)
(* (billing.go:1748, billing.go:2302).                                     *)
THEOREM SubInvariant == Spec => []SubInv
<1>. QED BY SubStart, SubStep, PTL DEF Spec

-----------------------------------------------------------------------------
(* Every row, request and pass of the worker keeps its type.               *)
THEOREM SubTypes == Spec => []SubTypeOK
<1>1. SubInv => SubTypeOK
  BY DEF SubInv, RequestsOK, TablesOK, SweepOK, SubTypeOK
<1>. QED BY <1>1, SubInvariant, PTL

(* No subscription is active without money or somebody's word, however     *)
(* handlers, the quota service and the worker overwrite one another        *)
(* (billing.go:857).                                                       *)
THEOREM ActiveIsPaid == Spec => []ActiveWasPaid
<1>1. SubInv => ActiveWasPaid
  BY DEF SubInv, PaidOK, Funded, ActiveWasPaid
<1>. QED BY <1>1, SubInvariant, PTL

(* No event is on record that has activated nothing (billing.go:1808).     *)
THEOREM NotedIsActivated == Spec => []NotedWasActivated
<1>1. SubInv => NotedWasActivated
  BY DEF SubInv, NotedOK, NotedWasActivated
<1>. QED BY <1>1, SubInvariant, PTL

(* Nobody is suspended while everybody is within the grace period          *)
(* (billing.go:2322).                                                      *)
THEOREM GraceHolds == Spec => []GraceIsKept
<1>1. SubInv => GraceIsKept
  BY DEF SubInv, LateOK, SomeoneLate, GraceIsKept
<1>. QED BY <1>1, SubInvariant, PTL
=============================================================================
