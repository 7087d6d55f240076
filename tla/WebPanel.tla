------------------------------ MODULE WebPanel ------------------------------
(***************************************************************************)
(* The pages of the panel, one mounted at a time, over the network.        *)
(***************************************************************************)
EXTENDS PanelPage

CONSTANTS
  Items,   \* what a page can select or open a modal for
  Pages    \* the pages that may be mounted

(* A thing has a name, and no name is the word for leaving things as they are. *)
ASSUME ItemsAreNamed == "" \notin Items /\ "same" \notin Items

(* What can be selected: a thing, nothing yet, or a word of a page's own.  *)
Places ==
  Items \cup {"", "t", "mysql", "home", "chosen", "nameservers", "dns", "security", "renew", "contacts"}

Console == INSTANCE DatabaseConsole WITH Dbs <- Items, Tables <- {"t"}
Websites == INSTANCE WebsitesPage WITH Sites <- Items
Email == INSTANCE EmailPage WITH Domains <- Items
Billing == INSTANCE BillingPage
FileManager == INSTANCE FilesPage WITH Folders <- Items \cup {"home"}, Files <- Items, Default <- "home"
Backups == INSTANCE BackupsPage WITH Snapshots <- Items
Accounts == INSTANCE AccountsPage
DatabasesP == INSTANCE DatabasesPage WITH Engines <- Items
DomainsP == INSTANCE DomainsPage WITH Domains <- Items
Tools == INSTANCE SiteTools
Site == INSTANCE SiteModal
Php == INSTANCE PhpPage WITH Versions <- Items
WebServers == INSTANCE WebServersPage WITH Servers <- Items, Engines <- Items
Support == INSTANCE SupportPage WITH Tickets <- Items
ServersP == INSTANCE ServersPage
Lists == INSTANCE ListPages

Init ==
  \/ "console" \in Pages /\ Console!Opens
  \/ "websites" \in Pages /\ Websites!Opens
  \/ "email" \in Pages /\ Email!Opens
  \/ "billing" \in Pages /\ Billing!Opens
  \/ "files" \in Pages /\ FileManager!Opens
  \/ "backups" \in Pages /\ Backups!Opens
  \/ "accounts" \in Pages /\ Accounts!Opens
  \/ "databases" \in Pages /\ DatabasesP!Opens
  \/ "domains" \in Pages /\ DomainsP!Opens
  \/ "tools" \in Pages /\ Tools!Opens
  \/ "site" \in Pages /\ Site!Opens
  \/ "php" \in Pages /\ Php!Opens
  \/ "webservers" \in Pages /\ WebServers!Opens
  \/ "support" \in Pages /\ Support!Opens
  \/ "servers" \in Pages /\ ServersP!Opens
  \/ "lists" \in Pages /\ Lists!Opens

Shown ==
  CASE page = "console" -> Console!Shown
    [] page = "websites" -> Websites!Shown
    [] page = "email" -> Email!Shown
    [] page = "billing" -> Billing!Shown
    [] page = "files" -> FileManager!Shown
    [] page = "backups" -> Backups!Shown
    [] page = "accounts" -> Accounts!Shown
    [] page = "databases" -> DatabasesP!Shown
    [] page = "domains" -> DomainsP!Shown
    [] page = "tools" -> Tools!Shown
    [] page = "site" -> Site!Shown
    [] page = "php" -> Php!Shown
    [] page = "webservers" -> WebServers!Shown
    [] page = "support" -> Support!Shown
    [] page = "servers" -> ServersP!Shown
    [] page = "lists" -> Lists!Shown

Effects(t, s) ==
  CASE page = "console" -> Console!Effects(t, s)
    [] page = "websites" -> Websites!Effects(t, s)
    [] page = "email" -> Email!Effects(t, s)
    [] page = "billing" -> Billing!Effects(t, s)
    [] page = "files" -> FileManager!Effects(t, s)
    [] page = "backups" -> Backups!Effects(t, s)
    [] page = "accounts" -> Accounts!Effects(t, s)
    [] page = "databases" -> DatabasesP!Effects(t, s)
    [] page = "domains" -> DomainsP!Effects(t, s)
    [] page = "tools" -> Tools!Effects(t, s)
    [] page = "site" -> Site!Effects(t, s)
    [] page = "php" -> Php!Effects(t, s)
    [] page = "webservers" -> WebServers!Effects(t, s)
    [] page = "support" -> Support!Effects(t, s)
    [] page = "servers" -> ServersP!Effects(t, s)
    [] page = "lists" -> Lists!Effects(t, s)

Act ==
  \/ page = "console" /\ Console!Acting
  \/ page = "websites" /\ Websites!Acting
  \/ page = "email" /\ Email!Acting
  \/ page = "billing" /\ Billing!Acting
  \/ page = "files" /\ FileManager!Acting
  \/ page = "backups" /\ Backups!Acting
  \/ page = "accounts" /\ Accounts!Acting
  \/ page = "databases" /\ DatabasesP!Acting
  \/ page = "domains" /\ DomainsP!Acting
  \/ page = "tools" /\ Tools!Acting
  \/ page = "site" /\ Site!Acting
  \/ page = "php" /\ Php!Acting
  \/ page = "webservers" /\ WebServers!Acting
  \/ page = "support" /\ Support!Acting
  \/ page = "servers" /\ ServersP!Acting
  \/ page = "lists" /\ Lists!Acting

Network ==
  \/ \E n \in Slots, o \in {"done", "refused", "lost", "failed"} : 
       changes[n].stage = "sent" /\ Serve(n, o)
  \/ \E n \in Slots :
       /\ changes[n] # Idle
       /\ Answer(n, Effects(TabAfter(changes[n]), SelAfter(changes[n])))
  \/ \E i \in DOMAIN queue, ok \in BOOLEAN : PutDown(i, ok)

Next == Act \/ Close \/ Network

Spec == Init /\ [][Next]_vars

-----------------------------------------------------------------------------
Quiet == queue = <<>> /\ \A n \in Slots : changes[n] = Idle

(* Every variable has its type, and the books are kept: a pane, or an      *)
(* answer to it, lacks or anticipates only changes that are still in       *)
(* flight, and what is in flight is about the watched pane.                *)
PanelTypeOK ==
  /\ page \in Pages
  /\ sel \in Places \X Places
  /\ copy.excuse \in {"none", "kept", "late", "astray"}
  /\ copy.behind \in BOOLEAN /\ busy \in BOOLEAN
  /\ copy.of = NoKey \/ Len(copy.of) = eye.scope
  /\ copy.claims \subseteq {n \in Slots : changes[n] # Idle /\ changes[n].stage = "sent"}
  /\ \A held \in {copy} \cup {queue[i] : i \in DOMAIN queue} :
       held.lacks \subseteq {n \in Slots : changes[n] # Idle /\ changes[n].stage # "sent"}
  /\ \A i \in DOMAIN queue :
       /\ Len(queue[i].of) = eye.scope
       /\ queue[i].behind \in BOOLEAN /\ queue[i].astray \in BOOLEAN
       /\ queue[i].passed \in {"none", "patch", "answer"}
  /\ \A n \in Slots : changes[n] # Idle =>
       /\ changes[n].stage \in {"sent", "done", "refused", "lost", "failed"}
       /\ changes[n].h.writes \cup changes[n].h.asks \subseteq {eye.name}

(* The user reads what the user wrote.  Once nothing is in flight, a pane  *)
(* on screen shows every change that this page has reported as done, in    *)
(* whatever order the change, the fetches around it and the selections     *)
(* went.  Not meant are                                                    *)
(*   a pane whose last fetch failed and that keeps what it held ("kept");  *)
(*   one that an overtaken answer was put in last ("late": no page of the  *)
(*   panel tells the answers of its fetches apart), or that a handler      *)
(*   marked Rewriting put back as it was before another change came in     *)
(*   between (also "late");                                                *)
(*   the changes of the handlers that are marked Forgetting, which neither *)
(*   fetch nor patch a pane they change;                                   *)
(*   and a change during which the user went to another tab or selection,  *)
(*   whose handler only fetches what showed where it was started: it does  *)
(*   not renew the pane (Renews) that the user has opened meanwhile.  An   *)
(*   import of the database console does so (handleStartImport).           *)
ReadYourWrites ==
  Quiet /\ eye.name \in Shown /\ copy.excuse \in {"none", "astray"} => ~copy.behind

(* A pane on screen shows the data of what is selected, and not those of   *)
(* what was selected before, once its fetches are answered, unless the     *)
(* last answer was overtaken ("late"), asked for by a handler of another   *)
(* selection ("astray"), or a failure ("kept").                            *)
NoForeignData ==
  queue = <<>> /\ eye.name \in Shown /\ copy.excuse = "none" => copy.of \in {NoKey, Key(sel)}
=============================================================================
