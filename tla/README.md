# Hostvra in TLA+

Hostvra is a hosting control panel: a Go API (`apps/api`) over PostgreSQL (or,
without a database, an in-memory store), a Go agent on every managed server
(`apps/agent`) and a Next.js user interface, the panel (`apps/web`). This
directory models what depends on the order of steps. In the API: live updates,
the provisioning of paid domain orders and its locks, payments, subscriptions,
hosted databases with their quota, and two-factor authentication. In the panel:
what its pages show while changes and fetches are answered in any order, and the
settings record that every open page holds whole.

All paths below are relative to the repository; `billing.go`, `updates.go`,
`databases.go` are under `apps/api/internal/handlers/`, `job.go`, `deployer.go`,
`orchestrator.go` under `apps/api/internal/update/`, `registration.go`,
`orders.go`, `reconciliation.go` under `apps/api/internal/domains/`, and
`*_store.go`, `store.go` under `apps/api/internal/store/`. A page is named by its
directory: `files` is `apps/web/src/app/files/page.tsx`.

    tlc -workers 2 -config UpdateAlone.cfg MCUpdate     # and so on, see "Runs"
    tlapm UpdateProofs.tla                              # and so on, see "Proofs"

## 1. Inventory

| Component | State it keeps | Operations | Talks to | Hard behaviour | Correct when |
|---|---|---|---|---|---|
| Live update (`update/`, `updates.go`) | job repository in memory, release directories, `current` link | start, stage, activate, probe, roll back, manual rollback | one goroutine per job, the handler, the disk | two writers of one job, a crash between link operations, a roll-back that fails | one update at a time, the status agrees with the disk, the update lock is always freed |
| Domain provisioning (`registration.go`) | order and domain rows, lock map of the process | worker for a paid order, retry | registrar, advisory lock, billing | several processes, lost answers, rows read before the lock and written after it | a name is booked once, for a paid order |
| Advisory lock (`domain_store.go:1653-1676`, `store.go:1787-1797`) | sessions' locks in PostgreSQL, connection pool | try-lock, unlock | provisioning, reconciliation | the unlock may run on another session; a pool closes sessions | two processes hold one key only after one has lost it with a closed connection |
| Order payments (`billing.go`, `orders.go`) | invoices, transactions, webhooks, orders | PayInvoice, VerifyInvoicePayment, HandleWebhook | gateway, provisioning | late, repeated, concurrent and unsigned events, crashes between rows | no order is paid but by money, an administrator or a payment taken on trust; the books agree |
| Subscriptions and the lifecycle worker (`billing.go`, `billing_store.go`) | subscriptions, invoices, accounts, sites | order, trial, payments, renew, cancel, extend, end, convert, hourly sweep | gateway, quota service | events nobody signs, whole-row writes of stale copies, crashes between rows, the sweep against everybody | active is paid for, granted or taken on trust; a non-payer is suspended, and not before the grace period is over |
| Hosted databases (`databases.go`, `hosting_store.go`) | registry rows, recycle bin, databases on the MySQL server | create, delete, restore, batch | quota, agent's database manager | row and server written in turn | the registry claims what the server lost only after a restore, or a deletion that failed half way |
| Quota (`quota/quota.go`) | per-user mutexes, disk cache | LockUser, CheckQuota, ResolveEffectivePlan | everything that creates | the check is per organization, the lock per user and process | limits are not passed |
| Panel pages (`apps/web/src/app/*/page.tsx`, `lib/api.ts`) | fetched lists, selection, active tab, open modal, loading flags | fetch, change, select, open, close, refresh | API | answers in any order, refused or lost; a handler resumes with the values of the render it was started from | a page shows what it has reported as done, of what is selected |
| Panel settings (`settings`, `settings_store.go`) | one record of some forty fields, whole in every tab | switch, modal, Save | API | the whole record is sent each time; defaults are answered on errors | saving one field undoes nobody's change of another |
| Two-factor authentication (`auth_2fa.go`, `settings`) | secret and flag in one row, recovery codes in another table | set up, enable, disable, regenerate | the settings page in several tabs | no transaction over the two; lost answers | the secret in force was scanned, its codes were shown |
| Schema migrations (`update/migrator.go`, `store/*migrator.go`) | ledger table | migrate, detect drift | update pipeline (not wired) | two migrators, failure half way | each file once, in order |
| Rolling updates, scheduler, release retention (`rolling.go`, `scheduler.go`, `deployer.go:154-`) | plans in memory | batch by batch, window, clean up | agents | failing nodes, deleting the live release | not called anywhere outside tests |
| Agent tasks (`agenttask/manager.go`) | queue per server | enqueue, poll, complete | agents | delivery at least once, late results | every task ends once |
| Cross-node migration (`cross_node_migration.go`, `migration/`) | job in memory | export, transfer, import, switch | two agents | a node fails half way | data is never on no node |
| Backups (`backups.go`, `incremental_backups.go`, agent `backup/`) | snapshots, chunks | run, restore, prune | object storage | pruning shared chunks | a kept snapshot restores |
| Web servers, PHP, certificates, DNS, firewall, mail, files, WordPress | generated files | write and reload | host tools | roll-back of a configuration | mostly I/O |
| Authentication, roles, licence, alerts | tokens, tables, counters | | | | small sequential code |

`PROJECT.json` lists every component with its files, status and reason, and
under `hazards` the lines where order, failure or a boundary can bite.

How they interact: a payer's handler settles an invoice, then either marks a
domain order paid and spawns a provisioning worker, or activates a subscription
and enables its account. An administrator retries a failed order. The hourly
worker writes the same invoices, subscriptions and accounts as the payers. The
quota service writes subscriptions back. The panel calls the API from the browser:
each page keeps its own copies of what it fetched, nothing is pushed to it, and
pages share no state except the stored token. No transaction spans two statements
and, the mutexes and locks named above apart, nothing serialises two handlers.

## 2. Modules and the code

**Live updates.** `JobEngine` (job.go, job_repo_memory.go) has the status and target
of each job; StartJob, Transition, FailAndRollback and MarkRolledBack are its actions.
`ReleaseDeployer` (deployer.go) has the directories, the link `current` and the
temporary link named after the process id, with a step per system call that another
caller or a crash can fall between. `UpdateSystem` composes them with the goroutine of
ExecuteLiveUpdate (`pc[j]`), the handler's StartUpdate and TriggerRollback
(`rollback[a]`) and crashes, which empty the repository and keep the disk. `Accepted`
are the versions whose package the verifier accepts. As shipped it is empty:
StartUpdate hands the pipeline a manifest without a checksum and a payload that is no
gzip (updates.go:214-232), which the verifier refuses (verifier.go:85), so every
update that an administrator starts fails there. The pipeline is modelled for any
`Accepted`, as the tests of the repository drive it with genuine packages
(`orchestrator_test.go`, `e2e_lifecycle_test.go`, `zero_data_loss_test.go`).
`UpdateProperties` says what is claimed of it and contains the refinement mapping to
`AtomicUpdate`, the abstract promise: the live release moves only while one update is
in flight, to its target or back to the base, and the outcome announced is the one on
disk.

**Locks and domains.** `AdvisoryLock` models `pg_try_advisory_lock` through a
connection pool: lock and unlock run on any connection of the process's pool, a
session may take a lock more than once (the count is bounded by `MaxDepth`), an unlock
on another session changes nothing, and the pool may close any of its connections at
any time (store.go:1793-1795: 25 open, 5 idle, 5 minutes of life), with the locks that
its session has. The goroutine that works under such a lock is not told; the history
`lost` remembers it. The memory store is the one-connection case. `DomainProvisioning`
is ProcessPaidOrder step by step — read, lock map, advisory lock, mark, look up,
register, check again after an error, save, complete, book — with the deferred
releases in reverse order, RetryOrder, a registrar whose answers get lost and third
parties who register names first. Every write of the worker may fail, and it drops
each error. Where the domain's row is not created (registration.go:212-214) the worker
goes on with an id of no row; the foreign keys of domain_orders and
domain_transactions refuse that id (migrations/0006_domain_reseller_system.sql), so on
PostgreSQL its two last writes fail as well and the order stays in provisioning
(`SaveDomain`). The memory store has no such keys, but its CreateDomain cannot fail.
`InfoStatus` is the word with which the registrar client reports a registered name.
`ProvisioningProperties` has the promises.

**Order payments.** `OrderPayments` extends `DomainProvisioning` by the three
handlers that pay an order: each reads the invoice, writes it, books the
transaction, records the event and marks the order, one row at a time. The
order is marked from a stale copy (`seen`). `PlanlessRows` says whether the
store takes an invoice that names no plan: the memory store does, PostgreSQL
with the repository's schema does not. `Signed` says whether the gateway has a
secret and is not in test mode. The gateways that are shipped have neither, so
their events are believed unsigned (billing.go:1648). Nor do the verifiers tie a
reference to the invoice (gateways.go:329-382, :587-638): a payment of the right sum made
for something else settles it, unless it is booked for another invoice
(billing.go:1440), and the booking itself may have been refused
(billing_store.go:1218-1220). The history `trusted` has the orders for which a
payment was believed that way.

**Subscriptions.** `Subscriptions` models the rows of one customer on
PostgreSQL: subscription, invoice, hosting account and website status.
A request walks through the statements of its handler; reads that decide
nothing are not steps. The four payers share their actions where the handlers
have the same statements (`kind` tells them apart where they differ):
HandleWebhook looks for the event and records it last, VerifyInvoicePayment asks
the gateway, PayInvoice (an administrator) asks nobody, CheckoutInvoice writes
back the row it read. `Sweep` is ProcessBillingLifecycle: one list, then row by
row. `age` stands for the due date: 0 not due, 1 overdue, 2 past the 48 hours of
grace. `Signed` and `trusted` are those of `OrderPayments`; `Funded` are the
subscriptions with money, somebody's word or misplaced trust behind them.

**Databases and quota.** `HostedDatabases` models Create (lock the user, count,
insert, provision), Delete (to the bin, or drop and remove the row) and Restore
over the registry, whose unique key counts deleted rows, and the MySQL server. The
writes of Delete and Restore may fail; a Delete whose row write fails answers 500
and leaves a row without a database (databases.go:504-510). The history `intact` has
the databases that were reported created and that neither of the two has cost since.

**The panel.** `PanelPage` is the frame of every page. A *pane* is one piece of
fetched React state (`copy`), a *change* one run of a handler (`changes`), and
`queue` holds the answers to the pane's fetches that are still to come. Panes
never read each other, so one pane of one page, `eye` of `page`, is picked
at the start and watched; the handlers of the other panes still run, for they
move the selection and close modals. Data are abstracted to what the properties
tell apart: for which selection the pane was fetched (`of`), and which changes
of this page it lacks. `Change` and the operators after it (`Optimistic`,
`Unchecked`, `Flagged`, `Putting`, `Forgetting`, ...) say what a handler does:
which panes it changes on the server, what it awaits, what it fetches or patches,
when it closes its modal. `Serve` is the API with four outcomes (done, refused,
failed, lost after it was carried out), `Answer` the rest of the handler, with
the selection it was started with; `PutDown` sets a fetch's answer as state.
A handler that puts back the whole list that it closed over (`Rewriting`) takes out
what came in between: `Unaware` marks it once the pane has changed under it. `Leaving`
marks the changes that will be reported to another view than their own, and `Renews`
says whether their handlers make the pane fresh all the same. `WebPanel`
assumes only that the things to select have names (`ItemsAreNamed`).
A page module names its panes (`Pane`), says what is `Shown`, what its
`Effects` fetch, how it `Opens`, and has one operator per handler and fetch:

| Module | Source |
|---|---|
| `DatabaseConsole` | `phpmyadmin` |
| `WebsitesPage`, `SiteModal`, `SiteTools` | `websites`; `SiteModificationModal.tsx`; the WordPress, Git, caching and runtime tabs under `components/` |
| `EmailPage`, `BillingPage`, `AccountsPage`, `SupportPage` | `email`, `billing`, `accounts`, `support` |
| `FilesPage`, `BackupsPage`, `DatabasesPage` | `files`, `backups`, `databases` |
| `DomainsPage` | `domains` |
| `ServersPage`, `WebServersPage`, `PhpPage` | `servers`, `webservers`, `php` |
| `ListPages` | `ssl`, `admin/users`, `firewall`, `ftp`, `cron`, `admin/domains` |

`WebPanel` composes them: one page is mounted at a time, over one network.

**Settings.** `PanelSettings` watches one field of the record (`eye`), because
fields never read each other: a save of another field matters only by the value
of the watched one that it carries along. It has the tabs with their forms, the
saves in flight, and the store, which answers its defaults when the database
does not (settings_store.go:100). Until the table has its `row`, a read that found
none writes the defaults, over a save that came in between (`Seed`,
settings_store.go:94-97). `LeftOut` is the case that a text is stored empty
which loadSettings only takes when it is not (settings:261-298). `Watched` are the
fields from which `eye` is chosen.

**Two-factor authentication.** `TwoFactor` has the handlers of auth_2fa.go
statement by statement and the modal of the settings page in each tab. Secrets
and sets of codes are numbered as they are made.

The `MC*` modules only name sets and functions for the configurations. The
definitions whose comment begins with "Bug:" are not part of any specification:
they are mutated forms of the definition that follows them, listed under
`mutants` in `PROJECT.json`, each of which makes the property it is listed
with fail.

## 3. Runs

| Run (configuration) | Bounds | Shows |
|---|---|---|
| `UpdateAlone` | 3 jobs, versions below, at and above the base, all packages accepted, 1 crash, no administrator | one executor; COMPLETED and ROLLED_BACK agree with the disk; final statuses are final; the link moves only under an announced phase and to the release asked for; every update ends; `AtomicUpdate` is implemented |
| `UpdateAdmin` | 2 jobs, 1 rollback request, all packages accepted, 1 crash | even with manual rollbacks the link never dangles, and the update lock is free once all is quiet and again and again |
| `ProvisionRivals` | 2 orders for one name, 2 processes, 3 connections that close at any time, 3 workers, 1 retry, 1 crash, lost answers, failing writes | two workers meet only after one lost its lock with a connection, and even then the name is booked once and the completed order owns it; the lock map leaks nothing, a name is ours only for a paid order |
| `ProvisionConcurrent` (violated) | 2 orders for one name, 2 processes with 1 connection each, 2 workers | two workers provision one name at once after a connection was closed |
| `ProvisionLost` (violated) | 1 order | an order whose registration succeeded with a lost answer ends as failed |
| `OrderPayments` | 1 order, 2 processes with 1 connection each that closes at any time, 2 workers, 2 requests, 1 crash, `Signed = FALSE` | nothing is paid but by money, an administrator or misplaced trust, the books agree when all is quiet, workers return |
| `OrderEventLost` (violated) | 1 order, no crash, `PlanlessRows = FALSE` | on PostgreSQL the gateway's event does not get a domain order paid |
| `Databases` | 1 organization with 2 members, 3 requests, 3 names, limit 1, failing writes | the lock is exact, the limit is passed by at most one database per further creator, a live row has its database but for a restore or a half failed deletion |
| `Subscriptions` | 2 subscriptions, 2 requests at once, 3 in all, 1 crash, `Signed = FALSE` | active means paid, granted or trusted; an event on record has activated; nobody is suspended within the grace period; a non-payer is suspended in the end |
| `Panel` | 19 pages, a modal and 4 tool tabs, one at a time, 2 things to select, 1 change in flight, 1 or 2 fetches of the pane in flight when the user acts | a page shows what it has reported as done, of what is selected, once all is answered, but for the excuses of section 4 |
| `Settings` | 2 tabs, 2 saves in flight, 11 of the 28 fields in turn | but for the two excuses of section 4, a tab whose copy is up to date undoes nobody's change; a tab that is loaded, or whose save nothing crossed, shows what is stored |
| `TwoFactor` | 2 tabs, 2 secrets, 2 sets of codes | while 2FA is on, the secret was scanned and its codes were shown; the tab that changed it shows how it is |

**Why the bounds are enough.** A violation of exclusion needs two rivals and somebody
who changes a lock under them, which is why there are two processes, a third worker in
one of them, a retry, and a second connection of one process. Overwriting by a stale
copy needs two writers and one reader: two requests and a worker. "Already processed"
needs a first delivery that is cut short and a second one: two payments, one crash.
The third request of `Subscriptions` is the order itself, or a change by hand that
makes a subscription active which is not paid. Two subscriptions are there because the
sweep suspends every account of the customer, and because of the one-trial rule. The
quota overshoot needs two users at work at once while one of them is queued behind
himself: three requests. A third job in `UpdateAlone` lets one update start while a
release left half staged by an earlier one is still on disk and another is live. In
the panel a stale pane needs a change and a fetch that was composed before it and
answered after the page's own; foreign data need two selections and two fetches. Every
page was also checked with two fetches at once, the console as far as 11 million
states; the ten pages with the most panes have one fetch in the standing run to keep
it short. One change in flight keeps the run at 3 million states. What several
handlers do to each other is covered by the proof, which bounds neither changes nor
fetches; its invariant was checked with two in flight on billing, support, servers,
the site modal, the tool tabs and the list pages. In `Settings` one tab's stale save
crosses another's, so two tabs and two saves; of the fields, it watches two switches,
a text that a modal saves and every text that is typed. All 28 were checked as well
(3.0 million states); the other 17 are edited by the same handlers as those. In
`TwoFactor` the second secret replaces the first between check and write. Counters
(`asked`, `retries`, `crashes`, lock depth) only bound the environment. `Subscriptions`
gives out new ids and free slots in one order, for neither differs from another.
Deadlock is not checked where the bounded supply of jobs, orders or requests runs out. `Databases`
uses the symmetry of names, `Panel` that of the things to select, `TwoFactor` that of
tabs; no run with a liveness property uses symmetry. `Panel` stops where a page failed
to load and can only be left.

**Fairness.** Goroutines of updates and workers run on background contexts and are not
cancelled; a handler that has begun runs to its end unless the process dies, and no
step waits for another one's step (a busy user mutex is the exception, and no liveness
is claimed of it). So each goroutine and each request once begun is weakly fair. The
lifecycle worker's ticker does not stop: `Sweep` is weakly fair. In `OrderPayments`
the gateway repeats the event of a charged order while requests may still come. No
liveness is claimed of the panel: a request without an answer leaves it waiting. No
fairness is assumed of crashes, customers, administrators, the registrar or time.

## 4. What the violated runs and the modelling found

Three disagreements have a run that shows them (`findings` in `PROJECT.json`):

1. The lock that is taken "to prevent concurrent provisioning" (registration.go:48)
   is one of a database session that the pool may close while the worker goes on
   (domain_store.go:1661, store.go:1793-1795; `ProvisionConcurrent`).
2. The recovery check compares the registrar's status with "Active" and
   "Registered", while the client reports "active" (registration.go:128,
   resellerclub/domains.go:307; `ProvisionLost`).
3. The invoice of a domain order names neither plan nor organization. PostgreSQL
   refuses it, the store then writes it to a memory store of its own and reports
   success (orders.go:107, billing_store.go:1066). **So as shipped on
   PostgreSQL no domain order is ever paid by an event** (`OrderEventLost`), and
   `OrderPayments` with `PlanlessRows = TRUE` describes the logic from a stored
   invoice on: the memory store, or a schema without the two foreign keys.

Seen while reading, without a run of their own. Live updates:

- No update that an administrator starts gets past the verifier (`Accepted`, section 2).
  So it cannot be met as shipped, but would be with a genuine package, that every job's
  previous version is the constant "1.0.0" (updates.go:195): a failed update is rolled
  back to that, where docs/update-system.md:14 promises the previous release.
- TriggerRollback rewrites a status and answers "Active version restored"
  (updates.go:286), but restores nothing; docs/update-system.md:84 promises it.
- Manual rollback frees the update lock while the goroutine still runs, so a
  second executor can start (updates.go:276); Transition stores any status over
  any other (job.go:161); the temporary link is named by process id, so it is one
  for all activations (deployer.go:133); a target equal to the live version is
  overwritten in place (deployer.go:99); the downgrade check compares with
  "1.0.0" (release.go:79); the manifest carries no checksum.

Domains and payments:

- The order is read before the locks and not again (registration.go:33): a worker
  that read it early turns a completed order back to provisioning and then to
  failed. MarkOrder's stale copy can turn a completed order back to pending.
- A crash between the paid invoice and its order leaves the order pending; every
  later event is answered as already paid (billing.go:1742). The same holds
  between a paid invoice and its subscription.
- "Registration will **never** execute on unconfirmed or unpaid orders"
  (docs/domains/troubleshooting.md:43) holds up to what is taken on trust (`trusted`,
  section 2): unsigned events, which billing_test.go:474-530 expects to be
  believed, and references to another payment. The same goes for "NEVER activate without
  verified payment!" (billing.go:857).
- An unlock on another connection changes nothing (domain_store.go:1669) and leaves
  the name locked until that connection is closed; one process may take the
  reconciliation lock twice. The reconciliation writes back domains that it listed
  long before, one registrar call each (reconciliation.go:26, :35).
- A payer's invoice is read without its organization, so the account that is to
  be opened for him and his transaction row are refused by foreign keys, and the
  errors dropped (billing.go:442, :577).

Subscriptions:

- Trial dates are neither written nor read (billing_store.go:875), so trials
  never end although the sweep looks for it (billing.go:2363), an extended trial's
  date is lost, and the one-trial rule sees only a trial that is still running.
- Renewing activates without looking at an invoice; a late payment revives a
  cancelled subscription; the grace period is 48 hours in billing.go and 7 days
  in quota.go; CheckoutInvoice, the sweep and a late "failed" event can each turn
  a paid invoice back; the quota service can undo a suspension it did not see.
- A sweep that dies between the subscription and its accounts leaves them active
  (billing.go:2325), and one that meets a payer leaves an active account over a
  suspended site (billing.go:2333).

Databases:

- A deletion whose row write fails has dropped the database already, answers 500
  and leaves the row (databases.go:504-510).
- DeleteDatabase sets `deleted_at` with `in_recycle_bin` (hosting_store.go:638), and
  every reader skips rows with `deleted_at`, so the recycle bin is always empty
  and RestoreRecycleBin (databases.go:904) finds nothing through it.
- Create racing with Delete can leave a database on the server without a row;
  members of one organization pass its limit together, for the lock is per user.

### The panel

`apiFetch` never throws (api.ts:527-633), so the pages' `catch` branches are
dead. `ReadYourWrites` and `NoForeignData` hold up to the following,
which the model has and the properties excuse by name.

- *"late"*: no page tells the answers of its fetches apart. A fetch composed before a
  change and answered last puts the old state back: a toggle followed by Refresh
  (billing's gateways, ftp, cron), or a modal that shows another domain's DNS check
  (email:936), EPP code or lock (domains:364, :400, :414), from where it can be saved
  for the wrong domain. In files the content of one file can come up under the name of
  another, and be saved there.
- *"astray"*: a handler fetches again for the selection it was started with, after
  the user has moved on (phpmyadmin:788, support's open ticket).
- *"kept"*: after a failed fetch a page goes on showing what it had; in
  webservers the configuration kept is that of the previous engine (:165), which
  Save writes to the engine now selected (:177).
- *`Forgetting`* handlers neither fetch nor patch a pane that they change:
  backups handleDeleteRepository (its snapshots go with it, :515), databases
  handleSyncAll (:458), domains handleToggleLock (:394), files onRetry, php
  install, remove, handleFpmAction, saveDirective and saveRaw (the raw text is
  then saved over the directive, :823), the WordPress tab's handlePushToLive
  (:131) and the counters of support.
- *`Renews`*: handlers that only fetch what showed where they were started, so that a
  pane which the user opened before the answer came misses the change. In the console
  these are handleStartImport (:1120-1146, the tree and the tables only),
  handleExecuteSql (:657-664, not the entities and privileges, nor a table when none
  was selected), the overview's handlers that empty or drop tables (:1480, :1495 and
  the buttons of a table's row), dropping a table from its tab (:1021), and any
  handler that was started before a database or table was selected; in email
  handleSendTestEmail (:1236, the queue and the logs). With one change in flight TLC finds no others.
- *`Rewriting`* handlers await their request and then put back the list, or the
  record, of the render they were started from, so of two that are under way at once
  the first one's change leaves the screen, and what a fetch brought meanwhile goes
  too (email:1393, :1412, :1442; excused as "late"). They are email handleAddMailbox,
  handleDeleteMailbox, handleDeleteDomain and handleClearQueue; handleSaveTrialSettings
  of billing; of the tool tabs handleToggleMaintenance, handleToggleDebug,
  handleDeleteStaging, handleSaveRepo, handleDeleteRepo, handleDisableCache,
  handleSaveApp and handleDeleteApp.

Beyond the properties:

- Many handlers announce success whatever the answer was (`Unchecked`: billing's
  cancel and renew, websites' backup, PHP and SSL, the console's bulk operations,
  databases' delete and restore); optimistic switches are never set back.
- The tabs of the site modal each send a whole configuration, the rewrite tab only
  its rules (:557); its domains, redirect, proxy, composer and git-pull tabs send
  nothing and report success. Editing a disabled job enables it (cron:131). php
  selects the first installed version again at every refresh (:135).
- *Settings.* A page that is still loading, failed to load, or was answered the
  defaults (settings_store.go:100) stores its initial values over the record at the
  first switch (settings:469). A text that is stored empty is not taken over by
  loadSettings (settings:261-298), so the page shows the value it started with and the
  next save of whatever field stores that (`LeftOut`). The first read of an empty
  table writes the defaults, over a save that came in between
  (settings_store.go:94-97, `Seed`). The properties name both. A save to a database
  that does not answer is reported as done (settings_store.go:129). The two modals
  that first change the account save with the values of an older render (settings:621,
  :642). Alias, authorized IP, password expiry and the unbinding of the account are
  reported as saved without a request (settings:1987, :2486, :2546, :1583).
- *Two-factor authentication.* A status that arrives late (settings:322) offers Setup
  to a user who has 2FA on, and Setup2FA switches it off. Disable2FA's two writes
  (auth_2fa.go:320, :324) around another tab's enable leave 2FA on without recovery
  codes. An answer that is lost, or comes after the modal was closed, takes the new
  codes with it. These are the `mishap`s of `TwoFactor`.

## 5. Proofs

All are checked by tlapm for every value of the constants.

| Theorem | Says | Assumes |
|---|---|---|
| `UpdateProofs!TypeCorrect`, `LinkHolds`, `LockFree` | `TypeOK`, `CurrentNeverDangles`, `QuietMeansUnlocked` | the modules' assumptions, any administrators, any `Accepted` |
| `UpdateProofs!MutualExclusion`, `OutcomeHolds`, `FinalHolds`, `SwitchHolds`, `AnnouncedHolds` | `SingleExecutor`, `OutcomeMatchesDisk`, `FinalStatusIsFinal`, `ActivateSwitchesToTarget`, `SwitchIsAnnounced` | `Admins = {}` |
| `UpdateProofs!Refinement` | the pipeline implements `AtomicUpdate` | `Admins = {}` |
| `AdvisoryLockProofs!LockInvariant`, `CrossProcess` | `LockInv`; `CrossProcessExclusion` | the module's assumptions |
| `ProvisioningProofs!ProvisionTypes`, `OursIsPaid` | `ProvisionTypeOK`, `OursWasPaid` | the modules' assumptions |
| `ProvisioningProofs!Exclusion`, `MapExact` | `OneWorkerPerName`, `LockMapIsExact` | the modules' assumptions |
| `ProvisioningProofs!CompletedOwns`, `BookedOnce` | `CompletedOwnsDomain`, `OneSuccessPerName` | `InfoStatus` is neither of the two words the worker accepts |
| `ProvisioningProofs!PaymentTypes`, `PaidIsCharged`, `QuietAgrees` | `PaymentTypeOK`, `PaidWasCharged`, `QuietIsConsistent` | the modules' assumptions |
| `DatabaseProofs!DatabaseTypes`, `LockIsExact`, `OvershootIsBounded`, `LiveIsKept` | `DatabaseTypeOK`, `MutexIsExact`, `QuotaOvershoot`, `LiveIsOnServer` | the module's assumptions |
| `SubscriptionProofs!SubTypes`, `ActiveIsPaid`, `NotedIsActivated`, `GraceHolds` | `SubTypeOK`, `ActiveWasPaid`, `NotedWasActivated`, `GraceIsKept` | the module's assumptions |
| `SettingsProofs!SettingsTypes`, `SpecSyncedIsStored`, `SpecNobodyElseIsUndone` | `SettingsTypeOK`, `SyncedIsStored`, `NobodyElseIsUndone` | the fields are among those modelled |
| `TwoFactorProofs!TwoFactorTypes`, `SpecEnabledIsScanned`, `SpecCodesWereShown`, `SpecStatusIsTrue` | `TwoFactorTypeOK`, `EnabledIsScanned`, `CodesWereShown`, `StatusIsTrue` | the module's assumptions |
| `PanelProofs!SpecPanelInv`, `SpecPanelTypeOK`, `SpecReadYourWrites`, `SpecNoForeignData` | `PInv`; `PanelTypeOK`, `ReadYourWrites`, `NoForeignData` | `ItemsAreNamed` |

*Updates.* `SingleExecutor` speaks of goroutines, StartJob looks at stored
statuses. The inductive invariant `IInv` ties them: an executing job is active,
and at most one job is active. Lemma `ExecuteFrame` reduces every step of the
pipeline to what it does to status and place. With an administrator it is false
(run `update_admin` checks only what survives), so five theorems and the
refinement assume that nobody presses Rollback.

What survives administrators has invariants of its own. `LinksLead`: the
deployer asks os.Stat before it makes the temporary link and renames whatever
that link is by then, so both links, and what a caller past os.Stat is going to
link, must lead to a directory. `LockIsOwned`: an active job has a goroutine,
which ends by storing a final status, or a rollback request between its writes.

`Story` adds to `IInv`, per job, that status, place and deployer call fit
together (`Phase`) and that the disk goes along (`Disk`: what is being extracted,
what is whole, where the links lead). By lemma `RunsAlone` whoever takes a step
is the only one that runs. The refinement maps `AtomicUpdate`'s variables to the
link, to the target of the one active job (`Flight`) and to the last job's final
status (`Ending`); lemma `StepMaps` shows each step to be one of the abstract
update or a stutter.

*Locks.* Processes hold one key together only after one of them `lost` it. This
follows from `OneSession` (at most one connection has it) and `Backed` (a process whose
goroutines hold a lock that was not lost has it in one of its sessions, with at least
as many counts as there are holders). The counts are needed because unlocks may
miss: they only ever leave more counts than holders. `LostIsHeld` says that what is
lost is still worked under, so a loss is forgotten with its last holder and
excuses nobody later.

*Provisioning.* `ExclusionInv` adds that the worker's place says what it holds
(`HoldsMatches`), that the map is exact and admits one worker per name
(`OneInMap`). Across processes the advisory lock excludes, within a process the
map, because one session could take the lock twice. `Effect` abstracts each step
to its effect on the locks, and the step of the lock is a step of `LockSpec`, so
the invariant of `AdvisoryLock` carries over.

`PaidInv` says that every worker under way has a paid order and every name of
ours a payer. `Books` says that a name free at the registrar has no row, and what a
worker that has registered finds in the tables until it books. Neither uses a lock, so
what they prove holds when connections close: only a registration that took a
free name leads on to saving, and a name is taken once (`OneSaves`). That needs that
no status word of GetDomainInfo is accepted: both clients report lower-case
words (`namecheap/client.go:229`, `resellerclub/domains.go:307`), the worker looks
for "Active" and "Registered" (`registration.go:99`). With such a word two orders
for one name could both complete on one row. A crash or a failed write between two of the
steps leaves a row or a registration without the rest, which the invariant allows.

*Payments.* `PayInv` says what a request knows once it is past its checks: there is
money, an administrator's word or a payment taken on trust (`MayPay`), and the
transaction is booked before the order is read (`HasBooked`). All of these only grow,
so a stale copy stays true. Until a process dies, a paid invoice has its order paid or
a request on the way (`PaidIsSettled`).

*Databases.* `DatabaseInv` counts: rows that count plus requests that passed the
check stay below the limit plus the number of creators at work. The check adds
one to the second term only while the row count is below the limit. `Kept` adds
that an `intact` name keeps a row, so what takes it off the server is a deletion
that goes on to mark that row, or that fails to and ends what is claimed of it.

*Subscriptions.* Handlers write back rows that they read steps ago. `RowOK` says
what a request knows at each step (what an event settles is `Funded`, with money or on
trust, and so was a copy that says active when it was read). It survives the
steps of others because money, grants, trust, activations and lateness only grow
(`NextGrows`), so what a stale copy knows stays true. `SweepOK` ties whatever the
worker is about to suspend to an invoice past its grace period.

*Settings.* The invariant says what a copy is worth: what a faithful tab has read is
what is stored, or left out (`TabInv`), so is what a faithful save carries (`PutInv`),
and a save that nothing crossed carries what its tab shows (`Uncrossed`). Every
edit is a save or a text typed in the form (`EditsSaveOrType`), so two lemmas cover the
fifteen cards. `SeedKeeps` and `WriteKeeps` cover the two ways in which the record is
written, which make everybody's copies unfaithful whose field they change.

*Two-factor authentication.* activate writes the secret that Enable2FA checked,
not the one the row holds by then. `TypedWasScanned` follows that secret from
the form to the row: a request on its way to enabling carries one that was scanned.

`CodesWereShown` and `StatusIsTrue` speak of histories, so their invariant `HInv` says
what is still on its way: whoever's request wrote the row last either shows it or will
by its own answer (`LastWillShow`), and stored codes that nobody saw are brought by
some request (`CodesOnTheWay`). Both need that a form which can enable belongs to a
tab that shows 2FA as off (`FormsFit`). All three hold until one of the `mishap`s of
the model, which the properties excuse by name.

*Panel.* `PInv` says why a page ends up with the truth. `Fresh` carries it: if the pane
is one that the page keeps fresh where the user is (`Held`, per page in `Kept`), then
its newest fetch is of what is selected and lacks nothing, or, when there is none
left, the pane itself. The rest is there to make `Fresh` inductive.

- `ChangesFit`: a handler that will report its change fetches, patches or clears the
  pane (where the user has moved on, if it `Renews` the pane there), or leads to where
  it is not shown (`Minds`). A handler that did none of this is how a page forgets;
  the ones marked Forgetting are left out by the model.
- `Books`: what a pane or a fetch lacks is a change that was carried out and is about its
  data. Only such a change can make the pane fall behind when it is reported.
- `Claims`: what a handler shows before its request is answered stays shown, or the
  fetches that could take it off are marked as overtaken.
- `Overtaken`: once the newest fetch is answered, the older ones still to come are late.
- `PageFits`, `Watched`, `Shapes`: what single pages guarantee of their selection.

The proof is in two layers. Once for all pages: a move of the user (`MoveKeeps`), a
request sent (`SubmitKeeps`), served (`ServeKeeps`) and answered (`AnswerKeeps`), and a
fetch put down (`PutDownKeeps`) keep `PInv`, whatever the page, if it fetches on every
way to a kept pane and its handlers fit. Then per page, for each of its handlers and
ways: that this is so (`BillingKeeps`, ..., `EmailKeeps`), that its handlers may land
where they lead (`AnswerLands`), and that it starts in the invariant (`BillingOpens`,
...). A pane on screen is a kept one (`ShownIsHeld`), which gives both properties. TLC
checked `PInv` on the instance of the run and the instances with two changes named in
section 3 before it was proved. tlapm takes about 18 minutes for this module.

Only model-checked: `JobEnds`, `LockReleased`, `WorkersReturn` and `NonPayerIsSuspended`,
which hold under fairness; the prover has no liveness or ENABLED. Every other property
of a passing run is proved, the update ones that name `Admins = {}` for that case. Nothing
proved depends on a recursive definition.

## 6. Not modelled

A death of the process in `HostedDatabases`. Amounts, taxes, currencies, names,
templates, notices, audit rows. The content of snapshots and of database migrations
(success or failure only). Sync, users and renaming of databases. Domain transfer,
renewal and reconciliation. HTTP, signatures and roles. Of the panel: layout, wording,
the redirect after a 401, an answer whose body stalls after its headers (its handler
then never ends), client-side sorting and filtering, and the pages under "panel: other
pages", of which the DNS page's DMARC, DKIM and batch buttons change only local state.
Two pages open at once on the same data: nothing is pushed to a page, so what another
user changes shows at the next fetch, and no property promises more; only
`PanelSettings` and `TwoFactor`, which store what a page holds, have several tabs. The
components marked `not_modelled` in `PROJECT.json` with their reasons.

## 7. Plan

Order of work: what moves money or serves traffic first.

1. *Done:* update pipeline with its abstract promise, locks and provisioning,
   order payments, hosted databases with quota, subscriptions; the panel's pages,
   settings and two-factor authentication.
2. *Next modules:* agent tasks (delivery at least once, late results, the
   abstract promise "each task ends once"), cross-node migration composed with
   them, incremental backups (chunks shared by snapshots, retention), the switch
   of web servers with its roll-back, DatabaseMigrator with the advisory lock of
   `AdvisoryLock`, rolling updates and release retention over `ReleaseDeployer`,
   domain reconciliation over `DomainProvisioning`.
3. *Next proofs:* the safety half of the liveness properties (what a suspended
   customer's rows say between two sweeps), and a refinement of one page by an
   abstract page whose every fetch is answered at once.
