------------------------- MODULE DomainProvisioning -------------------------
(***************************************************************************)
(* ProcessPaidOrder (apps/api/internal/domains/registration.go): goroutines*)
(* ("workers") that register the domains of paid orders, over the advisory *)
(* lock, the in-process lock map, the order and domain tables, and the     *)
(* registrar.  A worker is a task of AdvisoryLock, a domain name is a key. *)
(* The worker drops the errors of the store: each of its writes may be     *)
(* refused and it goes on all the same.                                    *)
(***************************************************************************)
EXTENDS AdvisoryLock

CONSTANTS
  Orders,      \* registration orders
  NameOf,      \* the domain name an order asks for
  NoOrder,
  InfoStatus,  \* the status GetDomainInfo reports for a name we registered
  InfoFails,   \* GetDomainInfo may fail
  MaxRetries,  \* bound on how often an administrator presses Retry
  MaxCrashes   \* bound on process crashes

ASSUME ProvisionAssumption ==
  /\ NameOf \in [Orders -> Keys]
  /\ NoOrder \notin Orders
  /\ InfoFails \in BOOLEAN
  /\ MaxRetries \in Nat /\ MaxCrashes \in Nat

VARIABLES
  order,     \* domain_orders: payment and provisioning status
  record,    \* domains: the order a domain's row was created for
  success,   \* domain_transactions: "success" rows per order
  registry,  \* who has each name at the registrar
  local,     \* ProvisioningWorker.locks of each process
  work,      \* the workers
  retries, crashes

dataVars == <<order, record, success, registry>>
provVars == <<dataVars, local, work, retries, crashes, lockVars>>

Workers == Tasks
Names   == Keys

\* Between the advisory lock and its release.
Locked   == {"mark", "look", "register", "recheck", "fail", "save", "complete",
             "ledger", "unlock"}
\* Between the entry in the lock map and its deletion.
Mapped   == Locked \cup {"advisory", "unmap"}
At       == Mapped \cup {"idle", "load", "map"}
Provisioning == {"pending", "provisioning", "failed", "completed"}

Name(w) == NameOf[work[w].order]

ProvisionTypeOK ==
  /\ LockTypeOK
  /\ order \in [Orders -> [payment : {"pending", "paid"}, provisioning : Provisioning]]
  /\ record \in [Names -> Orders \cup {NoOrder}]
  /\ success \in [Orders -> Nat]
  /\ registry \in [Names -> {"free", "ours", "theirs"}]
  /\ local \in [Procs -> SUBSET Names]
  /\ work \in [Workers -> [at : At, order : Orders \cup {NoOrder}]]
  /\ \A w \in Workers : work[w].at = "idle" <=> work[w].order = NoOrder
  /\ retries \in 0..MaxRetries
  /\ crashes \in 0..MaxCrashes

Idle == [at |-> "idle", order |-> NoOrder]

ProvisionInit ==
  /\ LockInit
  /\ order = [o \in Orders |-> [payment |-> "pending", provisioning |-> "pending"]]
  /\ record = [n \in Names |-> NoOrder]
  /\ success = [o \in Orders |-> 0]
  /\ registry = [n \in Names |-> "free"]
  /\ local = [p \in Procs |-> {}]
  /\ work = [w \in Workers |-> Idle]
  /\ retries = 0 /\ crashes = 0

Goto(w, a) == work' = [work EXCEPT ![w].at = a]
Return(w)  == work' = [work EXCEPT ![w] = Idle]

\* UpdateDomainOrder with a worker's copy writes the whole row; the copy was
\* paid when it was read, and nothing else of it matters here.
WriteOrder(o, s) ==
  order' = [order EXCEPT ![o] = [payment |-> "paid", provisioning |-> s]]

\* The worker's write, the error of which is dropped.
TryWriteOrder(w, s) == WriteOrder(work[w].order, s) \/ UNCHANGED order

KeepBounds == UNCHANGED <<retries, crashes>>
KeepLocks  == UNCHANGED <<local, lockVars>>

-----------------------------------------------------------------------------
(* The registrar (external) *)

\* RegisterDomain: what the registrar has afterwards and whether the client
\* sees a success.  A request may be carried out and its answer lost.
RegisterOutcomes(n) ==
  IF registry[n] = "free"
    THEN {<<"ours", TRUE>>, <<"ours", FALSE>>, <<"free", FALSE>>}
    ELSE {<<registry[n], FALSE>>}

\* Somebody else registers the name first.
Grab(n) ==
  /\ registry[n] = "free"
  /\ registry' = [registry EXCEPT ![n] = "theirs"]
  /\ UNCHANGED <<order, record, success, work>> /\ KeepLocks /\ KeepBounds

\* Bug: any registration of ours is taken for this order's.
RecognisedAnyCase(n) ==
  registry[n] = "ours" /\ InfoStatus \in {"Active", "Registered", "active"}

\* GetDomainInfo finds the name in our account, and the worker accepts the
\* status word it reports.
Recognised(n) ==
  registry[n] = "ours" /\ InfoStatus \in {"Active", "Registered"}

\* The results a GetDomainInfo check may have.
Checks(n) == {Recognised(n)} \cup (IF InfoFails THEN {FALSE} ELSE {})

-----------------------------------------------------------------------------
(* Dispatch *)

Dispatch(w, o) ==
  /\ work[w].at = "idle"
  /\ work' = [work EXCEPT ![w] = [at |-> "load", order |-> o]]

\* A payment is confirmed: the order is marked paid and a worker is spawned.
Pay(w, o) ==
  /\ order[o].payment = "pending"
  /\ order' = [order EXCEPT ![o].payment = "paid"]
  /\ Dispatch(w, o)
  /\ UNCHANGED <<record, success, registry>> /\ KeepLocks /\ KeepBounds

\* RetryOrder: refused for unpaid and for completed orders.
RetryOrder(w, o) ==
  /\ retries < MaxRetries
  /\ order[o].payment = "paid" /\ order[o].provisioning # "completed"
  /\ retries' = retries + 1
  /\ Dispatch(w, o)
  /\ UNCHANGED <<dataVars, crashes>> /\ KeepLocks

-----------------------------------------------------------------------------
(* The worker *)

\* Read the order; return unless it is paid and not completed.
Load(w) ==
  /\ work[w].at = "load"
  /\ LET o == work[w].order IN
       IF order[o].payment = "paid" /\ order[o].provisioning # "completed"
         THEN Goto(w, "map") ELSE Return(w)
  /\ UNCHANGED dataVars /\ KeepLocks /\ KeepBounds

\* Enter the name in the process's lock map, or return "already in-flight".
MapLock(w) ==
  /\ work[w].at = "map"
  /\ LET p == ProcOf[w] IN
       IF Name(w) \in local[p]
         THEN Return(w) /\ UNCHANGED local
         ELSE /\ local' = [local EXCEPT ![p] = @ \cup {Name(w)}]
              /\ Goto(w, "advisory")
  /\ UNCHANGED <<dataVars, lockVars>> /\ KeepBounds

\* Bug: the refused worker returns without the deferred map deletion.
AdvisoryLeaky(w) ==
  /\ work[w].at = "advisory"
  /\ \/ Acquire(w, Name(w)) /\ Goto(w, "mark")
     \/ Refuse(w, Name(w)) /\ Return(w)
  /\ UNCHANGED <<dataVars, local>> /\ KeepBounds

\* Bug: the worker goes on without the lock.
AdvisoryIgnored(w) ==
  /\ work[w].at = "advisory"
  /\ \/ Acquire(w, Name(w))
     \/ Refuse(w, Name(w))
  /\ Goto(w, "mark")
  /\ UNCHANGED <<dataVars, local>> /\ KeepBounds

\* TryAcquireDomainAdvisoryLock, or return "operation in progress".
Advisory(w) ==
  /\ work[w].at = "advisory"
  /\ \/ Acquire(w, Name(w)) /\ Goto(w, "mark")
     \/ Refuse(w, Name(w)) /\ Goto(w, "unmap")
  /\ UNCHANGED <<dataVars, local>> /\ KeepBounds

\* Store the order as provisioning.
Mark(w) ==
  /\ work[w].at = "mark"
  /\ TryWriteOrder(w, "provisioning")
  /\ Goto(w, "look")
  /\ UNCHANGED <<record, success, registry>> /\ KeepLocks /\ KeepBounds

\* GetDomainInfo: is the name already ours?
Look(w) ==
  /\ work[w].at = "look"
  /\ \E known \in Checks(Name(w)) : Goto(w, IF known THEN "save" ELSE "register")
  /\ UNCHANGED dataVars /\ KeepLocks /\ KeepBounds

\* RegisterDomain at the registrar.
Register(w) ==
  /\ work[w].at = "register"
  /\ \E r \in RegisterOutcomes(Name(w)) :
       /\ registry' = [registry EXCEPT ![Name(w)] = r[1]]
       /\ Goto(w, IF r[2] THEN "save" ELSE "recheck")
  /\ UNCHANGED <<order, record, success>> /\ KeepLocks /\ KeepBounds

\* Bug: the registration is tried again until it succeeds.
RecheckRetries(w) ==
  /\ work[w].at = "recheck"
  /\ \E known \in Checks(Name(w)) : Goto(w, IF known THEN "save" ELSE "register")
  /\ UNCHANGED dataVars /\ KeepLocks /\ KeepBounds

\* After an error: GetDomainInfo again.
Recheck(w) ==
  /\ work[w].at = "recheck"
  /\ \E known \in Checks(Name(w)) : Goto(w, IF known THEN "save" ELSE "fail")
  /\ UNCHANGED dataVars /\ KeepLocks /\ KeepBounds

\* Bug: the order is put back to its initial state, to be paid again.
FailResets(w) ==
  /\ work[w].at = "fail"
  /\ order' = [order EXCEPT ![work[w].order] =
                 [payment |-> "pending", provisioning |-> "failed"]]
  /\ Goto(w, "unlock")
  /\ UNCHANGED <<record, success, registry>> /\ KeepLocks /\ KeepBounds

\* Store the order as failed and record the failed transaction.
Fail(w) ==
  /\ work[w].at = "fail"
  /\ TryWriteOrder(w, "failed")
  /\ Goto(w, "unlock")
  /\ UNCHANGED <<record, success, registry>> /\ KeepLocks /\ KeepBounds

\* Bug: no foreign key, so that an order may name a row that is not there.
SaveUnchecked(w) ==
  /\ work[w].at = "save"
  /\ \/ record' = [record EXCEPT ![Name(w)] = IF @ = NoOrder THEN work[w].order ELSE @]
     \/ UNCHANGED record
  /\ Goto(w, "complete")
  /\ UNCHANGED <<order, success, registry>> /\ KeepLocks /\ KeepBounds

\* Create the domain's row, or update the one that exists.  When the row cannot
\* be read or created, the worker goes on with the id of no row: the foreign
\* keys of domain_orders and domain_transactions refuse that id in the two
\* writes that follow, and the worker has nothing left to do but to unlock.
SaveDomain(w) ==
  /\ work[w].at = "save"
  /\ \/ /\ record' = [record EXCEPT ![Name(w)] = IF @ = NoOrder THEN work[w].order ELSE @]
        /\ Goto(w, "complete")
     \/ UNCHANGED record /\ Goto(w, "unlock")
  /\ UNCHANGED <<order, success, registry>> /\ KeepLocks /\ KeepBounds

\* Store the order as completed.
Complete(w) ==
  /\ work[w].at = "complete"
  /\ TryWriteOrder(w, "completed")
  /\ Goto(w, "ledger")
  /\ UNCHANGED <<record, success, registry>> /\ KeepLocks /\ KeepBounds

\* Record the successful transaction, or drop the store's error.
Ledger(w) ==
  /\ work[w].at = "ledger"
  /\ success' = [success EXCEPT ![work[w].order] = @ + 1] \/ UNCHANGED success
  /\ Goto(w, "unlock")
  /\ UNCHANGED <<order, record, registry>> /\ KeepLocks /\ KeepBounds

\* The deferred calls run last in, first out: the advisory lock ...
Unlock(w) ==
  /\ work[w].at = "unlock"
  /\ Release(w)
  /\ Goto(w, "unmap")
  /\ UNCHANGED <<dataVars, local>> /\ KeepBounds

\* Bug: the goroutine is marked idle and keeps its order.
UnmapHalf(w) ==
  /\ work[w].at = "unmap"
  /\ local' = [local EXCEPT ![ProcOf[w]] = @ \ {Name(w)}]
  /\ Goto(w, "idle")
  /\ UNCHANGED <<dataVars, lockVars>> /\ KeepBounds

\* ... then the entry in the lock map.
Unmap(w) ==
  /\ work[w].at = "unmap"
  /\ local' = [local EXCEPT ![ProcOf[w]] = @ \ {Name(w)}]
  /\ Return(w)
  /\ UNCHANGED <<dataVars, lockVars>> /\ KeepBounds

Run(w) ==
  \/ Load(w) \/ MapLock(w) \/ Advisory(w) \/ Mark(w) \/ Look(w) \/ Register(w)
  \/ Recheck(w) \/ Fail(w) \/ SaveDomain(w) \/ Complete(w) \/ Ledger(w)
  \/ Unlock(w) \/ Unmap(w)

-----------------------------------------------------------------------------
\* The pool closes a connection.
CloseConn(c) ==
  /\ Expire(c)
  /\ UNCHANGED <<dataVars, local, work>> /\ KeepBounds

\* A process dies.  Nothing at start-up looks for orders left "provisioning".
Crash(p) ==
  /\ crashes < MaxCrashes
  /\ crashes' = crashes + 1
  /\ LockCrash(p)
  /\ local' = [local EXCEPT ![p] = {}]
  /\ work' = [w \in Workers |-> IF ProcOf[w] = p THEN Idle ELSE work[w]]
  /\ UNCHANGED <<dataVars, retries>>

\* Everything but the arrival of a payment.
ProvisionStep ==
  \/ \E w \in Workers, o \in Orders : RetryOrder(w, o)
  \/ \E w \in Workers : Run(w)
  \/ \E n \in Names : Grab(n)
  \/ \E c \in Conns : CloseConn(c)
  \/ \E p \in Procs : Crash(p)

ProvisionNext ==
  \/ \E w \in Workers, o \in Orders : Pay(w, o)
  \/ ProvisionStep

ProvisionSpec == ProvisionInit /\ [][ProvisionNext]_provVars

\* The goroutines run on a background context: nobody cancels them.
ProvisionFairSpec ==
  ProvisionSpec /\ \A w \in Workers : WF_provVars(Run(w))
=============================================================================
