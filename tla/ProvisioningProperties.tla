----------------------- MODULE ProvisioningProperties -----------------------
(***************************************************************************)
(* What domain provisioning promises.                                      *)
(***************************************************************************)
EXTENDS DomainProvisioning

\* The process of worker w lost the lock of w's name with a connection.
Lost(w) == <<ProcOf[w], Name(w)>> \in lost

(* Two workers are between lock and unlock for one name only in different  *)
(* processes, and only after one of the two lost the lock with a closed    *)
(* connection: registration.go:48, domain_store.go:1661.                   *)
OneWorkerPerName ==
  \A v, w \in Workers :
    (v # w /\ work[v].at \in Locked /\ work[w].at \in Locked /\ Name(v) = Name(w)) =>
      ProcOf[v] # ProcOf[w] /\ (Lost(v) \/ Lost(w))

(* Two workers, in any processes, are never between lock and unlock for    *)
(* one name: "Acquire domain lock (distributed + local) to prevent         *)
(* concurrent provisioning", registration.go:48.                           *)
NeverConcurrent ==
  \A v, w \in Workers :
    (work[v].at \in Locked /\ work[w].at \in Locked /\ Name(v) = Name(w)) => v = w

(* The lock map names exactly what the process's workers are at: an early  *)
(* return or an error path never leaves a name behind (registration.go:58).*)
LockMapIsExact ==
  \A p \in Procs :
    local[p] = {Name(w) : w \in {v \in Workers : ProcOf[v] = p /\ work[v].at \in Mapped}}

(* A name we hold at the registrar was bought by a paid order:             *)
(* "Registration will **never** execute on unconfirmed or unpaid orders",  *)
(* docs/domains/troubleshooting.md:43.                                     *)
OursWasPaid ==
  \A n \in Names : registry[n] = "ours" =>
    \E o \in Orders : NameOf[o] = n /\ order[o].payment = "paid"

(* A completed order has the name at the registrar and its own row in the  *)
(* domain table, never no row or a row of another customer's order, even   *)
(* when locks are lost and the worker's writes fail (registration.go:212). *)
CompletedOwnsDomain ==
  \A o \in Orders : order[o].provisioning = "completed" =>
    registry[NameOf[o]] = "ours" /\ record[NameOf[o]] = o

(* However many orders, retries and workers there are for a name, at most  *)
(* one successful registration is booked for it (registration.go:248).     *)
OneSuccessPerName ==
  \A n \in Names :
    /\ \A o \in Orders : NameOf[o] = n => success[o] <= 1
    /\ \A o, q \in Orders :
         (NameOf[o] = n /\ NameOf[q] = n /\ success[o] > 0 /\ success[q] > 0) => o = q

(* An order is marked failed only if the name did not become ours: "check  *)
(* if registrar actually completed it!", registration.go:127.              *)
FailedIsNotRegistered ==
  \A o \in Orders : order[o].provisioning = "failed" => registry[NameOf[o]] # "ours"
=============================================================================
