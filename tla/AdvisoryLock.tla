---------------------------- MODULE AdvisoryLock ----------------------------
(***************************************************************************)
(* TryAcquireDomainAdvisoryLock of the Postgres store                      *)
(* (apps/api/internal/store/domain_store.go): a PostgreSQL session-level   *)
(* advisory lock taken and given back through database/sql's connection    *)
(* pool.  The lock belongs to the CONNECTION the query happened to run on; *)
(* the unlock closure runs on whatever connection the pool hands out next. *)
(* A session may take a lock it already has, and then holds it twice.      *)
(* The pool (store.go: 25 open, 5 idle, 5 minutes of life) may close the   *)
(* connection while the goroutine works under its lock: the lock is gone   *)
(* and the goroutine is not told.                                          *)
(*                                                                         *)
(* The memory store's lock map is the case of one process with one         *)
(* connection that refuses a second acquisition.                           *)
(***************************************************************************)
EXTENDS Naturals, FiniteSets

CONSTANTS
  Procs,        \* API processes sharing the database
  Conns,        \* pooled connections of all processes
  PoolOf,       \* the process a connection belongs to
  Tasks,        \* goroutines that take locks
  ProcOf,       \* the process a goroutine runs in
  Keys,         \* lock keys
  NoKey,
  MaxDepth      \* bound on how often one session holds one lock

ASSUME LockAssumption ==
  /\ PoolOf \in [Conns -> Procs]
  /\ ProcOf \in [Tasks -> Procs]
  /\ IsFiniteSet(Tasks)
  /\ NoKey \notin Keys
  /\ MaxDepth \in Nat

VARIABLES
  held,   \* how often each session holds each lock
  holds,  \* the key whose unlock closure a goroutine has, or NoKey
  lost    \* history: the locks of processes that went with a connection while
          \* a goroutine of the process worked under them, until none does

lockVars == <<held, holds, lost>>

Pool(p) == {c \in Conns : PoolOf[c] = p}

\* The goroutines of process p that believe they hold k.
Holders(p, k) == {t \in Tasks : ProcOf[t] = p /\ holds[t] = k}

\* pg_try_advisory_lock on session c succeeds: no other session has the lock.
Grants(c, k) == \A d \in Conns \ {c} : held[d][k] = 0

LockTypeOK ==
  /\ held \in [Conns -> [Keys -> 0..MaxDepth]]
  /\ holds \in [Tasks -> Keys \cup {NoKey}]
  /\ lost \subseteq Procs \X Keys

LockInit ==
  /\ held = [c \in Conns |-> [k \in Keys |-> 0]]
  /\ holds = [t \in Tasks |-> NoKey]
  /\ lost = {}

\* What is still worked under after the step.
StillHeld(S) == {x \in S : Holders(x[1], x[2])' # {}}

\* Bug: the session does not look at the other sessions.
AcquireUnchecked(t, k) ==
  /\ holds[t] = NoKey
  /\ \E c \in Pool(ProcOf[t]) :
       /\ held[c][k] < MaxDepth
       /\ held' = [held EXCEPT ![c][k] = @ + 1]
  /\ holds' = [holds EXCEPT ![t] = k]
  /\ UNCHANGED lost

\* The try-lock query runs on some connection of the pool and is granted.
Acquire(t, k) ==
  /\ holds[t] = NoKey
  /\ \E c \in Pool(ProcOf[t]) :
       /\ Grants(c, k)
       /\ held[c][k] < MaxDepth
       /\ held' = [held EXCEPT ![c][k] = @ + 1]
  /\ holds' = [holds EXCEPT ![t] = k]
  /\ UNCHANGED lost

\* The query runs on a connection to which the lock is refused.
Refuse(t, k) ==
  /\ holds[t] = NoKey
  /\ \E c \in Pool(ProcOf[t]) : ~Grants(c, k)
  /\ UNCHANGED lockVars

\* The unlock closure.  On a session that does not have the lock,
\* pg_advisory_unlock changes nothing, and the error is dropped.
Release(t) ==
  /\ holds[t] # NoKey
  /\ \E c \in Pool(ProcOf[t]) :
       held' = [held EXCEPT ![c][holds[t]] = IF @ = 0 THEN 0 ELSE @ - 1]
  /\ holds' = [holds EXCEPT ![t] = NoKey]
  /\ lost' = StillHeld(lost)

\* The pool closes a connection; the session's locks go with it.
Expire(c) ==
  /\ held' = [held EXCEPT ![c] = [k \in Keys |-> 0]]
  /\ UNCHANGED holds
  /\ lost' = lost \cup {x \in {PoolOf[c]} \X Keys :
                          held[c][x[2]] > 0 /\ Holders(x[1], x[2]) # {}}

\* Process p dies with its sessions and its goroutines.
LockCrash(p) ==
  /\ held' = [c \in Conns |-> IF PoolOf[c] = p THEN [k \in Keys |-> 0] ELSE held[c]]
  /\ holds' = [t \in Tasks |-> IF ProcOf[t] = p THEN NoKey ELSE holds[t]]
  /\ lost' = StillHeld(lost)

LockNext ==
  \/ \E t \in Tasks, k \in Keys : Acquire(t, k) \/ Refuse(t, k)
  \/ \E t \in Tasks : Release(t)
  \/ \E c \in Conns : Expire(c)
  \/ \E p \in Procs : LockCrash(p)

LockSpec == LockInit /\ [][LockNext]_lockVars

-----------------------------------------------------------------------------
(* Two goroutines of DIFFERENT processes hold the same key at once only if *)
(* one of the processes lost it with a closed connection: what             *)
(* registration.go:64 and reconciliation.go:25 take the lock for, and all  *)
(* that a session-level lock behind a pool gives.                          *)
CrossProcessExclusion ==
  \A t, u \in Tasks :
    (holds[t] # NoKey /\ holds[t] = holds[u] /\ ProcOf[t] # ProcOf[u]) =>
      {<<ProcOf[t], holds[t]>>, <<ProcOf[u], holds[u]>>} \cap lost # {}

(* At most one session has a lock, whatever connections are closed.        *)
OneSession ==
  \A c, d \in Conns, k \in Keys : (held[c][k] > 0 /\ held[d][k] > 0) => c = d

(* A lock that was not lost is had by a session of the process, at least   *)
(* as often as goroutines hold it; what is lost is still worked under.     *)
Backed ==
  \A p \in Procs, k \in Keys :
    Holders(p, k) # {} /\ <<p, k>> \notin lost =>
      \E c \in Pool(p) : held[c][k] >= Cardinality(Holders(p, k))

LostIsHeld == \A x \in lost : Holders(x[1], x[2]) # {}

(* The lock's inductive invariant.                                         *)
LockInv == LockTypeOK /\ OneSession /\ Backed /\ LostIsHeld
=============================================================================
