------------------------- MODULE ProvisioningProofs -------------------------
(***************************************************************************)
(* Theorems about domain provisioning and the payments that start it, for  *)
(* any number of processes, workers, requests, orders and names.           *)
(***************************************************************************)
EXTENDS ProvisioningProperties, OrderPayments, AdvisoryLockProofs

-----------------------------------------------------------------------------
(***************************************************************************)
(* Exclusion on a name.  Every step of the system is a step of the         *)
(* advisory lock, whose invariant covers workers of different processes,   *)
(* closed connections included; the lock map covers those of one process.  *)
(***************************************************************************)

\* A worker holds the advisory lock of its name exactly while it is at Locked.
HoldsMatches ==
  \A w \in Workers : holds[w] = IF work[w].at \in Locked THEN Name(w) ELSE NoKey

\* The lock map admits one worker of a process per name.
OneInMap ==
  \A v, w \in Workers :
    ( /\ ProcOf[v] = ProcOf[w]
      /\ work[v].at \in Mapped /\ work[w].at \in Mapped
      /\ Name(v) = Name(w) ) => v = w

WorkTypeOK ==
  /\ local \in [Procs -> SUBSET Names]
  /\ work \in [Workers -> [at : At, order : Orders \cup {NoOrder}]]
  /\ \A w \in Workers : work[w].at = "idle" <=> work[w].order = NoOrder

ExclusionInv == WorkTypeOK /\ LockInv /\ HoldsMatches /\ LockMapIsExact /\ OneInMap

\* How one step changes the worker's place and the two locks.
StepsTo(w, a) == work' = [work EXCEPT ![w].at = a]

Quiet == UNCHANGED <<local, lockVars>>

\* A worker moves without touching a lock, staying inside or outside both.
Moves(w) ==
  /\ Quiet
  /\ \/ \E a \in At \ {"idle"} :
          /\ StepsTo(w, a)
          /\ work[w].at # "idle"
          /\ work[w].at \in Locked <=> a \in Locked
          /\ work[w].at \in Mapped <=> a \in Mapped
     \/ /\ work[w].at \notin Mapped
        /\ \/ \E o \in Orders : work' = [work EXCEPT ![w] = [at |-> "load", order |-> o]]
           \/ work' = [work EXCEPT ![w] = Idle]

EntersMap(w) ==
  /\ work[w].at = "map"
  /\ Name(w) \notin local[ProcOf[w]]
  /\ local' = [local EXCEPT ![ProcOf[w]] = @ \cup {Name(w)}]
  /\ StepsTo(w, "advisory")
  /\ UNCHANGED lockVars

Locks(w) ==
  /\ work[w].at = "advisory" /\ Acquire(w, Name(w)) /\ StepsTo(w, "mark")
  /\ UNCHANGED local

Unlocks(w) ==
  /\ work[w].at = "unlock" /\ Release(w) /\ StepsTo(w, "unmap")
  /\ UNCHANGED local

LeavesMap(w) ==
  /\ work[w].at = "unmap"
  /\ local' = [local EXCEPT ![ProcOf[w]] = @ \ {Name(w)}]
  /\ work' = [work EXCEPT ![w] = Idle]
  /\ UNCHANGED lockVars

Dies(p) ==
  /\ LockCrash(p)
  /\ local' = [local EXCEPT ![p] = {}]
  /\ work' = [w \in Workers |-> IF ProcOf[w] = p THEN Idle ELSE work[w]]

Effect ==
  \/ \E w \in Workers : Moves(w) \/ EntersMap(w) \/ Locks(w) \/ Unlocks(w) \/ LeavesMap(w)
  \/ \E p \in Procs : Dies(p)
  \/ \E c \in Conns : Expire(c) /\ UNCHANGED <<work, local>>
  \/ UNCHANGED <<work, local, lockVars>>

-----------------------------------------------------------------------------
\* Every step of the system has one of these effects on the locks.
LEMMA RunEffect ==
  ASSUME WorkTypeOK, NEW w \in Workers, Run(w)
  PROVE  Effect
<1>. USE DEF Goto, Return, StepsTo, Quiet, KeepLocks, At, Mapped, Locked
<1>1. CASE Load(w) BY <1>1 DEF Load, Effect, Moves
<1>2. CASE MapLock(w) BY <1>2 DEF MapLock, Effect, Moves, EntersMap
<1>3. CASE Advisory(w)
  <2>1. CASE Acquire(w, Name(w)) /\ Goto(w, "mark")
    BY <1>3, <2>1 DEF Advisory, Effect, Locks
  <2>2. CASE Refuse(w, Name(w)) /\ Goto(w, "unmap")
    BY <1>3, <2>2 DEF Advisory, Refuse, Effect, Moves
  <2>. QED BY <1>3, <2>1, <2>2 DEF Advisory
<1>4. CASE Mark(w) BY <1>4 DEF Mark, Effect, Moves
<1>5. CASE Look(w) BY <1>5 DEF Look, Effect, Moves
<1>6. CASE Register(w) BY <1>6 DEF Register, Effect, Moves
<1>7. CASE Recheck(w) BY <1>7 DEF Recheck, Effect, Moves
<1>8. CASE Fail(w) BY <1>8 DEF Fail, Effect, Moves
<1>9. CASE SaveDomain(w) BY <1>9 DEF SaveDomain, Effect, Moves
<1>10. CASE Complete(w) BY <1>10 DEF Complete, Effect, Moves
<1>11. CASE Ledger(w) BY <1>11 DEF Ledger, Effect, Moves
<1>12. CASE Unlock(w) BY <1>12 DEF Unlock, Effect, Unlocks
<1>13. CASE Unmap(w) BY <1>13 DEF Unmap, Effect, LeavesMap
<1>. QED BY <1>1, <1>2, <1>3, <1>4, <1>5, <1>6, <1>7, <1>8, <1>9, <1>10, <1>11,
            <1>12, <1>13 DEF Run

LEMMA NextEffect ==
  ASSUME WorkTypeOK, [ProvisionNext]_provVars
  PROVE  Effect
<1>. USE DEF KeepLocks
<1>1. CASE UNCHANGED provVars BY <1>1 DEF provVars, Effect
<1>2. ASSUME NEW w \in Workers, NEW o \in Orders, Dispatch(w, o), KeepLocks
      PROVE  Effect
  BY <1>2 DEF Dispatch, Effect, Moves, Quiet, Mapped, Locked
<1>3. ASSUME NEW w \in Workers, NEW o \in Orders, Pay(w, o) PROVE Effect
  BY <1>2, <1>3 DEF Pay
<1>4. ASSUME NEW w \in Workers, NEW o \in Orders, RetryOrder(w, o) PROVE Effect
  BY <1>2, <1>4 DEF RetryOrder
<1>5. ASSUME NEW w \in Workers, Run(w) PROVE Effect
  BY <1>5, RunEffect
<1>6. ASSUME NEW n \in Names, Grab(n) PROVE Effect
  BY <1>6 DEF Grab, Effect
<1>7. ASSUME NEW p \in Procs, Crash(p) PROVE Effect
  BY <1>7 DEF Crash, Effect, Dies
<1>8. ASSUME NEW c \in Conns, CloseConn(c) PROVE Effect
  BY <1>8 DEF CloseConn, Effect
<1>. QED BY <1>1, <1>3, <1>4, <1>5, <1>6, <1>7, <1>8 DEF ProvisionNext, ProvisionStep

\* ... and each of them is a step of the advisory lock.
LEMMA EffectLocks ==
  ASSUME WorkTypeOK, Effect
  PROVE  [LockNext]_lockVars
<1>. USE ProvisionAssumption, LockAssumption DEF WorkTypeOK, Workers, Names
<1>1. ASSUME NEW w \in Workers, Locks(w) PROVE LockNext
  <2>1. Name(w) \in Keys BY <1>1 DEF Locks, Name
  <2>. QED BY <1>1, <2>1 DEF Locks, LockNext
<1>2. ASSUME NEW w \in Workers, Unlocks(w) PROVE LockNext
  BY <1>2 DEF Unlocks, LockNext
<1>3. ASSUME NEW p \in Procs, Dies(p) PROVE LockNext
  BY <1>3 DEF Dies, LockNext
<1>4. ASSUME NEW c \in Conns, Expire(c) PROVE LockNext
  BY <1>4 DEF LockNext
<1>. QED BY <1>1, <1>2, <1>3, <1>4 DEF Effect, Moves, Quiet, EntersMap, LeavesMap

-----------------------------------------------------------------------------
LEMMA WorkTypeEffect ==
  ASSUME WorkTypeOK, Effect
  PROVE  WorkTypeOK'
<1>. USE ProvisionAssumption, LockAssumption DEF WorkTypeOK, Workers, Names
<1>1. ASSUME NEW w \in Workers, NEW a \in At \ {"idle"}, StepsTo(w, a),
             work[w].at # "idle", local' \in [Procs -> SUBSET Names]
      PROVE  WorkTypeOK'
  BY <1>1 DEF StepsTo, At, Mapped, Locked
<1>2. ASSUME NEW w \in Workers, NEW r,
             r \in [at : At, order : Orders \cup {NoOrder}],
             r.at = "idle" <=> r.order = NoOrder,
             work' = [work EXCEPT ![w] = r], local' \in [Procs -> SUBSET Names]
      PROVE  WorkTypeOK'
  BY <1>2
<1>3. Idle \in [at : At, order : Orders \cup {NoOrder}]
      /\ Idle.at = "idle" /\ Idle.order = NoOrder
  BY DEF Idle, At
<1>4. ASSUME NEW w \in Workers, Moves(w) PROVE WorkTypeOK'
  <2>1. CASE \E a \in At \ {"idle"} : StepsTo(w, a) /\ work[w].at # "idle"
    BY <1>1, <1>4, <2>1 DEF Moves, Quiet
  <2>2. CASE \E o \in Orders : work' = [work EXCEPT ![w] = [at |-> "load", order |-> o]]
    <3>1. PICK o \in Orders : work' = [work EXCEPT ![w] = [at |-> "load", order |-> o]]
      BY <2>2
    <3>2. local' \in [Procs -> SUBSET Names] BY <1>4 DEF Moves, Quiet
    <3>. DEFINE r == [at |-> "load", order |-> o]
    <3>3. r \in [at : At, order : Orders \cup {NoOrder}] /\ r.at # "idle"
          /\ r.order # NoOrder
      BY DEF At
    <3>. HIDE DEF r
    <3>. QED BY <1>2, <3>1, <3>2, <3>3 DEF r
  <2>3. CASE work' = [work EXCEPT ![w] = Idle]
    BY <1>2, <1>3, <1>4, <2>3 DEF Moves, Quiet
  <2>. QED BY <1>4, <2>1, <2>2, <2>3 DEF Moves
<1>5. ASSUME NEW w \in Workers, work[w].at # "idle" PROVE Name(w) \in Names
  BY <1>5 DEF Name
<1>6. ASSUME NEW w \in Workers, EntersMap(w) PROVE WorkTypeOK'
  <2>1. local' \in [Procs -> SUBSET Names] BY <1>5, <1>6 DEF EntersMap
  <2>2. "advisory" \in At \ {"idle"} /\ work[w].at # "idle"
    BY <1>6 DEF EntersMap, At, Mapped
  <2>. QED BY <1>1, <1>6, <2>1, <2>2 DEF EntersMap
<1>7. ASSUME NEW w \in Workers, Locks(w) PROVE WorkTypeOK'
  <2>1. "mark" \in At \ {"idle"} BY DEF At, Mapped, Locked
  <2>. QED BY <1>1, <1>7, <2>1 DEF Locks
<1>8. ASSUME NEW w \in Workers, Unlocks(w) PROVE WorkTypeOK'
  <2>1. "unmap" \in At \ {"idle"} BY DEF At, Mapped
  <2>. QED BY <1>1, <1>8, <2>1 DEF Unlocks
<1>9. ASSUME NEW w \in Workers, LeavesMap(w) PROVE WorkTypeOK'
  <2>1. local' \in [Procs -> SUBSET Names] BY <1>9 DEF LeavesMap
  <2>. QED BY <1>2, <1>3, <1>9, <2>1 DEF LeavesMap
<1>10. ASSUME NEW p \in Procs, Dies(p) PROVE WorkTypeOK'
  BY <1>3, <1>10 DEF Dies
<1>11. CASE UNCHANGED <<work, local>> BY <1>11
<1>. QED BY <1>4, <1>6, <1>7, <1>8, <1>9, <1>10, <1>11 DEF Effect

\* The lock each worker holds is the one of its place.
LEMMA HoldsEffect ==
  ASSUME WorkTypeOK, LockTypeOK, HoldsMatches, Effect
  PROVE  HoldsMatches'
<1>. USE ProvisionAssumption, LockAssumption
     DEF WorkTypeOK, LockTypeOK, Workers, Names, HoldsMatches, lockVars
<1>1. ASSUME NEW w \in Workers, Moves(w) PROVE HoldsMatches'
  <2>1. \A v \in Workers \ {w} : work'[v] = work[v]
    BY <1>1 DEF Moves, StepsTo
  <2>2. work'[w].at \in Locked <=> work[w].at \in Locked
    BY <1>1 DEF Moves, StepsTo, Idle, Locked, Mapped
  <2>3. work[w].at \in Locked => work'[w].order = work[w].order
    BY <1>1 DEF Moves, StepsTo, Locked, Mapped
  <2>4. holds' = holds
    BY <1>1 DEF Moves, Quiet
  <2>. QED BY <2>1, <2>2, <2>3, <2>4 DEF Name
<1>2. ASSUME NEW w \in Workers, EntersMap(w) PROVE HoldsMatches'
  BY <1>2 DEF EntersMap, StepsTo, Name, Locked
<1>3. ASSUME NEW w \in Workers, Locks(w) PROVE HoldsMatches'
  BY <1>3 DEF Locks, Acquire, StepsTo, Name, Locked
<1>4. ASSUME NEW w \in Workers, Unlocks(w) PROVE HoldsMatches'
  BY <1>4 DEF Unlocks, Release, StepsTo, Name, Locked
<1>5. ASSUME NEW w \in Workers, LeavesMap(w) PROVE HoldsMatches'
  BY <1>5 DEF LeavesMap, Name, Idle, Locked
<1>6. ASSUME NEW p \in Procs, Dies(p) PROVE HoldsMatches'
  BY <1>6 DEF Dies, LockCrash, Name, Idle, Locked
<1>7. ASSUME NEW c \in Conns, Expire(c), UNCHANGED <<work, local>> PROVE HoldsMatches'
  BY <1>7 DEF Expire, Name
<1>. QED BY <1>1, <1>2, <1>3, <1>4, <1>5, <1>6, <1>7 DEF Effect, Name

\* The lock map keeps naming what its process's workers are at, each name
\* for one worker.
LEMMA MapEffect ==
  ASSUME WorkTypeOK, LockMapIsExact, OneInMap, Effect
  PROVE  LockMapIsExact' /\ OneInMap'
<1>. USE ProvisionAssumption, LockAssumption DEF WorkTypeOK, Workers, Names
<1>. DEFINE In(v) == work[v].at \in Mapped
<1>1. ASSUME local' = local,
             \A v \in Workers : In(v)' = In(v) /\ (In(v) => Name(v)' = Name(v))
      PROVE  LockMapIsExact' /\ OneInMap'
  BY <1>1 DEF LockMapIsExact, OneInMap
<1>2. ASSUME NEW w \in Workers, Moves(w) PROVE LockMapIsExact' /\ OneInMap'
  <2>1. \A v \in Workers : In(v)' = In(v) /\ (In(v) => Name(v)' = Name(v))
    BY <1>2 DEF Moves, StepsTo, Name, Idle, Mapped, Locked
  <2>. QED BY <1>1, <1>2, <2>1 DEF Moves, Quiet
<1>3. ASSUME NEW w \in Workers, Locks(w) \/ Unlocks(w)
      PROVE  LockMapIsExact' /\ OneInMap'
  <2>1. \A v \in Workers : In(v)' = In(v) /\ (In(v) => Name(v)' = Name(v))
    BY <1>3 DEF Locks, Unlocks, StepsTo, Name, Mapped, Locked
  <2>. QED BY <1>1, <1>3, <2>1 DEF Locks, Unlocks
<1>4. ASSUME NEW w \in Workers, EntersMap(w) PROVE LockMapIsExact' /\ OneInMap'
  <2>1. /\ ~In(w) /\ In(w)' /\ Name(w)' = Name(w)
        /\ \A v \in Workers \ {w} : In(v)' = In(v) /\ Name(v)' = Name(v)
    BY <1>4 DEF EntersMap, StepsTo, Name, Mapped, Locked
  <2>2. local' = [local EXCEPT ![ProcOf[w]] = @ \cup {Name(w)}]
        /\ Name(w) \notin local[ProcOf[w]]
    BY <1>4 DEF EntersMap
  <2>3. \A v \in Workers : In(v) => Name(v) \in local[ProcOf[v]]
    BY DEF LockMapIsExact
  <2>4. OneInMap' BY <2>1, <2>2, <2>3 DEF OneInMap
  <2>5. LockMapIsExact' BY <2>1, <2>2 DEF LockMapIsExact
  <2>. QED BY <2>4, <2>5
<1>5. ASSUME NEW w \in Workers, LeavesMap(w) PROVE LockMapIsExact' /\ OneInMap'
  <2>1. /\ In(w) /\ ~In(w)'
        /\ \A v \in Workers \ {w} : In(v)' = In(v) /\ Name(v)' = Name(v)
    BY <1>5 DEF LeavesMap, Name, Idle, Mapped, Locked
  <2>2. local' = [local EXCEPT ![ProcOf[w]] = @ \ {Name(w)}]
    BY <1>5 DEF LeavesMap
  <2>3. OneInMap'
    <3>. SUFFICES ASSUME NEW u \in Workers, NEW v \in Workers, ProcOf[u] = ProcOf[v],
                         In(u)', In(v)', Name(u)' = Name(v)'
                  PROVE  u = v
      BY DEF OneInMap
    <3>1. u # w /\ v # w BY <2>1
    <3>2. In(u) /\ In(v) /\ Name(u) = Name(v) BY <2>1, <3>1
    <3>. QED BY <3>2 DEF OneInMap
  <2>4. LockMapIsExact' BY <2>1, <2>2 DEF LockMapIsExact, OneInMap
  <2>. QED BY <2>3, <2>4
<1>6. ASSUME NEW p \in Procs, Dies(p) PROVE LockMapIsExact' /\ OneInMap'
  <2>1. \A v \in Workers : IF ProcOf[v] = p THEN ~In(v)'
                                  ELSE In(v)' = In(v) /\ Name(v)' = Name(v)
    BY <1>6 DEF Dies, Name, Idle, Mapped, Locked
  <2>2. local' = [local EXCEPT ![p] = {}] BY <1>6 DEF Dies
  <2>3. OneInMap' BY <2>1 DEF OneInMap
  <2>4. LockMapIsExact' BY <2>1, <2>2 DEF LockMapIsExact
  <2>. QED BY <2>3, <2>4
<1>7. CASE UNCHANGED <<work, local>>
  BY <1>1, <1>7 DEF Name
<1>. QED BY <1>2, <1>3, <1>4, <1>5, <1>6, <1>7 DEF Effect

-----------------------------------------------------------------------------
(* The inductive invariant of provisioning's locks.                        *)
THEOREM ExclusionInvariant == ProvisionSpec => []ExclusionInv
<1>1. ProvisionInit => ExclusionInv
  <2>. SUFFICES ASSUME ProvisionInit PROVE ExclusionInv OBVIOUS
  <2>1. LockInv BY LockStart DEF ProvisionInit
  <2>2. WorkTypeOK BY DEF ProvisionInit, WorkTypeOK, Idle, At, Workers
  <2>3. \A w \in Workers : work[w].at \notin Mapped /\ work[w].at \notin Locked
    BY DEF ProvisionInit, Idle, Mapped, Locked
  <2>4. HoldsMatches BY <2>3 DEF ProvisionInit, LockInit, HoldsMatches, Workers
  <2>5. LockMapIsExact BY <2>3 DEF ProvisionInit, LockMapIsExact
  <2>6. OneInMap BY <2>3 DEF OneInMap
  <2>. QED BY <2>1, <2>2, <2>4, <2>5, <2>6 DEF ExclusionInv
<1>2. ExclusionInv /\ [ProvisionNext]_provVars => ExclusionInv'
  <2>. SUFFICES ASSUME ExclusionInv, [ProvisionNext]_provVars PROVE ExclusionInv'
    OBVIOUS
  <2>1. Effect BY NextEffect DEF ExclusionInv, LockInv
  <2>2. WorkTypeOK' BY <2>1, WorkTypeEffect DEF ExclusionInv
  <2>3. LockInv' BY <2>1, EffectLocks, LockStep DEF ExclusionInv
  <2>4. HoldsMatches' BY <2>1, HoldsEffect DEF ExclusionInv, LockInv
  <2>5. LockMapIsExact' /\ OneInMap' BY <2>1, MapEffect DEF ExclusionInv
  <2>. QED BY <2>2, <2>3, <2>4, <2>5 DEF ExclusionInv
<1>. QED BY <1>1, <1>2, PTL DEF ProvisionSpec

(* Two workers provision one name at once only in different processes of   *)
(* which one lost the lock with a closed connection.                       *)
THEOREM Exclusion == ProvisionSpec => []OneWorkerPerName
<1>1. ExclusionInv => OneWorkerPerName
  <2>. SUFFICES ASSUME ExclusionInv, NEW v \in Workers, NEW w \in Workers, v # w,
                       work[v].at \in Locked, work[w].at \in Locked,
                       Name(v) = Name(w)
                PROVE  ProcOf[v] # ProcOf[w] /\ (Lost(v) \/ Lost(w))
    BY DEF OneWorkerPerName
  <2>1. holds[v] = Name(v) /\ holds[w] = Name(w)
    BY DEF ExclusionInv, HoldsMatches
  <2>2. Name(v) \in Keys
    BY ProvisionAssumption DEF ExclusionInv, WorkTypeOK, Name, Locked, Workers
  <2>3. Name(v) # NoKey BY <2>2, LockAssumption
  <2>4. ProcOf[v] # ProcOf[w] BY DEF ExclusionInv, OneInMap, Mapped
  <2>5. {<<ProcOf[v], holds[v]>>, <<ProcOf[w], holds[w]>>} \cap lost # {}
    BY <2>1, <2>3, <2>4, LockInvExcludes DEF ExclusionInv, CrossProcessExclusion, Workers
  <2>. QED BY <2>1, <2>4, <2>5 DEF Lost
<1>. QED BY <1>1, ExclusionInvariant, PTL

(* The lock map of a process names exactly what its workers are at.        *)
THEOREM MapExact == ProvisionSpec => []LockMapIsExact
<1>1. ExclusionInv => LockMapIsExact BY DEF ExclusionInv
<1>. QED BY <1>1, ExclusionInvariant, PTL

-----------------------------------------------------------------------------
(***************************************************************************)
(* Who pays.  A worker is only ever dispatched for a paid order and no     *)
(* write undoes a payment, whatever happens to locks and connections.      *)
(***************************************************************************)
OrderType == [payment : {"pending", "paid"}, provisioning : Provisioning]

DataTypeOK ==
  /\ order \in [Orders -> OrderType]
  /\ record \in [Names -> Orders \cup {NoOrder}]
  /\ success \in [Orders -> Nat]
  /\ registry \in [Names -> {"free", "ours", "theirs"}]
  /\ work \in [Workers -> [at : At, order : Orders \cup {NoOrder}]]

WorkersPaid ==
  \A w \in Workers : work[w].at # "idle" =>
    work[w].order \in Orders /\ order[work[w].order].payment = "paid"

PaidInv == DataTypeOK /\ WorkersPaid /\ OursWasPaid

\* A worker goes on with its order, or returns.
GoesOn(w) == work' = [work EXCEPT ![w] = Idle] \/ \E a \in At : work' = [work EXCEPT ![w].at = a]

LEMMA RunGoesOn ==
  ASSUME NEW w \in Workers, Run(w)
  PROVE  GoesOn(w) /\ work[w].at # "idle"
<1> USE DEF Goto, Return, GoesOn, At, Mapped, Locked
<1>1. CASE Load(w) \/ MapLock(w) \/ Advisory(w)
  BY <1>1 DEF Load, MapLock, Advisory
<1>2. CASE Mark(w) \/ Look(w) \/ Register(w) \/ Recheck(w)
  BY <1>2 DEF Mark, Look, Register, Recheck
<1>3. CASE Fail(w) \/ SaveDomain(w) \/ Complete(w) \/ Ledger(w) \/ Unlock(w) \/ Unmap(w)
  BY <1>3 DEF Fail, SaveDomain, Complete, Ledger, Unlock, Unmap
<1> QED BY <1>1, <1>2, <1>3 DEF Run

\* What a worker's step may write.
Writes(w) ==
  /\ order' = order \/ \E s \in Provisioning : WriteOrder(work[w].order, s)
  /\ registry' = registry \/ \E s \in {"free", "ours", "theirs"} :
                               registry' = [registry EXCEPT ![Name(w)] = s]
  /\ record' = record \/ \E o \in Orders : record' = [record EXCEPT ![Name(w)] = o]
  /\ success' = success \/ success' = [success EXCEPT ![work[w].order] = @ + 1]

LEMMA RunWrites ==
  ASSUME DataTypeOK, WorkersPaid, NEW w \in Workers, Run(w)
  PROVE  Writes(w)
<1>1. work[w].order \in Orders /\ Name(w) \in Names
  BY RunGoesOn, ProvisionAssumption DEF WorkersPaid, Name, Names
<1> USE <1>1 DEF Writes, dataVars, Provisioning
<1>2. CASE Load(w) \/ MapLock(w) \/ Advisory(w) \/ Look(w) \/ Recheck(w) \/ Unlock(w) \/ Unmap(w)
  BY <1>2 DEF Load, MapLock, Advisory, Look, Recheck, Unlock, Unmap
<1>3. CASE Mark(w) \/ Fail(w) \/ Complete(w)
  BY <1>3 DEF Mark, Fail, Complete, TryWriteOrder
<1>4. CASE Register(w)
  <2>1. PICK r \in RegisterOutcomes(Name(w)) : registry' = [registry EXCEPT ![Name(w)] = r[1]]
    BY <1>4 DEF Register
  <2>2. registry[Name(w)] \in {"free", "ours", "theirs"}
    BY <1>1 DEF DataTypeOK
  <2>3. r \in {<<"ours", TRUE>>, <<"ours", FALSE>>, <<"free", FALSE>>}
        \/ r = <<registry[Name(w)], FALSE>>
    BY <2>1 DEF RegisterOutcomes
  <2>4. r[1] \in {"ours", "free"} \/ r[1] = registry[Name(w)]
    <3>1. CASE r = <<"ours", TRUE>> BY <3>1
    <3>2. CASE r = <<"ours", FALSE>> BY <3>2
    <3>3. CASE r = <<"free", FALSE>> BY <3>3
    <3>4. CASE r = <<registry[Name(w)], FALSE>> BY <3>4
    <3> QED BY <2>3, <3>1, <3>2, <3>3, <3>4
  <2> QED BY <1>4, <2>1, <2>2, <2>4 DEF Register
<1>5. CASE SaveDomain(w)
  <2>1. (IF record[Name(w)] = NoOrder THEN work[w].order ELSE record[Name(w)]) \in Orders
    BY DEF DataTypeOK
  <2> QED BY <1>5, <2>1 DEF SaveDomain
<1>6. CASE Ledger(w)
  BY <1>6 DEF Ledger
<1> QED BY <1>2, <1>3, <1>4, <1>5, <1>6 DEF Run

LEMMA RunKeepsPaid ==
  ASSUME PaidInv, NEW w \in Workers, Run(w)
  PROVE  /\ PaidInv'
         /\ \A o \in Orders : order[o].payment = "paid" => order'[o].payment = "paid"
<1>1. /\ work[w].order \in Orders /\ Name(w) \in Names
      /\ order[work[w].order].payment = "paid" /\ NameOf[work[w].order] = Name(w)
  BY RunGoesOn, ProvisionAssumption DEF PaidInv, WorkersPaid, Name, Names
<1>2. Writes(w) /\ GoesOn(w)
  BY RunWrites, RunGoesOn DEF PaidInv
<1> USE DEF PaidInv
<1>3. DataTypeOK'
  <2>1. order' \in [Orders -> OrderType]
    <3>1. CASE \E s \in Provisioning : WriteOrder(work[w].order, s)
      <4>1. PICK s \in Provisioning : WriteOrder(work[w].order, s)
        BY <3>1
      <4>2. [payment |-> "paid", provisioning |-> s] \in OrderType
        BY DEF OrderType
      <4> QED BY <4>1, <4>2 DEF WriteOrder, DataTypeOK
    <3> QED BY <1>2, <3>1 DEF Writes, DataTypeOK
  <2>2. record' \in [Names -> Orders \cup {NoOrder}]
    BY <1>2 DEF Writes, DataTypeOK
  <2>3. success' \in [Orders -> Nat]
    BY <1>1, <1>2 DEF Writes, DataTypeOK
  <2>4. registry' \in [Names -> {"free", "ours", "theirs"}]
    BY <1>2 DEF Writes, DataTypeOK
  <2>5. work' \in [Workers -> [at : At, order : Orders \cup {NoOrder}]]
    BY <1>2 DEF GoesOn, Idle, At, DataTypeOK
  <2> QED BY <2>1, <2>2, <2>3, <2>4, <2>5 DEF DataTypeOK
<1>4. \A o \in Orders : order[o].payment = "paid" => order'[o].payment = "paid"
  <2>1. CASE \E s \in Provisioning : WriteOrder(work[w].order, s)
    BY <2>1 DEF WriteOrder, DataTypeOK
  <2> QED BY <1>2, <2>1 DEF Writes
<1>5. WorkersPaid'
  <2>1. \A v \in Workers : work'[v].at # "idle" =>
          work'[v].order = work[v].order /\ (v = w \/ work'[v] = work[v])
    BY <1>2 DEF GoesOn, Idle, DataTypeOK
  <2> QED BY <1>1, <1>4, <2>1 DEF PaidInv, WorkersPaid
<1>6. OursWasPaid'
  <2>1. \A n \in Names : registry'[n] = "ours" => registry[n] = "ours" \/ n = Name(w)
    BY <1>2 DEF Writes, PaidInv, DataTypeOK
  <2> QED BY <1>1, <1>4, <2>1 DEF PaidInv, OursWasPaid
<1> QED BY <1>3, <1>4, <1>5, <1>6 DEF PaidInv

\* A worker is dispatched for an order that is paid by then.
LEMMA DispatchKeepsPaid ==
  ASSUME PaidInv, NEW w \in Workers, NEW o \in Orders, Dispatch(w, o),
         \A q \in Orders : order[q].payment = "paid" \/ q = o => order'[q].payment = "paid",
         order' \in [Orders -> OrderType], UNCHANGED <<record, success, registry>>
  PROVE  PaidInv'
<1> USE ProvisionAssumption
<1>1. \A v \in Workers : work'[v].at # "idle" =>
        work'[v].order = IF v = w THEN o ELSE work[v].order
  BY DEF Dispatch, PaidInv, DataTypeOK
<1>2. \A v \in Workers \ {w} : work'[v] = work[v]
  BY DEF Dispatch
<1>3. work' \in [Workers -> [at : At, order : Orders \cup {NoOrder}]]
  BY DEF Dispatch, At, PaidInv, DataTypeOK
<1> QED BY <1>1, <1>2, <1>3 DEF PaidInv, DataTypeOK, WorkersPaid, OursWasPaid

LEMMA PaidNext ==
  ASSUME PaidInv, [ProvisionNext]_provVars
  PROVE  PaidInv'
<1> USE ProvisionAssumption
<1>2. ASSUME NEW w \in Workers, NEW o \in Orders, Pay(w, o) PROVE PaidInv'
  <2>1. order' = [order EXCEPT ![o].payment = "paid"]
    BY <1>2 DEF Pay
  <2>2. order' \in [Orders -> OrderType]
    BY <2>1 DEF PaidInv, DataTypeOK, OrderType
  <2>3. \A q \in Orders : order[q].payment = "paid" \/ q = o => order'[q].payment = "paid"
    BY <2>1 DEF PaidInv, DataTypeOK, OrderType
  <2> QED BY <1>2, <2>2, <2>3, DispatchKeepsPaid DEF Pay
<1>3. ASSUME NEW w \in Workers, NEW o \in Orders, RetryOrder(w, o) PROVE PaidInv'
  BY <1>3, DispatchKeepsPaid DEF RetryOrder, dataVars, PaidInv, DataTypeOK
<1>4. ASSUME NEW w \in Workers, Run(w) PROVE PaidInv'
  BY <1>4, RunKeepsPaid
<1>5. ASSUME NEW n \in Names, Grab(n) PROVE PaidInv'
  BY <1>5 DEF Grab, PaidInv, DataTypeOK, WorkersPaid, OursWasPaid
<1>6. ASSUME NEW c \in Conns, CloseConn(c) PROVE PaidInv'
  BY <1>6 DEF CloseConn, dataVars, PaidInv, DataTypeOK, WorkersPaid, OursWasPaid
<1>7. ASSUME NEW p \in Procs, Crash(p) PROVE PaidInv'
  BY <1>7 DEF Crash, Idle, At, dataVars, PaidInv, DataTypeOK, WorkersPaid, OursWasPaid
<1>8. CASE UNCHANGED provVars
  BY <1>8 DEF provVars, dataVars, PaidInv, DataTypeOK, WorkersPaid, OursWasPaid
<1> QED BY <1>2, <1>3, <1>4, <1>5, <1>6, <1>7, <1>8 DEF ProvisionNext, ProvisionStep

LEMMA PaidInit == ProvisionInit => PaidInv
BY DEF ProvisionInit, At, Idle, PaidInv, DataTypeOK, OrderType, Provisioning, WorkersPaid, OursWasPaid

(* A name of ours was bought by a paid order, even when connections close. *)
THEOREM OursIsPaid == ProvisionSpec => []OursWasPaid
<1>1. PaidInv => OursWasPaid
  BY DEF PaidInv
<1>2. PaidInv /\ [ProvisionNext]_provVars => PaidInv'
  BY PaidNext
<1> QED BY PaidInit, <1>1, <1>2, PTL DEF ProvisionSpec

-----------------------------------------------------------------------------
LEMMA ProvisionTypeNext ==
  ASSUME ProvisionTypeOK, PaidInv, [ProvisionNext]_provVars
  PROVE  ProvisionTypeOK'
<1>1. WorkTypeOK BY DEF ProvisionTypeOK, WorkTypeOK
<1>2. DataTypeOK' BY PaidNext DEF PaidInv
<1>3. LockTypeOK' /\ WorkTypeOK'
  BY <1>1, NextEffect, EffectLocks, LockTypeNext, WorkTypeEffect DEF ProvisionTypeOK
<1>4. retries' \in 0..MaxRetries /\ crashes' \in 0..MaxCrashes
  <2> USE ProvisionAssumption DEF ProvisionTypeOK, KeepBounds
  <2>1. ASSUME NEW w \in Workers, NEW o \in Orders, Pay(w, o) \/ RetryOrder(w, o)
        PROVE  retries' \in 0..MaxRetries /\ crashes' \in 0..MaxCrashes
    BY <2>1 DEF Pay, RetryOrder
  <2>2. ASSUME NEW w \in Workers, Run(w) PROVE UNCHANGED <<retries, crashes>>
    BY <2>2 DEF Run, Load, MapLock, Advisory, Mark, Look, Register, Recheck, Fail,
                SaveDomain, Complete, Ledger, Unlock, Unmap
  <2>3. ASSUME NEW p \in Procs, Crash(p)
        PROVE  retries' \in 0..MaxRetries /\ crashes' \in 0..MaxCrashes
    BY <2>3 DEF Crash
  <2>4. ASSUME NEW n \in Names, Grab(n) PROVE UNCHANGED <<retries, crashes>>
    BY <2>4 DEF Grab
  <2>5. ASSUME NEW c \in Conns, CloseConn(c) PROVE UNCHANGED <<retries, crashes>>
    BY <2>5 DEF CloseConn
  <2> QED BY <2>1, <2>2, <2>3, <2>4, <2>5 DEF ProvisionNext, ProvisionStep, provVars
<1> QED BY <1>2, <1>3, <1>4 DEF DataTypeOK, OrderType, WorkTypeOK, ProvisionTypeOK

LEMMA ProvisionTypeInit == ProvisionInit => ProvisionTypeOK
<1> SUFFICES ASSUME ProvisionInit PROVE ProvisionTypeOK OBVIOUS
<1>1. LockTypeOK BY LockStart DEF ProvisionInit, LockInv
<1>2. DataTypeOK BY PaidInit DEF PaidInv
<1>3. retries \in 0..MaxRetries /\ crashes \in 0..MaxCrashes
  BY ProvisionAssumption DEF ProvisionInit
<1> QED BY <1>1, <1>2, <1>3
        DEF ProvisionInit, Idle, At, DataTypeOK, OrderType, ProvisionTypeOK

(* The tables, locks and workers keep their types: a worker without a      *)
(* place has no order, and no session counts past its bound.               *)
THEOREM ProvisionTypes == ProvisionSpec => []ProvisionTypeOK
<1>1. ProvisionTypeOK /\ PaidInv /\ [ProvisionNext]_provVars => (ProvisionTypeOK /\ PaidInv)'
  BY ProvisionTypeNext, PaidNext
<1> QED BY ProvisionTypeInit, PaidInit, <1>1, PTL DEF ProvisionSpec

-----------------------------------------------------------------------------
(***************************************************************************)
(* The books.  When GetDomainInfo's status word is never recognised, a     *)
(* worker saves a domain only after its own registration took a free name, *)
(* and a name that is free at the registrar has no row.  A name is taken   *)
(* once, so one worker saves it, whatever becomes of the locks.            *)
(***************************************************************************)
Saving(w) == work[w].at \in {"save", "complete", "ledger"}

Booking(w) ==
  /\ Saving(w) => registry[Name(w)] = "ours"
  /\ work[w].at = "save" => record[Name(w)] = NoOrder
  /\ work[w].at \in {"complete", "ledger"} =>
       record[Name(w)] = work[w].order /\ success[work[w].order] = 0

\* Rows belong to names of ours, successes to the order of the row.
RowsAreOurs  == \A n \in Names : registry[n] # "ours" => record[n] = NoOrder
BookedHasRow == \A o \in Orders : success[o] = 0 \/ (success[o] = 1 /\ record[NameOf[o]] = o)

OneSaves ==
  \A v, w \in Workers : (Saving(v) /\ Saving(w) /\ Name(v) = Name(w)) => v = w

Books ==
  /\ RowsAreOurs /\ BookedHasRow /\ CompletedOwnsDomain /\ OneSaves
  /\ \A w \in Workers : Booking(w)

\* A step that writes none of the tables and lets nobody in to save.
LEMMA KeepsBooks ==
  ASSUME Books, UNCHANGED dataVars,
         \A v \in Workers : work'[v] = work[v] \/ ~Saving(v)'
  PROVE  Books'
<1>1. ASSUME NEW v \in Workers PROVE Booking(v)'
  <2>1. CASE work'[v] = work[v] BY <2>1 DEF Books, Booking, Saving, Name, dataVars
  <2>2. CASE ~Saving(v)' BY <2>2 DEF Booking, Saving
  <2> QED BY <2>1, <2>2
<1>2. OneSaves' BY DEF Books, OneSaves, Saving, Name
<1> QED BY <1>1, <1>2 DEF Books, RowsAreOurs, BookedHasRow, CompletedOwnsDomain, dataVars

LEMMA RunKeepsBooks ==
  ASSUME InfoStatus \notin {"Active", "Registered"}, PaidInv, Books,
         NEW w \in Workers, Run(w)
  PROVE  Books'
<1> DEFINE o == work[w].order
           n == Name(w)
<1>1. /\ o \in Orders /\ n \in Names /\ n = NameOf[o] /\ o # NoOrder
      /\ NameOf \in [Orders -> Names]
  BY RunGoesOn, ProvisionAssumption DEF PaidInv, WorkersPaid, Name, Names
<1>2. \A v \in Workers : Saving(v) =>
        work[v].order \in Orders /\ NameOf[work[v].order] = Name(v) /\ Name(v) \in Names
  BY <1>1 DEF PaidInv, WorkersPaid, Saving, Name
<1>3. work \in [Workers -> [at : At, order : Orders \cup {NoOrder}]]
      /\ order \in [Orders -> OrderType]
      /\ record \in [Names -> Orders \cup {NoOrder}]
      /\ registry \in [Names -> {"free", "ours", "theirs"}]
      /\ success \in [Orders -> Nat]
  BY DEF PaidInv, DataTypeOK
<1>4. ~Recognised(n) BY DEF Recognised
<1>5. ASSUME UNCHANGED dataVars,
             Return(w) \/ \E a \in At \ {"save", "complete", "ledger"} : Goto(w, a)
      PROVE  Books'
  <2>1. \A v \in Workers : work'[v] = work[v] \/ ~Saving(v)'
    BY <1>3, <1>5 DEF Return, Goto, Idle, Saving
  <2> QED BY <1>5, <2>1, KeepsBooks
\* A worker that goes on saving, or never does, leaves the others alone.
<1>6. ASSUME NEW a \in At, Goto(w, a), a \in {"save", "complete", "ledger"} => Saving(w)
      PROVE  OneSaves'
  <2>1. \A v \in Workers : work'[v].order = work[v].order /\ (Saving(v)' => Saving(v))
    BY <1>3, <1>6 DEF Goto, Saving
  <2> QED BY <2>1 DEF Books, OneSaves, Name
<1>7. ASSUME NEW s \in Provisioning \ {"completed"}, NEW a \in {"look", "unlock"},
             WriteOrder(o, s), Goto(w, a), UNCHANGED <<record, success, registry>>
      PROVE  Books'
  <2>1. \A q \in Orders : order'[q].provisioning = "completed"
                          => order[q].provisioning = "completed"
    BY <1>3, <1>7 DEF WriteOrder
  <2>2. \A v \in Workers : Booking(v)'
    BY <1>3, <1>7 DEF Goto, Books, Booking, Saving, Name
  <2>3. OneSaves' BY <1>6, <1>7 DEF At, Mapped, Locked
  <2> QED BY <1>7, <2>1, <2>2, <2>3 DEF Books, RowsAreOurs, BookedHasRow, CompletedOwnsDomain
<1>8. CASE Load(w) \/ MapLock(w) \/ Advisory(w) \/ Unlock(w) \/ Unmap(w)
  BY <1>5, <1>8 DEF Load, MapLock, Advisory, Unlock, Unmap, At, Mapped, Locked, Return, dataVars
<1>9. CASE Look(w) \/ Recheck(w)
  BY <1>4, <1>5, <1>9 DEF Look, Recheck, Checks, At, Mapped, Locked
<1>10. CASE Mark(w) \/ Fail(w)
  <2>1. PICK a \in {"look", "unlock"}, s \in Provisioning \ {"completed"} :
          /\ TryWriteOrder(w, s) /\ Goto(w, a)
          /\ UNCHANGED <<record, success, registry>>
    BY <1>10 DEF Mark, Fail, Provisioning
  <2>2. CASE WriteOrder(o, s) BY <1>7, <2>1, <2>2
  <2>3. CASE UNCHANGED order
    BY <1>5, <2>1, <2>3 DEF dataVars, At, Mapped, Locked
  <2> QED BY <2>1, <2>2, <2>3 DEF TryWriteOrder
<1>11. CASE Register(w)
  <2>1. PICK r \in RegisterOutcomes(n) :
          /\ registry' = [registry EXCEPT ![n] = r[1]]
          /\ Goto(w, IF r[2] THEN "save" ELSE "recheck")
    BY <1>11 DEF Register
  <2>2. UNCHANGED <<order, record, success>> BY <1>11 DEF Register
  <2>3. CASE registry[n] # "free"
    <3>1. r = <<registry[n], FALSE>> BY <2>1, <2>3 DEF RegisterOutcomes
    <3>2. registry' = registry /\ Goto(w, "recheck") BY <1>1, <1>3, <2>1, <3>1
    <3> QED BY <1>5, <2>2, <3>2 DEF dataVars, At, Mapped, Locked
  <2>4. CASE registry[n] = "free"
    <3>1. record[n] = NoOrder BY <1>1, <2>4 DEF Books, RowsAreOurs
    <3>2. \A m \in Names : registry[m] = "ours" => registry'[m] = "ours"
      BY <1>1, <1>3, <2>1, <2>4
    <3>3. r[2] => registry'[n] = "ours"
      <4>1. CASE r = <<"ours", TRUE>> BY <1>1, <1>3, <2>1, <4>1
      <4>2. CASE r = <<"ours", FALSE>> BY <4>2
      <4>3. CASE r = <<"free", FALSE>> BY <4>3
      <4> QED BY <2>1, <2>4, <4>1, <4>2, <4>3 DEF RegisterOutcomes
    <3>4. \A v \in Workers \ {w} : work'[v] = work[v] BY <2>1 DEF Goto
    <3>5. work'[w].order = o /\ work'[w].at \in {"save", "recheck"}
          /\ (work'[w].at = "save" => r[2])
      BY <1>3, <2>1 DEF Goto
    <3>6. Booking(w)'
      BY <1>1, <2>2, <3>1, <3>3, <3>5 DEF Booking, Saving, Name
    <3>7. \A v \in Workers \ {w} : Booking(v)'
      BY <1>2, <2>2, <3>2, <3>4 DEF Books, Booking, Saving, Name
    <3>8. \A v \in Workers \ {w} : Saving(v) => Name(v) # n
      BY <2>4 DEF Books, Booking
    <3>9. OneSaves'
      BY <3>4, <3>5, <3>8 DEF Books, OneSaves, Saving, Name
    <3>10. RowsAreOurs' BY <2>2, <3>2 DEF Books, RowsAreOurs
    <3>11. BookedHasRow' BY <2>2 DEF Books, BookedHasRow
    <3>12. CompletedOwnsDomain' BY <1>1, <2>2, <3>2 DEF Books, CompletedOwnsDomain
    <3>13. \A v \in Workers : Booking(v)' BY <3>6, <3>7
    <3> HIDE DEF o, n
    <3> QED BY <3>9, <3>10, <3>11, <3>12, <3>13 DEF Books
  <2> QED BY <2>3, <2>4
<1>12. CASE SaveDomain(w)
  <2>1. record[n] = NoOrder /\ registry[n] = "ours" /\ Saving(w)
    BY <1>12 DEF SaveDomain, Books, Booking, Saving
  <2>2. UNCHANGED <<order, success, registry>> BY <1>12 DEF SaveDomain
  <2>3. CASE UNCHANGED record /\ Goto(w, "unlock")
    BY <1>5, <2>2, <2>3 DEF dataVars, At, Mapped, Locked
  <2>4. CASE record' = [record EXCEPT ![n] = o] /\ Goto(w, "complete")
    <3>1. success[o] = 0 BY <1>1, <2>1 DEF Books, BookedHasRow
    <3>2. Booking(w)'
      BY <1>1, <1>3, <2>1, <2>2, <2>4, <3>1 DEF Goto, Booking, Saving, Name
    <3>3. \A v \in Workers \ {w} : Saving(v) => Name(v) # n
      BY <2>1 DEF Books, OneSaves
    <3>4. \A v \in Workers \ {w} : Booking(v)'
      BY <1>2, <1>3, <2>2, <2>4, <3>3 DEF Goto, Books, Booking, Saving, Name
    <3>5. \A q \in Orders : record[NameOf[q]] = q => NameOf[q] # n
      BY <1>1, <2>1, ProvisionAssumption
    <3>6. RowsAreOurs' BY <1>1, <1>3, <2>1, <2>2, <2>4 DEF Books, RowsAreOurs
    <3>7. BookedHasRow' BY <1>1, <1>3, <2>2, <2>4, <3>5 DEF Books, BookedHasRow
    <3>8. CompletedOwnsDomain' BY <1>1, <1>3, <2>2, <2>4, <3>5 DEF Books, CompletedOwnsDomain
    <3>9. OneSaves' BY <1>6, <2>1, <2>4 DEF At, Mapped, Locked
    <3> QED BY <3>2, <3>4, <3>6, <3>7, <3>8, <3>9 DEF Books
  <2> QED BY <1>12, <2>1, <2>3, <2>4 DEF SaveDomain
<1>13. CASE Complete(w)
  <2>1. record[n] = o /\ registry[n] = "ours" /\ success[o] = 0 /\ Saving(w)
    BY <1>13 DEF Complete, Books, Booking, Saving
  <2>2. /\ WriteOrder(o, "completed") \/ UNCHANGED order
        /\ Goto(w, "ledger") /\ UNCHANGED <<record, success, registry>>
    BY <1>13 DEF Complete, TryWriteOrder
  <2>3. CompletedOwnsDomain'
    BY <1>1, <1>3, <2>1, <2>2 DEF WriteOrder, Books, CompletedOwnsDomain
  <2>4. \A v \in Workers : Booking(v)'
    BY <1>1, <1>3, <2>1, <2>2 DEF Goto, Books, Booking, Saving, Name
  <2>5. OneSaves' BY <1>6, <2>1, <2>2 DEF At, Mapped, Locked
  <2> QED BY <2>2, <2>3, <2>4, <2>5 DEF Books, RowsAreOurs, BookedHasRow
<1>14. CASE Ledger(w)
  <2>1. record[n] = o /\ success[o] = 0 /\ Saving(w)
    BY <1>14 DEF Ledger, Books, Booking, Saving
  <2>2. Goto(w, "unlock") /\ UNCHANGED <<order, record, registry>> BY <1>14 DEF Ledger
  <2>3. CASE UNCHANGED success
    BY <1>5, <2>2, <2>3 DEF dataVars, At, Mapped, Locked
  <2>4. CASE success' = [success EXCEPT ![o] = @ + 1]
    <3>1. success' = [success EXCEPT ![o] = 1] BY <1>1, <1>3, <2>1, <2>4
    <3>2. \A v \in Workers \ {w} : Saving(v) => work[v].order # o
      BY <2>1 DEF Books, OneSaves, Name
    <3>3. \A v \in Workers : Booking(v)'
      BY <1>2, <1>3, <2>2, <3>1, <3>2 DEF Goto, Books, Booking, Saving, Name
    <3>4. BookedHasRow' BY <1>1, <1>3, <2>1, <2>2, <3>1 DEF Books, BookedHasRow
    <3>5. OneSaves' BY <1>6, <2>2 DEF At, Mapped, Locked
    <3> QED BY <2>2, <3>3, <3>4, <3>5 DEF Books, RowsAreOurs, CompletedOwnsDomain
  <2> QED BY <1>14, <2>3, <2>4 DEF Ledger
<1> QED BY <1>8, <1>9, <1>10, <1>11, <1>12, <1>13, <1>14 DEF Run

LEMMA BooksNext ==
  ASSUME InfoStatus \notin {"Active", "Registered"}, PaidInv, Books,
         [ProvisionNext]_provVars
  PROVE  Books'
<1> USE DEF PaidInv, DataTypeOK
<1>1. ASSUME NEW w \in Workers, NEW o \in Orders, Pay(w, o) PROVE Books'
  <2>1. \A q \in Orders : order'[q].provisioning = order[q].provisioning
    BY <1>1 DEF Pay, OrderType
  <2>2. \A v \in Workers : work'[v] = work[v] \/ ~Saving(v)'
    BY <1>1 DEF Pay, Dispatch, Saving
  <2>3. UNCHANGED <<record, success, registry>> BY <1>1 DEF Pay
  <2>4. \A v \in Workers : Booking(v)'
    BY <2>2, <2>3 DEF Books, Booking, Saving, Name
  <2>5. OneSaves' BY <2>2 DEF Books, OneSaves, Saving, Name
  <2> QED BY <2>1, <2>3, <2>4, <2>5 DEF Books, RowsAreOurs, BookedHasRow, CompletedOwnsDomain
<1>2. ASSUME NEW w \in Workers, NEW o \in Orders, RetryOrder(w, o) PROVE Books'
  <2>1. \A v \in Workers : work'[v] = work[v] \/ ~Saving(v)'
    BY <1>2 DEF RetryOrder, Dispatch, Saving
  <2> QED BY <1>2, <2>1, KeepsBooks DEF RetryOrder
<1>3. ASSUME NEW w \in Workers, Run(w) PROVE Books'
  BY <1>3, RunKeepsBooks
<1>4. ASSUME NEW n \in Names, Grab(n) PROVE Books'
  <2>1. \A m \in Names : registry'[m] = "ours" <=> registry[m] = "ours"
    BY <1>4 DEF Grab
  <2>2. \A v \in Workers : work[v].at # "idle" => Name(v) \in Names
    BY ProvisionAssumption DEF WorkersPaid, Name, Names
  <2>3. \A v \in Workers : Booking(v)'
    BY <1>4, <2>1, <2>2 DEF Grab, Books, Booking, Saving, Name
  <2>4. \A o \in Orders : NameOf[o] \in Names
    BY ProvisionAssumption DEF Names
  <2>5. OneSaves' BY <1>4 DEF Grab, Books, OneSaves, Saving, Name
  <2> QED BY <1>4, <2>1, <2>3, <2>4, <2>5
          DEF Grab, Books, RowsAreOurs, BookedHasRow, CompletedOwnsDomain
<1>5. ASSUME NEW c \in Conns, CloseConn(c) PROVE Books'
  BY <1>5, KeepsBooks DEF CloseConn
<1>6. ASSUME NEW p \in Procs, Crash(p) PROVE Books'
  <2>1. \A v \in Workers : work'[v] = work[v] \/ ~Saving(v)'
    BY <1>6 DEF Crash, Idle, Saving
  <2> QED BY <1>6, <2>1, KeepsBooks DEF Crash
<1>7. CASE UNCHANGED provVars
  BY <1>7, KeepsBooks DEF provVars
<1> QED BY <1>1, <1>2, <1>3, <1>4, <1>5, <1>6, <1>7 DEF ProvisionNext, ProvisionStep

LEMMA BooksInvariant ==
  ASSUME InfoStatus \notin {"Active", "Registered"}
  PROVE  ProvisionSpec => []Books
<1>1. ProvisionInit => Books
  BY DEF ProvisionInit, Idle, Books, RowsAreOurs, BookedHasRow, CompletedOwnsDomain,
         OneSaves, Saving, Booking
<1>2. PaidInv /\ Books /\ [ProvisionNext]_provVars => Books'
  BY BooksNext
<1>3. PaidInv /\ [ProvisionNext]_provVars => PaidInv'
  BY PaidNext
<1> QED BY PaidInit, <1>1, <1>2, <1>3, PTL DEF ProvisionSpec

(* A completed order has the name and its own row, however workers, retries,*)
(* crashes, closed connections and failing writes interleave, while the     *)
(* registrar never reports a status word the worker recognises.             *)
THEOREM CompletedOwns ==
  ASSUME InfoStatus \notin {"Active", "Registered"}
  PROVE  ProvisionSpec => []CompletedOwnsDomain
<1>1. Books => CompletedOwnsDomain BY DEF Books
<1> QED BY <1>1, BooksInvariant, PTL

(* At most one registration of a name is booked, under the same condition.  *)
THEOREM BookedOnce ==
  ASSUME InfoStatus \notin {"Active", "Registered"}
  PROVE  ProvisionSpec => []OneSuccessPerName
<1>1. Books => OneSuccessPerName
  BY DEF Books, BookedHasRow, OneSuccessPerName
<1> QED BY <1>1, BooksInvariant, PTL

-----------------------------------------------------------------------------
(***************************************************************************)
(* The payments.  A request that is past its checks speaks of money, of an *)
(* administrator's word or of a payment taken on trust (MayPay), and it    *)
(* books the transaction before it touches the order (HasBooked).  All of  *)
(* these only grow, so what a request knew when it read stays true while   *)
(* it writes.                                                              *)
(***************************************************************************)
Past == {"settle", "book", "note", "order", "mark"}

MayPay(r) ==
  request[r].at # "idle" =>
    /\ request[r].order \in Orders
    /\ request[r].kind = "admin" => request[r].order \in override
    /\ request[r].kind = "paid" => request[r].order \in charged \cup trusted
    /\ request[r].at \in Past => request[r].order \in charged \cup override \cup trusted

HasBooked(r) == request[r].at \in {"note", "order", "mark"} => request[r].order \in booked

\* A request that has written the invoice and has yet to reach the order.
Settling(o) ==
  \E r \in Requests : request[r].order = o /\ request[r].at \in {"book", "note", "order", "mark"}

PaidIsBooked  == \A o \in Orders : order[o].payment = "paid" => o \in booked
PaidIsSettled ==
  crashes = 0 =>
    \A o \in Orders : invoice[o] = "paid" => order[o].payment = "paid" \/ Settling(o)

PayInv ==
  /\ PaymentTypeOK /\ PaidInv /\ PaidWasCharged /\ PaidIsBooked /\ PaidIsSettled
  /\ \A r \in Requests : MayPay(r) /\ HasBooked(r)

\* No payment is undone.
PaymentsGrow == \A o \in Orders : order[o].payment = "paid" => order'[o].payment = "paid"

LEMMA PayInit == Init => PayInv
<1> SUFFICES ASSUME Init PROVE PayInv OBVIOUS
<1>1. ProvisionTypeOK /\ PaidInv BY ProvisionTypeInit, PaidInit DEF Init
<1>2. request = [r \in Requests |-> Free] /\ \A o \in Orders : order[o].payment = "pending"
  BY DEF Init, ProvisionInit
<1>3. \A r \in Requests : request[r].at = "idle" BY <1>2 DEF Free
<1>4. PaymentTypeOK
  BY <1>1, <1>2, PaymentAssumption DEF Init, Free, Kinds, Provisioning, PaymentTypeOK
<1>5. \A o \in Orders : invoice[o] # "paid" BY DEF Init
<1> QED BY <1>1, <1>2, <1>3, <1>4, <1>5
        DEF PayInv, PaidWasCharged, PaidIsBooked, PaidIsSettled, MayPay, HasBooked

\* What a step of provisioning other than Pay leaves of the payments.
LEMMA StepMarksNobody ==
  ASSUME PaidInv, crashes \in Nat, ProvisionStep
  PROVE  /\ \A o \in Orders : order'[o].payment = order[o].payment
         /\ crashes' # 0 \/ crashes' = crashes
<1>1. ASSUME NEW w \in Workers, Run(w)
      PROVE  (\A o \in Orders : order'[o].payment = order[o].payment) /\ crashes' = crashes
  <2>1. \A o \in Orders : order[o].payment = "paid" => order'[o].payment = "paid"
    BY <1>1, RunKeepsPaid
  <2>2. work[w].order \in Orders /\ order[work[w].order].payment = "paid"
    BY <1>1, RunGoesOn DEF PaidInv, WorkersPaid
  <2>3. \A o \in Orders \ {work[w].order} : order'[o] = order[o]
    <3>1. order' = order \/ \E s \in Provisioning : WriteOrder(work[w].order, s)
      BY <1>1, RunWrites DEF PaidInv, Writes
    <3>2. order \in [Orders -> OrderType] BY DEF PaidInv, DataTypeOK
    <3> QED BY <3>1, <3>2 DEF WriteOrder
  <2>4. crashes' = crashes
    BY <1>1 DEF Run, Load, MapLock, Advisory, Mark, Look, Register, Recheck, Fail,
                SaveDomain, Complete, Ledger, Unlock, Unmap, KeepBounds
  <2> QED BY <2>1, <2>2, <2>3, <2>4
<1>2. ASSUME NEW p \in Procs, Crash(p) PROVE order' = order /\ crashes' # 0
  BY <1>2 DEF Crash, dataVars
<1> QED BY <1>1, <1>2 DEF ProvisionStep, RetryOrder, Grab, CloseConn, dataVars, KeepBounds

\* How a handler's step changes its request.
Places == {"event", "read", "confirm", "settle", "book", "note", "order", "mark", "unpay"}

RequestsOK ==
  request \in [Requests ->
    [at : Places \cup {"idle"}, kind : Kinds, order : Orders \cup {NoOrder}, seen : Provisioning]]

Advances(r, a) ==
  /\ RequestsOK'
  /\ request'[r].at = a /\ request'[r].order = request[r].order
  /\ request'[r].kind = request[r].kind
  /\ \A v \in Requests \ {r} : request'[v] = request[v]

Answers(r) ==
  RequestsOK' /\ request'[r].at = "idle" /\ \A v \in Requests \ {r} : request'[v] = request[v]

LEMMA StepAdvances ==
  ASSUME RequestsOK, NEW r \in Requests, NEW a \in Places, Step(r, a)
  PROVE  Advances(r, a)
BY DEF Step, Advances, RequestsOK, Places

LEMMA AnswerAnswers ==
  ASSUME RequestsOK, NEW r \in Requests, Answer(r)
  PROVE  Answers(r)
BY DEF Answer, Free, Answers, RequestsOK, Kinds, Provisioning

LEMMA RequestsTyped == PaymentTypeOK => RequestsOK
BY DEF PaymentTypeOK, RequestsOK, Places

\* The money, the word and the transactions of the others only grow.
LEMMA OthersKeep ==
  ASSUME PayInv, NEW r \in Requests, \A v \in Requests \ {r} : request'[v] = request[v],
         charged \subseteq charged', override \subseteq override',
         trusted \subseteq trusted', booked \subseteq booked',
         MayPay(r)', HasBooked(r)'
  PROVE  \A v \in Requests : (MayPay(v) /\ HasBooked(v))'
BY DEF PayInv, MayPay, HasBooked

\* An invoice stays settled while its request goes on, or ends with the order paid.
LEMMA StaysSettled ==
  ASSUME PayInv, NEW r \in Requests, \A v \in Requests \ {r} : request'[v] = request[v],
         PaymentsGrow, crashes' = crashes,
         \A o \in Orders : invoice'[o] = "paid" => invoice[o] = "paid" \/ Settling(o)',
         \A o \in Orders : o = request[r].order /\ request[r].at \in {"book", "note", "order", "mark"}
           => Settling(o)' \/ order'[o].payment = "paid"
  PROVE  PaidIsSettled'
<1>1. \A o \in Orders : Settling(o) => Settling(o)' \/ order'[o].payment = "paid"
  <2> SUFFICES ASSUME NEW o \in Orders, NEW v \in Requests, request[v].order = o,
                      request[v].at \in {"book", "note", "order", "mark"}
               PROVE  Settling(o)' \/ order'[o].payment = "paid"
    BY DEF Settling
  <2>1. CASE v = r BY <2>1
  <2>2. CASE v # r
    <3>1. request'[v] = request[v] BY <2>2
    <3> QED BY <3>1 DEF Settling
  <2> QED BY <2>1, <2>2
<1> QED BY <1>1 DEF PayInv, PaidIsSettled, PaymentsGrow

LEMMA SameProvisioning ==
  ASSUME PayInv, UNCHANGED provVars
  PROVE  ProvisionTypeOK' /\ PaidInv' /\ order' = order /\ crashes' = crashes
BY PaidNext, ProvisionTypeNext DEF PayInv, PaymentTypeOK, provVars, dataVars

\* Nobody pays but on trust.
Trusts == UNCHANGED <<charged, override, asked>> /\ trusted \subseteq trusted' /\ trusted' \subseteq Orders

LEMMA KeepsTrust == PayInv /\ KeepMoney => Trusts
BY DEF PayInv, PaymentTypeOK, KeepMoney, Trusts

\* A handler goes on to a place it may be at.
LEMMA GoingOn ==
  ASSUME PayInv, NEW r \in Requests, request[r].at # "idle",
         UNCHANGED provVars, Trusts, NEW a \in Places, Advances(r, a),
         booked \subseteq booked', booked' \subseteq Orders, noted' \subseteq Orders,
         invoice' \in [Orders -> {"none", "unpaid", "paid"}],
         \A o \in Orders : invoice'[o] = "paid" =>
           invoice[o] = "paid" \/ (o = request[r].order /\ a = "book"),
         a \in Past => request[r].order \in charged \cup override \cup trusted',
         a \in {"note", "order", "mark"} => request[r].order \in booked',
         request[r].at \in {"book", "note", "order", "mark"} => a \in {"book", "note", "order", "mark"}
  PROVE  PayInv' /\ PaymentsGrow
<1>1. ProvisionTypeOK' /\ PaidInv' /\ order' = order /\ crashes' = crashes
  BY SameProvisioning
<1>2. PaymentTypeOK'
  BY <1>1 DEF PayInv, PaymentTypeOK, Advances, RequestsOK, Places, Trusts
<1>3. MayPay(r)' /\ HasBooked(r)'
  BY DEF PayInv, MayPay, HasBooked, Advances, Trusts
<1>4. \A v \in Requests : (MayPay(v) /\ HasBooked(v))'
  BY <1>3, OthersKeep DEF Advances, Trusts
<1>5. PaymentsGrow BY <1>1 DEF PaymentsGrow
<1>6. \A o \in Orders : o = request[r].order /\ a \in {"book", "note", "order", "mark"}
                        => Settling(o)'
  BY DEF Settling, Advances
<1>7. PaidIsSettled' BY <1>1, <1>5, <1>6, StaysSettled DEF Advances
<1>8. PaidWasCharged' /\ PaidIsBooked'
  BY <1>1 DEF PayInv, PaidWasCharged, PaidIsBooked, Trusts
<1> QED BY <1>1, <1>2, <1>4, <1>5, <1>7, <1>8 DEF PayInv

\* A handler answers.
LEMMA Answering ==
  ASSUME PayInv, NEW r \in Requests, UNCHANGED provVars, KeepMoney, Answers(r),
         UNCHANGED <<booked, noted>>,
         invoice' \in [Orders -> {"none", "unpaid", "paid"}],
         \A o \in Orders : invoice'[o] = "paid" => invoice[o] = "paid",
         request[r].at \in {"book", "note", "order", "mark"} =>
           order[request[r].order].payment = "paid"
  PROVE  PayInv' /\ PaymentsGrow
<1>1. ProvisionTypeOK' /\ PaidInv' /\ order' = order /\ crashes' = crashes
  BY SameProvisioning
<1>2. PaymentTypeOK'
  BY <1>1 DEF PayInv, PaymentTypeOK, Answers, RequestsOK, Places, KeepMoney
<1>3. \A v \in Requests : (MayPay(v) /\ HasBooked(v))'
  BY OthersKeep DEF MayPay, HasBooked, Answers, KeepMoney
<1>4. PaymentsGrow BY <1>1 DEF PaymentsGrow
<1>5. PaidIsSettled' BY <1>1, <1>4, StaysSettled DEF Answers
<1>6. PaidWasCharged' /\ PaidIsBooked'
  BY <1>1 DEF PayInv, PaidWasCharged, PaidIsBooked, KeepMoney
<1> QED BY <1>1, <1>2, <1>3, <1>4, <1>5, <1>6 DEF PayInv

LEMMA HandleKeeps ==
  ASSUME PayInv, NEW r \in Requests, Handle(r)
  PROVE  PayInv' /\ PaymentsGrow
<1> DEFINE o == request[r].order
<1>1. RequestsOK /\ booked \subseteq Orders /\ noted \subseteq Orders
      /\ invoice \in [Orders -> {"none", "unpaid", "paid"}]
  BY RequestsTyped DEF PayInv, PaymentTypeOK
<1>2. request[r].at # "idle"
  BY DEF Handle, SeeEvent, ReadInvoice, Confirm, Settle, Unpay, Book, Note, ReadOrder, MarkOrder
<1>3. MayPay(r) /\ HasBooked(r) /\ o \in Orders BY <1>2 DEF PayInv, MayPay
<1>4. request[r].kind \in Kinds BY <1>1 DEF RequestsOK
<1> HIDE DEF o
<1>5. CASE SeeEvent(r)
  <2>1. request[r].at = "event" /\ UNCHANGED provVars /\ KeepMoney
        /\ UNCHANGED <<invoice, booked, noted>>
    BY <1>5 DEF SeeEvent, KeepProvisioning
  <2>2. CASE Answer(r) BY <1>1, <2>1, <2>2, AnswerAnswers, Answering
  <2>3. CASE Step(r, "read")
    <3>1. Advances(r, "read") BY <1>1, <2>3, StepAdvances DEF Places
    <3> QED BY <1>1, <1>2, <2>1, <3>1, KeepsTrust, GoingOn DEF Places, Past, KeepMoney
  <2> QED BY <1>5, <2>2, <2>3 DEF SeeEvent
<1>6. CASE ReadInvoice(r)
  <2>1. request[r].at = "read" /\ UNCHANGED provVars /\ KeepMoney
        /\ UNCHANGED <<invoice, booked, noted>>
    BY <1>6 DEF ReadInvoice, KeepProvisioning
  <2>2. CASE Answer(r) BY <1>1, <2>1, <2>2, AnswerAnswers, Answering
  <2>3. ASSUME NEW a \in {"unpay", "confirm", "settle"}, Step(r, a),
               a = "settle" => request[r].kind \in {"admin", "paid"}
        PROVE  PayInv' /\ PaymentsGrow
    <3>1. Advances(r, a) BY <1>1, <2>3, StepAdvances DEF Places
    <3>2. a = "settle" => request[r].order \in charged \cup override \cup trusted
      BY <1>2, <1>3, <2>3 DEF MayPay
    <3> QED BY <1>1, <1>2, <2>1, <2>3, <3>1, <3>2, KeepsTrust, GoingOn DEF Places, Past, KeepMoney
  <2>4. CASE Step(r, CASE request[r].kind = "failed" -> "unpay"
                       [] request[r].kind = "verify" -> "confirm"
                       [] OTHER -> "settle")
    BY <1>4, <2>3, <2>4 DEF Kinds
  <2> QED BY <1>6, <2>2, <2>4 DEF ReadInvoice
<1>7. CASE Confirm(r)
  <2>1. request[r].at = "confirm" /\ UNCHANGED provVars
        /\ UNCHANGED <<invoice, booked, noted, charged, override, asked>>
    BY <1>7 DEF Confirm, KeepProvisioning
  <2>2. CASE Answer(r) /\ UNCHANGED trusted
    BY <1>1, <2>1, <2>2, AnswerAnswers, Answering DEF KeepMoney
  <2>3. CASE Step(r, "settle") /\ o \in charged \cup trusted' /\ trusted \subseteq trusted'
             /\ trusted' \subseteq Orders
    <3>1. Advances(r, "settle") BY <1>1, <2>3, StepAdvances DEF Places
    <3>2. Trusts BY <2>1, <2>3 DEF Trusts
    <3> QED BY <1>1, <1>2, <2>1, <2>3, <3>1, <3>2, GoingOn DEF Places, Past, o
  <2>4. trusted \subseteq Orders BY DEF PayInv, PaymentTypeOK
  <2> QED BY <1>3, <1>7, <2>2, <2>3, <2>4 DEF Confirm, o
<1>8. CASE Settle(r)
  <2>1. request[r].at = "settle" /\ UNCHANGED provVars /\ KeepMoney
        /\ UNCHANGED <<booked, noted>> /\ Step(r, "book")
        /\ invoice' = [invoice EXCEPT ![o] = "paid"]
    BY <1>8 DEF Settle, KeepProvisioning, o
  <2>2. Advances(r, "book") BY <1>1, <2>1, StepAdvances DEF Places
  <2>3. o \in charged \cup override \cup trusted BY <1>3, <2>1 DEF MayPay, Past, o
  <2>4. invoice' \in [Orders -> {"none", "unpaid", "paid"}]
        /\ \A q \in Orders : invoice'[q] = "paid" => invoice[q] = "paid" \/ q = o
    BY <1>1, <2>1
  <2> QED BY <1>1, <1>2, <2>1, <2>2, <2>3, <2>4, KeepsTrust, GoingOn DEF Places, o, KeepMoney
<1>9. CASE Unpay(r)
  <2>1. request[r].at = "unpay" /\ UNCHANGED provVars /\ KeepMoney
        /\ UNCHANGED <<booked, noted>> /\ Answers(r)
    BY <1>1, <1>9, AnswerAnswers DEF Unpay, KeepProvisioning
  <2>2. invoice' \in [Orders -> {"none", "unpaid", "paid"}]
        /\ \A q \in Orders : invoice'[q] = "paid" => invoice[q] = "paid"
    BY <1>1, <1>9 DEF Unpay
  <2> QED BY <2>1, <2>2, Answering
<1>10. CASE Book(r)
  <2>1. /\ request[r].at = "book" /\ UNCHANGED provVars /\ KeepMoney
        /\ UNCHANGED <<invoice, noted>> /\ booked' = booked \cup {o}
        /\ \E a \in {"note", "order"} : Step(r, a)
    BY <1>10 DEF Book, KeepProvisioning, o
  <2>2. PICK a \in {"note", "order"} : Advances(r, a)
    BY <1>1, <2>1, StepAdvances DEF Places
  <2>3. o \in charged \cup override \cup trusted BY <1>3, <2>1 DEF MayPay, Past, o
  <2> QED BY <1>1, <1>2, <1>3, <2>1, <2>2, <2>3, KeepsTrust, GoingOn DEF Places, o, KeepMoney
<1>11. CASE Note(r)
  <2>1. request[r].at = "note" /\ UNCHANGED provVars /\ KeepMoney
        /\ UNCHANGED <<invoice, booked>> /\ noted' = noted \cup {o} /\ Step(r, "order")
    BY <1>11 DEF Note, KeepProvisioning, o
  <2>2. Advances(r, "order") BY <1>1, <2>1, StepAdvances DEF Places
  <2>3. o \in charged \cup override \cup trusted /\ o \in booked
    BY <1>3, <2>1 DEF MayPay, HasBooked, Past, o
  <2> QED BY <1>1, <1>2, <1>3, <2>1, <2>2, <2>3, KeepsTrust, GoingOn DEF Places, o, KeepMoney
<1>12. CASE ReadOrder(r)
  <2>1. request[r].at = "order" /\ UNCHANGED provVars /\ KeepMoney
        /\ UNCHANGED <<invoice, booked, noted>>
    BY <1>12 DEF ReadOrder, KeepProvisioning
  <2>2. CASE order[o].payment = "paid" /\ Answer(r)
    BY <1>1, <2>1, <2>2, AnswerAnswers, Answering DEF o
  <2>3. CASE request' = [request EXCEPT ![r].at = "mark", ![r].seen = order[o].provisioning]
    <3>1. order[o].provisioning \in Provisioning
      BY <1>3 DEF PayInv, PaidInv, DataTypeOK, OrderType
    <3>2. Advances(r, "mark") BY <1>1, <2>3, <3>1 DEF Advances, RequestsOK, Places
    <3>3. o \in charged \cup override \cup trusted /\ o \in booked
      BY <1>3, <2>1 DEF MayPay, HasBooked, Past, o
    <3> QED BY <1>1, <1>2, <2>1, <3>2, <3>3, KeepsTrust, GoingOn DEF Places, o, KeepMoney
  <2> QED BY <1>12, <2>2, <2>3 DEF ReadOrder, o
<1>13. ASSUME NEW w \in Workers, MarkOrder(r, w) PROVE PayInv' /\ PaymentsGrow
  <2>1. /\ request[r].at = "mark" /\ Answers(r) /\ Dispatch(w, o)
        /\ WriteOrder(o, request[r].seen)
        /\ UNCHANGED <<record, success, registry, local, lockVars, retries, crashes>>
        /\ UNCHANGED <<invoice, booked, noted, charged, override, trusted, asked>>
    BY <1>1, <1>13, AnswerAnswers DEF MarkOrder, KeepLocks, KeepBounds, KeepMoney, o
  <2>2. order \in [Orders -> OrderType] BY DEF PayInv, PaidInv, DataTypeOK
  <2>3. [payment |-> "paid", provisioning |-> request[r].seen] \in OrderType
    BY <1>1 DEF RequestsOK, OrderType
  <2>4. /\ order' \in [Orders -> OrderType]
        /\ order'[o].payment = "paid"
        /\ \A q \in Orders \ {o} : order'[q] = order[q]
    BY <1>3, <2>1, <2>2, <2>3 DEF WriteOrder
  <2>5. PaidInv'
    BY <1>3, <2>1, <2>4, DispatchKeepsPaid DEF PayInv
  <2>6. ProvisionTypeOK'
    <3>1. \A v \in Workers : work'[v].at = "idle" <=> work'[v].order = NoOrder
      BY <1>3, <2>1, ProvisionAssumption DEF Dispatch, PayInv, PaymentTypeOK, ProvisionTypeOK
    <3>2. LockTypeOK' BY <2>1 DEF PayInv, PaymentTypeOK, ProvisionTypeOK, LockTypeOK, lockVars
    <3> QED BY <2>1, <2>5, <3>1, <3>2
            DEF PayInv, PaymentTypeOK, PaidInv, DataTypeOK, OrderType, ProvisionTypeOK
  <2>7. PaymentTypeOK'
    BY <2>1, <2>6 DEF PayInv, PaymentTypeOK, Answers, RequestsOK, Places
  <2>8. PaymentsGrow BY <2>4 DEF PaymentsGrow
  <2>9. o \in charged \cup override \cup trusted /\ o \in booked
    BY <1>3, <2>1 DEF MayPay, HasBooked, Past, o
  <2>10. PaidWasCharged' /\ PaidIsBooked'
    BY <2>1, <2>4, <2>9 DEF PayInv, PaidWasCharged, PaidIsBooked
  <2>11. PaidIsSettled' BY <2>1, <2>4, <2>8, StaysSettled DEF Answers, o
  <2>12. \A v \in Requests : (MayPay(v) /\ HasBooked(v))'
    BY <2>1, OthersKeep DEF MayPay, HasBooked, Answers
  <2> QED BY <2>5, <2>7, <2>8, <2>10, <2>11, <2>12 DEF PayInv
<1> QED BY <1>5, <1>6, <1>7, <1>8, <1>9, <1>10, <1>11, <1>12, <1>13 DEF Handle

LEMMA PayNext ==
  ASSUME PayInv, [Next]_vars
  PROVE  PayInv' /\ PaymentsGrow
<1> USE DEF KeepProvisioning
<1>1. ASSUME NEW o \in Orders, Charge(o) PROVE PayInv' /\ PaymentsGrow
  <2>1. ProvisionTypeOK' /\ PaidInv' /\ order' = order /\ crashes' = crashes
    BY <1>1, SameProvisioning DEF Charge
  <2>2. PaymentTypeOK' BY <1>1, <2>1 DEF Charge, PayInv, PaymentTypeOK
  <2>3. \A r \in Requests : (MayPay(r) /\ HasBooked(r))'
    BY <1>1 DEF Charge, PayInv, MayPay, HasBooked
  <2> QED BY <1>1, <2>1, <2>2, <2>3 DEF Charge, PayInv, PaymentsGrow,
             PaidWasCharged, PaidIsBooked, PaidIsSettled, Settling
<1>2. ASSUME NEW r \in Requests, NEW k \in Kinds, NEW o \in Orders, Arrive(r, k, o)
      PROVE  PayInv' /\ PaymentsGrow
  <2>1. ProvisionTypeOK' /\ PaidInv' /\ order' = order /\ crashes' = crashes
    BY <1>2, SameProvisioning DEF Arrive
  <2>2. RequestsOK BY RequestsTyped DEF PayInv
  <2>3. /\ request[r].at = "idle" /\ request'[r].at \in {"event", "read"}
        /\ request'[r].order = o /\ request'[r].kind = k
        /\ \A v \in Requests \ {r} : request'[v] = request[v]
    BY <1>2, <2>2 DEF Arrive, RequestsOK
  <2>4. RequestsOK' BY <1>2, <2>2 DEF Arrive, RequestsOK, Places, Provisioning
  <2>5. PaymentTypeOK'
    BY <1>2, <2>1, <2>4, PaymentAssumption
       DEF Arrive, PayInv, PaymentTypeOK, RequestsOK, Places
  <2>6. /\ override \subseteq override' /\ trusted \subseteq trusted' /\ charged' = charged
        /\ k = "admin" => o \in override'
        /\ k = "paid" => o \in charged' \cup trusted'
    BY <1>2 DEF Arrive
  <2>7. MayPay(r)' /\ HasBooked(r)'
    BY <1>2, <2>3, <2>6 DEF Arrive, MayPay, HasBooked, Past
  <2>8. \A v \in Requests : (MayPay(v) /\ HasBooked(v))'
    BY <1>2, <2>3, <2>6, <2>7, OthersKeep DEF Arrive
  <2>9. PaymentsGrow BY <2>1 DEF PaymentsGrow
  <2>10. PaidIsSettled' BY <1>2, <2>1, <2>3, <2>9, StaysSettled DEF Arrive
  <2>11. PaidWasCharged' /\ PaidIsBooked'
    BY <1>2, <2>1, <2>6 DEF Arrive, PayInv, PaidWasCharged, PaidIsBooked
  <2> QED BY <2>1, <2>5, <2>8, <2>9, <2>10, <2>11 DEF PayInv
<1>3. ASSUME NEW r \in Requests, Handle(r) PROVE PayInv' /\ PaymentsGrow
  BY <1>3, HandleKeeps
<1>4. ASSUME ProvisionStep PROVE ProvisionTypeOK' /\ PaidInv' /\ PaymentsGrow
                                 /\ (\A o \in Orders : order'[o].payment = order[o].payment)
                                 /\ (crashes' # 0 \/ crashes' = crashes)
  <2>1. crashes \in Nat
    BY ProvisionAssumption DEF PayInv, PaymentTypeOK, ProvisionTypeOK
  <2> QED BY <1>4, <2>1, StepMarksNobody, PaidNext, ProvisionTypeNext
          DEF PayInv, PaymentTypeOK, ProvisionNext, PaymentsGrow
<1>5. CASE Provision
  <2>1. ProvisionStep /\ UNCHANGED payVars BY <1>5 DEF Provision, ProvisionStep
  <2>2. PaymentTypeOK' BY <1>4, <2>1 DEF PayInv, PaymentTypeOK, payVars
  <2>3. \A r \in Requests : (MayPay(r) /\ HasBooked(r))'
    BY <2>1 DEF payVars, PayInv, MayPay, HasBooked
  <2>4. PaidWasCharged' /\ PaidIsBooked' /\ PaidIsSettled'
    BY <1>4, <2>1 DEF payVars, PayInv, PaidWasCharged, PaidIsBooked, PaidIsSettled, Settling
  <2> QED BY <1>4, <2>1, <2>2, <2>3, <2>4 DEF PayInv
<1>6. ASSUME NEW p \in Procs, CrashAll(p) PROVE PayInv' /\ PaymentsGrow
  <2>1. ProvisionStep /\ crashes' # 0
    <3>1. crashes \in Nat BY ProvisionAssumption DEF PayInv, PaymentTypeOK, ProvisionTypeOK
    <3>2. Crash(p) BY <1>6 DEF CrashAll
    <3>3. crashes' # 0 BY <3>1, <3>2 DEF Crash
    <3> QED BY <3>2, <3>3 DEF ProvisionStep
  <2>2. /\ UNCHANGED <<invoice, booked, noted, charged, override, trusted, asked>>
        /\ request' = [r \in Requests |-> IF HandlerOf[r] = p THEN Free ELSE request[r]]
    BY <1>6 DEF CrashAll
  <2>3. \A r \in Requests : request'[r].at = "idle" \/ request'[r] = request[r]
    BY <2>2 DEF Free
  <2>4. PaymentTypeOK'
    BY <1>4, <2>1, <2>2 DEF PayInv, PaymentTypeOK, Free, Kinds, Provisioning
  <2>5. \A r \in Requests : (MayPay(r) /\ HasBooked(r))'
    BY <2>2, <2>3 DEF PayInv, MayPay, HasBooked
  <2>6. PaidWasCharged' /\ PaidIsBooked' /\ PaidIsSettled'
    BY <1>4, <2>1, <2>2 DEF PayInv, PaidWasCharged, PaidIsBooked, PaidIsSettled
  <2> QED BY <1>4, <2>1, <2>4, <2>5, <2>6 DEF PayInv
<1>7. CASE UNCHANGED vars
  <2>1. ProvisionTypeOK' /\ PaidInv' /\ order' = order /\ crashes' = crashes
    BY <1>7, SameProvisioning DEF vars
  <2>2. UNCHANGED payVars BY <1>7 DEF vars
  <2>3. PaymentTypeOK' BY <2>1, <2>2 DEF PayInv, PaymentTypeOK, payVars
  <2>4. \A r \in Requests : (MayPay(r) /\ HasBooked(r))'
    BY <2>2 DEF payVars, PayInv, MayPay, HasBooked
  <2> QED BY <2>1, <2>2, <2>3, <2>4 DEF payVars, PayInv, PaymentsGrow,
             PaidWasCharged, PaidIsBooked, PaidIsSettled, Settling
<1> QED BY <1>1, <1>2, <1>3, <1>5, <1>6, <1>7 DEF Next

LEMMA PayInvariant == Spec => []PayInv
<1>1. PayInv /\ [Next]_vars => PayInv'
  BY PayNext
<1> QED BY PayInit, <1>1, PTL DEF Spec

(* Requests, invoices, transactions and money keep their types.            *)
THEOREM PaymentTypes == Spec => []PaymentTypeOK
<1>1. PayInv => PaymentTypeOK BY DEF PayInv
<1> QED BY <1>1, PayInvariant, PTL

(* An order is paid with the gateway's money, on an administrator's word   *)
(* or on trust, however many payers race, crash and are repeated.          *)
THEOREM PaidIsCharged == Spec => []PaidWasCharged
<1>1. PayInv => PaidWasCharged BY DEF PayInv
<1> QED BY <1>1, PayInvariant, PTL

(* When no payer is at work and none has died, invoices, orders and        *)
(* transactions agree.                                                     *)
THEOREM QuietAgrees == Spec => []QuietIsConsistent
<1>1. PayInv => QuietIsConsistent
  BY DEF PayInv, PaidIsBooked, PaidIsSettled, Settling, QuietIsConsistent
<1> QED BY <1>1, PayInvariant, PTL
=============================================================================
