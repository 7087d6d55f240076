------------------------- MODULE AdvisoryLockProofs -------------------------
(***************************************************************************)
(* Session-level advisory locks exclude goroutines of different processes, *)
(* for any number of processes, connections, goroutines and keys, except   *)
(* those whose lock went with a closed connection.                         *)
(***************************************************************************)
EXTENDS AdvisoryLock, FiniteSetTheorems, TLAPS

\* One more task that holds k is counted once, one fewer once.
LEMMA HoldersFinite ==
  ASSUME NEW p \in Procs, NEW k
  PROVE  IsFiniteSet(Holders(p, k))
<1>1. Holders(p, k) \subseteq Tasks BY DEF Holders
<1>. QED BY <1>1, FS_Subset, LockAssumption

\* The typing invariant: a session never counts below zero.
LEMMA LockTypeNext ==
  ASSUME LockTypeOK, [LockNext]_lockVars
  PROVE  LockTypeOK'
<1>. USE LockAssumption DEF LockTypeOK, Pool
<1>1. CASE UNCHANGED lockVars BY <1>1 DEF lockVars
<1>2. ASSUME NEW t \in Tasks, NEW k \in Keys, Acquire(t, k) PROVE LockTypeOK'
  <2>1. PICK c \in Conns : held[c][k] < MaxDepth /\ held' = [held EXCEPT ![c][k] = @ + 1]
    BY <1>2 DEF Acquire
  <2>2. held[c][k] + 1 \in 0..MaxDepth BY <2>1
  <2>3. held' \in [Conns -> [Keys -> 0..MaxDepth]] BY <2>1, <2>2
  <2>4. holds' \in [Tasks -> Keys \cup {NoKey}] /\ lost' \subseteq Procs \X Keys
    BY <1>2 DEF Acquire
  <2>. QED BY <2>3, <2>4
<1>3. ASSUME NEW t \in Tasks, NEW k \in Keys, Refuse(t, k) PROVE LockTypeOK'
  BY <1>3 DEF Refuse, lockVars
<1>4. ASSUME NEW t \in Tasks, Release(t) PROVE LockTypeOK'
  <2>1. holds[t] \in Keys BY <1>4 DEF Release
  <2>2. PICK c \in Conns :
          held' = [held EXCEPT ![c][holds[t]] = IF @ = 0 THEN 0 ELSE @ - 1]
    BY <1>4 DEF Release
  <2>3. held[c][holds[t]] \in 0..MaxDepth BY <2>1
  <2>. DEFINE n == IF held[c][holds[t]] = 0 THEN 0 ELSE held[c][holds[t]] - 1
              row == [held[c] EXCEPT ![holds[t]] = n]
  <2>4. n \in 0..MaxDepth
    <3>. DEFINE m == held[c][holds[t]]
    <3>1. m \in 0..MaxDepth BY <2>3
    <3>. HIDE DEF m
    <3>2. (IF m = 0 THEN 0 ELSE m - 1) \in 0..MaxDepth BY <3>1
    <3>. QED BY <3>2 DEF m
  <2>5. held' \in [Conns -> [Keys -> 0..MaxDepth]]
    <3>1. held' = [held EXCEPT ![c] = row] BY <2>2
    <3>. HIDE DEF n
    <3>2. row \in [Keys -> 0..MaxDepth] BY <2>1, <2>4
    <3>. HIDE DEF row
    <3>. QED BY <3>1, <3>2
  <2>6. holds' \in [Tasks -> Keys \cup {NoKey}] /\ lost' \subseteq Procs \X Keys
    BY <1>4 DEF Release, StillHeld
  <2>. QED BY <2>5, <2>6
<1>5. ASSUME NEW c \in Conns, Expire(c) PROVE LockTypeOK'
  BY <1>5 DEF Expire
<1>6. ASSUME NEW p \in Procs, LockCrash(p) PROVE LockTypeOK'
  BY <1>6 DEF LockCrash, StillHeld
<1>. QED BY <1>1, <1>2, <1>3, <1>4, <1>5, <1>6 DEF LockNext

\* No step gives a second session a lock that another has.
LEMMA OneSessionNext ==
  ASSUME LockTypeOK, OneSession, [LockNext]_lockVars
  PROVE  OneSession'
<1>. USE LockAssumption DEF LockTypeOK, Pool
<1>1. CASE UNCHANGED lockVars BY <1>1 DEF lockVars, OneSession
<1>2. ASSUME NEW t \in Tasks, NEW k \in Keys, Acquire(t, k) PROVE OneSession'
  <2>1. PICK c \in Conns : /\ Grants(c, k)
                           /\ held' = [held EXCEPT ![c][k] = @ + 1]
    BY <1>2 DEF Acquire
  <2>. SUFFICES ASSUME NEW a \in Conns, NEW b \in Conns, NEW l \in Keys,
                       held'[a][l] > 0, held'[b][l] > 0
                PROVE  a = b
    BY DEF OneSession
  <2>2. CASE l = k
    <3>1. \A d \in Conns \ {c} : held'[d][k] = 0 BY <2>1 DEF Grants
    <3>. QED BY <2>2, <3>1
  <2>3. CASE l # k
    <3>1. held'[a][l] = held[a][l] /\ held'[b][l] = held[b][l] BY <2>1, <2>3
    <3>. QED BY <3>1 DEF OneSession
  <2>. QED BY <2>2, <2>3
<1>3. ASSUME NEW t \in Tasks, NEW k \in Keys, Refuse(t, k) PROVE OneSession'
  BY <1>3 DEF Refuse, lockVars, OneSession
<1>4. ASSUME NEW t \in Tasks, Release(t) PROVE OneSession'
  <2>1. \A c \in Conns, k \in Keys : held'[c][k] > 0 => held[c][k] > 0
    BY <1>4 DEF Release
  <2>. QED BY <2>1 DEF OneSession
<1>5. ASSUME NEW c \in Conns, Expire(c) PROVE OneSession'
  BY <1>5 DEF Expire, OneSession
<1>6. ASSUME NEW p \in Procs, LockCrash(p) PROVE OneSession'
  BY <1>6 DEF LockCrash, OneSession
<1>. QED BY <1>1, <1>2, <1>3, <1>4, <1>5, <1>6 DEF LockNext

\* A holder is backed by a session of its own process.
LEMMA BackedAcquire ==
  ASSUME LockTypeOK, OneSession, Backed,
         NEW t \in Tasks, NEW k \in Keys, Acquire(t, k)
  PROVE  Backed'
<1>. USE LockAssumption DEF LockTypeOK, Pool
<1>. DEFINE me == ProcOf[t]
<1>1. PICK c \in Conns : /\ PoolOf[c] = me
                         /\ Grants(c, k)
                         /\ held' = [held EXCEPT ![c][k] = @ + 1]
  BY DEF Acquire
<1>2. holds' = [holds EXCEPT ![t] = k] /\ holds[t] = NoKey /\ lost' = lost BY DEF Acquire
<1>. SUFFICES ASSUME NEW p \in Procs, NEW l \in Keys, Holders(p, l)' # {},
                     <<p, l>> \notin lost'
              PROVE  \E d \in Conns : PoolOf[d] = p
                        /\ held'[d][l] >= Cardinality(Holders(p, l)')
  BY DEF Backed
<1>3. CASE p = me /\ l = k
  <2>1. Holders(p, l)' = Holders(p, l) \cup {t} /\ t \notin Holders(p, l)
    BY <1>2, <1>3 DEF Holders
  <2>2. Cardinality(Holders(p, l)') = Cardinality(Holders(p, l)) + 1
    BY <2>1, HoldersFinite, FS_AddElement
  <2>3. held[c][k] >= Cardinality(Holders(p, l))
    <3>1. CASE Holders(p, l) = {}
      BY <3>1, FS_EmptySet
    <3>2. CASE Holders(p, l) # {}
      <4>1. PICK d \in Conns : PoolOf[d] = p /\ held[d][k] >= Cardinality(Holders(p, l))
        BY <1>2, <1>3, <3>2 DEF Backed
      <4>2. Cardinality(Holders(p, l)) \in Nat /\ Cardinality(Holders(p, l)) # 0
        BY <3>2, HoldersFinite, FS_CardinalityType, FS_EmptySet
      <4>3. held[d][k] > 0 BY <4>1, <4>2
      <4>4. d = c BY <1>1, <4>3 DEF Grants
      <4>. QED BY <4>1, <4>4
    <3>. QED BY <3>1, <3>2
  <2>4. held'[c][l] = held[c][k] + 1 BY <1>1, <1>3
  <2>5. Cardinality(Holders(p, l)) \in Nat BY HoldersFinite, FS_CardinalityType
  <2>6. held'[c][l] >= Cardinality(Holders(p, l)') BY <2>2, <2>3, <2>4, <2>5
  <2>. QED BY <2>6, <1>1, <1>3
<1>4. CASE ~(p = me /\ l = k)
  <2>1. Holders(p, l)' = Holders(p, l) BY <1>2, <1>4 DEF Holders
  <2>2. PICK d \in Conns : PoolOf[d] = p /\ held[d][l] >= Cardinality(Holders(p, l))
    BY <1>2, <2>1 DEF Backed
  <2>3. held'[d][l] >= held[d][l] BY <1>1
  <2>4. Cardinality(Holders(p, l)) \in Nat BY HoldersFinite, FS_CardinalityType
  <2>5. held'[d][l] >= Cardinality(Holders(p, l)')
    <3>1. held[d][l] \in Nat /\ held'[d][l] \in Nat BY <1>1
    <3>. QED BY <2>1, <2>2, <2>3, <2>4, <3>1
  <2>. QED BY <2>2, <2>5
<1>. QED BY <1>3, <1>4

LEMMA BackedRelease ==
  ASSUME LockTypeOK, OneSession, Backed, NEW t \in Tasks, Release(t)
  PROVE  Backed'
<1>. USE LockAssumption DEF LockTypeOK, Pool
<1>. DEFINE k == holds[t]  me == ProcOf[t]
<1>1. PICK c \in Conns : /\ PoolOf[c] = me
                         /\ held' = [held EXCEPT ![c][k] = IF @ = 0 THEN 0 ELSE @ - 1]
  BY DEF Release
<1>2. holds' = [holds EXCEPT ![t] = NoKey] /\ k \in Keys /\ me \in Procs
  BY DEF Release
<1>. SUFFICES ASSUME NEW p \in Procs, NEW l \in Keys, Holders(p, l)' # {},
                     <<p, l>> \notin lost'
              PROVE  \E d \in Conns : PoolOf[d] = p
                        /\ held'[d][l] >= Cardinality(Holders(p, l)')
  BY DEF Backed
<1>. HIDE DEF k, me
<1>3. Holders(p, l)' \subseteq Holders(p, l) BY <1>2 DEF Holders
<1>4. PICK d \in Conns : PoolOf[d] = p /\ held[d][l] >= Cardinality(Holders(p, l))
  <2>1. <<p, l>> \notin lost BY DEF Release, StillHeld
  <2>. QED BY <1>3, <2>1 DEF Backed
<1>5. Cardinality(Holders(p, l)) \in Nat /\ held[d][l] \in Nat
  BY HoldersFinite, FS_CardinalityType
<1>6. CASE p = me /\ l = k
  <2>1. Holders(p, l)' = Holders(p, l) \ {t} /\ t \in Holders(p, l)
    BY <1>2, <1>6 DEF Holders, k, me
  <2>2. Cardinality(Holders(p, l)') = Cardinality(Holders(p, l)) - 1
    BY <2>1, HoldersFinite, FS_RemoveElement
  <2>3. held'[d][l] \in Nat /\ held'[d][l] >= held[d][l] - 1
    BY <1>1, <1>5
  <2>4. held'[d][l] >= Cardinality(Holders(p, l)') BY <1>4, <1>5, <2>2, <2>3
  <2>. QED BY <1>4, <2>4
<1>7. CASE p # me
  <2>1. Holders(p, l)' = Holders(p, l) BY <1>7, <1>2 DEF Holders, me
  <2>2. d # c BY <1>4, <1>7, <1>1
  <2>3. held'[d][l] = held[d][l] BY <1>1, <2>2
  <2>. QED BY <1>4, <2>1, <2>3
<1>8. CASE l # k
  <2>1. Holders(p, l)' = Holders(p, l) BY <1>8, <1>2 DEF Holders, k
  <2>2. held'[d][l] = held[d][l] BY <1>1, <1>8
  <2>. QED BY <1>4, <2>1, <2>2
<1>. QED BY <1>6, <1>7, <1>8

LEMMA BackedCrash ==
  ASSUME LockTypeOK, Backed, NEW q \in Procs, LockCrash(q)
  PROVE  Backed'
<1>. USE LockAssumption DEF LockTypeOK, Pool
<1>. SUFFICES ASSUME NEW p \in Procs, NEW l \in Keys, Holders(p, l)' # {},
                     <<p, l>> \notin lost'
              PROVE  \E d \in Conns : PoolOf[d] = p
                        /\ held'[d][l] >= Cardinality(Holders(p, l)')
  BY DEF Backed
<1>1. p # q BY DEF LockCrash, Holders
<1>2. Holders(p, l)' = Holders(p, l) BY <1>1 DEF LockCrash, Holders
<1>3. PICK d \in Conns : PoolOf[d] = p /\ held[d][l] >= Cardinality(Holders(p, l))
  <2>1. <<p, l>> \notin lost BY DEF LockCrash, StillHeld
  <2>. QED BY <1>2, <2>1 DEF Backed
<1>4. held'[d] = held[d] BY <1>1, <1>3 DEF LockCrash
<1>. QED BY <1>2, <1>3, <1>4

\* What a closed connection takes along is lost, and the rest stays backed.
LEMMA BackedExpire ==
  ASSUME LockTypeOK, Backed, NEW c \in Conns, Expire(c)
  PROVE  Backed'
<1>. USE LockAssumption DEF LockTypeOK, Pool
<1>. SUFFICES ASSUME NEW p \in Procs, NEW l \in Keys, Holders(p, l)' # {},
                     <<p, l>> \notin lost'
              PROVE  \E d \in Conns : PoolOf[d] = p
                        /\ held'[d][l] >= Cardinality(Holders(p, l)')
  BY DEF Backed
<1>1. Holders(p, l)' = Holders(p, l) BY DEF Expire, Holders
<1>2. <<p, l>> \notin lost BY DEF Expire
<1>3. PICK d \in Conns : PoolOf[d] = p /\ held[d][l] >= Cardinality(Holders(p, l))
  BY <1>1, <1>2 DEF Backed
<1>4. CASE d # c
  <2>1. held'[d] = held[d] BY <1>4 DEF Expire
  <2>. QED BY <1>1, <1>3, <2>1
<1>5. CASE d = c
  <2>1. Cardinality(Holders(p, l)) \in Nat /\ Cardinality(Holders(p, l)) # 0
    BY <1>1, HoldersFinite, FS_CardinalityType, FS_EmptySet
  <2>2. held[c][l] \in Nat BY DEF LockTypeOK
  <2>3. held[c][l] > 0 BY <1>3, <1>5, <2>1, <2>2
  <2>4. <<p, l>> \in {PoolOf[c]} \X Keys BY <1>3, <1>5
  <2>5. <<p, l>> \in lost' BY <1>1, <2>3, <2>4 DEF Expire
  <2>. QED BY <2>5
<1>. QED BY <1>4, <1>5

\* A lock is lost only until nobody of the process works under it.
LEMMA LostNext ==
  ASSUME LockTypeOK, LostIsHeld, [LockNext]_lockVars
  PROVE  LostIsHeld'
<1>. USE LockAssumption DEF LockTypeOK
<1>1. CASE UNCHANGED lockVars BY <1>1 DEF lockVars, LostIsHeld, Holders
<1>2. ASSUME NEW t \in Tasks, NEW k \in Keys, Acquire(t, k) PROVE LostIsHeld'
  <2>1. \A p \in Procs, l \in Keys : Holders(p, l) \subseteq Holders(p, l)'
    BY <1>2 DEF Acquire, Holders
  <2>2. \A x \in lost : x[1] \in Procs /\ x[2] \in Keys OBVIOUS
  <2>3. lost' = lost BY <1>2 DEF Acquire
  <2>. SUFFICES ASSUME NEW x \in lost PROVE Holders(x[1], x[2])' # {}
    BY <2>3 DEF LostIsHeld
  <2>4. Holders(x[1], x[2]) # {} BY DEF LostIsHeld
  <2>. QED BY <2>1, <2>2, <2>4
<1>3. ASSUME NEW t \in Tasks, NEW k \in Keys, Refuse(t, k) PROVE LostIsHeld'
  BY <1>1, <1>3 DEF Refuse
<1>4. ASSUME lost' = StillHeld(lost) PROVE LostIsHeld'
  BY <1>4 DEF StillHeld, LostIsHeld
<1>5. ASSUME NEW t \in Tasks, Release(t) PROVE LostIsHeld'
  BY <1>4, <1>5 DEF Release
<1>6. ASSUME NEW c \in Conns, Expire(c) PROVE LostIsHeld'
  <2>1. \A p, l : Holders(p, l)' = Holders(p, l) BY <1>6 DEF Expire, Holders
  <2>. SUFFICES ASSUME NEW x \in lost' PROVE Holders(x[1], x[2]) # {}
    BY <2>1 DEF LostIsHeld
  <2>2. CASE x \in lost BY <2>2 DEF LostIsHeld
  <2>3. CASE x \notin lost BY <1>6, <2>3 DEF Expire
  <2>. QED BY <2>2, <2>3
<1>7. ASSUME NEW p \in Procs, LockCrash(p) PROVE LostIsHeld'
  BY <1>4, <1>7 DEF LockCrash
<1>. QED BY <1>1, <1>2, <1>3, <1>5, <1>6, <1>7 DEF LockNext

LEMMA LockStart == LockInit => LockInv
<1>. SUFFICES ASSUME LockInit PROVE LockInv OBVIOUS
<1>1. LockTypeOK BY LockAssumption DEF LockInit, LockTypeOK
<1>2. OneSession BY DEF LockInit, OneSession
<1>3. \A p, k : k \in Keys => Holders(p, k) = {}
  BY LockAssumption DEF LockInit, Holders
<1>4. Backed BY <1>3 DEF Backed
<1>5. LostIsHeld BY DEF LockInit, LostIsHeld
<1>. QED BY <1>1, <1>2, <1>4, <1>5 DEF LockInv

LEMMA LockStep ==
  ASSUME LockInv, [LockNext]_lockVars
  PROVE  LockInv'
<1>. USE DEF LockInv
<1>1. LockTypeOK' BY LockTypeNext
<1>2. OneSession' BY OneSessionNext
<1>3. UNCHANGED lockVars => Backed'
  BY DEF lockVars, Backed, Holders
<1>4. ASSUME NEW t \in Tasks, NEW k \in Keys, Acquire(t, k) PROVE Backed'
  BY <1>4, BackedAcquire
<1>5. ASSUME NEW t \in Tasks, NEW k \in Keys, Refuse(t, k) PROVE Backed'
  BY <1>5, <1>3 DEF Refuse
<1>6. ASSUME NEW t \in Tasks, Release(t) PROVE Backed'
  BY <1>6, BackedRelease
<1>7. ASSUME NEW c \in Conns, Expire(c) PROVE Backed'
  BY <1>7, BackedExpire
<1>8. ASSUME NEW p \in Procs, LockCrash(p) PROVE Backed'
  BY <1>8, BackedCrash
<1>9. Backed' BY <1>3, <1>4, <1>5, <1>6, <1>7, <1>8 DEF LockNext
<1>10. LostIsHeld' BY LostNext
<1>. QED BY <1>1, <1>2, <1>9, <1>10

LEMMA LockInvExcludes == LockInv => CrossProcessExclusion
<1>. SUFFICES ASSUME LockInv, NEW t \in Tasks, NEW u \in Tasks,
                     holds[t] # NoKey, holds[t] = holds[u],
                     <<ProcOf[t], holds[t]>> \notin lost, <<ProcOf[u], holds[u]>> \notin lost
              PROVE  ProcOf[t] = ProcOf[u]
  BY DEF CrossProcessExclusion
<1>. DEFINE k == holds[t]
<1>1. k \in Keys /\ ProcOf[t] \in Procs /\ ProcOf[u] \in Procs
  BY LockAssumption DEF LockInv, LockTypeOK
<1>2. t \in Holders(ProcOf[t], k) /\ u \in Holders(ProcOf[u], k)
  BY DEF Holders
<1>3. \A p \in Procs : Holders(p, k) # {} /\ <<p, k>> \notin lost =>
         \E c \in Conns : PoolOf[c] = p /\ held[c][k] > 0
  <2>. SUFFICES ASSUME NEW p \in Procs, Holders(p, k) # {}, <<p, k>> \notin lost
                PROVE  \E c \in Conns : PoolOf[c] = p /\ held[c][k] > 0
    OBVIOUS
  <2>1. PICK c \in Conns : PoolOf[c] = p /\ held[c][k] >= Cardinality(Holders(p, k))
    BY <1>1 DEF LockInv, Backed, Pool
  <2>2. Cardinality(Holders(p, k)) \in Nat /\ Cardinality(Holders(p, k)) # 0
    BY HoldersFinite, FS_CardinalityType, FS_EmptySet
  <2>3. held[c][k] \in Nat BY <1>1 DEF LockInv, LockTypeOK
  <2>. QED BY <2>1, <2>2, <2>3
<1>4. PICK c \in Conns : PoolOf[c] = ProcOf[t] /\ held[c][k] > 0
  BY <1>1, <1>2, <1>3
<1>5. PICK d \in Conns : PoolOf[d] = ProcOf[u] /\ held[d][k] > 0
  BY <1>1, <1>2, <1>3
<1>6. c = d BY <1>1, <1>4, <1>5 DEF LockInv, OneSession
<1>. QED BY <1>4, <1>5, <1>6

(* The lock's inductive invariant: a lock is with one session, and a       *)
(* process whose goroutines work under a lock has it in one of its         *)
(* sessions unless a closed connection took it.                            *)
THEOREM LockInvariant == LockSpec => []LockInv
<1>. QED BY LockStart, LockStep, PTL DEF LockSpec

(* Goroutines of different processes hold one key together only when one   *)
(* of the processes lost it with a closed connection.                      *)
THEOREM CrossProcess == LockSpec => []CrossProcessExclusion
<1>. QED BY LockInvariant, LockInvExcludes, PTL
=============================================================================
