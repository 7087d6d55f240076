--------------------------- MODULE DatabaseProofs ---------------------------
(***************************************************************************)
(* Proofs about the hosted databases, for any number of processes, users,  *)
(* organizations, requests and names: the user's lock is exact, and how    *)
(* far an organization can pass its plan's limit.                          *)
(***************************************************************************)
EXTENDS HostedDatabases, FiniteSetTheorems, TLAPS

\* The databases of an organization that count against its limit.
Counted(o) == Live(o) \ back

\* The locks of an organization whose holder has passed the quota check and
\* has not created its row yet.
Passed(o) ==
  {l \in Creators(o) : mutex[l] # NoRequest /\ At(mutex[l], "insert")}

\* The limit holds for the rows there are and those that are under way.
Booked(o) == Cardinality(Counted(o)) + Cardinality(Passed(o))
Bounded(o) == Booked(o) < Limit[o] + Cardinality(Creators(o))

DatabaseInv == DatabaseTypeOK /\ MutexIsExact /\ \A o \in Orgs : Bounded(o)

LEMMA StepNames == Inside \subseteq Steps /\ "idle" \notin Inside
BY DEF Inside, Steps

-----------------------------------------------------------------------------
RequestType ==
  /\ request \in [Requests -> [step : Steps, name : Names \cup {NoName}]]
  /\ \A r \in Requests : request[r].step = "idle" <=> request[r].name = NoName

\* A request that goes on keeps its name.
LEMMA GotoType ==
  ASSUME RequestType, NEW r \in Requests, ~At(r, "idle"),
         NEW s \in Steps \ {"idle"}, Goto(r, s)
  PROVE  RequestType'
BY DEF RequestType, At, Goto

LEMMA BeginType ==
  ASSUME RequestType, NEW r \in Requests, NEW n \in Names,
         NEW s \in Steps \ {"idle"}, Begin(r, s, n)
  PROVE  RequestType'
BY DatabaseAssumption DEF RequestType, Begin

LEMMA AnswerType ==
  ASSUME RequestType, NEW r \in Requests, Answer(r)
  PROVE  RequestType'
BY DEF RequestType, Answer, Steps

MutexType == mutex \in [Procs \X Users -> Requests \cup {NoRequest}]

RowsType ==
  /\ owner \in [Names -> Orgs \cup {NoOrg}]
  /\ deleted \subseteq Names /\ bin \subseteq Names /\ server \subseteq Names
  /\ intact \subseteq Names /\ back \subseteq Names

LEMMA RequestTypeNext ==
  ASSUME RequestType, [Next]_vars
  PROVE  RequestType'
<1>. USE GotoType, BeginType, AnswerType DEF Steps
<1>1. CASE UNCHANGED vars BY <1>1 DEF vars, RequestType
<1>2. ASSUME NEW r \in Requests, NEW n \in Names, Create(r, n) PROVE RequestType'
  BY <1>2 DEF Create
<1>3. ASSUME NEW r \in Requests, Handle(r) PROVE RequestType'
  <2>1. ASSUME NEW a \in Steps \ {"idle"}, At(r, a) PROVE ~At(r, "idle")
    BY <2>1 DEF At
  <2>2. CASE LockUser(r) BY <2>1, <2>2 DEF LockUser
  <2>3. CASE CheckQuota(r) BY <2>1, <2>3 DEF CheckQuota, Leave
  <2>4. CASE Insert(r) BY <2>1, <2>4 DEF Insert, Leave
  <2>5. CASE Provision(r) BY <2>5 DEF Provision, Leave
  <2>6. CASE Drop(r) BY <2>1, <2>6 DEF Drop
  <2>7. CASE DeleteRow(r) BY <2>7 DEF DeleteRow
  <2>8. CASE RestoreRow(r) BY <2>8 DEF RestoreRow
  <2>9. CASE DeleteRowFails(r) \/ RestoreRowFails(r)
    BY <2>9 DEF DeleteRowFails, RestoreRowFails
  <2>. QED BY <1>3, <2>2, <2>3, <2>4, <2>5, <2>6, <2>7, <2>8, <2>9 DEF Handle
<1>4. ASSUME NEW r \in Requests, NEW n \in Names, NEW keep \in BOOLEAN,
             Delete(r, n, keep)
      PROVE  RequestType'
  BY <1>4 DEF Delete
<1>5. ASSUME NEW r \in Requests, NEW n \in Names, Restore(r, n) PROVE RequestType'
  BY <1>5 DEF Restore
<1>. QED BY <1>1, <1>2, <1>3, <1>4, <1>5 DEF Next

LEMMA MutexTypeNext ==
  ASSUME MutexType, [Next]_vars
  PROVE  MutexType'
<1>1. \/ UNCHANGED mutex
      \/ \E r \in Requests : mutex' = [mutex EXCEPT ![LockOf(r)] = r]
      \/ \E r \in Requests : mutex' = [mutex EXCEPT ![LockOf(r)] = NoRequest]
  BY DEF Next, vars, Handle, Create, LockUser, CheckQuota, Insert, Provision, Drop,
         DeleteRow, DeleteRowFails, RestoreRow, RestoreRowFails, Delete, Restore, Leave
<1>. QED BY <1>1 DEF MutexType

LEMMA RowsTypeNext ==
  ASSUME RowsType, RequestType, [Next]_vars
  PROVE  RowsType'
<1>. USE DEF rows, KeepServer, KeepHistory, RowsType
<1>1. CASE UNCHANGED vars BY <1>1 DEF vars
<1>2. ASSUME NEW r \in Requests, NEW n \in Names, Create(r, n) PROVE RowsType'
  BY <1>2 DEF Create
<1>3. ASSUME NEW r \in Requests, Handle(r) PROVE RowsType'
  <2>1. ~At(r, "idle") => Name(r) \in Names
    BY DEF RequestType, At, Name
  <2>2. ASSUME NEW a \in {"insert", "provision", "drop", "delete", "recycle", "restore"}, At(r, a)
        PROVE  Name(r) \in Names
    BY <2>1, <2>2 DEF At
  <2>3. CASE LockUser(r) BY <2>3 DEF LockUser
  <2>4. CASE CheckQuota(r) BY <2>4 DEF CheckQuota
  <2>5. CASE Insert(r)
    <3>1. OrgOfReq(r) \in Orgs BY DatabaseAssumption DEF OrgOfReq
    <3>. QED BY <2>5, <3>1 DEF Insert
  <2>6. CASE Provision(r) BY <2>2, <2>6 DEF Provision
  <2>7. CASE Drop(r) BY <2>7 DEF Drop
  <2>8. CASE DeleteRow(r) BY <2>2, <2>8 DEF DeleteRow
  <2>9. CASE RestoreRow(r) BY <2>2, <2>9 DEF RestoreRow
  <2>10. CASE DeleteRowFails(r) \/ RestoreRowFails(r)
    BY <2>10 DEF DeleteRowFails, RestoreRowFails
  <2>. QED BY <1>3, <2>3, <2>4, <2>5, <2>6, <2>7, <2>8, <2>9, <2>10 DEF Handle
<1>4. ASSUME NEW r \in Requests, NEW n \in Names, NEW keep \in BOOLEAN,
             Delete(r, n, keep)
      PROVE  RowsType'
  BY <1>4 DEF Delete
<1>5. ASSUME NEW r \in Requests, NEW n \in Names, Restore(r, n) PROVE RowsType'
  BY <1>5 DEF Restore
<1>. QED BY <1>1, <1>2, <1>3, <1>4, <1>5 DEF Next

LEMMA DatabaseTypeNext ==
  ASSUME DatabaseTypeOK, [Next]_vars
  PROVE  DatabaseTypeOK'
<1>1. RequestType /\ MutexType /\ RowsType
  BY DEF DatabaseTypeOK, RequestType, MutexType, RowsType
<1>2. RequestType' /\ MutexType' /\ RowsType'
  BY <1>1, RequestTypeNext, MutexTypeNext, RowsTypeNext
<1>. QED BY <1>2 DEF DatabaseTypeOK, RequestType, MutexType, RowsType

-----------------------------------------------------------------------------
(* What one step does to the lock and to the place of its request.         *)
Outside(r) == request[r].step \notin Inside

\* A request moves outside Create's critical section.
Roams(r) ==
  /\ UNCHANGED mutex
  /\ Outside(r)
  /\ \E s \in [step : Steps \ Inside, name : Names \cup {NoName}] :
       request' = [request EXCEPT ![r] = s]

\* It goes from step a to step b inside.
Proceeds(r, a, b) ==
  UNCHANGED mutex /\ At(r, a) /\ a \in Inside /\ Goto(r, b) /\ b \in Inside

Enters(r) ==
  /\ Outside(r) /\ mutex[LockOf(r)] = NoRequest
  /\ mutex' = [mutex EXCEPT ![LockOf(r)] = r]
  /\ Goto(r, "check")

Leaves(r) == ~Outside(r) /\ Leave(r)

LEMMA MutexNext ==
  ASSUME DatabaseTypeOK, MutexIsExact, NEW r \in Requests,
         \/ Roams(r) \/ Enters(r) \/ Leaves(r)
         \/ \E a, b \in Steps : Proceeds(r, a, b)
  PROVE  MutexIsExact'
<1>. USE DatabaseAssumption, StepNames DEF DatabaseTypeOK, MutexIsExact, LockOf, At
<1>1. CASE Roams(r) BY <1>1 DEF Roams, Outside
<1>2. CASE Enters(r) BY <1>2 DEF Enters, Outside, Goto, Inside
<1>3. CASE Leaves(r) BY <1>3 DEF Leaves, Outside, Leave, Answer
<1>4. CASE \E a, b \in Steps : Proceeds(r, a, b)
  BY <1>4 DEF Proceeds, Goto
<1>. QED BY <1>1, <1>2, <1>3, <1>4

-----------------------------------------------------------------------------
LEMMA SetsFinite ==
  ASSUME NEW o \in Orgs
  PROVE  /\ IsFiniteSet(Creators(o)) /\ Cardinality(Creators(o)) \in Nat
         /\ Limit[o] \in Nat
<1>1. IsFiniteSet(Procs \X Users) BY DatabaseAssumption, FS_Product
<1>2. Creators(o) \subseteq Procs \X Users BY DEF Creators
<1>3. IsFiniteSet(Creators(o)) BY <1>1, <1>2, FS_Subset
<1>. QED BY <1>3, FS_CardinalityType, DatabaseAssumption

LEMMA BookedFinite ==
  ASSUME NEW o \in Orgs
  PROVE  /\ IsFiniteSet(Live(o)) /\ Cardinality(Live(o)) \in Nat
         /\ IsFiniteSet(Counted(o)) /\ Cardinality(Counted(o)) \in Nat
         /\ IsFiniteSet(Passed(o)) /\ Cardinality(Passed(o)) \in Nat
<1>1. IsFiniteSet(Live(o)) BY DatabaseAssumption, FS_Subset DEF Live
<1>2. IsFiniteSet(Counted(o)) BY <1>1, FS_Subset DEF Counted
<1>3. IsFiniteSet(Passed(o)) BY SetsFinite, FS_Subset DEF Passed
<1>. QED BY <1>1, <1>2, <1>3, FS_CardinalityType

\* Fewer rows and fewer passed requests keep the bound.
LEMMA Shrinking ==
  ASSUME NEW o \in Orgs, Bounded(o),
         Counted(o)' \subseteq Counted(o), Passed(o)' \subseteq Passed(o)
  PROVE  Bounded(o)'
<1>1. Cardinality(Counted(o)') \in Nat /\ Cardinality(Counted(o)') <= Cardinality(Counted(o))
  BY BookedFinite, FS_Subset, FS_CardinalityType
<1>2. Cardinality(Passed(o)') \in Nat /\ Cardinality(Passed(o)') <= Cardinality(Passed(o))
  BY BookedFinite, FS_Subset, FS_CardinalityType
<1>. QED BY <1>1, <1>2, BookedFinite, SetsFinite DEF Bounded, Booked, Creators

-----------------------------------------------------------------------------
(* What one step does to the rows that count.                              *)

LEMMA RowsShrink ==
  ASSUME NEW o \in Orgs, deleted \subseteq deleted', back \subseteq back',
         UNCHANGED owner
  PROVE  Counted(o)' \subseteq Counted(o)
BY DEF Counted, Live

LEMMA RestoreShrinks ==
  ASSUME NEW o \in Orgs, NEW r \in Requests, RestoreRow(r)
  PROVE  Counted(o)' \subseteq Counted(o)
BY DEF RestoreRow, Counted, Live

\* Passed is the same when a request roams, enters or goes on elsewhere.
LEMMA PassedRoams ==
  ASSUME DatabaseTypeOK, MutexIsExact, NEW o \in Orgs, NEW r \in Requests,
         Roams(r) \/ Enters(r) \/ Leaves(r) \/ Proceeds(r, "insert", "provision")
  PROVE  Passed(o)' \subseteq Passed(o)
<1>. USE DatabaseAssumption, StepNames
     DEF DatabaseTypeOK, MutexIsExact, LockOf, Passed, Creators, At
<1>1. CASE Roams(r) BY <1>1 DEF Roams, Inside
<1>2. CASE Enters(r) BY <1>2 DEF Enters, Goto
<1>3. CASE Leaves(r) BY <1>3 DEF Leaves, Leave, Answer
<1>4. CASE Proceeds(r, "insert", "provision") BY <1>4 DEF Proceeds, Goto
<1>. QED BY <1>1, <1>2, <1>3, <1>4

-----------------------------------------------------------------------------
(* The two steps that raise a number: the check books a row, and the       *)
(* insertion turns the booking into the row.                               *)

LEMMA GotoLeaves ==
  ASSUME DatabaseTypeOK, NEW r \in Requests, Goto(r, "insert"), UNCHANGED mutex
  PROVE  ~Leave(r)
<1>1. Goto(r, "insert") => request'[r].step = "insert" BY DEF Goto, DatabaseTypeOK
<1>2. Answer(r) => request'[r].step = "idle" BY DEF Answer, DatabaseTypeOK
<1>. QED BY <1>1, <1>2 DEF Leave

LEMMA CheckKeeps ==
  ASSUME DatabaseTypeOK, MutexIsExact, NEW o \in Orgs, Bounded(o),
         NEW r \in Requests, CheckQuota(r), Goto(r, "insert"), UNCHANGED mutex
  PROVE  Bounded(o)'
<1>1. Counted(o)' = Counted(o) BY DEF CheckQuota, rows, Counted, Live
<1>2. CASE OrgOfReq(r) = o
  <2>1. Cardinality(Live(o)) < Limit[o]
    BY <1>2, GotoLeaves DEF CheckQuota
  <2>2. Cardinality(Counted(o)) <= Cardinality(Live(o))
    BY BookedFinite, FS_Subset DEF Counted
  <2>3. Passed(o)' \subseteq Creators(o) BY DEF Passed, Creators
  <2>4. Cardinality(Passed(o)') \in Nat
        /\ Cardinality(Passed(o)') <= Cardinality(Creators(o))
    BY <2>3, SetsFinite, FS_Subset, FS_CardinalityType
  <2>. QED BY <1>1, <2>1, <2>2, <2>4, BookedFinite, SetsFinite
           DEF Bounded, Booked, Creators
<1>3. CASE OrgOfReq(r) # o
  <2>1. Passed(o)' \subseteq Passed(o)
    BY <1>3, DatabaseAssumption
       DEF Passed, Creators, DatabaseTypeOK, MutexIsExact, LockOf, At, Goto, OrgOfReq
  <2>. QED BY <1>1, <2>1, Shrinking DEF Bounded
<1>. QED BY <1>2, <1>3

LEMMA InsertKeeps ==
  ASSUME DatabaseTypeOK, MutexIsExact, NEW o \in Orgs, Bounded(o),
         NEW r \in Requests, Insert(r), Goto(r, "provision"),
         owner' = [owner EXCEPT ![Name(r)] = OrgOfReq(r)], UNCHANGED mutex,
         owner[Name(r)] = NoOrg
  PROVE  Bounded(o)'
<1>. DEFINE l == LockOf(r)
<1>1. Name(r) \in Names /\ At(r, "insert")
  BY DEF DatabaseTypeOK, Name, Insert, At
<1>2. Passed(o)' \subseteq Passed(o) \ {l}
  <2>1. request'[r].step = "provision" BY DEF DatabaseTypeOK, Goto
  <2>2. mutex[l] = r
    BY <1>1, DatabaseAssumption DEF MutexIsExact, LockOf, At, Inside
  <2>3. \A q \in Requests \ {r} : request'[q] = request[q]
    BY DEF DatabaseTypeOK, Goto
  <2>. QED BY <2>1, <2>2, <2>3 DEF Passed, Creators, DatabaseTypeOK, At
<1>3. CASE OrgOfReq(r) = o
  <2>1. l \in Passed(o)
    BY <1>1, <1>3, DatabaseAssumption
       DEF Passed, Creators, MutexIsExact, LockOf, At, OrgOfReq, Inside
  <2>2. Cardinality(Passed(o) \ {l}) = Cardinality(Passed(o)) - 1
        /\ IsFiniteSet(Passed(o) \ {l})
    BY <2>1, BookedFinite, FS_RemoveElement
  <2>3. Cardinality(Passed(o)') \in Nat
        /\ Cardinality(Passed(o)') <= Cardinality(Passed(o)) - 1
    BY <1>2, <2>2, FS_Subset, FS_CardinalityType
  <2>4. Counted(o)' \subseteq Counted(o) \cup {Name(r)}
    BY <1>1 DEF Counted, Live, Insert, DatabaseTypeOK
  <2>5. IsFiniteSet(Counted(o) \cup {Name(r)})
        /\ Cardinality(Counted(o) \cup {Name(r)}) <= Cardinality(Counted(o)) + 1
    <3>1. IsFiniteSet(Counted(o)) /\ Cardinality(Counted(o)) \in Nat
      BY BookedFinite
    <3>2. /\ IsFiniteSet(Counted(o) \cup {Name(r)})
          /\ \/ Cardinality(Counted(o) \cup {Name(r)}) = Cardinality(Counted(o))
             \/ Cardinality(Counted(o) \cup {Name(r)}) = Cardinality(Counted(o)) + 1
      BY <3>1, FS_AddElement
    <3>. QED BY <3>1, <3>2
  <2>6. Cardinality(Counted(o)') \in Nat
        /\ Cardinality(Counted(o)') <= Cardinality(Counted(o)) + 1
    <3>1. Cardinality(Counted(o)') <= Cardinality(Counted(o) \cup {Name(r)})
          /\ Cardinality(Counted(o) \cup {Name(r)}) \in Nat
          /\ Cardinality(Counted(o)') \in Nat
      BY <2>4, <2>5, FS_Subset, FS_CardinalityType
    <3>. QED BY <2>5, <3>1, BookedFinite
  <2>. QED BY <2>3, <2>6, BookedFinite, SetsFinite DEF Bounded, Booked, Creators
<1>4. CASE OrgOfReq(r) # o
  <2>1. Counted(o)' \subseteq Counted(o)
    BY <1>1, <1>4 DEF Counted, Live, Insert, DatabaseTypeOK
  <2>. QED BY <1>2, <2>1, Shrinking DEF Bounded
<1>. QED BY <1>3, <1>4

-----------------------------------------------------------------------------
(* The inductive step: the mutex first, then the bound.                    *)

LEMMA BeginRoams ==
  ASSUME DatabaseTypeOK, NEW r \in Requests, NEW n \in Names,
         NEW s \in Steps \ Inside, Begin(r, s, n), UNCHANGED mutex
  PROVE  Roams(r)
BY StepNames DEF Roams, Outside, Begin, At

LEMMA AnswerRoams ==
  ASSUME DatabaseTypeOK, NEW r \in Requests, Outside(r), Answer(r), UNCHANGED mutex
  PROVE  Roams(r)
<1>1. [step |-> "idle", name |-> NoName] \in
        [step : Steps \ Inside, name : Names \cup {NoName}]
  BY DEF Steps, Inside
<1>. QED BY <1>1 DEF Roams, Answer

LEMMA DropRoams ==
  ASSUME DatabaseTypeOK, NEW r \in Requests, Drop(r)
  PROVE  Roams(r)
<1>1. RequestType' BY GotoType DEF Drop, DatabaseTypeOK, RequestType, At, Steps
<1>2. request'[r].step = "delete" BY DEF Drop, Goto, DatabaseTypeOK
<1>3. request' = [request EXCEPT ![r] = request'[r]]
  BY DEF Drop, Goto, DatabaseTypeOK
<1>4. request'[r] \in [step : Steps \ Inside, name : Names \cup {NoName}]
  BY <1>1, <1>2 DEF RequestType, Inside
<1>. QED BY <1>3, <1>4 DEF Drop, Roams, Outside, At, Inside

\* A request that leaves does not go on.
LEMMA InsertGoes ==
  ASSUME DatabaseTypeOK, NEW r \in Requests, Leave(r)
  PROVE  ~Goto(r, "provision")
<1>1. Goto(r, "provision") => request'[r].step = "provision" BY DEF Goto, DatabaseTypeOK
<1>2. request'[r].step = "idle" BY DEF Leave, Answer, DatabaseTypeOK
<1>. QED BY <1>1, <1>2

LEMMA StepKeeps ==
  ASSUME DatabaseInv, [Next]_vars
  PROVE  MutexIsExact' /\ \A o \in Orgs : Bounded(o)'
<1>. USE DEF DatabaseInv
<1>1. ASSUME UNCHANGED vars PROVE MutexIsExact' /\ \A o \in Orgs : Bounded(o)'
  BY <1>1 DEF vars, rows, MutexIsExact, Bounded, Booked, Counted, Live, Passed,
              Creators, At
<1>2. ASSUME NEW r \in Requests,
             Roams(r) \/ Enters(r) \/ Leaves(r) \/ Proceeds(r, "insert", "provision"),
             \A o \in Orgs : Counted(o)' \subseteq Counted(o)
      PROVE  MutexIsExact' /\ \A o \in Orgs : Bounded(o)'
  <2>1. MutexIsExact' BY <1>2, MutexNext DEF Steps
  <2>2. \A o \in Orgs : Passed(o)' \subseteq Passed(o) BY <1>2, PassedRoams
  <2>. QED BY <1>2, <2>1, <2>2, Shrinking
<1>3. UNCHANGED <<rows, back>> => \A o \in Orgs : Counted(o)' \subseteq Counted(o)
  BY DEF rows, Counted, Live
<1>4. ASSUME NEW r \in Requests, NEW n \in Names, Create(r, n)
      PROVE  MutexIsExact' /\ \A o \in Orgs : Bounded(o)'
  BY <1>2, <1>3, <1>4, BeginRoams DEF Create, Steps, Inside
<1>5. ASSUME NEW r \in Requests, NEW n \in Names, NEW keep \in BOOLEAN,
             Delete(r, n, keep)
      PROVE  MutexIsExact' /\ \A o \in Orgs : Bounded(o)'
  BY <1>2, <1>3, <1>5, BeginRoams DEF Delete, Steps, Inside
<1>6. ASSUME NEW r \in Requests, NEW n \in Names, Restore(r, n)
      PROVE  MutexIsExact' /\ \A o \in Orgs : Bounded(o)'
  BY <1>2, <1>3, <1>6, BeginRoams DEF Restore, Steps, Inside
<1>7. ASSUME NEW r \in Requests, LockUser(r)
      PROVE  MutexIsExact' /\ \A o \in Orgs : Bounded(o)'
  <2>1. Enters(r) BY <1>7 DEF LockUser, Enters, Outside, Inside, At
  <2>. QED BY <1>2, <1>3, <1>7, <2>1 DEF LockUser
<1>8. ASSUME NEW r \in Requests, CheckQuota(r)
      PROVE  MutexIsExact' /\ \A o \in Orgs : Bounded(o)'
  <2>1. CASE Leave(r)
    <3>1. Leaves(r) BY <1>8, <2>1 DEF CheckQuota, Leaves, Outside, Inside, At
    <3>. QED BY <1>2, <1>3, <1>8, <3>1 DEF CheckQuota
  <2>2. CASE Goto(r, "insert") /\ UNCHANGED mutex
    <3>1. Proceeds(r, "check", "insert")
      BY <1>8, <2>2 DEF CheckQuota, Proceeds, Inside
    <3>2. MutexIsExact' BY <3>1, MutexNext DEF Steps
    <3>. QED BY <1>8, <2>2, <3>2, CheckKeeps
  <2>. QED BY <1>8, <2>1, <2>2 DEF CheckQuota
<1>9. ASSUME NEW r \in Requests, Insert(r)
      PROVE  MutexIsExact' /\ \A o \in Orgs : Bounded(o)'
  <2>1. CASE ~Leave(r)
    <3>0. owner[Name(r)] = NoOrg
      BY <1>9, <2>1 DEF Insert
    <3>1. /\ Proceeds(r, "insert", "provision")
          /\ owner' = [owner EXCEPT ![Name(r)] = OrgOfReq(r)]
      BY <1>9, <2>1 DEF Insert, Proceeds, Inside
    <3>2. MutexIsExact' BY <3>1, MutexNext DEF Steps
    <3>. QED BY <1>9, <2>1, <3>0, <3>1, <3>2, InsertKeeps DEF Proceeds
  <2>2. CASE Leave(r)
    <3>1. Leaves(r) BY <1>9, <2>2 DEF Insert, Leaves, Outside, Inside, At
    <3>2. UNCHANGED owner
      BY <1>9, <2>2, InsertGoes DEF Insert
    <3>. QED BY <1>2, <1>3, <1>9, <3>1, <3>2 DEF Insert, rows
  <2>. QED BY <2>1, <2>2
<1>10. ASSUME NEW r \in Requests, Provision(r)
       PROVE  MutexIsExact' /\ \A o \in Orgs : Bounded(o)'
  <2>1. Leaves(r) BY <1>10 DEF Provision, Leaves, Outside, Inside, At
  <2>. QED BY <1>2, <1>3, <1>10, <2>1 DEF Provision
<1>11. ASSUME NEW r \in Requests, Drop(r)
       PROVE  MutexIsExact' /\ \A o \in Orgs : Bounded(o)'
  BY <1>2, <1>3, <1>11, DropRoams DEF Drop, KeepHistory
<1>12. ASSUME NEW r \in Requests, DeleteRow(r)
       PROVE  MutexIsExact' /\ \A o \in Orgs : Bounded(o)'
  <2>1. Roams(r) BY <1>12, AnswerRoams DEF DeleteRow, Outside, Inside, At
  <2>2. \A o \in Orgs : Counted(o)' \subseteq Counted(o)
    BY <1>12, RowsShrink DEF DeleteRow
  <2>. QED BY <1>2, <2>1, <2>2
<1>13. ASSUME NEW r \in Requests, RestoreRow(r)
       PROVE  MutexIsExact' /\ \A o \in Orgs : Bounded(o)'
  <2>1. Roams(r) BY <1>13, AnswerRoams DEF RestoreRow, Outside, Inside, At
  <2>. QED BY <1>2, <1>13, <2>1, RestoreShrinks
<1>14. ASSUME NEW r \in Requests, DeleteRowFails(r) \/ RestoreRowFails(r)
       PROVE  MutexIsExact' /\ \A o \in Orgs : Bounded(o)'
  <2>1. Roams(r)
    BY <1>14, AnswerRoams DEF DeleteRowFails, RestoreRowFails, Outside, Inside, At
  <2>. QED BY <1>2, <1>3, <1>14, <2>1 DEF DeleteRowFails, RestoreRowFails
<1>. QED BY <1>1, <1>4, <1>5, <1>6, <1>7, <1>8, <1>9, <1>10, <1>11, <1>12, <1>13, <1>14
         DEF Next, Handle

LEMMA DatabaseStart ==
  ASSUME Init
  PROVE  DatabaseInv
<1>1. DatabaseTypeOK
  <2>1. RequestType BY DEF Init, RequestType, Steps
  <2>2. MutexType BY DEF Init, MutexType
  <2>3. RowsType BY DEF Init, RowsType
  <2>. QED BY <2>1, <2>2, <2>3 DEF DatabaseTypeOK, RequestType, MutexType, RowsType
<1>2. MutexIsExact BY DatabaseAssumption DEF Init, MutexIsExact, Inside
<1>3. ASSUME NEW o \in Orgs PROVE Bounded(o)
  <2>1. Counted(o) = {} BY DatabaseAssumption DEF Init, Counted, Live
  <2>2. Passed(o) = {} BY DEF Init, Passed, Creators
  <2>3. Booked(o) = 0 BY <2>1, <2>2, FS_EmptySet DEF Booked
  <2>. QED BY <2>3, SetsFinite, DatabaseAssumption DEF Bounded
<1>. QED BY <1>1, <1>2, <1>3 DEF DatabaseInv

LEMMA InvBounds == DatabaseInv => QuotaOvershoot
<1>. SUFFICES ASSUME DatabaseInv, NEW o \in Orgs
              PROVE  Cardinality(Live(o) \ back) < Limit[o] + Cardinality(Creators(o))
  BY DEF QuotaOvershoot
<1>1. Bounded(o) BY DEF DatabaseInv
<1>2. Cardinality(Counted(o)) < Limit[o] + Cardinality(Creators(o))
  BY <1>1, BookedFinite, SetsFinite DEF Bounded, Booked
<1>. QED BY <1>2 DEF Counted

(* The lock, the registry and the bound keep each other.                   *)
THEOREM DatabaseInvariant == Spec => []DatabaseInv
<1>1. DatabaseInv /\ [Next]_vars => DatabaseInv'
  BY DatabaseTypeNext, StepKeeps DEF DatabaseInv
<1>. QED BY <1>1, DatabaseStart, PTL DEF Spec

(* Type correctness.                                                       *)
THEOREM DatabaseTypes == Spec => []DatabaseTypeOK
<1>1. DatabaseInv => DatabaseTypeOK BY DEF DatabaseInv
<1>. QED BY <1>1, DatabaseInvariant, PTL

(* Every path out of Create frees the user's lock (databases.go:298).      *)
THEOREM LockIsExact == Spec => []MutexIsExact
<1>1. DatabaseInv => MutexIsExact BY DEF DatabaseInv
<1>. QED BY <1>1, DatabaseInvariant, PTL

(* An organization has at most its limit and one database for every further*)
(* creator, besides what restores brought back (quota.go:54).              *)
THEOREM OvershootIsBounded == Spec => []QuotaOvershoot
<1>. QED BY InvBounds, DatabaseInvariant, PTL

-----------------------------------------------------------------------------
(***************************************************************************)
(* A name that is intact and has a live row has its database.  A row is    *)
(* never removed for good, so an intact name stays one with a row; what    *)
(* takes it off the server goes on to mark that row, or ends its being     *)
(* intact.                                                                 *)
(***************************************************************************)
HasRow(n) == owner[n] # NoOrg

Kept ==
  /\ LiveIsOnServer
  /\ \A n \in intact : HasRow(n)
  /\ \A r \in Requests : At(r, "provision") => HasRow(Name(r))

\* A step that leaves the tables and the server, and no request at delete
\* or on its way to provisioning.
LEMMA KeptFrame ==
  ASSUME Kept, UNCHANGED <<rows, server, intact, back>>,
         \A v \in Requests : At(v, "delete") => At(v, "delete")' /\ Name(v)' = Name(v),
         \A v \in Requests : At(v, "provision")' => At(v, "provision") /\ Name(v)' = Name(v)
  PROVE  Kept'
<1>1. Found' = Found BY DEF Found, rows
<1>2. LiveIsOnServer' BY <1>1 DEF Kept, LiveIsOnServer
<1>. QED BY <1>2 DEF Kept, HasRow, rows

LEMMA KeptNext ==
  ASSUME DatabaseTypeOK, Kept, [Next]_vars
  PROVE  Kept'
<1>1. /\ request \in [Requests -> [step : Steps, name : Names \cup {NoName}]]
      /\ owner \in [Names -> Orgs \cup {NoOrg}] /\ intact \subseteq Names
      /\ \A r \in Requests : ~At(r, "idle") => Name(r) \in Names
  BY DEF DatabaseTypeOK, At, Name
<1>2. ASSUME NEW r \in Requests, NEW s \in Steps, NEW t \in Steps \ {"provision"},
             NEW n \in Names \cup {NoName}, s # "delete", At(r, s),
             request' = [request EXCEPT ![r] = [step |-> t, name |-> n]]
      PROVE  /\ \A v \in Requests : At(v, "delete") => At(v, "delete")' /\ Name(v)' = Name(v)
             /\ \A v \in Requests : At(v, "provision")' => At(v, "provision") /\ Name(v)' = Name(v)
  BY <1>1, <1>2 DEF At, Name
<1>3. ASSUME NEW r \in Requests, NEW t \in Steps \ {"idle"}, Goto(r, t), ~At(r, "idle")
      PROVE  request' = [request EXCEPT ![r] = [step |-> t, name |-> Name(r)]]
  <2>1. [request[r] EXCEPT !.step = t] = [step |-> t, name |-> request[r].name]
    BY <1>1
  <2>. QED BY <1>3, <2>1 DEF Goto, Name
<1>4. CASE UNCHANGED vars
  BY <1>4, KeptFrame DEF vars, At, Name
<1>5. ASSUME NEW r \in Requests, NEW n \in Names, Create(r, n) \/ Restore(r, n) PROVE Kept'
  BY <1>2, <1>5, KeptFrame DEF Create, Restore, Begin, KeepServer, Steps
<1>6. ASSUME NEW r \in Requests, NEW n \in Names, NEW keep \in BOOLEAN, Delete(r, n, keep)
      PROVE  Kept'
  BY <1>2, <1>6, KeptFrame DEF Delete, Begin, KeepServer, Steps
<1>7. ASSUME NEW r \in Requests, LockUser(r) \/ CheckQuota(r) PROVE Kept'
  <2>1. /\ UNCHANGED <<rows, server, intact, back>>
        /\ \/ At(r, "lock") /\ Goto(r, "check")
           \/ At(r, "check") /\ (Goto(r, "insert") \/ Answer(r))
    BY <1>7 DEF LockUser, CheckQuota, Leave, KeepServer
  <2>2. \E t \in Steps \ {"provision"}, n \in Names \cup {NoName} :
          request' = [request EXCEPT ![r] = [step |-> t, name |-> n]]
    <3>1. CASE Answer(r) BY <3>1 DEF Answer, Steps
    <3>2. CASE ~At(r, "idle") /\ (Goto(r, "check") \/ Goto(r, "insert"))
      BY <1>1, <1>3, <3>2 DEF Steps
    <3>. QED BY <2>1, <3>1, <3>2 DEF At
  <2>3. PICK s \in {"lock", "check"} : At(r, s) BY <2>1
  <2>. QED BY <1>2, <2>1, <2>2, <2>3, KeptFrame DEF Steps
<1>8. ASSUME NEW r \in Requests, Insert(r) PROVE Kept'
  <2>1. At(r, "insert") /\ Name(r) \in Names /\ OrgOfReq(r) \in Orgs
    BY <1>1, <1>8, DatabaseAssumption DEF Insert, At, OrgOfReq
  <2>2. CASE ~Leave(r)
    <3>0. ~HasRow(Name(r))
      BY <1>8, <2>2 DEF Insert, HasRow
    <3>1. /\ owner' = [owner EXCEPT ![Name(r)] = OrgOfReq(r)] /\ Goto(r, "provision")
          /\ UNCHANGED <<deleted, bin, back, server, intact>>
      BY <1>8, <2>2 DEF Insert, HasRow, KeepServer
    <3>2. \A n \in Names : HasRow(n)' <=> HasRow(n) \/ n = Name(r)
      BY <1>1, <2>1, <3>1, DatabaseAssumption DEF HasRow
    <3>3. Name(r) \notin intact BY <3>0 DEF Kept
    <3>4. \A v \in Requests : Name(v)' = Name(v) /\ (v # r => (At(v, "delete")' <=> At(v, "delete"))
                                                           /\ (At(v, "provision")' <=> At(v, "provision")))
      BY <1>1, <3>1 DEF Goto, Name, At
    <3>5. LiveIsOnServer'
      <4>1. (Found \cap intact)' \subseteq Found \cap intact
        BY <3>1, <3>2, <3>3 DEF Found, HasRow
      <4>. QED BY <2>1, <3>1, <3>4, <4>1 DEF Kept, LiveIsOnServer, At
    <3>6. \A v \in Requests : At(v, "provision")' => HasRow(Name(v))'
      BY <1>1, <2>1, <3>2, <3>4 DEF Kept, At, HasRow
    <3>. QED BY <1>1, <3>1, <3>2, <3>5, <3>6 DEF Kept
  <2>3. CASE Leave(r)
    <3>1. UNCHANGED <<rows, server, intact, back>> /\ Answer(r)
      BY <1>8, <2>3, InsertGoes DEF Insert, Leave, KeepServer, rows
    <3>. QED BY <1>2, <2>1, <3>1, KeptFrame DEF Answer, Steps
  <2>. QED BY <2>2, <2>3
<1>9. ASSUME NEW r \in Requests, Provision(r) PROVE Kept'
  <2>1. /\ At(r, "provision") /\ Answer(r) /\ UNCHANGED <<rows, back>>
        /\ server \subseteq server' /\ intact \subseteq intact'
        /\ intact' \subseteq intact \cup (server' \cap {Name(r)})
    BY <1>9 DEF Provision, Leave
  <2>2. HasRow(Name(r)) BY <2>1 DEF Kept
  <2>3. \A v \in Requests : At(v, "delete") => At(v, "delete")' /\ Name(v)' = Name(v)
    BY <1>1, <1>2, <2>1 DEF Answer, Steps
  <2>4. \A v \in Requests : At(v, "provision")' => At(v, "provision") /\ Name(v)' = Name(v)
    BY <1>1, <1>2, <2>1 DEF Answer, Steps
  <2>5. \A n \in Names : HasRow(n)' = HasRow(n) BY <2>1 DEF rows, HasRow
  <2>6. Found' = Found BY <2>1 DEF Found, rows
  <2>7. LiveIsOnServer' BY <2>1, <2>3, <2>6 DEF Kept, LiveIsOnServer
  <2>8. owner' = owner BY <2>1 DEF rows
  <2>. QED BY <2>1, <2>2, <2>4, <2>7, <2>8 DEF Kept, HasRow
<1>10. ASSUME NEW r \in Requests, Drop(r) PROVE Kept'
  <2>1. /\ At(r, "drop") /\ Goto(r, "delete") /\ UNCHANGED <<rows, intact, back>>
        /\ server \ {Name(r)} \subseteq server'
    BY <1>10 DEF Drop, KeepHistory
  <2>2. At(r, "delete")' /\ \A v \in Requests : Name(v)' = Name(v) /\ (At(v, "delete") => At(v, "delete")')
        /\ (At(v, "provision")' => At(v, "provision"))
    BY <1>1, <2>1 DEF Goto, At, Name
  <2>3. Found' = Found /\ owner' = owner BY <2>1 DEF Found, rows
  <2>4. LiveIsOnServer' BY <2>1, <2>2, <2>3 DEF Kept, LiveIsOnServer
  <2>. QED BY <2>1, <2>2, <2>3, <2>4 DEF Kept, HasRow
<1>11. ASSUME NEW r \in Requests, DeleteRow(r) PROVE Kept'
  <2>1. /\ Answer(r) /\ deleted' = deleted \cup {Name(r)}
        /\ UNCHANGED <<owner, back, server, intact>>
    BY <1>11 DEF DeleteRow, KeepServer
  <2>2. \A v \in Requests \ {r} : request'[v] = request[v]
    BY <2>1 DEF Answer
  <2>3. \A n \in Found' : n \in Found /\ n # Name(r) BY <2>1 DEF Found
  <2>4. LiveIsOnServer'
    <3>. SUFFICES ASSUME NEW n \in Found', n \in intact', n \notin server'
                  PROVE  \E v \in Requests : Name(v)' = n /\ At(v, "delete")'
      BY DEF LiveIsOnServer
    <3>1. PICK v \in Requests : Name(v) = n /\ At(v, "delete")
      BY <2>1, <2>3 DEF Kept, LiveIsOnServer
    <3>2. v # r BY <2>3, <3>1
    <3>. QED BY <2>2, <3>1, <3>2 DEF Name, At
  <2>5. ~At(r, "provision")' BY <1>1, <2>1 DEF Answer, At
  <2>. QED BY <2>1, <2>2, <2>4, <2>5 DEF Kept, HasRow, At, Name
<1>12. ASSUME NEW r \in Requests, RestoreRow(r) PROVE Kept'
  <2>1. /\ At(r, "restore") /\ Answer(r) /\ deleted' = deleted \ {Name(r)}
        /\ intact' = intact \ ((deleted \cap {Name(r)}) \ server)
        /\ UNCHANGED <<owner, server>>
    BY <1>12 DEF RestoreRow, KeepServer
  <2>2. \A v \in Requests : At(v, "delete") => At(v, "delete")' /\ Name(v)' = Name(v)
    BY <1>1, <1>2, <2>1 DEF Answer, Steps
  <2>3. \A v \in Requests : At(v, "provision")' => At(v, "provision") /\ Name(v)' = Name(v)
    BY <1>1, <1>2, <2>1 DEF Answer, Steps
  <2>4. \A n \in (Found \cap intact)' : n \in Found \cap intact \/ n \in server
    BY <2>1 DEF Found
  <2>5. LiveIsOnServer' BY <2>1, <2>2, <2>4 DEF Kept, LiveIsOnServer
  <2>. QED BY <2>1, <2>3, <2>5 DEF Kept, HasRow
<1>13. ASSUME NEW r \in Requests, DeleteRowFails(r) PROVE Kept'
  <2>1. /\ Answer(r) /\ UNCHANGED <<rows, server, back>> /\ intact' \subseteq intact
        /\ At(r, "delete") \/ At(r, "recycle")
        /\ At(r, "delete") => Name(r) \in server \/ Name(r) \notin intact'
    BY <1>13 DEF DeleteRowFails, At
  <2>2. \A v \in Requests \ {r} : request'[v] = request[v]
    BY <2>1 DEF Answer
  <2>3. Found' = Found /\ owner' = owner BY <2>1 DEF Found, rows
  <2>4. LiveIsOnServer'
    <3>. SUFFICES ASSUME NEW n \in Found', n \in intact', n \notin server'
                  PROVE  \E v \in Requests : Name(v)' = n /\ At(v, "delete")'
      BY DEF LiveIsOnServer
    <3>1. PICK v \in Requests : Name(v) = n /\ At(v, "delete")
      BY <2>1, <2>3 DEF Kept, LiveIsOnServer
    <3>2. v # r BY <2>1, <3>1
    <3>. QED BY <2>2, <3>1, <3>2 DEF Name, At
  <2>5. ~At(r, "provision")' BY <1>1, <2>1 DEF Answer, At
  <2>. QED BY <2>1, <2>2, <2>3, <2>4, <2>5 DEF Kept, HasRow, At, Name
<1>14. ASSUME NEW r \in Requests, RestoreRowFails(r) PROVE Kept'
  BY <1>2, <1>14, KeptFrame DEF RestoreRowFails, KeepServer, Answer, Steps
<1>. QED BY <1>4, <1>5, <1>6, <1>7, <1>8, <1>9, <1>10, <1>11, <1>12, <1>13, <1>14
         DEF Next, Handle

(* A database whose creation went well is on the server while it is        *)
(* registered, unless a restore or a Delete that failed half-way has left  *)
(* its row without it.                                                     *)
THEOREM LiveIsKept == Spec => []LiveIsOnServer
<1>1. Init => Kept
  BY DEF Init, Kept, LiveIsOnServer, Found, At
<1>2. DatabaseInv /\ Kept /\ [Next]_vars => Kept'
  BY KeptNext DEF DatabaseInv
<1>3. Kept => LiveIsOnServer BY DEF Kept
<1>. QED BY <1>1, <1>2, <1>3, DatabaseInvariant, PTL DEF Spec
=============================================================================
