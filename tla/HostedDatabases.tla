-------------------------- MODULE HostedDatabases --------------------------
(***************************************************************************)
(* Customers' databases: DatabaseHandler.Create, Delete, RestoreRecycleBin *)
(* and Batch (apps/api/internal/handlers/databases.go) over the quota      *)
(* service (apps/api/internal/quota/quota.go), the registry table and the  *)
(* MySQL server.  LockUser is a mutex per user in each API process; the    *)
(* quota counts the rows of the user's whole organization.                 *)
(*                                                                         *)
(* A request that fails its access or payload checks changes nothing and   *)
(* is left out.  Plans stay as they are; all databases are on one server.  *)
(***************************************************************************)
EXTENDS Naturals, FiniteSets

CONSTANTS
  Requests,   \* requests in flight at once
  Procs,      \* API processes
  ProcOf,     \* the process that serves a request
  Users,
  UserOf,     \* the user who sent a request
  Orgs,
  OrgOf,      \* a user's organization
  Limit,      \* MaxDatabases of an organization's plan
  Names,      \* database names
  NoRequest, NoOrg, NoName

ASSUME DatabaseAssumption ==
  /\ ProcOf \in [Requests -> Procs]
  /\ UserOf \in [Requests -> Users]
  /\ OrgOf \in [Users -> Orgs]
  /\ Limit \in [Orgs -> Nat \ {0}]
  /\ NoRequest \notin Requests /\ NoOrg \notin Orgs /\ NoName \notin Names
  /\ IsFiniteSet(Procs) /\ IsFiniteSet(Users) /\ IsFiniteSet(Names)

VARIABLES
  mutex,    \* userLocks of each process's quota service: the holder
  owner,    \* databases: the organization of a name's row, or NoOrg
  deleted,  \* names whose row has deleted_at
  bin,      \* names whose row has in_recycle_bin
  server,   \* databases that exist on the MySQL server
  intact,   \* history: names created without a warning, and not lost since by a
            \* restore or by a Delete that could not mark the row it had dropped
  back,     \* history: names RestoreDatabase brought back
  request

rows == <<owner, deleted, bin>>
vars == <<mutex, rows, server, intact, back, request>>

Steps == {"idle", "lock", "check", "insert", "provision", "drop", "delete", "recycle", "restore"}
\* Between LockUser and the deferred unlock.
Inside == {"check", "insert", "provision"}

DatabaseTypeOK ==
  /\ mutex \in [Procs \X Users -> Requests \cup {NoRequest}]
  /\ owner \in [Names -> Orgs \cup {NoOrg}]
  /\ deleted \subseteq Names /\ bin \subseteq Names /\ server \subseteq Names
  /\ intact \subseteq Names /\ back \subseteq Names
  /\ request \in [Requests -> [step : Steps, name : Names \cup {NoName}]]
  /\ \A r \in Requests : request[r].step = "idle" <=> request[r].name = NoName

Init ==
  /\ mutex = [l \in Procs \X Users |-> NoRequest]
  /\ owner = [n \in Names |-> NoOrg]
  /\ deleted = {} /\ bin = {} /\ server = {}
  /\ intact = {} /\ back = {}
  /\ request = [r \in Requests |-> [step |-> "idle", name |-> NoName]]

LockOf(r)  == <<ProcOf[r], UserOf[r]>>
OrgOfReq(r) == OrgOf[UserOf[r]]
Name(r)    == request[r].name

\* The rows GetDatabaseByID finds.
Found == {n \in Names : owner[n] # NoOrg} \ deleted

\* ListDatabasesByOrg.
Live(o) == {n \in Names \ deleted : owner[n] = o}

At(r, s)      == request[r].step = s
Goto(r, s)    == request' = [request EXCEPT ![r].step = s]
Begin(r, s, n) == /\ At(r, "idle")
                  /\ request' = [request EXCEPT ![r] = [step |-> s, name |-> n]]
Answer(r)     == request' = [request EXCEPT ![r] = [step |-> "idle", name |-> NoName]]

\* Answer, and the deferred unlock.
Leave(r) == Answer(r) /\ mutex' = [mutex EXCEPT ![LockOf(r)] = NoRequest]

KeepServer  == UNCHANGED <<server, intact>>
KeepHistory == UNCHANGED <<intact, back>>

-----------------------------------------------------------------------------
(* Create *)

Create(r, n) ==
  /\ Begin(r, "lock", n)
  /\ UNCHANGED <<mutex, rows, back>> /\ KeepServer

LockUser(r) ==
  /\ At(r, "lock")
  /\ mutex[LockOf(r)] = NoRequest
  /\ mutex' = [mutex EXCEPT ![LockOf(r)] = r]
  /\ Goto(r, "check")
  /\ UNCHANGED <<rows, back>> /\ KeepServer

\* Bug: the last database of the plan is given out twice.
CheckQuotaOffByOne(r) ==
  /\ At(r, "check")
  /\ IF Cardinality(Live(OrgOfReq(r))) > Limit[OrgOfReq(r)]
       THEN Leave(r)
       ELSE Goto(r, "insert") /\ UNCHANGED mutex
  /\ UNCHANGED <<rows, back>> /\ KeepServer

\* CheckQuota, which counts the organization's rows.  The request may also
\* be refused for the state of the subscription or for its payload.
CheckQuota(r) ==
  /\ At(r, "check")
  /\ \/ Leave(r)
     \/ /\ Cardinality(Live(OrgOfReq(r))) < Limit[OrgOfReq(r)]
        /\ Goto(r, "insert")
        /\ UNCHANGED mutex
  /\ UNCHANGED <<rows, back>> /\ KeepServer

\* Bug: the refused request returns without the deferred unlock.
InsertKeepsLock(r) ==
  /\ At(r, "insert")
  /\ IF owner[Name(r)] = NoOrg
       THEN /\ owner' = [owner EXCEPT ![Name(r)] = OrgOfReq(r)]
            /\ Goto(r, "provision")
       ELSE Answer(r) /\ UNCHANGED owner
  /\ UNCHANGED <<mutex, deleted, bin, back>> /\ KeepServer

\* CreateDatabase, which refuses a name that has a row, deleted rows too, and
\* may fail otherwise.
Insert(r) ==
  /\ At(r, "insert")
  /\ \/ /\ owner[Name(r)] = NoOrg
        /\ owner' = [owner EXCEPT ![Name(r)] = OrgOfReq(r)]
        /\ Goto(r, "provision")
        /\ UNCHANGED mutex
     \/ Leave(r) /\ UNCHANGED owner
  /\ UNCHANGED <<deleted, bin, back>> /\ KeepServer

\* Bug: the handler frees the lock and keeps its request.
ProvisionHalf(r) ==
  /\ At(r, "provision")
  /\ server' = server \cup {Name(r)}
  /\ intact' = intact \cup {Name(r)}
  /\ Goto(r, "idle") /\ mutex' = [mutex EXCEPT ![LockOf(r)] = NoRequest]
  /\ UNCHANGED <<rows, back>>

\* ExecuteRealDatabaseCreation.  A script that fails, before or after the
\* database is created, leaves a warning in the audit log and the row as it is.
Provision(r) ==
  /\ At(r, "provision")
  /\ \/ server' = server \cup {Name(r)} /\ intact' = intact \cup {Name(r)}
     \/ server' \in {server, server \cup {Name(r)}} /\ UNCHANGED intact
  /\ Leave(r)
  /\ UNCHANGED <<rows, back>>

-----------------------------------------------------------------------------
(* Delete and restore: no lock *)

\* Delete finds the row.  With recycle_bin=true, and from Batch, the database
\* stays on the server.
Delete(r, n, keep) ==
  /\ n \in Found
  /\ Begin(r, IF keep THEN "recycle" ELSE "drop", n)
  /\ UNCHANGED <<mutex, rows, back>> /\ KeepServer

\* Bug: the handler returns once the database is dropped.
DropAnswers(r) ==
  /\ At(r, "drop")
  /\ server' = server \ {Name(r)}
  /\ Answer(r)
  /\ UNCHANGED <<mutex, rows>> /\ KeepHistory

\* ExecuteDropDatabase, whose error is dropped.
Drop(r) ==
  /\ At(r, "drop")
  /\ server' \in {server, server \ {Name(r)}}
  /\ Goto(r, "delete")
  /\ UNCHANGED <<mutex, rows>> /\ KeepHistory

\* DeleteDatabase.
DeleteRow(r) ==
  /\ At(r, "delete") \/ At(r, "recycle")
  /\ deleted' = deleted \cup {Name(r)}
  /\ bin' = bin \cup {Name(r)}
  /\ Answer(r)
  /\ UNCHANGED <<mutex, owner, back>> /\ KeepServer

\* It fails: the handler answers 500 and leaves a row whose database it has
\* dropped.
DeleteRowFails(r) ==
  /\ \/ At(r, "delete") /\ intact' = intact \ ({Name(r)} \ server)
     \/ At(r, "recycle") /\ UNCHANGED intact
  /\ Answer(r)
  /\ UNCHANGED <<mutex, rows, server, back>>

\* RestoreRecycleBin finds the row, or answers "Database not found" ...
Restore(r, n) ==
  /\ n \in Found
  /\ Begin(r, "restore", n)
  /\ UNCHANGED <<mutex, rows, back>> /\ KeepServer

\* ... and RestoreDatabase clears both marks.
RestoreRow(r) ==
  /\ At(r, "restore")
  /\ deleted' = deleted \ {Name(r)}
  /\ bin' = bin \ {Name(r)}
  /\ back' = back \cup (deleted \cap {Name(r)})
  /\ intact' = intact \ ((deleted \cap {Name(r)}) \ server)
  /\ Answer(r)
  /\ UNCHANGED <<mutex, owner, server>>

\* It fails.
RestoreRowFails(r) ==
  /\ At(r, "restore")
  /\ Answer(r)
  /\ UNCHANGED <<mutex, rows, back>> /\ KeepServer

-----------------------------------------------------------------------------
Handle(r) ==
  \/ LockUser(r) \/ CheckQuota(r) \/ Insert(r) \/ Provision(r)
  \/ Drop(r) \/ DeleteRow(r) \/ DeleteRowFails(r)
  \/ RestoreRow(r) \/ RestoreRowFails(r)

Next ==
  \/ \E r \in Requests, n \in Names : Create(r, n)
  \/ \E r \in Requests : Handle(r)
  \/ \E r \in Requests, n \in Names, keep \in BOOLEAN : Delete(r, n, keep)
  \/ \E r \in Requests, n \in Names : Restore(r, n)

Spec == Init /\ [][Next]_vars

-----------------------------------------------------------------------------
(* Everyone who may create for organization o without waiting for another. *)
Creators(o) == {l \in Procs \X Users : OrgOf[l[2]] = o}

(* How far the plan's limit can be passed.  LockUser is there "to serialize*)
(* concurrent creation and prevent race condition quota bypasses"          *)
(* (quota.go:54), but it is per user and per process while the count is per*)
(* organization, and a restore counts nothing: besides the databases a     *)
(* restore brought back, an organization never has more than its limit plus*)
(* one for every further creator.                                          *)
QuotaOvershoot ==
  \A o \in Orgs :
    Cardinality(Live(o) \ back) < Limit[o] + Cardinality(Creators(o))

(* A registered database whose creation went well is on the server, however*)
(* creations, deletions and restores of its name interleave                *)
(* (databases.go:404, "database record preserved in registry", is about    *)
(* creations that failed).  Two cases, in which the code itself leaves a   *)
(* row without its database, take a name out of intact: a restore clears   *)
(* the marks of a row whose database was dropped (databases.go:946), and a *)
(* Delete drops the database, cannot mark the row and answers 500          *)
(* (databases.go:504-510).                                                 *)
LiveIsOnServer ==
  \A n \in Found \cap intact :
    \/ n \in server
    \/ \E r \in Requests : Name(r) = n /\ At(r, "delete")

(* The user's lock is held exactly by the request that is inside: no path  *)
(* out of Create leaves it locked (databases.go:298) and no two requests of*)
(* a user are between the check and the insertion.                         *)
MutexIsExact ==
  \A l \in Procs \X Users, r \in Requests :
    mutex[l] = r <=> (LockOf(r) = l /\ request[r].step \in Inside)
=============================================================================
