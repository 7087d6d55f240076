\* Two members of one organization, three requests, three names, a plan of one database.
SPECIFICATION Spec
CONSTANTS
  p1 = p1  u1 = u1  u2 = u2  x1 = x1  r1 = r1  r2 = r2  r3 = r3  n1 = n1  n2 = n2  n3 = n3
  Procs <- OneProc
  Requests <- ThreeRequests
  ProcOf <- Local
  Users <- TwoUsers
  UserOf <- Askers
  Orgs <- OneOrg
  OrgOf <- Colleagues
  Limit <- OneDatabase
  Names <- ThreeNames
  NoRequest = NoRequest
  NoOrg = NoOrg
  NoName = NoName
INVARIANTS DatabaseTypeOK MutexIsExact  
SYMMETRY NameSymmetry
