\* PostgreSQL keeps no invoice of a domain order; nobody crashes.
SPECIFICATION FairSpec
CONSTANTS
  p1 = p1  p2 = p2  c1 = c1  c2 = c2  w1 = w1  w2 = w2  o1 = o1  n1 = n1  r1 = r1  r2 = r2
  Procs <- OneProc
  Conns <- OneConn
  PoolOf <- LocalConn
  Tasks <- OneWorker
  ProcOf <- LocalWorker
  HandlerOf <- LocalPair
  Orders <- OneOrder
  NameOf <- Single
  Keys <- OneName
  Requests <- TwoRequests
  NoKey = NoKey
  NoOrder = NoOrder
  InfoStatus = "active"
  InfoFails = FALSE
  Signed = TRUE
  PlanlessRows = FALSE
  MaxDepth = 2
  MaxRetries = 0
  MaxCrashes = 0
  MaxRequests = 3
PROPERTIES EventPaysOrder

