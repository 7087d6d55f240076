\* Customer, gateway and administrator pay one order on two processes; connections close, a process dies.
SPECIFICATION FairSpec
CONSTANTS
  p1 = p1  p2 = p2  c1 = c1  c2 = c2  w1 = w1  w2 = w2  o1 = o1  n1 = n1  r1 = r1  r2 = r2
  Procs <- TwoProcs
  Conns <- TwoConns
  PoolOf <- SplitPool
  Tasks <- TwoWorkers
  ProcOf <- SplitPair
  HandlerOf <- SplitHandler
  Orders <- OneOrder
  NameOf <- Single
  Keys <- OneName
  Requests <- TwoRequests
  NoKey = NoKey
  NoOrder = NoOrder
  InfoStatus = "active"
  InfoFails = FALSE
  Signed = FALSE
  PlanlessRows = TRUE
  MaxDepth = 2
  MaxRetries = 0
  MaxCrashes = 1
  MaxRequests = 2
INVARIANTS PaymentTypeOK PaidWasCharged 
PROPERTIES WorkersReturn

