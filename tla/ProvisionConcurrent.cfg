\* The pool closes the connection that has a worker's advisory lock.
SPECIFICATION ProvisionSpec
CONSTANTS
  p1 = p1  p2 = p2  c1 = c1  c2 = c2  c3 = c3  w1 = w1  w2 = w2  w3 = w3  o1 = o1  o2 = o2  n1 = n1  n2 = n2
  Procs <- TwoProcs
  Conns <- TwoConns
  PoolOf <- SplitPool
  Tasks <- TwoWorkers
  ProcOf <- SplitPair
  Orders <- TwoOrders
  NameOf <- Rivals
  Keys <- OneName
  NoKey = NoKey
  NoOrder = NoOrder
  InfoStatus = "active"
  InfoFails = TRUE
  MaxDepth = 2
  MaxRetries = 1
  MaxCrashes = 0
INVARIANTS NeverConcurrent
\* Every order may be settled and every retry used.
CHECK_DEADLOCK FALSE
