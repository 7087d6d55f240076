\* Two subscriptions of one customer, two requests at once, the lifecycle worker and a crash.
SPECIFICATION FairSpec
CONSTANTS
  s1 = s1  s2 = s2  r1 = r1  r2 = r2
  Subs <- TwoSubs
  Requests <- TwoRequests
  NoSub = NoSub
  Signed = FALSE
  MaxRequests = 3
  MaxCrashes = 1
INVARIANTS SubTypeOK ActiveWasPaid  GraceIsKept
PROPERTIES NonPayerIsSuspended
CHECK_DEADLOCK FALSE
