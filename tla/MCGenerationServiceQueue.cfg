\* Liveness, on one id and one token, with time standing still for the bucket.
CONSTANTS
  None = None
  small = small
  huge = huge
  Clients = {c1, c2}
  Ids = {i1}
  Inputs = {small, huge}
  Cost <- MCCost
  OutputLength = 1
  MaxInflight = 2
  CacheCapacity = 1
  BucketCapacity = 2
  Rate = 1
  MaxTime = 0
\* A drained service whose clock has run out serves nobody.
CHECK_DEADLOCK FALSE
SPECIFICATION FairSpec
PROPERTY TimedRequestsLeaveQueue
