SPECIFICATION FairSpec
CONSTANTS
  Request = {r1, r2}
  Turns = 3
  Concurrency = 2
  Retries = 1
  Limit = 1
INVARIANT UnitPerPaidRequest
INVARIANT PaidAfterCounting
 
 
PROPERTY AnsweredOnce
PROPERTY Settles
CHECK_DEADLOCK FALSE
