SPECIFICATION Spec
CONSTANTS
  MaxRuns = 2
  Picture = {p1, p2}
  MaxUris = 2
 
PROPERTY PaidCallsAreFew
PROPERTY KeepsPromise
CHECK_DEADLOCK FALSE
