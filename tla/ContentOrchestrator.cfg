SPECIFICATION Spec
CONSTANTS
  A = A
  B = B
  None = None
  Product <- TwoProducts
  Langs <- OneLang
  MaxRuns = 2
  MaxTouches = 1
  MaxHistory = 1
SYMMETRY Interchangeable
INVARIANTS
  EntryIsWhole
  
  BusyIsHonest
  ExportIsGuarded
CHECK_DEADLOCK FALSE
