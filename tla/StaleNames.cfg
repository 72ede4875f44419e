SPECIFICATION Spec
CONSTANTS
  A = A
  B = B
  None = None
  Product <- TwoProducts
  Langs <- NoLang
  MaxRuns = 3
  MaxTouches = 1
  MaxHistory = 2
SYMMETRY Interchangeable
INVARIANT NamesAreOwn
CHECK_DEADLOCK FALSE
