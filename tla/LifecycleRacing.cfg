SPECIFICATION Spec
CONSTANTS
  Proc = {p1, p2}
  Orders = {o1}
  Disposals = {d1}
  MaxCycles = 2
  MaxReturns = 1
  BlockMode = "ADVISORY"
  Serves = {"logistics", "yard", "status", "checklist", "disposal", "alert", "crash"}
SYMMETRY Symmetry
INVARIANTS
  ComponentNeverAhead
  DisposedOnlyApproved
CHECK_DEADLOCK FALSE
