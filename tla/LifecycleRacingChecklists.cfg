SPECIFICATION Spec
CONSTANTS
  Proc = {p1, p2}
  Orders = {o1, o2}
  Disposals = {}
  MaxCycles = 1
  MaxReturns = 0
  BlockMode = "ADVISORY"
  Serves = {"order", "checklist"}
INVARIANTS
  BackFromMaintenance
CHECK_DEADLOCK FALSE
