SPECIFICATION Spec
CONSTANTS
  Proc = {p1}
  Orders = {o1, o2}
  Disposals = {}
  MaxCycles = 2
  MaxReturns = 3
  BlockMode = "MANDATORY"
  Serves = {"logistics", "yard", "checklist"}
INVARIANTS
  MandatoryRedHasOrder
CHECK_DEADLOCK FALSE
