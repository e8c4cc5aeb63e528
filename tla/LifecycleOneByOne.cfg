SPECIFICATION Spec
CONSTANTS
  Proc = {p1}
  Orders = {o1, o2}
  Disposals = {d1}
  MaxCycles = 2
  MaxReturns = 3
  BlockMode = "MANDATORY"
  Serves = {"logistics", "yard", "order", "cron", "checklist", "triage", "disposal", "lost", "crash"}
SYMMETRY Symmetry
INVARIANTS
  TypeOK
  
  DisposedHasPaper
  
  
CHECK_DEADLOCK FALSE
