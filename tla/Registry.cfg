SPECIFICATION Spec
CONSTANTS
  Proc = {p1, p2}
  Tenants = {brewA, brewB}
  NoTenant = NoTenant
  MaxCode = 2
  MaxBlock = 2
  HandLabels = {2}
  Serves = {"create", "batch", "scan", "link", "delete", "transfer"}
  MAX_RETRIES = 1
VIEW Relevant
SYMMETRY Symmetry
INVARIANTS
  
  OneBarrelPerLabel
CHECK_DEADLOCK FALSE
