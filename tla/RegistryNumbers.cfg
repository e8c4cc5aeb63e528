SPECIFICATION Spec
CONSTANTS
  Proc = {p1, p2}
  Tenants = {brewA}
  NoTenant = NoTenant
  MaxCode = 3
  MaxBlock = 2
  HandLabels = {2, 3}
  Serves = {"create", "import", "batch", "scan"}
  MAX_RETRIES = 2
SYMMETRY Symmetry
INVARIANTS
  TypeOK
  CollisionOnlyWithScan
  SequenceCoversTable
PROPERTIES
  AllocatorSpec
CHECK_DEADLOCK FALSE
