SPECIFICATION Spec
CONSTANTS
  Proc = {p1, p2}
  Tenants = {brewA, brewB}
  NoTenant = NoTenant
  MaxCode = 2
  MaxBlock = 1
  HandLabels = {}
  Serves = {"batch", "scan"}
  MAX_RETRIES = 2
PROPERTIES
  OwnerChangesOnlyByTransfer
CHECK_DEADLOCK FALSE
