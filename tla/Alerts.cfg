SPECIFICATION Spec
CONSTANTS
  Barrel = {b1}
  Client = {c1}
  Elsewhere = Elsewhere
  NoClient = NoClient
  Serves <- Together
INVARIANTS TypeOK  
PROPERTIES  StaleLost
CHECK_DEADLOCK FALSE
