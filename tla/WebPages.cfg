SPECIFICATION Spec
CONSTANTS
  Slot = {s1, s2}
  MaxOpenings <- MCMaxOpenings
  MaxVisits <- MCMaxVisits
INVARIANTS  OncePerOpening  ListFollows LockHeld
CHECK_DEADLOCK FALSE
