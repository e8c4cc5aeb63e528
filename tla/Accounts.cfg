SPECIFICATION BrowserSpec
CONSTANTS
  Proc = {p1, p2}
  User = {ana, bia}
  Founder = ana
  Nobody = Nobody
  LegacyHash = TRUE
  MaxTokens = 3
  MaxPasswords = 1
  MaxAttempts = 9
  Serves <- AnyOfThem
SYMMETRY Symmetry
INVARIANTS TypeOK OldPasswordClosed OneTokenPerSession FailuresLock AdminRemains
           BrowserTypeOK   ListsEndWithLogout
PROPERTIES NoTokenForDeleted LedgerSpec
CHECK_DEADLOCK FALSE
