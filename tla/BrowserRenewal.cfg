SPECIFICATION BrowserSpec
CONSTANTS
  Proc = {p1, p2}
  User = {ana}
  Founder = ana
  Nobody = Nobody
  LegacyHash = FALSE
  MaxTokens = 3
  MaxPasswords = 1
  MaxAttempts = 9
  Serves <- OnlyBrowserRenews
INVARIANT RenewalIsTransparent
CHECK_DEADLOCK FALSE
