SPECIFICATION Spec
CONSTANTS
  b1 = b1
  b2 = b2
  None = None
  Requests <- SixRequests
  Inputs <- Script
  Browsers = {b1, b2}
  Canonical <- TwoSpellings
  Blank = ""
  Unhashable = {"long"}
  AccessTTL = 1
  RefreshTTL = 1
  MaxTime = 2
  MaxFaults = 1
INVARIANTS
  TypeOK
  OneAccountPerEmail
  CookieHasSession
  RefreshFollowsSession
  LogoutEndsSession
PROPERTIES
  RevocationIsFinal
