SPECIFICATION Spec
CONSTANTS
  ann = ann
  None = None
  Requests <- ThreeRequests
  Scopes = {"global", "auth_login", "auth_register"}
  Route <- Routes
  Client <- OneClient
  Limit <- Limits
  Lead <- Skew
  MaxLead = 1
  Second = 2
  Window = 4
  MaxTime = 6
  MaxFaults = 1
INVARIANTS
  TypeOK
  NotOverLimit
  RefusedOnlyWhenFull
  LeakNeedsFault
  RetryAfterLeadsOut
