SPECIFICATION FairSpec
CONSTANTS
  None = None
  Requests = {r1, r2, r3}
  Attempts = 3
  MaxFaults = 4
INVARIANTS
  TypeOK
  ClientsOutliveRequests
  CleanExitLosesNothing
PROPERTIES
  SignalStops
  EventuallyServing
