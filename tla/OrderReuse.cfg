SPECIFICATION Spec
CONSTANTS
  alice = alice
  bob = bob
  k1 = k1
  k2 = k2
  b1 = b1
  b2 = b2
  None = None
  Bodies = {b1, b2}
  Keys = {k1, k2}
  Requests = {r1, r2}
  Users = {alice}
  Admins = {}
  Spellings = {"lower"}
  Inputs <- TwiceInputs
  MaxConns = 2
  Faults = {}
PROPERTIES
  ReuseReturnsOriginal
