SPECIFICATION Spec
CONSTANTS
  alice = alice
  bob = bob
  k1 = k1
  k2 = k2
  b1 = b1
  b2 = b2
  None = None
  Bodies = {b1, b2}
  Keys = {k1, k2}
  Requests = {r1, r2, r3}
  Users = {alice, bob}
  Admins = {bob}
  Spellings = {"lower", "upper"}
  Inputs <- FaultInputs
  MaxConns = 2
  Faults = {"db", "redis", "crash", "expiry"}
INVARIANTS
  TypeOK
  AtMostOneCapture
  StatusTellsPayments
  KeyHasOneEffect
  SameKeySameAnswer
  SuccessIsDurable
PROPERTIES
  ImplementsLedger
  OnlyOwnerReleases
SYMMETRY RequestSymmetry
