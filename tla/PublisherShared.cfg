SPECIFICATION Spec
SYMMETRY Symmetry
CONSTANTS
  orderA = orderA
  orderB = orderB
  q1 = q1
  None = None
  Publishers = {p1, p2}
  Events <- FourEvents
  KeyOf <- FourKeys
  Partitions <- OnePartition
  Home <- OneHome
  Rejected = {3}
  BatchSize = 2
  Faults = {"nack", "timeout", "conn", "stop", "crash"}
  MaxFaults = 2
INVARIANTS
  TypeOK
  PublishedIsInLog
  RepeatsNeedFaults
