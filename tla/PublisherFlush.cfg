SPECIFICATION Spec
CONSTANTS
  orderA = orderA
  orderB = orderB
  q1 = q1
  None = None
  Publishers = {p1, p2}
  Events <- TwoEvents
  KeyOf <- OneKey
  Partitions <- OnePartition
  Home <- OneHome
  Rejected = {}
  BatchSize = 1
  Faults = {"stop"}
  MaxFaults = 1
INVARIANTS
  NotAtTheSameTime
