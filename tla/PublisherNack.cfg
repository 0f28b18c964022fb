SPECIFICATION Spec
CONSTANTS
  orderA = orderA
  orderB = orderB
  q1 = q1
  None = None
  Publishers = {p1}
  Events <- TwoEvents
  KeyOf <- OneKey
  Partitions <- OnePartition
  Home <- OneHome
  Rejected = {}
  BatchSize = 2
  Faults = {"nack"}
  MaxFaults = 1
INVARIANTS
  OrderKept
