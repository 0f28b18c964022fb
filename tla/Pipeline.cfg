SPECIFICATION FairSpec
CONSTANTS
  orderA = orderA
  orderB = orderB
  q1 = q1
  None = None
  Publishers = {p1}
  Consumers = {c1}
  Events <- FourEvents
  KeyOf <- FourKeys
  Partitions <- OnePartition
  Home <- OneHome
  Rejected = {3}
  Poison = {2}
  BatchSize = 2
  PublisherFaults = {"timeout", "conn", "stop", "crash"}
  ConsumerFaults = {"db", "commit", "stop", "crash", "session"}
  MaxFaults = 2
INVARIANTS
  OrderKept
PROPERTIES
  ImplementsNotifications
  EventuallyPublished
