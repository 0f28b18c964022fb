SPECIFICATION Spec
CONSTANTS
  q1 = q1
  q2 = q2
  None = None
  Consumers = {c1, c2}
  Partitions <- TwoPartitions
  Events <- FourEvents
  Home <- TwoHomes
  Feed <- TwoFeeds
  Poison = {9}
  Faults = {"db", "commit", "stop", "crash", "session", "rebalance"}
  MaxFaults = 3
SYMMETRY Symmetry
INVARIANTS
  TypeOK
  OneNotificationEach
  NothingSkipped
  NotifiedInOrder
PROPERTIES
  OffsetsOnlyAdvance
