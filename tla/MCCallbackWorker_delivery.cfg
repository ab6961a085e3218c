SPECIFICATION FairSpec
CONSTANTS
  Clients = {c1, c2}
  c1 = c1
  c2 = c2
  Capacity = 2
  ActionCapacity = 2
  MaxLives = 2
  MaxItems = 3
INVARIANTS
  NoLostWakeup
  QueuesInOrder
PROPERTIES
  CallsReturn
