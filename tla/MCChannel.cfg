SPECIFICATION ChannelSpec
CONSTANTS
  n1 = n1
  n2 = n2
  t1 = t1
  t2 = t2
  t3 = t3
  Nodes = {n1, n2}
  Threads = {t1, t2, t3}
  NodeOf <- MCNodeOf
  NoThread = NoThread
  MaxSteps = 2
  MaxBarriers = 6
  MaxData = 2
INVARIANTS
  NoCheckFails
  SyncExact
PROPERTIES
  AllEnd
