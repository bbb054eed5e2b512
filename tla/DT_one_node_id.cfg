CONSTANTS
  e1 = e1
  e2 = e2
  n1 = n1
  n2 = n2
  n3 = n3
  NullEui = NullEui
  NullNodeId = NullNodeId
  Euis <- MCEuis
  NodeIds <- MCNodeIds
  Addr <- MCAddr
  TableSize = 2
  MaxQueueSize = 2
  MaxEndpoints = 2
  RetryTicks = 1
  MaxWaitTicks = 2
SPECIFICATION RegularSpec
INVARIANTS
  OneNodeIdPerDevice
