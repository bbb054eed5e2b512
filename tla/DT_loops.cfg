SPECIFICATION Spec
CONSTANTS
  e1 = e1
  e2 = e2
  n1 = n1
  n2 = n2
  NullEui = NullEui
  NullNodeId = NullNodeId
  Euis <- MCEuis
  NodeIds <- MCNodeIds
  TableSize = 3
  MaxQueueSize = 4
  MaxEndpoints = 1
  RetryTicks = 1
  MaxWaitTicks = 1
INVARIANTS
  BubbleSortIsStable
  AddingInTurnIsEnqueue
  DeletionLoopSkips
  TickAgesEveryTask
  ChainsReachTheDevice
  LoadRestoresTheSavedTable
  TornSaveLoadsAPrefix
