CONSTANTS
  d1 = d1
  d2 = d2
  Devices <- MCDevices
  Ends <- MCEnds
  NoRule = NoRule
  NoDevice = NoDevice
  RelayTableSize = 2
  AttributeClusters = {"onOff"}
  None = None
SPECIFICATION GatewaySpec
INVARIANTS
  TypeOK
  FileHoldsTheRules
  OneEntryEach
PROPERTIES
  RestartKeepsRules
  ImplementsFrameSlot
