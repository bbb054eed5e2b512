CONSTANTS
  d1 = d1
  d2 = d2
  Devices <- MCDevices
  Ends <- MCEnds
  NoRule = NoRule
  NoDevice = NoDevice
  RelayTableSize = 3
SPECIFICATION Spec
INVARIANTS
  AssertionHolds
