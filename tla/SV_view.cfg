CONSTANTS
  d1 = d1
  d2 = d2
  Devices <- MCDevices
  NoDevice = NoDevice
  EndpointsOf <- MCEndpointsOf
  TableSize = 2
  MSG_CNT_DISCONN_MAX = 2
  MaxChanges = 2
  MaxFaults = 3
  Files <- MCFiles
SPECIFICATION FairSpec
INVARIANTS
  TypeOK
  NothingIsOwed
  LossIsMended
PROPERTIES
  ViewConverges
