CONSTANTS
  b1 = b1
  b2 = b2
  b3 = b3
  Buffers <- MCBuffers
  NoBuffer = NoBuffer
  MSG_CNT_DISCONN_MAX = 2
  RETRY_MAX = 2
  EISCONN_STANDBY_MAX = 2
  MaxMessages = 4
  MaxFaults = 4
SPECIFICATION FairSpec
INVARIANT TypeOK ConnectedSocketIsOpen ResendingEnds SentInOrderOnce
PROPERTY ImplementsOutbox LinkIsRestored PayloadsLeave
