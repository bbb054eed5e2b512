CONSTANTS
  b1 = b1
  b2 = b2
  b3 = b3
  Buffers <- MCBuffers
  NoBuffer = NoBuffer
  MSG_CNT_DISCONN_MAX = 2
  RETRY_MAX = 1
  EISCONN_STANDBY_MAX = 2
  MaxMessages = 4
  MaxFaults = 3
SYMMETRY BufferSymmetry
SPECIFICATION Spec
PROPERTY GivenUpAfterResending
