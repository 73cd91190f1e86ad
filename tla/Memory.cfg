SPECIFICATION Spec
CONSTANTS
  AddrLen = 12
  DebugPort = 9
  UartPort = 10
  WordLen = 2
  Widths = {1, 2}
  Buffers = {3}
  Byte = {0, 1}
  Zero = 0
  Ones = 1
  Negative = {1}
  Data <- MCData
  Text <- MCText
  Host <- MCHost
  PowerOffs <- MCPowerOffs
  DoCore = TRUE
  DoNewlib = TRUE
INVARIANT TypeOK
PROPERTIES StaysInside MappedIsServed RunsFlat
CHECK_DEADLOCK FALSE
