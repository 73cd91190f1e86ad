SPECIFICATION Spec
CONSTANTS
  AddrLen = 16
  DebugPort = 15
  UartPort = 15
  Align = 2
  HeapLen = 4
  Built <- MCBuilt
  Shapes <- MCNoBss
  Linked <- MCNoBss
  Mixed <- MCNoBss
  Addrs = {0, 8}
  Sizes = {1, 2}
  MayFail = FALSE
INVARIANT GuestSeesFile
CHECK_DEADLOCK FALSE
