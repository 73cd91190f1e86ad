SPECIFICATION Spec
CONSTANTS
  AddrLen = 16
  DebugPort = 15
  UartPort = 15
  Align = 2
  HeapLen = 4
  Built <- MCBuilt
  Shapes <- MCAny
  Linked <- MCLinked
  Mixed <- MCMixed
  Addrs = {0, 2, 3, 4, 7, 8, 15}
  Sizes = {0, 1, 3}
  MayFail = TRUE
INVARIANTS TypeOK StaysInside CompleteSeen HeapFree FetchesFile
CHECK_DEADLOCK FALSE
