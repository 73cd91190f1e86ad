SPECIFICATION Spec
CONSTANTS
  Fds = {0, 1, 2, 3, 4}
  Names = {"stdout.txt", "a"}
  UartName = "stdout.txt"
  Inodes = {1, 2}
  None = 0
  MaxCount = 2
  Inputs <- MCInputs
  Lflag = FALSE
  AddrLen = 8
  EndOfData = 3
  Align = 2
  Places = {0, 2, 6}
INVARIANTS TypeOK ConsoleStays
PROPERTY CallsArePrivate
CONSTRAINT Bound
CHECK_DEADLOCK FALSE
