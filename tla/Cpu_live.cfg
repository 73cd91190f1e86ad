SPECIFICATION FairSpec
CONSTANTS
  Pc = {zero}
  Zero = zero
  PhaseLen = 2
  TickLen = 2
  LowLen = 1
  HighLen = 1
  MaxRun = 0
  Debug = FALSE
  DoNewlib = FALSE
PROPERTIES InterruptServed 
CHECK_DEADLOCK FALSE
