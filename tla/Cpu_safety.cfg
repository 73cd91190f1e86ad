SPECIFICATION Spec
CONSTANTS
  Pc = {zero, main}
  Zero = zero
  PhaseLen = 4
  TickLen = 2
  LowLen = 1
  HighLen = 2
  MaxRun = 3
  Debug = TRUE
  DoNewlib = TRUE
INVARIANTS TypeOK ServiceIntact WaitBounded
PROPERTIES MretResumes ExternalFirst PendingSticky KeepsPromise
CHECK_DEADLOCK FALSE
