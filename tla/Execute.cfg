SPECIFICATION CSpec
CONSTANTS
  Width = 4
  Last = 2
  Upper = 2
  Lines = 2
  Imm <- Imms
  Stored = {mscratch}
  Fixed = {misa}
  FixedValue = 9
  Loaded = {1, 6, 8, 15}
  Programs <- Texts
INVARIANTS CTypeOK CompiledAgrees
PROPERTIES RunsRv32
CHECK_DEADLOCK FALSE
