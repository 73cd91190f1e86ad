SPECIFICATION Spec
CONSTANTS
  Span = 3
  Slots = 2
  DoCore = FALSE
  Half <- MCHalf
  Full <- MCFull
  NoCode <- MCNoCode
  Decomp <- MCDecomp
  Vliws <- MCVliws
  Nop <- MCNop
  Unknown <- MCUnknown
  Table <- MCTable
  Hashes <- MCHashes
  HashIt <- MCHashIt
  Empty <- MCEmpty
PROPERTIES ExecutesItsOwn
CHECK_DEADLOCK FALSE
