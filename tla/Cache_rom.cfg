SPECIFICATION Spec
CONSTANTS
  Span = 3
  Slots = 4
  DoCore = FALSE
  Half <- MCHalf
  Full <- MCFull
  NoCode <- MCNoCode
  Decomp <- MCDecomp
  Vliws <- MCVliws
  Nop <- MCNop
  Unknown <- MCUnknown
  Table <- MCTable
  Hashes <- MCHashes
  HashIt <- MCHashIt
  Empty <- MCEmpty
INVARIANTS TypeOK HashCoherent SlotCoherent
PROPERTIES RunsText
CHECK_DEADLOCK FALSE
