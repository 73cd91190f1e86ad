SPECIFICATION Spec
CONSTANTS
  Span = 2
  Slots = 2
  DoCore = TRUE
  Half <- MCHalf
  Full <- MCFull
  NoCode <- MCNoCode
  Decomp <- MCDecomp
  Vliws <- MCVliws
  Nop <- MCNop
  Unknown <- MCUnknown
  Table <- MCTable
  Hashes <- MCHashes
  HashIt <- MCHashIt
  Empty <- MCEmpty
INVARIANTS HashCoherent FilledWhenFetched
PROPERTIES NewCodeSeen
CHECK_DEADLOCK FALSE
