SPECIFICATION Spec
CONSTANTS
  Halves <- MCHalves
  Fulls <- MCFulls
INVARIANTS DecodesExactly ListingAgrees TextAgrees StatementAgrees ListingIsHarmless
CHECK_DEADLOCK FALSE
