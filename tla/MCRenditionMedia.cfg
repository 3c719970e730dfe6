SPECIFICATION MediaSpec
CONSTANTS
  Rendition = {"360p", "720p"}
  Dimension <- MCDimension
  Length = {0, 3, 5, 6}
  Seconds = {0, 2, 3}
  MaxReferences = 2
  SourceLimit = 5
  ReadLimit = 5
  U32Max = 15
INVARIANTS
  SuccessfulEncodeAccepted
  VariantTruthful
  ClaimsConfirmed
CHECK_DEADLOCK FALSE
