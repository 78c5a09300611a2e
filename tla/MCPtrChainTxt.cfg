CONSTANTS
  Encoders = {"txt"}
  BufferSize <- MCBufferSize
  HeaderOffset <- MCHeaderOffset
  WordSize <- MCWordSize
  HalfRange <- MCHalfRange
  SizeRange <- MCSizeRange
  Base <- MCBase
  DamagedWords = {}
SPECIFICATION Spec
INVARIANTS
  TxtLoadPatchesAll
CHECK_DEADLOCK FALSE
