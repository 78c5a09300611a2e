CONSTANTS
  Encoders = {"store", "txt"}
  BufferSize <- MCBufferSize
  HeaderOffset <- MCHeaderOffset
  WordSize <- MCWordSize
  HalfRange <- MCHalfRange
  SizeRange <- MCSizeRange
  Base <- MCBase
  DamagedWords <- MCDamagedWords
SPECIFICATION Spec
INVARIANTS
  ChainInv
  StoreLoadPatchesAll
  OnlyPointersPatched
  OwnBlobsAccepted
  TxtLoadPatchesFromFirst
PROPERTIES
  KeepsPromise
  WalkGoesUp
  LoadEnds
CHECK_DEADLOCK FALSE
