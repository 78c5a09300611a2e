CONSTANTS
  Members <- MCMembers
  Unions <- MCUnions
  Sizes <- MCSizes
  Aligns <- MCAligns
  Root = "Set"
  Blobs <- MCBlobs
  HeaderCells = 6
  HalfRange <- MCHalfRange
  WordBits = 8
  LastCell = 64
  MaxCalls = 2
  BothForeign = FALSE
  Depth = 8

SPECIFICATION Spec

INVARIANTS
  ConvertedMeansSame
  WellFormed
  RoundTripExact
  NeededSizeFits
  RefusedForUnions

PROPERTIES
  ConvertEnds

CHECK_DEADLOCK FALSE
