CONSTANTS
  Members <- MCMembers
  Size <- MCSize
  Root = "Doc"
  Texts <- MCTexts
  Hash <- MCHash
  Typing <- MCTyping
  HeaderCells = 1
  LastCell = 38
SPECIFICATION Spec
INVARIANTS
  TextKept
  WellFormed
  PointersRecorded
  NeededSizeFits
  RefusedForFaults
PROPERTIES
  PackEnds
CHECK_DEADLOCK FALSE
