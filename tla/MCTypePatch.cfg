CONSTANTS
  Members <- MCMembers
  Root = "List"
  Instance = 1
  Memories <- MCMemories
  TextBlobs = {}
  HeaderSize = 1
  HeaderCells = 1
  BufferSizes = {22}
  LastCell = 21
  StoreAgain = FALSE
  HalfRange = 4
  SizeRange = 22
  Distance <- MCDistance
  Leftovers = {0}
SPECIFICATION TypePatchSpec
INVARIANTS
  LoadsByType
PROPERTIES
  KeepsPromise
CHECK_DEADLOCK FALSE
