CONSTANTS
  Members <- MCList
  Root = "List"
  Instance = 1
  Memories <- MCReferredLists
  TextBlobs = {}
  HeaderSize = 1
  HeaderCells = 2
  BufferSizes = {0, 1, 2, 7}
  LastCell = 16
  StoreAgain = TRUE
SPECIFICATION Spec
INVARIANTS
  InstanceKept
  WellFormed
  SharedStrings
  BlobRestored
  NeededSizeFits
PROPERTIES
  WritesForChain
  StoreEnds
CHECK_DEADLOCK FALSE
