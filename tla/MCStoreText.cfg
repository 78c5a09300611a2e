CONSTANTS
  Members <- MCText
  Root = "Text"
  Instance = 1
  Memories <- MCNoMemory
  TextBlobs <- MCTextBlobs
  HeaderSize = 1
  HeaderCells = 1
  BufferSizes = {13}
  LastCell = 12
  StoreAgain = TRUE
SPECIFICATION Spec
INVARIANTS
  UnpackedTwice
CHECK_DEADLOCK FALSE
