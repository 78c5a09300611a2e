CONSTANTS
  Texts <- MCTexts
  Builtins <- MCBuiltins
  BadValues <- MCBadValues
  MaxFiles = 2
  MaxLoads = 2
SPECIFICATION Spec
INVARIANTS
  TypeOK
  TypesKept
  EnumsKept
  LaterMetadataKept
PROPERTIES
  EarlierKept
CHECK_DEADLOCK FALSE
