CONSTANTS
  Worlds <- MCWorlds
  Clash = "none"

SPECIFICATION Spec

INVARIANTS
  WellFormed
  LaidOutAsDeclared
  ReferencesMarked

CHECK_DEADLOCK FALSE
