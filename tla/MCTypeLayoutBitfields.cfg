CONSTANTS
  Worlds <- MCWorlds
  Clash = "bitfields"

SPECIFICATION Spec

INVARIANTS
  NoOverlap

CHECK_DEADLOCK FALSE
