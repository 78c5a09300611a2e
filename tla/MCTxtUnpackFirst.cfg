CONSTANTS
  Members <- MCMembers
  Unions <- MCUnions
  Root = "Doc"
  Instances <- MCInstances
  Nested = 3
  NodeFirst = TRUE

SPECIFICATION Spec

INVARIANTS
  TextPacks

CHECK_DEADLOCK FALSE
