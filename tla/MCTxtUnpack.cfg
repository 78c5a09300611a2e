CONSTANTS
  Members <- MCMembers
  Unions <- MCUnions
  Root = "Doc"
  Instances <- MCInstances
  Nested = 3
  NodeFirst = FALSE

SPECIFICATION Spec

INVARIANTS
  TextMeansInstance
  TextPacks

PROPERTIES
  UnpackEnds

CHECK_DEADLOCK FALSE
