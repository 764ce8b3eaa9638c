CONSTANTS
  Keys  <- MCKeys
  Value <- MCValue
  Documents <- MCDocuments
  Paths <- MCPaths
  Positions = {"0", "1", "2"}
SPECIFICATION LoopSpec
INVARIANTS
  ShownRight
  SomeFound
  FlatComplete
PROPERTIES
  LoopEnds
