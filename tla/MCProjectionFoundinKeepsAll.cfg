CONSTANTS
  Keys       <- MCKeys
  Value      <- MCValue
  ValueDepth <- MCValueDepth
  Docs       <- MCDocs
  Commands   <- MCCommands
SPECIFICATION Spec
INVARIANT FoundinKeepsAll
