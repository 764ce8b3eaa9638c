CONSTANTS
  Keys       <- MCKeys
  Value      <- MCValue
  ValueDepth <- MCValueDepth
  Docs       <- MCDocs
  Commands   <- MCCommands
SPECIFICATION Spec
INVARIANTS
  OnePathComplete
  FoundinUnion
  UnwindIsSome
  RedactionKeeps
  FreedOnce
  CrashExplained
