CONSTANTS
  Value <- AllValue
  ValueDepth <- Depths
  Ops   <- MCOps
  Docs  <- MCDocs
  None = None
  NaN = NaN
  Exact = 4
SPECIFICATION Spec
INVARIANTS
  AnyValueWill
  SizeCountsAll
  TablesAgree
  InsetIsIn
