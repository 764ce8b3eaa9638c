CONSTANTS
  Op = {o1, o2}
  None = None
  Specs  <- AllSpecs
  Docs   <- FewDocs
  Half = 4
  MaxCopies = 2
  Ordered = FALSE
SYMMETRY Symmetry
SPECIFICATION Spec
INVARIANTS
  OnlyMisuseCrashes
  UsermemFreed
