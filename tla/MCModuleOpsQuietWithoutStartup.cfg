CONSTANTS
  Op = {o1}
  None = None
  Specs  <- CompleteSpecs
  Docs   <- FewDocs
  Half = 4
  MaxCopies = 2
  Ordered = FALSE
SPECIFICATION Spec
INVARIANT QuietWithoutStartup
