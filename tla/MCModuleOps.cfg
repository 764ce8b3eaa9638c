CONSTANTS
  Op = {o1, o2}
  None = None
  Specs  <- CompleteSpecs
  Docs   <- MCDocs
  Half = 4
  MaxCopies = 2
  Ordered = TRUE
SPECIFICATION FairSpec
INVARIANTS
  AnswerMeaning
PROPERTIES
  Protocol
  MatchEnds
