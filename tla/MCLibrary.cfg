CONSTANTS
  word = word
  broken = broken
  lower = lower
  upper = upper
  h1 = h1
  h2 = h2
  h3 = h3
  o1 = o1
  o2 = o2
  Null = Null
  Refused = Refused
  Invalid = Invalid
  Pattern <- MCPattern
  Subject <- MCSubject
  Valid   <- MCValid
  Accepts <- MCAccepts
  Regex   <- OnceEach
  Object  <- MCObject
  Handle  <- MCHandle
SPECIFICATION LibSpec
INVARIANTS
  LibTypeOK
  HandlesOwned
  ReadyHasHandle
PROPERTIES
  Stateless
CHECK_DEADLOCK FALSE
