CONSTANTS
  Null = Null
  None = None
  Nobody = Nobody
  Generic = "generic"
  Accepted  <- MCAccepted
  Stemmers  <- MCStemmers
  Stem      <- MCStem
  Stops     <- MCStops
  Dicts     <- MCDicts
  Installed <- MCInstalled
  Spelled   <- MCSpelled
  Specs     <- MCSpecs
  Docs      <- MCDocs
SPECIFICATION Spec
INVARIANTS
  TextMeaning
  RangeMeaning
  SealMeaning
  StopsOnlyIf
  NothingLost
