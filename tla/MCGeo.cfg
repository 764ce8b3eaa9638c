CONSTANTS
  Queries <- MCQueries
  Docs    <- MCDocs
  Bad       = 999
  MaxPoints = 6
SPECIFICATION Spec
INVARIANTS
  OpsInBounds
  NearByDistance
  WithinMeaning
  NearLine
  StopsExplained
