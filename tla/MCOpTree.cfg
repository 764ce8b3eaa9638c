CONSTANTS
  Clause  <- MCClause
  Atom    <- MCAtom
  Queries <- MCQueries
  Depth   <- MCDepth
SPECIFICATION UseSpec
INVARIANTS
  OneOwner
  ValidCompiles
  StopsExplained
  NothingLeaks
  MatchMeaning
  FailFast
  DestroyIsSafe
