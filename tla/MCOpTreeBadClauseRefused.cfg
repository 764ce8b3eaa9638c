CONSTANTS
  Clause  <- MCClause
  Atom    <- MCAtom
  Queries <- MCQueries
  Depth   <- MCDepth
SPECIFICATION UseSpec
INVARIANT BadClauseRefused
