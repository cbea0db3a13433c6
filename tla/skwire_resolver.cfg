SPECIFICATION FairSpec
CONSTANTS
  MaxNodes = 4
  Name <- Names
INVARIANTS ProvidersFirst Verdict ResolverInv
PROPERTIES Terminates
CHECK_DEADLOCK FALSE
