SPECIFICATION Spec
CONSTANTS
  p1 = p1
  p2 = p2
  Person = {p1}
  Web = web
  Offering <- ListedNames
  Rank <- Listed
  Builtin <- FirstPartyCatalog
  Packs <- TwoPacks
  Remotes <- Community
  EntryPoints = {}
  Messages <- Said
  Answers <- Replies
  NoAnswer = noanswer
  None = none
  MaxRequests = 2
  MaxRestarts = 1
INVARIANTS InstallsOnlyAsked
CHECK_DEADLOCK FALSE
