SPECIFICATION Spec
CONSTANTS
  j1 = j1
  j2 = j2
  Job = {j1, j2}
  Script <- Scripts
  Plan <- Plans
  Scenes <- Together
  Stock <- MayBeThere
  Fixed <- Shipped
  Unique <- OneOnly
  Links <- Linked
  Apps <- Applications
  Counting = {"wire"}
  MaxGen = 4
  MaxEvents = 3
  MaxEdits = 1
INVARIANTS ProvisionInv ExitMeansInPlace MadeOnce OneAccountPerKey LinkInv OnceInv InPlaceInv
PROPERTIES ProviderKept
CHECK_DEADLOCK FALSE
