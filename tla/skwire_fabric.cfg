SPECIFICATION Spec
CONSTANTS
  j1 = j1
  j2 = j2
  media = media
  dash = dash
  prowlarr = prowlarr
  sonarr = sonarr
  homepage = homepage
  k1 = k1
  k3 = k3
  Job = {j1, j2}
  Pack = {media, dash}
  Node = {prowlarr, sonarr, homepage}
  Key = {k1, k3}
  Nodes <- PackNodes
  Needs <- PackNeeds
  Method <- NodeMethod
  Rank <- Sorted
  Routings <- ByKind
  Injectors = {"file", "record"}
  Rotated <- EachOrAll
  Torn = torn
  NoPlan = noplan
  MaxRuns = 2
  MaxMishaps = 1
SYMMETRY JobSymmetry
INVARIANTS WiredTogether GivenAsPlanned FabricInv
