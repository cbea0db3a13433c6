SPECIFICATION Spec
CONSTANTS
  r1 = r1
  r2 = r2
  c1 = c1
  c2 = c2
  sso = sso
  ca = ca
  shared = shared
  f1 = f1
  f2 = f2
  Run = {r1, r2}
  Cluster = {c1}
  SwarmClusters = {}
  Service = {sso, ca}
  Profile <- OneProfile
  File = {f1}
  LedgerOf <- OneLedger
  ListedWith <- ListedAlone
  SilentFailures = TRUE
  Absent = absent
  Torn = torn
  NoContext = noContext
  MaxMishaps = 1
SYMMETRY RunSymmetry
INVARIANTS CompleteMeansDeployed SkbloomInv
PROPERTIES ImplementsResumable
