SPECIFICATION FairSpec
CONSTANTS
  r1 = r1
  r2 = r2
  c1 = c1
  c2 = c2
  sso = sso
  ca = ca
  shared = shared
  f1 = f1
  f2 = f2
  Run = {r1}
  Cluster = {c1, c2}
  SwarmClusters = {c2}
  Service = {sso}
  Profile <- TwoClusterProfiles
  File = {f1, f2}
  LedgerOf <- LedgerPerCluster
  ListedWith <- ListedAlone
  SilentFailures = FALSE
  Absent = absent
  Torn = torn
  NoContext = noContext
  MaxMishaps = 2
PROPERTIES ResumeCompletes
