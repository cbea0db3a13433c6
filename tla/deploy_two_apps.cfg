SPECIFICATION Spec
CONSTANTS
  r1 = r1
  r2 = r2
  hub = hub
  sso = sso
  web = web
  db = db
  Run = {r1, r2}
  App = {hub, sso}
  Name = {web, db}
  Services <- TwoApps
  SwarmApps = {hub, sso}
  SchemaApps = {sso}
  Seconds = {s1}
  ClusterLock = cluster
  ClusterExcludes = TRUE
  Nobody = nobody
  MaxVersion = 2
SYMMETRY RunSymmetry
INVARIANTS UpdatedMeansRestored OwnRecordFile DeployInv
PROPERTIES RollbackIsJustified
CHECK_DEADLOCK FALSE
