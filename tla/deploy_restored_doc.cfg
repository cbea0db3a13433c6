SPECIFICATION Spec
CONSTANTS
  r1 = r1
  r2 = r2
  hub = hub
  sso = sso
  web = web
  db = db
  Run = {r1, r2}
  App = {hub}
  Name = {db}
  Services <- OneSmallApp
  SwarmApps = {hub}
  SchemaApps = {}
  Seconds = {s1}
  ClusterLock = cluster
  ClusterExcludes = TRUE
  Nobody = nobody
  MaxVersion = 3
SYMMETRY RunSymmetry
INVARIANT RestoredToRecordedSpec
CHECK_DEADLOCK FALSE
