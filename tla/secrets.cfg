SPECIFICATION Spec
CONSTANTS
  p1 = p1
  p2 = p2
  old = old
  fresh = fresh
  s1 = s1
  s2 = s2
  k1 = k1
  k2 = k2
  Caller = {p1, p2}
  Backend = {old, fresh}
  Scope = {s1, s2}
  Key = {k1, k2}
  Deployments <- Pairs
  Filled <- InUse
  None = none
  Torn = torn
  MaxCalls = 2
  MaxFaults = 2
SYMMETRY SecretSymmetry
INVARIANTS SecretsInv ScopesKept CopyInv MigratedWhole
CHECK_DEADLOCK FALSE
