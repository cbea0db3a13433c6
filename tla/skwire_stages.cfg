SPECIFICATION Spec
CONSTANTS
  r1 = r1
  r2 = r2
  resolve = resolve
  mint = mint
  wire = wire
  Run = {r1, r2}
  Stages <- ThreeStages
  Absent = absent
  Torn = torn
  MaxMishaps = 2
SYMMETRY RunSymmetry
INVARIANTS StagesInv
PROPERTIES ImplementsResumable
