SPECIFICATION SafetySpec
CONSTANTS
  a = a
  b = b
  c = c
  d = d
  e = e
  NSlices = 4
  FirstK = 2
  LastK = 3
  Id <- MCIds
  Outcome <- MCOutcomes
  SolveJobs = 2
  MaxLosses = 0
CHECK_DEADLOCK FALSE
SYMMETRY Symmetry
INVARIANT WeightIsSuccessRate
