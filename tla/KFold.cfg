SPECIFICATION SafetySpec
CONSTANTS
  a = a
  b = b
  c = c
  d = d
  e = e
  NSlices = 4
  FirstK = 2
  LastK = 3
  Id <- MCIds
  Outcome <- MCOutcome
  SolveJobs = 2
  MaxLosses = 1
CHECK_DEADLOCK FALSE
SYMMETRY Symmetry
INVARIANTS TypeOK HoldOut ValidatedOnce NoFailure
