SPECIFICATION Spec
CONSTANTS
  Functions <- MCFunctions
  OTHERS = TRUE
  MaxCalls = 3
  MaxEdits = 2
  MaxLaunches = 2
  MaxFaults = 1
CHECK_DEADLOCK FALSE
INVARIANTS TypeOK ReturnsOwnResults LeavesNothingRunning
