SPECIFICATION Spec
CONSTANTS
  a = a
  b = b
  c = c
  Proc <- MCTwo
  AtOnce = 2
  NumSlaves = 1
  NumMasters = 2
  NumZoo = 1
  NumRules <- MCOneRule
  CommandLine <- MCNoSpot
  MaxFailures = 0
CHECK_DEADLOCK FALSE
PROPERTIES EndsOrRetries EndsAlone
