SPECIFICATION SafetySpec
CONSTANTS
  a = a
  b = b
  c = c
  Proc <- MCThree
  AtOnce = 2
  NumSlaves = 1
  NumMasters = 1
  NumZoo = 1
  NumRules <- MCRules
  CommandLine <- MCNoResume
  MaxFailures = 1
CHECK_DEADLOCK FALSE
SYMMETRY Symmetry
INVARIANTS TypeOK OneCluster DestroyedForGood GroupsSettle SlavesAreMine
