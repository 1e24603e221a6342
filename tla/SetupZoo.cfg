SPECIFICATION SafetySpec
CONSTANTS
  m1 = m1
  m2 = m2
  s1 = s1
  z1 = z1
  ACTIVE_MASTER = m1
  OTHER_MASTERS <- MCOtherMasters
  SLAVES <- MCSlaves
  ZOOS <- MCZoos
  MaxTries = 2
  MaxRounds = 2
  MaxFaults = 1
CHECK_DEADLOCK FALSE
INVARIANTS ZooKeepersAreSetUp
