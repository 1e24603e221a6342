SPECIFICATION Spec
CONSTANTS
  Slice <- MCSlice
  Coord <- MCCoord
  Sample <- MCSample
  Intercept = 0
  Lambda = 3
  Kappa = 2
  Rho = 1
  RelTol = 20
  NIters = 4
  Descent <- MCDescent
  LossTerm <- MCLossTerm
  Norm <- MCNorm
  AbsPrimal <- MCAbsPrimal
  AbsDual <- MCAbsDual
CHECK_DEADLOCK FALSE
INVARIANTS TypeOK DualsBalanced
PROPERTIES Returns
