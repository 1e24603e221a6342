SPECIFICATION Spec
CONSTANTS
  Slice <- MCSlice
  Coord <- MCCoord
  Sample = {"near", "far"}
  Intercept = 0
  Lambda = 3
  Kappa = 2
  Rho = 1
  RelTol = 20
  NIters = 2
  Descent <- MCDescent
  LossTerm <- MCLossTerm
  Norm <- MCNorm
  AbsPrimal <- MCAbsPrimal
  AbsDual <- MCAbsDual
  FirstSlice = 1
  Accelerated = TRUE
  Redraws = FALSE
  MaxLosses = 1
CHECK_DEADLOCK FALSE
INVARIANTS TypeOK LineageInv RefinementInv ResidualsMatch RecordsAreTrue
PROPERTIES ImplementsADMM RebuildSame
