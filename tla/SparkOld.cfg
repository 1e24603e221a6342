SPECIFICATION SafetySpec
CONSTANTS
  Slice <- MCSlice
  Coord <- MCCoord
  Sample = {"near", "far"}
  Intercept = 0
  Lambda = 3
  Kappa = 2
  Rho = 1
  RelTol = 20
  NIters = 8
  Descent <- MCDescent
  LossTerm <- MCLossTerm
  Norm <- MCNorm
  AbsPrimal <- MCAbsPrimal
  AbsDual <- MCAbsDual
  FirstSlice = 1
  Accelerated = FALSE
  Redraws = FALSE
  MaxLosses = 0
CHECK_DEADLOCK FALSE
INVARIANT RecordsAreTrue
PROPERTIES ImplementsADMMSafety
