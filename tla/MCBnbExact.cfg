SPECIFICATION FairSpec
CONSTANTS
  Unit = 2
  Inf = 1000
  NumVars = 2
  Values <- MCValues
  Models <- MCFamily
  PrimalTol = 0
  IntTol = 0
  AbsTol = 0
  RelNum = 0
  RelDen = 1
  NodeLimit = 6
  TimeLimited = TRUE
  MostFractionalNodes = 2
  MinReliable = 1
  DualValues = {}
  StrayPoints = {}
  FailureStatuses = {"Unbounded", "IterationLimit"}
  InexactStatuses = {}
  InexactBounds = FALSE
  CutTol = 0
  CutOffers <- OfferedCuts
INVARIANTS
  TypeOK
  BoxesNonEmpty
  OpenBoxesDisjoint
  BoundsValid
  InfeasibleIsInfeasible
  ReportedBoundHolds
PROPERTIES
  LowestBoundNeverFalls
