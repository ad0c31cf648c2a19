SPECIFICATION FairSpec
CONSTANTS
  Unit = 4
  Inf = 1000
  NumVars = 2
  Values <- TolerantValues
  Models <- TolerantModels
  PrimalTol = 1
  IntTol = 1
  AbsTol = 8
  RelNum = 1
  RelDen = 8
  NodeLimit = 5
  TimeLimited = FALSE
  MostFractionalNodes = 2
  MinReliable = 1
  DualValues <- SlackDuals
  StrayPoints <- OutsidePoints
  FailureStatuses = {"Unbounded", "IterationLimit"}
  InexactStatuses = {"Feasible"}
  InexactBounds = FALSE
  CutTol = 0
  CutOffers <- OfferedCuts
INVARIANTS
  IncumbentFeasible
  Coverage
  OptimalIsOptimal
  NodesAreBounded
PROPERTIES
  Termination
  PromiseKept
