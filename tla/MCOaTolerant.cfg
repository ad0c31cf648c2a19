SPECIFICATION Spec
CONSTANTS
  Unit = 4
  Inf = 10000
  NumVars = 1
  Upper = 8
  Values <- GridValues
  Models <- SplitModels
  PrimalTol = 1
  IntTol = 1
  AbsTol = 8
  RelNum = 0
  RelDen = 1
  MaxIterations = 3
  NodeLimit = 1
  TimeLimited = TRUE
  DualValues <- OriginBelow
  FailureStatuses = {"IterationLimit"}
  Slacks <- SlackEpigraphs
  DualExcess <- SlackDuals
INVARIANTS
  OaTypeOK
  OaIncumbentFeasible
  OaDualBoundHolds
  OaOptimalIsOptimal
PROPERTIES
  CandidatesAreNew
