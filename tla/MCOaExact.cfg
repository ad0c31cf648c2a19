SPECIFICATION FairSpec
CONSTANTS
  Unit = 2
  Inf = 10000
  NumVars = 2
  Upper = 2
  Values <- GridValues
  Models <- SplitModels
  PrimalTol = 0
  IntTol = 0
  AbsTol = 0
  RelNum = 0
  RelDen = 1
  MaxIterations = 2
  NodeLimit = 1
  TimeLimited = TRUE
  DualValues = {}
  FailureStatuses = {}
  Slacks = {0}
  DualExcess <- ExactDuals
INVARIANTS
  MastersRelax
  InfeasibleIsNotProof
PROPERTIES
  OaTermination
