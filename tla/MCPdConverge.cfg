CONSTANTS
    Unit = 1000
    Inf = 1000000000
    Requests <- AllCalls
    PrimalTol = 3
    DualTol = 3
    ActiveFloor = 1
    IterationLimit = 300
    CheckInterval = 50
    TimeLimited = TRUE
    GridPoints <- Lattice
    Directions <- SmallDirections
    RoundOff = 6
SPECIFICATION Spec
INVARIANTS
    StepsConverge
    OptimalIsFeasible
    DualsAreStationary
    GapWithinComplementarity
    RegularMatricesAreJudged
