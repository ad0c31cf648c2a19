CONSTANTS
    Unit = 1000
    Inf = 1000000000
    Requests <- OvershootCall
    PrimalTol = 3
    DualTol = 3
    ActiveFloor = 1
    IterationLimit = 300
    CheckInterval = 50
    TimeLimited = FALSE
    GridPoints <- Lattice
    Directions <- SmallDirections
    RoundOff = 5
SPECIFICATION Spec
INVARIANTS
    OptimalIsComplementary
