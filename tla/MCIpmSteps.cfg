CONSTANTS
    Unit = 500
    Inf = 1000000000
    Requests <- AllCalls
    Nonlinear <- SquaresAt
    Hessian <- SquaresHessian
    LinearAnswers <- BackendAnswers
    PrimalTol = 40
    DualTol = 40
    MuFloor = 1
    MarginFloor = 1
    MarginParts = 1000
    SideMargin = 1
    Attempts = 6
    FilterParts = 10000
    TimeLimited = TRUE
    GridPoints <- Lattice
    RoundOff = 5
SPECIFICATION Spec
INVARIANTS
    StaysInterior
    HessianSeesMultipliers
    LocallyOptimalIsKkt
    ConvexIsSolved
