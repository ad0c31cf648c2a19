CONSTANTS
    Scalars <- Residues
    Zero = 0
    One = 1
    Plus <- Add
    Minus <- Subtract
    Times <- Multiply
    Over <- Divide
    Requests <- AllRequests
    Matrices <- SquareMatrices
    Apply <- MatVec
    Dot <- Inner
    Norm <- Largest
    Probes <- ProbeVectors
SPECIFICATION Spec
INVARIANTS
    ReportedResidualIsTrue
    EndsWithinDimension
    CsrIsTheMatrix
