CONSTANTS
    Programs <- AllPrograms
    Block = 4
    IntMax = 10
    NaN <- NotANumber
    Garbage = 777777
    Faults = TRUE
SPECIFICATION Spec
INVARIANTS
    ResultsAreTotals
    NoDataRace
PROPERTIES
    CallsReturn
