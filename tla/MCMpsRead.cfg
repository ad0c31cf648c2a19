\* Two reads of one reader over the family of files.
CONSTANTS
    Files <- AllFiles
    Numeric <- Numbers
    Infinity = 1000
    MaxReads = 2
SPECIFICATION Spec
INVARIANTS
    MeansTheFile
    GoodFilesAreRead
    ErrorsNameTheLine
    RefusalsHaveCause
