CONSTANTS
    p1 = p1
    p2 = p2
    Programs <- MCPrograms
    Extra = Extra
    Missing = Missing
    Chunks = 2
    MAX_FILE_UPLOADS = 6
    MaxOpen = 2
    MaxTransfers = 3
    Faults <- Failing

SPECIFICATION Spec

INVARIANTS
    TypeOK
    BinIsProgram
    SuccessMeansInstalled
    NoFileMisuse

PROPERTIES
    ChunksAccepted
