CONSTANTS
    p1 = p1
    p2 = p2
    Programs <- MCPrograms
    Extra = Extra
    Missing = Missing
    Chunks = 2
    MAX_FILE_UPLOADS = 3
    MaxOpen = 4
    MaxTransfers = 2
    Faults <- NoFaults

SPECIFICATION Spec

INVARIANTS
    BinIsProgram

CHECK_DEADLOCK FALSE
