CONSTANTS
    b1 = b1
    b2 = b2
    Images <- MCImages
    Blocks <- MCBlocks
    Required <- MCRequired
    Exports <- MCExports
    Env = {}

SPECIFICATION Spec

SYMMETRY BlocksAlike

INVARIANTS
    TypeOK
    LinkedRight
    PointersLive
    HeapIsModule
    NoOverrun
