CONSTANTS
    Main = Main
    Debug = Debug
    Rpc = Rpc
    NoThread = NoThread
    Ops <- Everything
    Sliced = FALSE
    Wraps = FALSE
    MaxToken = 2
    MaxSamples = 2

SPECIFICATION FairSpec

INVARIANTS
    TypeOK
    SamplesMatchToken

PROPERTIES
    OneDebugThread
    RpcReturns
    CyclesGoOn
