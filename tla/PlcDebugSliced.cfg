CONSTANTS
    Main = Main
    Debug = Debug
    Rpc = Rpc
    NoThread = NoThread
    Ops <- Tracing
    Sliced = TRUE
    Wraps = TRUE
    MaxToken = 2
    MaxSamples = 2

SPECIFICATION Spec

INVARIANTS
    CycleExclusion
