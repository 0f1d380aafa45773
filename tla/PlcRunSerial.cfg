CONSTANTS
    Main = Main
    Loader = Loader
    Rpc = Rpc
    Shell = Shell
    p1 = p1
    p2 = p2
    NoProgram = NoProgram
    Callers <- MCCallers
    Ops <- AllOps
    Programs <- MCPrograms
    Env <- Disciplined

SPECIFICATION FairSpec

INVARIANTS
    TypeOK
    StopMeansStopped
    NoStaleCode
    OutputsOffWhenParked
    LoaderState

PROPERTIES
    ModuleChangesOnlyStopped
    ReloadServed
    ImplementsControl
    StopParks
    OutputsSettle
