CONSTANTS
    Main = Main
    Loader = Loader
    Rpc = Rpc
    Shell = Shell
    p1 = p1
    p2 = p2
    NoProgram = NoProgram
    Callers <- MCCallers
    Ops <- RunOps
    Programs <- OneProgram
    Env <- Overlapping

SPECIFICATION FairSpec

PROPERTIES
    StartRuns
    CallsReturn
