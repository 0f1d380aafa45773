CONSTANTS
    Main = Main
    Loader = Loader
    Rpc = Rpc
    Shell = Shell
    p1 = p1
    p2 = p2
    NoProgram = NoProgram
    Callers <- RpcOnly
    Ops <- UploadOps
    Programs <- OneProgram
    Env <- Uploading

SPECIFICATION Spec

INVARIANTS
    NoStaleCode
