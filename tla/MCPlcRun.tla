------------------------------- MODULE MCPlcRun -------------------------------
(***************************************************************************)
(* Instances of PlcRun for TLC: the RPC server and the shell as callers,   *)
(* the operations each of them offers, and sets of environment behaviours. *)
(***************************************************************************)
EXTENDS PlcRun

CONSTANTS Rpc, Shell, p1, p2

MCCallers == {Rpc, Shell}
RpcOnly == {Rpc}
MCPrograms == {p1, p2}
OneProgram == {p1}

\* StartPLC, StopPLC, RepairPLC and NewPLC of plc_rpc.c; the plc commands of
\* the shell.
AllOps ==
    [c \in Callers |-> IF c = Rpc THEN {"start", "stop", "repair", "newplc"}
                                  ELSE {"start", "stop", "unload", "load"}]

\* The calls that meet in the semaphore, and uploads between them.
RunOps ==
    [c \in Callers |-> IF c = Rpc THEN {"stop", "newplc"} ELSE {"start", "stop"}]

\* An upload and what a client does around it.
UploadOps == [c \in Callers |-> {"start", "newplc"}]

Disciplined == {}
Uploading == {"upload_running"}
Overlapping == EnvNames \ {"impatient"}
=============================================================================
