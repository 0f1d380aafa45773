------------------------------ MODULE MCPlcDebug ------------------------------
(***************************************************************************)
(* Instances of PlcDebug for TLC: sets of calls.                           *)
(***************************************************************************)
EXTENDS PlcDebug

\* One run of the PLC, its trace list never changed.
Tracing == {"start", "get"}
Everything == OpNames
=============================================================================
