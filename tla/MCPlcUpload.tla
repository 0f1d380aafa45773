----------------------------- MODULE MCPlcUpload -----------------------------
(***************************************************************************)
(* Instances of PlcUpload for TLC.                                         *)
(***************************************************************************)
EXTENDS PlcUpload

CONSTANTS p1, p2

MCPrograms == {p1, p2}

\* Everything fails but the rename of the program.
Failing == FaultNames \ {"rename_bin"}
NoFaults == {}
=============================================================================
