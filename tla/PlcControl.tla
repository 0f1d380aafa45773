------------------------------ MODULE PlcControl ------------------------------
(***************************************************************************)
(* What the life cycle of the PLC program promises to those who control    *)
(* it: a program is started only when one is loaded, plc_main executes     *)
(* only while the PLC is started, and the program is replaced or removed   *)
(* only while the PLC is stopped and plc_main does not execute.            *)
(***************************************************************************)
CONSTANTS Programs, NoProgram

VARIABLES
    started,    \* a start was called for and the end of its run not yet reported
    executing,  \* plc_main is outside its wait for the run signal
    program     \* the loaded program

vars == <<started, executing, program>>

Init == started = FALSE /\ executing = FALSE /\ program = NoProgram

Start ==
    /\ ~started /\ program # NoProgram
    /\ started' = TRUE
    /\ UNCHANGED <<executing, program>>

\* plc_main enters and leaves its run while the PLC is started.
Execute ==
    /\ started
    /\ executing' = ~executing
    /\ UNCHANGED <<started, program>>

\* The stop is complete only with plc_main back at its wait.
Stop ==
    /\ started
    /\ started' = FALSE
    /\ executing' = FALSE
    /\ UNCHANGED program

Replace ==
    /\ ~started /\ ~executing
    /\ program' \in Programs \cup {NoProgram}
    /\ UNCHANGED <<started, executing>>

Next == Start \/ Execute \/ Stop \/ Replace

Spec == Init /\ [][Next]_vars
=============================================================================
