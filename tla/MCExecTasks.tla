---------------------------- MODULE MCExecTasks ----------------------------
(* Small instances of ExecTasks for TLC. *)
EXTENDS ExecTasks, TLC

CONSTANTS ctrlc, sigA, r1, r2

\* Every request replies to the main task with sigA.
MCSigTask == [r \in Reqs |-> Main]
MCSigBit == [r \in Reqs |-> sigA]
=============================================================================
