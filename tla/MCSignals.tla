------------------------------ MODULE MCSignals ------------------------------
(* Small instances for TLC of what ends in a signal to a task: the calls of *)
(* ExecTasks, and the socket events of BsdSockets, one at a time.           *)
EXTENDS MCExecTasks, BsdSockets

CONSTANTS h1, h2
VARIABLE part
signalVars == <<part, vars, socketVars>>

SignalsInit == part \in {"tasks", "sockets"} /\ Init /\ SocketsInit

SignalsNext ==
  \/ part = "tasks" /\ Next /\ UNCHANGED <<part, socketVars>>
  \/ part = "sockets" /\ SocketsNext /\ UNCHANGED <<part, vars>>

SignalsSpec == SignalsInit /\ [][SignalsNext]_signalVars
Symmetry == Permutations(Hosts)
=============================================================================
