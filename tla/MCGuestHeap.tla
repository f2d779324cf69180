---------------------------- MODULE MCGuestHeap -----------------------------
(***************************************************************************)
(* Two parts of the runtime that share no state, one at a time: the heap   *)
(* on a few words of memory, whose ends are not multiples of 4, or two     *)
(* tasks with timer requests that reply to the main task.                  *)
(***************************************************************************)
EXTENDS GuestHeap, ExecTasks, TLC

CONSTANTS ctrlc, sigA, r1, r2

VARIABLE part
runtimeVars == <<part, heapVars, vars>>

mc_MaxWord == 63
mc_Start == 6
mc_End == 31
\* Sizes as AllocMem rounds them, a size that is not rounded, one whose
\* requested size is larger than it, and one near the last word.
mc_Requests == {<<4, 3>>, <<7, 9>>, <<60, 60>>}
mc_Strays == {12}
\* A range like the debug port's (two bytes at a multiple of 4), and one that
\* runs past the last word.
mc_Reservations == {<<16, 2>>, <<60, 8>>}

\* Every request replies to the main task with sigA.
mc_SigTask == [r \in Reqs |-> Main]
mc_SigBit == [r \in Reqs |-> sigA]

RuntimeInit == part \in {"heap", "tasks"} /\ HeapInit /\ Init

Tasking(step) == part = "tasks" /\ step /\ UNCHANGED <<part, heapVars>>

RuntimeNext ==
  \/ part = "heap" /\ HeapNext /\ UNCHANGED <<part, vars>>
  \/ Tasking(Next)

\* ExecTasks's fairness, FairSpec.
RuntimeSpec ==
  /\ RuntimeInit /\ [][RuntimeNext]_runtimeVars
  /\ WF_runtimeVars(Tasking(WaitLoop)) /\ WF_runtimeVars(Tasking(ExitLoop))
=============================================================================
