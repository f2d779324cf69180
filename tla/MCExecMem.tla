----------------------------- MODULE MCExecMem ------------------------------
(***************************************************************************)
(* Three parts of the runtime that share no state, one at a time: memory   *)
(* calls on a heap of four small blocks, whose ends are not multiples of   *)
(* 4; code on two stacks of three bytes and of two; or three tasks with a  *)
(* tc_Switch and a tc_Launch, one of which calls hooks.                    *)
(***************************************************************************)
EXTENDS ExecMem, StackShadow, ExecTasks, TLC

CONSTANTS large, small, x, y, ctrlc

VARIABLE part
guestVars == <<part, memVars, stackVars, vars>>

mc_Sizes == {0, 5}
mc_Templates == {<<<<5, FALSE>>>>, <<<<8, TRUE>>, <<0, FALSE>>>>}
mc_Touched == {14, 17}
mc_Strays == {30}
mc_base == large :> 1 @@ small :> 5
mc_top == large :> 4 @@ small :> 7

\* A program that takes its other stack by hand uses two bytes of each.
Bounded == how = "move" => base[large] \notin {sp, away}

\* The tasks send no requests.
mc_NoPort == <<>>

GuestInit ==
  /\ part \in {"heap", "stacks", "tasks"}
  /\ MemInit /\ StackInit /\ Init
  /\ how = "move" => cur = large
  /\ part # "stacks" => how = "move"

GuestNext ==
  \/ part = "heap" /\ MemNext /\ UNCHANGED <<part, stackVars, vars>>
  \/ part = "stacks" /\ StackNext /\ Bounded' /\ UNCHANGED <<part, memVars, vars>>
  \/ part = "tasks" /\ Next /\ UNCHANGED <<part, memVars, stackVars>>

GuestSpec == GuestInit /\ [][GuestNext]_guestVars
Symmetry == Permutations(Sites)
=============================================================================
