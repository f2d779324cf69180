---------------------------- MODULE MCExecShared ----------------------------
(***************************************************************************)
(* What tasks share by name, one at a time: the semaphores of              *)
(* ExecSemaphores, or the libraries of ExecLibs.  The initial state        *)
(* chooses which of the two moves.                                         *)
(***************************************************************************)
EXTENDS ExecSemaphores, ExecLibs, TLC

CONSTANTS t1, t2, s1, s2, x, px, y, z, w, v, fx, fy, fz, fw, fv, a1, a2, a3, seg1, seg2, seg3

VARIABLE part
sharedVars == <<part, vars, libsVars>>

MCPri == s1 :> 0 @@ s2 :> 5
MCLists == {<<s1, s2>>}
MCFileOf == x :> fx @@ px :> fx @@ y :> fy @@ z :> fz @@ w :> fw @@ v :> fv
MCLnName == fx :> x @@ fy :> y @@ fz :> z @@ fw :> w @@ fv :> v

SharedInit ==
  /\ part \in {"locks", "libs"}
  /\ Init /\ LibsInit
  /\ part = "libs" => fields = <<[s \in Sems |-> 0], [s \in Sems |-> NoTask], [s \in Sems |-> 0]>>

SharedNext ==
  \/ part = "locks" /\ Next /\ UNCHANGED <<part, libsVars>>
  \/ part = "libs" /\ LibsNext /\ UNCHANGED <<part, vars>>

SharedSpec == SharedInit /\ [][SharedNext]_sharedVars
Symmetry == Permutations(Addrs) \union Permutations(BPtrs)
=============================================================================
