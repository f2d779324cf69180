---------------------------- MODULE MCExecCalls -----------------------------
(***************************************************************************)
(* Four facilities of exec.library that share no state, one at a time:     *)
(* the initial state chooses which of them moves.                          *)
(***************************************************************************)
EXTENDS ExecChunks, ExecCause, ExecSetFunction, ExecPorts, TLC

CONSTANTS i1, i2, i3, i4, e1, e2, e3, h1, h2, low, m1, m2

VARIABLE part
allVars == <<part, chunksVars, causeVars, patchVars, portVars>>

\* Two runs of memory with a gap between them.
MCPool == <<[at |-> 1, bytes |-> 3], [at |-> 5, bytes |-> 2]>>

\* The ends of the range, a priority that rounds down and one that is refused.
MCln_Pri == [n \in Ints |-> IF n = i1 THEN -15 ELSE IF n = i2 THEN 1 ELSE IF n = i3 THEN -32 ELSE 33]
MCPri == [n \in Nodes |-> IF n = low THEN -1 ELSE 0]
MCLibOf == [e \in Entries |-> IF e = e3 THEN "made" ELSE "dos"]

\* Two messages, two entries and the hooks are interchangeable.
Symmetry == {a @@ b @@ c : a \in Permutations({m1, m2}), b \in Permutations({h1, h2}),
                           c \in Permutations({e1, e2})}

Init ==
  /\ part \in {"chunks", "cause", "patch", "ports"}
  /\ ChunksInit /\ CauseInit /\ PatchInit /\ PortsInit
  /\ part # "cause" => <<A5, A6>> = <<0, 0>>

Next ==
  \/ part = "chunks" /\ ChunksNext /\ UNCHANGED <<part, causeVars, patchVars, portVars>>
  \/ part = "cause" /\ CauseNext /\ UNCHANGED <<part, chunksVars, patchVars, portVars>>
  \/ part = "patch" /\ PatchNext /\ UNCHANGED <<part, chunksVars, causeVars, portVars>>
  \/ part = "ports" /\ PortsNext /\ UNCHANGED <<part, chunksVars, causeVars, patchVars>>

Spec == Init /\ [][Next]_allVars
=============================================================================
