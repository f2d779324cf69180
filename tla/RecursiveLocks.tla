--------------------------- MODULE RecursiveLocks ---------------------------
(***************************************************************************)
(* What a set of recursive shared/exclusive locks promises to the tasks    *)
(* that use them, without counters, owner fields or queues.  A lock is     *)
(* free, exclusive to one task, or shared; a grant is a pair <<task,       *)
(* hold>>, a task having as many grants of a lock as it made successful    *)
(* calls not yet released.  A call on a list of locks grants the locks of  *)
(* a subset and, when it could not go on, says so.                         *)
(***************************************************************************)
CONSTANTS Tasks, Locks, Holds

VARIABLES
  mode,     \* Locks -> {"free", "exclusive", "shared"}
  grants,   \* Locks -> SUBSET (Tasks \X Holds)
  outcome   \* how the last call ended

vars == <<mode, grants, outcome>>

Mode == {"exclusive", "shared"}

Holders(l) == {g[1] : g \in grants[l]}

Available(l, t, m) ==
  \/ mode[l] = "free"
  \/ mode[l] = "shared" /\ m = "shared"
  \/ mode[l] = "exclusive" /\ Holders(l) \subseteq {t}

Init ==
  /\ mode = [l \in Locks |-> "free"]
  /\ grants = [l \in Locks |-> {}]
  /\ outcome = "ok"

\* Task t is granted every lock of S; it is refused only for a lock that is
\* not available to it.
Obtain(t, S, m) ==
  /\ \A l \in S : Available(l, t, m)
  /\ mode' = [l \in Locks |-> IF l \in S /\ mode[l] = "free" THEN m ELSE mode[l]]
  /\ \E hold \in [S -> Holds] :
       /\ \A l \in S : <<t, hold[l]>> \notin grants[l]
       /\ grants' = [l \in Locks |->
                       IF l \in S THEN grants[l] \union {<<t, hold[l]>>}
                                  ELSE grants[l]]
  /\ \/ outcome' = "ok"
     \/ /\ outcome' \in {"false", "blocked"}
        /\ \E l \in Locks \ S : ~Available(l, t, m)

\* Task t gives back one grant of every lock of S, each its own; the call
\* fails only at a lock it has no grant of.
Release(t, S) ==
  /\ \E hold \in [S -> Holds] :
       /\ \A l \in S : <<t, hold[l]>> \in grants[l]
       /\ grants' = [l \in Locks |->
                       IF l \in S THEN grants[l] \ {<<t, hold[l]>>}
                                  ELSE grants[l]]
  /\ mode' = [l \in Locks |-> IF l \in S /\ grants'[l] = {} THEN "free" ELSE mode[l]]
  /\ \/ outcome' = "ok"
     \/ /\ outcome' = "mismatch"
        /\ \E l \in Locks \ S : t \notin Holders(l)

\* A call that has nothing to do with holding locks.
Other == outcome' = "ok" /\ UNCHANGED <<mode, grants>>

Next ==
  \/ Other
  \/ \E t \in Tasks, S \in SUBSET Locks :
       Release(t, S) \/ \E m \in Mode : Obtain(t, S, m)

Spec == Init /\ [][Next]_vars
=============================================================================
