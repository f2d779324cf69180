------------------------------- MODULE Arena --------------------------------
(***************************************************************************)
(* What an allocator of runs of addresses promises its callers, without a  *)
(* free list, redzones or byte counts.  Every address is spare, in a run   *)
(* that is held, in a run that rests after its release, or withdrawn for   *)
(* good.  A request is refused only when no run of spare addresses is long *)
(* enough, wherever it lies; runs become spare again in the order in which *)
(* they were released.                                                     *)
(***************************************************************************)
EXTENDS Integers, Sequences

CONSTANT Space      \* the addresses there are to give

Replies == {"none", "granted", "out of memory", "freed", "invalid"}

VARIABLES
  spare,    \* the addresses nobody has
  held,     \* the runs given, as <<address told, first address, last address>>
  resting,  \* the runs released but not spare yet, <<first, last>>
  answer    \* what the last call got

vars == <<spare, held, resting, answer>>

Init ==
  /\ spare = Space
  /\ held = {}
  /\ resting = <<>>
  /\ answer = <<"none", 0>>

\* A run of spare addresses is given to the caller, who is told one of them.
Take(told, first, last) ==
  /\ told \in first..last /\ first..last \subseteq spare
  /\ spare' = spare \ (first..last)
  /\ held' = held \union {<<told, first, last>>}
  /\ answer' = <<"granted", told>>
  /\ UNCHANGED resting

\* There is no run of n spare addresses.
Refuse(n) ==
  /\ \A first \in spare : ~(first..(first + n - 1) \subseteq spare)
  /\ answer' = <<"out of memory", n>>
  /\ UNCHANGED <<spare, held, resting>>

\* A held run is released by the address its holder was told; it is spare at
\* once only if no older one rests.
Release(told, first, last) ==
  /\ held' = held \ {<<told, first, last>>}
  /\ answer' = <<"freed", told>>
  /\ \/ /\ resting' = Append(resting, <<first, last>>)
        /\ UNCHANGED spare
     \/ /\ resting = <<>>
        /\ spare' = spare \union (first..last)
        /\ UNCHANGED resting

\* The address released was not told to anyone who still holds its run.
Reject(told) ==
  /\ \A h \in held : h[1] # told
  /\ answer' = <<"invalid", told>>
  /\ UNCHANGED <<spare, held, resting>>

\* The run that rests longest becomes spare.
Recycle ==
  /\ resting # <<>>
  /\ spare' = spare \union (Head(resting)[1]..Head(resting)[2])
  /\ resting' = Tail(resting)
  /\ UNCHANGED <<held, answer>>

\* Spare addresses are taken out of circulation; or nothing happens.
Withdraw ==
  /\ spare' \subseteq spare
  /\ answer' = <<"none", 0>>
  /\ UNCHANGED <<held, resting>>

Next ==
  \/ \E h \in held' \ held : Take(h[1], h[2], h[3])
  \/ \E h \in held : Release(h[1], h[2], h[3])
  \/ answer' \in Replies \X Nat /\ (Refuse(answer'[2]) \/ Reject(answer'[2]))
  \/ Recycle
  \/ Withdraw

Spec == Init /\ [][Next]_vars
=============================================================================
