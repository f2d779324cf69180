------------------------------- MODULE Queues -------------------------------
(***************************************************************************)
(* What exec's lists and message ports promise: every list is a sequence,  *)
(* without pointers, sentinels or headers, a thing is in one place of one  *)
(* sequence or in none, and each call does to its sequence what its name   *)
(* says.                                                                   *)
(***************************************************************************)
EXTENDS Integers, Sequences

CONSTANTS Lists, Things, Priority, Nobody

VARIABLES
  queue,  \* the things in each list, first one first
  last    \* the last call and what it returned

vars == <<queue, last>>

Init == queue = [l \in Lists |-> <<>>] /\ last = <<"none", Nobody>>

Loose(x) == \A l \in Lists : \A i \in DOMAIN queue[l] : queue[l][i] # x
Put(op, l, n, x) ==
  /\ Loose(x)
  /\ queue' = [queue EXCEPT ![l] = SubSeq(@, 1, n) \o <<x>> \o SubSeq(@, n + 1, Len(@))]
  /\ last' = <<op, Nobody>>
Cut(l, i) == queue' = [queue EXCEPT ![l] = SubSeq(@, 1, i - 1) \o SubSeq(@, i + 1, Len(@))]

\* How many things of l are before the first one of a lower priority than x.
Ahead(l, x) ==
  LET lower == {i \in DOMAIN queue[l] : Priority[queue[l][i]] < Priority[x]}
  IN  IF lower = {} THEN Len(queue[l]) ELSE (CHOOSE i \in lower : \A j \in lower : i <= j) - 1

AddHead(l, x) == Put("AddHead", l, 0, x)
AddTail(l, x) == Put("AddTail", l, Len(queue[l]), x)
Insert(l, x) == \E n \in 0 .. Len(queue[l]) : Put("Insert", l, n, x)
Enqueue(l, x) == Put("Enqueue", l, Ahead(l, x), x)
Remove(l) == \E i \in DOMAIN queue[l] : Cut(l, i) /\ last' = <<"Remove", Nobody>>
RemHead(l) == queue[l] # <<>> /\ Cut(l, 1) /\ last' = <<"RemHead", Head(queue[l])>>
RemTail(l) ==
  LET n == Len(queue[l]) IN n > 0 /\ Cut(l, n) /\ last' = <<"RemTail", queue[l][n]>>
Look(l) == queue[l] # <<>> /\ UNCHANGED queue /\ last' = <<"WaitPort", Head(queue[l])>>
Find(op, l) == queue[l] = <<>> /\ UNCHANGED queue /\ last' = <<op, Nobody>>
Other == UNCHANGED queue /\ last' = <<"none", Nobody>>

Next ==
  \/ \E l \in Lists :
       \/ \E x \in Things : AddHead(l, x) \/ AddTail(l, x) \/ Insert(l, x) \/ Enqueue(l, x)
       \/ Remove(l) \/ RemHead(l) \/ RemTail(l) \/ Look(l)
       \/ Find("RemHead", l) \/ Find("RemTail", l)
  \/ Other

Spec == Init /\ [][Next]_vars
=============================================================================
