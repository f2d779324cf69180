--------------------------- MODULE ExecSemaphores ---------------------------
(***************************************************************************)
(* exec.library's signal semaphores (execsem.rs): ss_NestCount, ss_Owner   *)
(* and ss_QueueCount of every SignalSemaphore, the public semaphore list,  *)
(* and the handlers that change them.  The tasks are those of ExecTasks:   *)
(* any of them may be the current one when a call is made, and a call runs *)
(* to its end.  A call that fails with DispatchError ends the program.     *)
(*                                                                         *)
(* The two counters are WORDs: they are kept modulo Wrap (2^16 in the      *)
(* code), the value -1 being Wrap - 1.                                     *)
(***************************************************************************)
EXTENDS Integers, FiniteSets, Sequences

CONSTANTS
  Tasks,      \* the tasks that make calls
  NoTask,     \* the NULL of ss_Owner
  Sems,       \* SignalSemaphore structures
  Pri,        \* Sems -> ln_Pri
  Lists,      \* lists of semaphores the program built itself, as sequences
  Wrap,       \* 2 ^ the width of the counters
  MaxHolds,   \* bound: unreleased grants of one semaphore
  Careful     \* the program never releases another task's shared lock

ASSUME NoTaskAssumption == NoTask \notin Tasks
ASSUME PriAssumption == Pri \in [Sems -> Int]
ASSUME ListsAssumption ==
  \A L \in Lists : /\ L \in Seq(Sems)
                   /\ \A i, j \in 1..Len(L) : L[i] = L[j] => i = j
ASSUME WrapAssumption ==
  /\ Wrap \in Nat /\ MaxHolds \in Nat
  /\ 0 < MaxHolds /\ MaxHolds < Wrap
ASSUME CarefulAssumption == Careful \in BOOLEAN

VARIABLES
  nest,      \* ss_NestCount
  owner,     \* ss_Owner
  queue,     \* ss_QueueCount
  public,    \* ExecBase.SemaphoreList, from its head
  ready,     \* the semaphores that were initialised
  grants,    \* history: per semaphore, the grants <<task, hold>> not released
  outcome,   \* how the last call ended
  failed     \* the task and the semaphore of the call that ended the program

fields == <<nest, owner, queue>>
vars == <<nest, owner, queue, public, ready, grants, outcome, failed>>

Word == 0..(Wrap - 1)
Holds == 1..MaxHolds
Free == Wrap - 1                 \* ss_QueueCount of a free semaphore, -1
inc(w) == IF w = Wrap - 1 THEN 0 ELSE w + 1
dec(w) == IF w = 0 THEN Wrap - 1 ELSE w - 1

HeldBy(s, t) == {g \in grants[s] : g[1] = t}
Running == outcome \in {"ok", "false"}

-----------------------------------------------------------------------------
(* A semaphore's memory before InitSemaphore is whatever was there. *)
Init ==
  /\ nest \in [Sems -> Word]
  /\ owner \in [Sems -> Tasks \union {NoTask}]
  /\ queue \in [Sems -> Word]
  /\ public = <<>>
  /\ ready = {}
  /\ grants = [s \in Sems |-> {}]
  /\ outcome = "ok"
  /\ failed = <<>>

init_semaphore_impl(s) ==
  /\ nest' = [nest EXCEPT ![s] = 0]
  /\ owner' = [owner EXCEPT ![s] = NoTask]
  /\ queue' = [queue EXCEPT ![s] = Free]

\* A shared lock is taken for one of the caller's own.
bug_Granted(s, t, o) == inc(queue[s]) = 0 \/ owner[s] \in {t, o, NoTask}

\* The increment finds the semaphore free, or the holder is the caller, or
\* is nobody in particular and a shared lock is asked for.
Granted(s, t, o) == inc(queue[s]) = 0 \/ owner[s] \in {t, o}

\* The speculative increment is left in place when the call is refused.
bug_obtain_semaphore_impl(S, t, o, R) ==
  /\ queue' = [s \in Sems |-> IF s \in S \union R THEN inc(queue[s]) ELSE queue[s]]
  /\ owner' = [s \in Sems |-> IF s \in S /\ inc(queue[s]) = 0 THEN o ELSE owner[s]]
  /\ nest' = [s \in Sems |-> IF s \in S THEN inc(nest[s]) ELSE nest[s]]

\* The semaphores of S are granted to t with the new owner o, those of R are
\* refused: their counter is incremented and put back.
obtain_semaphore_impl(S, t, o, R) ==
  /\ queue' = [s \in Sems |-> IF s \in S THEN inc(queue[s]) ELSE queue[s]]
  /\ owner' = [s \in Sems |-> IF s \in S /\ inc(queue[s]) = 0 THEN o ELSE owner[s]]
  /\ nest' = [s \in Sems |-> IF s \in S THEN inc(nest[s]) ELSE nest[s]]

Releasable(s, t) == queue[s] # Free /\ owner[s] \in {NoTask, t}

release_semaphore_impl(S) ==
  /\ nest' = [s \in Sems |-> IF s \in S THEN dec(nest[s]) ELSE nest[s]]
  /\ queue' = [s \in Sems |-> IF s \in S THEN dec(queue[s]) ELSE queue[s]]
  /\ owner' = [s \in Sems |-> IF s \in S /\ dec(nest[s]) = 0 THEN NoTask ELSE owner[s]]

-----------------------------------------------------------------------------
(* History of the grants. *)
NewHold(s, t) == CHOOSE h \in Holds : <<t, h>> \notin grants[s]
OldHold(s, t) == CHOOSE h \in Holds : <<t, h>> \in grants[s]
Grant(S, t) ==
  grants' = [s \in Sems |->
               IF s \in S THEN grants[s] \union {<<t, NewHold(s, t)>>} ELSE grants[s]]
Ungrant(S, t) ==
  grants' = [s \in Sems |->
               IF s \in S /\ HeldBy(s, t) # {}
                 THEN grants[s] \ {<<t, OldHold(s, t)>>} ELSE grants[s]]

Ends(how, t, s) == outcome' = how /\ failed' = <<t, s>>
Succeeds == outcome' = "ok" /\ failed' = failed

\* Before the first node of strictly lower priority, so after its equals.
enqueue_impl(L, s) ==
  LET n == Cardinality({i \in 1..Len(L) : \A k \in 1..i : Pri[s] <= Pri[L[k]]})
  IN  SubSeq(L, 1, n) \o <<s>> \o SubSeq(L, n + 1, Len(L))

Nodes(L) == {L[i] : i \in 1..Len(L)}

\* The part of list L that a call by t obtains, up to the first refusal, and
\* the semaphore that is refused, if any; the same for a release.
Obtained(L, t) ==
  {L[i] : i \in {j \in 1..Len(L) : \A k \in 1..j : Granted(L[k], t, t)}}
RefusedAt(L, t) ==
  {L[i] : i \in {j \in 1..Len(L) : /\ ~Granted(L[j], t, t)
                                   /\ \A k \in 1..(j - 1) : Granted(L[k], t, t)}}
Released(L, t) ==
  {L[i] : i \in {j \in 1..Len(L) : \A k \in 1..j : Releasable(L[k], t)}}
MismatchAt(L, t) ==
  {L[i] : i \in {j \in 1..Len(L) : /\ ~Releasable(L[j], t)
                                   /\ \A k \in 1..(j - 1) : Releasable(L[k], t)}}

-----------------------------------------------------------------------------
(* The handlers.  The guards on the arguments are the program's part of    *)
(* the contract: it initialises a semaphore before it uses it, and does    *)
(* not initialise one that is held or linked.                              *)

init_semaphore_handler(s) ==
  /\ Running /\ grants[s] = {}
  /\ init_semaphore_impl(s)
  /\ ready' = ready \union {s}
  /\ Succeeds
  /\ UNCHANGED <<public, grants>>

add_semaphore_handler(s) ==
  /\ Running /\ grants[s] = {} /\ s \notin Nodes(public)
  /\ init_semaphore_impl(s)
  /\ public' = enqueue_impl(public, s)
  /\ ready' = ready \union {s}
  /\ Succeeds
  /\ UNCHANGED grants

rem_semaphore_handler(s) ==
  /\ Running
  /\ \E i \in 1..Len(public) :
       /\ public[i] = s
       /\ public' = SubSeq(public, 1, i - 1) \o SubSeq(public, i + 1, Len(public))
  /\ Succeeds
  /\ UNCHANGED <<nest, owner, queue, ready, grants>>

\* A call made by t on s that may be granted: s is initialised and the
\* history has room for one more grant.
CanObtain(s) == s \in ready /\ Cardinality(grants[s]) < MaxHolds

\* o is the owner a free semaphore gets: t, or NoTask for a shared lock.
obtain(t, s, o) ==
  /\ Running /\ CanObtain(s)
  /\ Granted(s, t, o)
  /\ obtain_semaphore_impl({s}, t, o, {})
  /\ Grant({s}, t)
  /\ Succeeds
  /\ UNCHANGED <<public, ready>>

refuse(t, s, o, how) ==
  /\ Running /\ CanObtain(s)
  /\ ~Granted(s, t, o)
  /\ obtain_semaphore_impl({}, t, o, {s})
  /\ IF how = "blocked" THEN Ends(how, t, s) ELSE outcome' = how /\ failed' = failed
  /\ UNCHANGED <<public, ready, grants>>

obtain_semaphore_handler(t, s) == obtain(t, s, t) \/ refuse(t, s, t, "blocked")
obtain_semaphore_shared_handler(t, s) ==
  obtain(t, s, NoTask) \/ refuse(t, s, NoTask, "blocked")
attempt_semaphore_handler(t, s) == obtain(t, s, t) \/ refuse(t, s, t, "false")
attempt_semaphore_shared_handler(t, s) ==
  obtain(t, s, NoTask) \/ refuse(t, s, NoTask, "false")

\* Every semaphore of the list is obtained in turn; the first that is
\* refused ends the program, those before it being kept.
obtain_semaphore_list_handler(t, L) ==
  /\ Running /\ \A s \in Nodes(L) : CanObtain(s)
  /\ obtain_semaphore_impl(Obtained(L, t), t, t, RefusedAt(L, t))
  /\ Grant(Obtained(L, t), t)
  /\ \/ RefusedAt(L, t) = {} /\ Succeeds
     \/ \E s \in RefusedAt(L, t) : Ends("blocked", t, s)
  /\ UNCHANGED <<public, ready>>

\* A careful program releases a shared semaphore only if it has a grant.
CanRelease(s, t) ==
  /\ s \in ready
  /\ Careful /\ queue[s] # Free /\ owner[s] = NoTask => HeldBy(s, t) # {}

release_semaphore_handler(t, s) ==
  /\ Running /\ CanRelease(s, t)
  /\ \/ /\ Releasable(s, t)
        /\ release_semaphore_impl({s})
        /\ Ungrant({s}, t)
        /\ Succeeds
     \/ /\ ~Releasable(s, t)
        /\ Ends("mismatch", t, s)
        /\ UNCHANGED <<nest, owner, queue, grants>>
  /\ UNCHANGED <<public, ready>>

release_semaphore_list_handler(t, L) ==
  /\ Running /\ \A s \in Nodes(L) : CanRelease(s, t)
  /\ release_semaphore_impl(Released(L, t))
  /\ Ungrant(Released(L, t), t)
  /\ \/ MismatchAt(L, t) = {} /\ Succeeds
     \/ \E s \in MismatchAt(L, t) : Ends("mismatch", t, s)
  /\ UNCHANGED <<public, ready>>

Next ==
  \/ \E s \in Sems : \/ init_semaphore_handler(s)
                     \/ add_semaphore_handler(s)
                     \/ rem_semaphore_handler(s)
  \/ \E t \in Tasks, s \in Sems : \/ obtain_semaphore_handler(t, s)
                                  \/ obtain_semaphore_shared_handler(t, s)
                                  \/ attempt_semaphore_handler(t, s)
                                  \/ attempt_semaphore_shared_handler(t, s)
                                  \/ release_semaphore_handler(t, s)
  \/ \E t \in Tasks, L \in Lists \union {public} :
       \/ obtain_semaphore_list_handler(t, L)
       \/ release_semaphore_list_handler(t, L)

Spec == Init /\ [][Next]_vars

-----------------------------------------------------------------------------
(* Properties. *)

TypeOK ==
  /\ nest \in [Sems -> Word] /\ queue \in [Sems -> Word]
  /\ owner \in [Sems -> Tasks \union {NoTask}]
  /\ public \in Seq(Sems)
  /\ ready \subseteq Sems
  /\ grants \in [Sems -> SUBSET (Tasks \X Holds)]
  /\ outcome \in {"ok", "false", "blocked", "mismatch"}
  /\ failed \in {<<>>} \union (Tasks \X Sems)

\* The three fields of an initialised semaphore agree with the grants that
\* were made and not released: the nest count is their number, the queue
\* count one less, and an owner is the only task that has any.
FieldsOf(s) ==
  /\ nest[s] = Cardinality(grants[s])
  /\ queue[s] = dec(nest[s])
  /\ grants[s] = {} => owner[s] = NoTask
  /\ owner[s] # NoTask => \A g \in grants[s] : g[1] = owner[s]
FieldsAgree == \A s \in ready : FieldsOf(s)

\* The semaphores keep the promises of recursive shared/exclusive locks: no
\* task is granted a lock another holds exclusively, no exclusive grant is
\* made of a shared lock, a lock is free again after the last release and no
\* sooner, a call is refused only when the lock is not available and a
\* release only when the task has nothing to release.
LockMode == [s \in Sems |-> IF s \notin ready \/ queue[s] = Free THEN "free"
                            ELSE IF owner[s] = NoTask THEN "shared" ELSE "exclusive"]
Locks == INSTANCE RecursiveLocks WITH Locks <- Sems, mode <- LockMode
LocksKept == Locks!Spec
=============================================================================
