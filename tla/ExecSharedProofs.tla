-------------------------- MODULE ExecSharedProofs --------------------------
(***************************************************************************)
(* Proofs about what MCExecShared checks side by side: the semaphores and  *)
(* the libraries that tasks share by name.                                 *)
(***************************************************************************)
EXTENDS ExecSemaphores, ExecLibs, FiniteSetTheorems, SequenceTheorems, WellFoundedInduction, TLAPS

-----------------------------------------------------------------------------
(* Of ExecSemaphores: its fields always agree with the grants made, and it  *)
(* implements RecursiveLocks, for any number of tasks and semaphores, any   *)
(* width of the counters and any bound on the grants below 2 ^ width.  The  *)
(* assumption Careful (a program never releases a shared lock it does not   *)
(* hold) is needed: the code counts sharers only.                           *)

\* The inductive invariant, semaphore by semaphore.
SemOK(s) ==
  /\ IsFiniteSet(grants[s]) /\ Cardinality(grants[s]) <= MaxHolds
  /\ s \in ready => FieldsOf(s)
  /\ s \notin ready => grants[s] = {}

Inv == TypeOK /\ \A s \in Sems : SemOK(s)

FieldTypes ==
  /\ nest \in [Sems -> Word] /\ queue \in [Sems -> Word]
  /\ owner \in [Sems -> Tasks \union {NoTask}]
  /\ grants \in [Sems -> SUBSET (Tasks \X Holds)]

-----------------------------------------------------------------------------
(* The counters. *)

LEMMA WordArithmetic ==
  ASSUME NEW w \in Word
  PROVE  /\ inc(w) \in Word /\ dec(w) \in Word
         /\ w + 1 < Wrap => inc(w) = w + 1 /\ dec(inc(w)) = w
         /\ w > 0 => dec(w) = w - 1 /\ inc(dec(w)) = w
         /\ (dec(w) = Free <=> w = 0)
         /\ (inc(dec(w)) = 0 <=> w = 0)
BY WrapAssumption DEF Word, inc, dec, Free

-----------------------------------------------------------------------------
(* A task below the bound always has an unused hold. *)

LEMMA NewHoldExists ==
  ASSUME NEW s \in Sems, NEW t \in Tasks,
         IsFiniteSet(grants[s]), Cardinality(grants[s]) < MaxHolds
  PROVE  NewHold(s, t) \in Holds /\ <<t, NewHold(s, t)>> \notin grants[s]
<1>1. \E h \in Holds : <<t, h>> \notin grants[s]
  <2>. SUFFICES ASSUME \A h \in Holds : <<t, h>> \in grants[s] PROVE FALSE
    OBVIOUS
  <2>. DEFINE f == [h \in Holds |-> <<t, h>>]
  <2>1. IsFiniteSet(Holds) /\ Cardinality(Holds) = MaxHolds
    BY WrapAssumption, FS_Interval DEF Holds
  <2>2. f \in [Holds -> grants[s]]
    OBVIOUS
  <2>. HIDE DEF f
  <2>3. \E x, y \in Holds : x # y /\ f[x] = f[y]
    BY <2>1, <2>2, FS_PigeonHole
  <2>. QED  BY <2>3 DEF f
<1>. QED  BY <1>1 DEF NewHold

LEMMA OldHoldExists ==
  ASSUME NEW s \in Sems, NEW t \in Tasks,
         grants[s] \subseteq Tasks \X Holds, HeldBy(s, t) # {}
  PROVE  OldHold(s, t) \in Holds /\ <<t, OldHold(s, t)>> \in grants[s]
<1>1. \E h \in Holds : <<t, h>> \in grants[s]
  BY DEF HeldBy
<1>. QED  BY <1>1 DEF OldHold

-----------------------------------------------------------------------------
(* One semaphore through one call. *)

LEMMA ObtainOne ==
  ASSUME FieldTypes, NEW s \in Sems, s \in ready, SemOK(s),
         NEW t \in Tasks, NEW o \in {t, NoTask}, NEW h,
         Cardinality(grants[s]) < MaxHolds, Granted(s, t, o),
         nest'[s] = inc(nest[s]), queue'[s] = inc(queue[s]),
         owner'[s] = IF inc(queue[s]) = 0 THEN o ELSE owner[s],
         <<t, h>> \notin grants[s], grants'[s] = grants[s] \union {<<t, h>>},
         ready' = ready
  PROVE  SemOK(s)'
<1>1. /\ IsFiniteSet(grants'[s])
      /\ Cardinality(grants'[s]) = Cardinality(grants[s]) + 1
      /\ Cardinality(grants[s]) \in Nat
  <2>1. IsFiniteSet(grants[s])
    BY DEF SemOK
  <2>2. \A x : IsFiniteSet(grants[s] \union {x})
               /\ (x \notin grants[s] =>
                    Cardinality(grants[s] \union {x}) = Cardinality(grants[s]) + 1)
    BY <2>1, FS_AddElement
  <2>3. Cardinality(grants[s]) \in Nat
    BY <2>1, FS_CardinalityType
  <2>. QED  BY <2>2, <2>3
<1>2. nest[s] = Cardinality(grants[s]) /\ nest[s] \in Word /\ queue[s] = dec(nest[s])
  BY DEF SemOK, FieldsOf, FieldTypes
<1>3. nest'[s] = Cardinality(grants'[s]) /\ queue'[s] = dec(nest'[s])
  <2>1. inc(nest[s]) = nest[s] + 1 /\ dec(inc(nest[s])) = nest[s]
    BY <1>1, <1>2, WordArithmetic, WrapAssumption
  <2>2. CASE nest[s] = 0
    <3>1. dec(nest[s]) = Wrap - 1 /\ inc(dec(nest[s])) = 0
      BY <2>2, WrapAssumption DEF dec, inc
    <3>. QED  BY <1>1, <1>2, <2>1, <2>2, <3>1
  <2>3. CASE nest[s] > 0
    BY <1>1, <1>2, <2>1, <2>3, WordArithmetic
  <2>. QED  BY <1>1, <1>2, <2>2, <2>3
<1>4. owner'[s] # NoTask => \A g \in grants'[s] : g[1] = owner'[s]
  <2>1. CASE inc(queue[s]) = 0
    <3>1. nest[s] = 0
      BY <1>2, <2>1, WordArithmetic
    <3>2. grants[s] = {}
      BY <1>2, <3>1, FS_EmptySet DEF SemOK
    <3>. QED  BY <2>1, <3>2
  <2>2. CASE inc(queue[s]) # 0
    BY <2>2, NoTaskAssumption DEF Granted, SemOK, FieldsOf
  <2>. QED  BY <2>1, <2>2
<1>. QED  BY <1>1, <1>3, <1>4, WrapAssumption DEF SemOK, FieldsOf

LEMMA ReleaseOne ==
  ASSUME FieldTypes, NEW s \in Sems, s \in ready, SemOK(s),
         NEW t \in Tasks, NEW h, <<t, h>> \in grants[s],
         nest'[s] = dec(nest[s]), queue'[s] = dec(queue[s]),
         owner'[s] = IF dec(nest[s]) = 0 THEN NoTask ELSE owner[s],
         grants'[s] = grants[s] \ {<<t, h>>},
         ready' = ready
  PROVE  SemOK(s)'
<1>1. /\ IsFiniteSet(grants'[s])
      /\ Cardinality(grants'[s]) = Cardinality(grants[s]) - 1
      /\ Cardinality(grants[s]) \in Nat /\ Cardinality(grants'[s]) \in Nat
  BY FS_RemoveElement, FS_CardinalityType DEF SemOK
<1>2. nest[s] = Cardinality(grants[s]) /\ nest[s] \in Word /\ queue[s] = dec(nest[s])
  BY DEF SemOK, FieldsOf, FieldTypes
<1>3. nest[s] > 0 /\ dec(nest[s]) = nest[s] - 1
  BY <1>1, <1>2, WordArithmetic
<1>4. nest'[s] = Cardinality(grants'[s]) /\ queue'[s] = dec(nest'[s])
  BY <1>1, <1>2, <1>3
<1>5. grants'[s] = {} => owner'[s] = NoTask
  BY <1>1, <1>3, <1>4, FS_EmptySet
<1>6. owner'[s] # NoTask => \A g \in grants'[s] : g[1] = owner'[s]
  BY DEF SemOK, FieldsOf
<1>. QED  BY <1>1, <1>4, <1>5, <1>6, WrapAssumption DEF SemOK, FieldsOf

LEMMA ResetOne ==
  ASSUME NEW s \in Sems, SemOK(s), grants[s] = {},
         nest'[s] = 0, queue'[s] = Free, owner'[s] = NoTask, grants'[s] = grants[s]
  PROVE  SemOK(s)'
BY FS_EmptySet, WrapAssumption DEF SemOK, FieldsOf, dec, Free

LEMMA SameOne ==
  ASSUME NEW s \in Sems, SemOK(s), s \in ready <=> s \in ready',
         nest'[s] = nest[s], queue'[s] = queue[s], owner'[s] = owner[s],
         grants'[s] = grants[s]
  PROVE  SemOK(s)'
BY DEF SemOK, FieldsOf

-----------------------------------------------------------------------------
(* One call, on the set of semaphores it changes. *)

LEMMA ObtainTypes ==
  ASSUME FieldTypes, NEW S \in SUBSET Sems, NEW t \in Tasks,
         NEW o \in {t, NoTask}, NEW R,
         \A s \in S : NewHold(s, t) \in Holds,
         obtain_semaphore_impl(S, t, o, R), Grant(S, t)
  PROVE  FieldTypes'
<1>1. nest' \in [Sems -> Word] /\ queue' \in [Sems -> Word]
  <2>1. \A s \in Sems : inc(nest[s]) \in Word /\ inc(queue[s]) \in Word
    BY WordArithmetic DEF FieldTypes
  <2>2. \A s \in Sems : nest[s] \in Word /\ queue[s] \in Word
    BY DEF FieldTypes
  <2>. QED  BY <2>1, <2>2 DEF obtain_semaphore_impl
<1>2. owner' \in [Sems -> Tasks \union {NoTask}]
  <2>1. \A s \in Sems : owner[s] \in Tasks \union {NoTask}
    BY DEF FieldTypes
  <2>2. owner' = [s \in Sems |-> IF s \in S /\ inc(queue[s]) = 0 THEN o ELSE owner[s]]
    BY DEF obtain_semaphore_impl
  <2>. QED  BY <2>1, <2>2
<1>3. grants' \in [Sems -> SUBSET (Tasks \X Holds)]
  <2>1. \A s \in Sems : grants[s] \in SUBSET (Tasks \X Holds)
    BY DEF FieldTypes
  <2>2. \A s \in S : {<<t, NewHold(s, t)>>} \in SUBSET (Tasks \X Holds)
    OBVIOUS
  <2>3. \A s \in Sems :
          (IF s \in S THEN grants[s] \union {<<t, NewHold(s, t)>>} ELSE grants[s])
            \in SUBSET (Tasks \X Holds)
    BY <2>1, <2>2
  <2>. QED  BY <2>3 DEF Grant
<1>. QED  BY <1>1, <1>2, <1>3 DEF FieldTypes

LEMMA ObtainMany ==
  ASSUME FieldTypes, \A s \in Sems : SemOK(s),
         NEW S \in SUBSET Sems, NEW t \in Tasks, NEW o \in {t, NoTask}, NEW R,
         \A s \in S : s \in ready /\ Cardinality(grants[s]) < MaxHolds /\ Granted(s, t, o),
         obtain_semaphore_impl(S, t, o, R), Grant(S, t), ready' = ready
  PROVE  FieldTypes' /\ \A s \in Sems : SemOK(s)'
<1>1. \A s \in S : NewHold(s, t) \in Holds /\ <<t, NewHold(s, t)>> \notin grants[s]
  BY NewHoldExists DEF SemOK
<1>2. FieldTypes'
  BY <1>1, ObtainTypes
<1>3. ASSUME NEW s \in Sems PROVE SemOK(s)'
  <2>1. CASE s \in S
    <3>. DEFINE h == NewHold(s, t)
    <3>1. /\ nest'[s] = inc(nest[s]) /\ queue'[s] = inc(queue[s])
          /\ owner'[s] = IF inc(queue[s]) = 0 THEN o ELSE owner[s]
      BY <2>1 DEF obtain_semaphore_impl
    <3>2. grants'[s] = grants[s] \union {<<t, h>>} /\ <<t, h>> \notin grants[s]
      BY <1>1, <2>1 DEF Grant
    <3>3. SemOK(s) /\ s \in ready /\ Cardinality(grants[s]) < MaxHolds /\ Granted(s, t, o)
      BY <2>1
    <3>. HIDE DEF h
    <3>. QED  BY <3>1, <3>2, <3>3, ObtainOne
  <2>2. CASE s \notin S
    <3>1. /\ nest'[s] = nest[s] /\ queue'[s] = queue[s] /\ owner'[s] = owner[s]
          /\ grants'[s] = grants[s]
      BY <2>2 DEF obtain_semaphore_impl, Grant
    <3>. QED  BY <3>1, SameOne
  <2>. QED  BY <2>1, <2>2
<1>. QED  BY <1>2, <1>3

LEMMA ReleaseTypes ==
  ASSUME FieldTypes, NEW S \in SUBSET Sems, NEW t \in Tasks,
         release_semaphore_impl(S), Ungrant(S, t)
  PROVE  FieldTypes'
<1>1. nest' \in [Sems -> Word] /\ queue' \in [Sems -> Word]
  <2>1. \A s \in Sems : dec(nest[s]) \in Word /\ dec(queue[s]) \in Word
    BY WordArithmetic DEF FieldTypes
  <2>2. \A s \in Sems : nest[s] \in Word /\ queue[s] \in Word
    BY DEF FieldTypes
  <2>. QED  BY <2>1, <2>2 DEF release_semaphore_impl
<1>2. owner' \in [Sems -> Tasks \union {NoTask}]
  <2>1. \A s \in Sems : owner[s] \in Tasks \union {NoTask}
    BY DEF FieldTypes
  <2>2. owner' = [s \in Sems |-> IF s \in S /\ dec(nest[s]) = 0 THEN NoTask ELSE owner[s]]
    BY DEF release_semaphore_impl
  <2>. QED  BY <2>1, <2>2
<1>3. grants' \in [Sems -> SUBSET (Tasks \X Holds)]
  <2>1. \A s \in Sems : grants[s] \in SUBSET (Tasks \X Holds)
    BY DEF FieldTypes
  <2>2. \A s \in Sems :
          (IF s \in S /\ HeldBy(s, t) # {} THEN grants[s] \ {<<t, OldHold(s, t)>>} ELSE grants[s])
            \in SUBSET (Tasks \X Holds)
    BY <2>1
  <2>. QED  BY <2>2 DEF Ungrant
<1>. QED  BY <1>1, <1>2, <1>3 DEF FieldTypes

LEMMA ReleaseMany ==
  ASSUME FieldTypes, \A s \in Sems : SemOK(s),
         NEW S \in SUBSET Sems, NEW t \in Tasks,
         \A s \in S : s \in ready /\ HeldBy(s, t) # {},
         release_semaphore_impl(S), Ungrant(S, t), ready' = ready
  PROVE  FieldTypes' /\ \A s \in Sems : SemOK(s)'
<1>1. \A s \in S : OldHold(s, t) \in Holds /\ <<t, OldHold(s, t)>> \in grants[s]
  BY OldHoldExists DEF FieldTypes
<1>2. FieldTypes'
  BY ReleaseTypes
<1>3. ASSUME NEW s \in Sems PROVE SemOK(s)'
  <2>1. CASE s \in S
    <3>. DEFINE h == OldHold(s, t)
    <3>1. /\ nest'[s] = dec(nest[s]) /\ queue'[s] = dec(queue[s])
          /\ owner'[s] = IF dec(nest[s]) = 0 THEN NoTask ELSE owner[s]
      BY <2>1 DEF release_semaphore_impl
    <3>2. grants'[s] = grants[s] \ {<<t, h>>} /\ <<t, h>> \in grants[s]
      BY <1>1, <2>1 DEF Ungrant
    <3>3. SemOK(s) /\ s \in ready
      BY <2>1
    <3>. HIDE DEF h
    <3>. QED  BY <3>1, <3>2, <3>3, ReleaseOne
  <2>2. CASE s \notin S
    <3>1. /\ nest'[s] = nest[s] /\ queue'[s] = queue[s] /\ owner'[s] = owner[s]
          /\ grants'[s] = grants[s]
      BY <2>2 DEF release_semaphore_impl, Ungrant
    <3>. QED  BY <3>1, SameOne
  <2>. QED  BY <2>1, <2>2
<1>. QED  BY <1>2, <1>3

\* What ReleaseSemaphore accepts from a careful program it holds.
LEMMA ReleasableIsHeld ==
  ASSUME Careful, FieldTypes, NEW s \in Sems, SemOK(s), NEW t \in Tasks,
         CanRelease(s, t), Releasable(s, t)
  PROVE  s \in ready /\ HeldBy(s, t) # {}
<1>1. s \in ready /\ queue[s] # Free /\ owner[s] \in {NoTask, t}
  BY DEF CanRelease, Releasable
<1>2. CASE owner[s] = NoTask
  BY <1>1, <1>2 DEF CanRelease
<1>3. CASE owner[s] = t
  <2>1. queue[s] = dec(nest[s]) /\ nest[s] = Cardinality(grants[s]) /\ nest[s] \in Word
    BY <1>1 DEF SemOK, FieldsOf, FieldTypes
  <2>2. nest[s] # 0
    BY <1>1, <2>1, WordArithmetic
  <2>3. grants[s] # {}
    BY <2>1, <2>2, FS_EmptySet
  <2>4. \A g \in grants[s] : g[1] = t
    BY <1>1, <1>3, NoTaskAssumption DEF SemOK, FieldsOf
  <2>. QED  BY <1>1, <2>3, <2>4 DEF HeldBy
<1>. QED  BY <1>1, <1>2, <1>3

LEMMA ResetMany ==
  ASSUME FieldTypes, \A s \in Sems : SemOK(s),
         NEW r \in Sems, grants[r] = {}, init_semaphore_impl(r), grants' = grants,
         ready' = ready \union {r}
  PROVE  FieldTypes' /\ \A s \in Sems : SemOK(s)'
<1>0. 0 \in Word /\ Free \in Word
  BY WrapAssumption DEF Word, Free
<1>1. FieldTypes'
  BY <1>0 DEF FieldTypes, init_semaphore_impl
<1>2. ASSUME NEW s \in Sems PROVE SemOK(s)'
  <2>1. CASE s = r
    <3>1. nest'[s] = 0 /\ queue'[s] = Free /\ owner'[s] = NoTask
      BY <2>1 DEF init_semaphore_impl, FieldTypes
    <3>. QED  BY <2>1, <3>1, ResetOne
  <2>2. CASE s # r
    <3>1. /\ nest'[s] = nest[s] /\ queue'[s] = queue[s] /\ owner'[s] = owner[s]
          /\ s \in ready <=> s \in ready'
      BY <2>2 DEF init_semaphore_impl, FieldTypes
    <3>. QED  BY <3>1, SameOne
  <2>. QED  BY <2>1, <2>2
<1>. QED  BY <1>1, <1>2

LEMMA Unchanged ==
  ASSUME FieldTypes, \A s \in Sems : SemOK(s),
         UNCHANGED <<nest, owner, queue, grants, ready>>
  PROVE  FieldTypes' /\ \A s \in Sems : SemOK(s)'
BY DEF FieldTypes, SemOK, FieldsOf

-----------------------------------------------------------------------------
(* The public list. *)

LEMMA EnqueueType ==
  ASSUME NEW L \in Seq(Sems), NEW s \in Sems
  PROVE  enqueue_impl(L, s) \in Seq(Sems)
<1>. DEFINE I == {i \in 1..Len(L) : \A k \in 1..i : Pri[s] <= Pri[L[k]]}
            n == Cardinality(I)
<1>0. Len(L) \in Nat
  OBVIOUS
<1>1. Len(L) \in Nat /\ IsFiniteSet(1..Len(L)) /\ Cardinality(1..Len(L)) = Len(L)
  <2>. DEFINE m == Len(L)
  <2>1. m \in Nat
    BY <1>0
  <2>. HIDE DEF m
  <2>2. IsFiniteSet(1..m) /\ Cardinality(1..m) = m
    BY <2>1, FS_Interval
  <2>. QED  BY <2>1, <2>2 DEF m
<1>2. n \in Nat /\ n <= Len(L)
  BY <1>1, FS_Subset, FS_CardinalityType
<1>. HIDE DEF n, I
<1>3. SubSeq(L, 1, n) \in Seq(Sems) /\ SubSeq(L, n + 1, Len(L)) \in Seq(Sems)
  <2>1. \A i \in 1..n : L[i] \in Sems
    BY <1>1, <1>2
  <2>2. \A i \in (n + 1)..Len(L) : L[i] \in Sems
    BY <1>1, <1>2
  <2>. QED  BY <1>1, <1>2, <2>1, <2>2, SubSeqProperties
<1>4. <<s>> \in Seq(Sems)
  OBVIOUS
<1>5. SubSeq(L, 1, n) \o <<s>> \o SubSeq(L, n + 1, Len(L)) \in Seq(Sems)
  BY <1>3, <1>4, ConcatProperties
<1>. QED  BY <1>5 DEF enqueue_impl, n, I

LEMMA UnlinkType ==
  ASSUME NEW L \in Seq(Sems), NEW i \in 1..Len(L)
  PROVE  SubSeq(L, 1, i - 1) \o SubSeq(L, i + 1, Len(L)) \in Seq(Sems)
<1>1. \A j \in 1..(i - 1) : L[j] \in Sems
  OBVIOUS
<1>2. \A j \in (i + 1)..Len(L) : L[j] \in Sems
  OBVIOUS
<1>3. SubSeq(L, 1, i - 1) \in Seq(Sems) /\ SubSeq(L, i + 1, Len(L)) \in Seq(Sems)
  BY <1>1, <1>2, SubSeqProperties
<1>. QED  BY <1>3, ConcatProperties

LEMMA ListsInSems ==
  ASSUME public \in Seq(Sems), NEW L \in Lists \union {public}
  PROVE  Nodes(L) \subseteq Sems /\ \A i \in 1..Len(L) : L[i] \in Nodes(L) /\ L[i] \in Sems
<1>1. L \in Seq(Sems)
  BY ListsAssumption
<1>. QED  BY <1>1 DEF Nodes

-----------------------------------------------------------------------------
(* The invariant. *)

OtherTypes ==
  /\ public \in Seq(Sems) /\ ready \subseteq Sems
  /\ outcome \in {"ok", "false", "blocked", "mismatch"}
  /\ failed \in {<<>>} \union (Tasks \X Sems)

LEMMA Typing == TypeOK <=> FieldTypes /\ OtherTypes
BY DEF TypeOK, FieldTypes, OtherTypes

LEMMA TypingNext == (FieldTypes /\ OtherTypes)' => TypeOK'
BY DEF TypeOK, FieldTypes, OtherTypes

LEMMA InvInit == Init => Inv
<1>. SUFFICES ASSUME Init PROVE Inv
  OBVIOUS
<1>1. public \in Seq(Sems)
  BY DEF Init
<1>2. FieldTypes
  BY DEF Init, FieldTypes
<1>3. \A s \in Sems : SemOK(s)
  <2>1. \A s \in Sems : grants[s] = {} /\ s \notin ready
    BY DEF Init
  <2>. QED  BY <2>1, FS_EmptySet, WrapAssumption DEF SemOK
<1>4. OtherTypes
  BY <1>1 DEF Init, OtherTypes
<1>. QED  BY <1>2, <1>3, <1>4, Typing DEF Inv

\* A single obtain and a single refusal, whatever the call.
LEMMA InvObtain ==
  ASSUME Inv, NEW s \in Sems, NEW t \in Tasks, NEW o \in {t, NoTask}, obtain(t, s, o)
  PROVE  Inv'
<1>1. FieldTypes' /\ \A r \in Sems : SemOK(r)'
  BY ObtainMany, Typing DEF Inv, obtain, CanObtain
<1>2. OtherTypes'
  BY Typing DEF Inv, obtain, OtherTypes, Succeeds
<1>. QED  BY <1>1, <1>2, TypingNext DEF Inv

LEMMA InvRefuse ==
  ASSUME Inv, NEW s \in Sems, NEW t \in Tasks, NEW o \in {t, NoTask},
         NEW how \in {"false", "blocked"}, refuse(t, s, o, how)
  PROVE  Inv'
<1>1. UNCHANGED <<nest, owner, queue, grants, ready>>
  BY DEF refuse, obtain_semaphore_impl, Inv, TypeOK
<1>2. FieldTypes' /\ \A r \in Sems : SemOK(r)'
  BY <1>1, Unchanged, Typing DEF Inv
<1>3. OtherTypes'
  BY Typing DEF Inv, refuse, OtherTypes, Ends
<1>. QED  BY <1>2, <1>3, TypingNext DEF Inv

LEMMA InvNext == ASSUME Careful, Inv, [Next]_vars PROVE Inv'
<1>. USE DEF Inv
<1>0. /\ FieldTypes /\ OtherTypes /\ \A s \in Sems : SemOK(s)
      /\ public \in Seq(Sems) /\ ready \subseteq Sems
  BY Typing DEF OtherTypes
<1>1. ASSUME NEW s \in Sems, init_semaphore_handler(s) PROVE Inv'
  <2>1. FieldTypes' /\ \A r \in Sems : SemOK(r)'
    BY <1>0, <1>1, ResetMany DEF init_semaphore_handler
  <2>8. OtherTypes'
    BY <1>0, <1>1, <2>1 DEF OtherTypes, init_semaphore_handler, Succeeds
  <2>. QED  BY <2>1, <2>8, TypingNext
<1>2. ASSUME NEW s \in Sems, add_semaphore_handler(s) PROVE Inv'
  <2>1. FieldTypes' /\ \A r \in Sems : SemOK(r)'
    BY <1>0, <1>2, ResetMany DEF add_semaphore_handler
  <2>2. public' \in Seq(Sems)
    BY <1>0, <1>2, EnqueueType DEF add_semaphore_handler
  <2>8. OtherTypes'
    BY <1>0, <1>2, <2>1, <2>2 DEF OtherTypes, add_semaphore_handler, Succeeds
  <2>. QED  BY <2>1, <2>2, <2>8, TypingNext
<1>3. ASSUME NEW s \in Sems, rem_semaphore_handler(s) PROVE Inv'
  <2>1. FieldTypes' /\ \A r \in Sems : SemOK(r)'
    BY <1>0, <1>3, Unchanged DEF rem_semaphore_handler
  <2>2. public' \in Seq(Sems)
    BY <1>0, <1>3, UnlinkType DEF rem_semaphore_handler
  <2>8. OtherTypes'
    BY <1>0, <1>3, <2>1, <2>2 DEF OtherTypes, rem_semaphore_handler, Succeeds
  <2>. QED  BY <2>1, <2>2, <2>8, TypingNext
<1>4. ASSUME NEW t \in Tasks, NEW s \in Sems,
             \/ obtain_semaphore_handler(t, s) \/ obtain_semaphore_shared_handler(t, s)
             \/ attempt_semaphore_handler(t, s) \/ attempt_semaphore_shared_handler(t, s)
      PROVE  Inv'
  BY <1>4, InvObtain, InvRefuse
     DEF obtain_semaphore_handler, obtain_semaphore_shared_handler,
         attempt_semaphore_handler, attempt_semaphore_shared_handler
<1>5. ASSUME NEW t \in Tasks, NEW s \in Sems, release_semaphore_handler(t, s) PROVE Inv'
  <2>1. CASE /\ Releasable(s, t) /\ CanRelease(s, t) /\ release_semaphore_impl({s})
             /\ Ungrant({s}, t) /\ Succeeds /\ UNCHANGED <<public, ready>>
    <3>1. s \in ready /\ HeldBy(s, t) # {}
      BY <1>0, <2>1, ReleasableIsHeld
    <3>2. FieldTypes' /\ \A r \in Sems : SemOK(r)'
      BY <1>0, <2>1, <3>1, ReleaseMany
    <3>8. OtherTypes'
      BY <1>0, <2>1, <3>2 DEF OtherTypes, Succeeds
    <3>. QED  BY <3>2, <3>8, TypingNext
  <2>2. CASE /\ Ends("mismatch", t, s)
             /\ UNCHANGED <<nest, owner, queue, grants, public, ready>>
    <3>1. FieldTypes' /\ \A r \in Sems : SemOK(r)'
      BY <1>0, <2>2, Unchanged
    <3>8. OtherTypes'
      BY <1>0, <2>2, <3>1 DEF OtherTypes, Ends
    <3>. QED  BY <3>1, <3>8, TypingNext
  <2>. QED  BY <1>5, <2>1, <2>2 DEF release_semaphore_handler
<1>6. ASSUME NEW t \in Tasks, NEW L \in Lists \union {public},
             obtain_semaphore_list_handler(t, L)
      PROVE  Inv'
  <2>. DEFINE got     == Obtained(L, t)
              refused == RefusedAt(L, t)
  <2>1. \A i \in 1..Len(L) : L[i] \in Nodes(L) /\ L[i] \in Sems
    BY <1>0, ListsInSems
  <2>2. /\ got \subseteq Nodes(L) /\ got \subseteq Sems /\ refused \subseteq Sems
        /\ \A s \in got : Granted(s, t, t)
    BY <2>1 DEF Obtained, RefusedAt
  <2>3. /\ \A s \in Nodes(L) : CanObtain(s)
        /\ obtain_semaphore_impl(got, t, t, refused) /\ Grant(got, t)
        /\ \/ refused = {} /\ Succeeds
           \/ \E s \in refused : Ends("blocked", t, s)
        /\ public' = public /\ ready' = ready
    BY <1>6 DEF obtain_semaphore_list_handler
  <2>. HIDE DEF got, refused
  <2>4. FieldTypes' /\ \A r \in Sems : SemOK(r)'
    BY <1>0, <2>2, <2>3, ObtainMany DEF CanObtain
  <2>8. OtherTypes'
    BY <1>0, <2>2, <2>3, <2>4 DEF OtherTypes, Succeeds, Ends
  <2>. QED  BY <2>2, <2>3, <2>4, <2>8, TypingNext
<1>7. ASSUME NEW t \in Tasks, NEW L \in Lists \union {public},
             release_semaphore_list_handler(t, L)
      PROVE  Inv'
  <2>. DEFINE given  == Released(L, t)
              denied == MismatchAt(L, t)
  <2>1. \A i \in 1..Len(L) : L[i] \in Nodes(L) /\ L[i] \in Sems
    BY <1>0, ListsInSems
  <2>2. /\ given \subseteq Nodes(L) /\ given \subseteq Sems /\ denied \subseteq Sems
        /\ \A s \in given : Releasable(s, t)
    BY <2>1 DEF Released, MismatchAt
  <2>3. /\ \A s \in Nodes(L) : CanRelease(s, t)
        /\ release_semaphore_impl(given) /\ Ungrant(given, t)
        /\ \/ denied = {} /\ Succeeds
           \/ \E s \in denied : Ends("mismatch", t, s)
        /\ public' = public /\ ready' = ready
    BY <1>7 DEF release_semaphore_list_handler
  <2>. HIDE DEF given, denied
  <2>4. \A s \in given : s \in ready /\ HeldBy(s, t) # {}
    BY <1>0, <2>2, <2>3, ReleasableIsHeld
  <2>5. FieldTypes' /\ \A r \in Sems : SemOK(r)'
    BY <1>0, <2>2, <2>3, <2>4, ReleaseMany
  <2>8. OtherTypes'
    BY <1>0, <2>2, <2>3, <2>5 DEF OtherTypes, Succeeds, Ends
  <2>. QED  BY <2>2, <2>3, <2>5, <2>8, TypingNext
<1>8. CASE UNCHANGED vars
  <2>1. FieldTypes' /\ \A r \in Sems : SemOK(r)'
    BY <1>0, <1>8, Unchanged DEF vars
  <2>8. OtherTypes'
    BY <1>0, <1>8, <2>1 DEF OtherTypes, vars
  <2>. QED  BY <2>1, <2>8, TypingNext
<1>. QED  BY <1>1, <1>2, <1>3, <1>4, <1>5, <1>6, <1>7, <1>8 DEF Next

\* The nest count, the queue count and the owner of every initialised
\* semaphore always agree with the grants made of it, to the last value the
\* width of the counters allows (execsem.rs, obtain and release).
THEOREM FieldsAlwaysAgree == ASSUME Careful PROVE Spec => [](TypeOK /\ FieldsAgree)
<1>1. Init => Inv
  BY InvInit
<1>2. Inv /\ [Next]_vars => Inv'
  BY InvNext
<1>3. Inv => TypeOK /\ FieldsAgree
  BY Typing DEF Inv, SemOK, FieldsAgree, TypeOK
<1>. QED  BY <1>1, <1>2, <1>3, PTL DEF Spec

-----------------------------------------------------------------------------
(* Refinement of RecursiveLocks.  The mode of a lock is read off the three *)
(* fields; what the code tests to grant or to release is then what the     *)
(* abstract locks allow.                                                   *)

Asked(o) == IF o = NoTask THEN "shared" ELSE "exclusive"

LEMMA ModeOfFields ==
  ASSUME FieldTypes, NEW s \in Sems, s \in ready, SemOK(s)
  PROVE  /\ LockMode[s] = "free" <=> grants[s] = {}
         /\ LockMode[s] = "free" <=> inc(queue[s]) = 0
         /\ LockMode[s] = "free" <=> queue[s] = Free
         /\ LockMode[s] = "shared" <=> grants[s] # {} /\ owner[s] = NoTask
         /\ LockMode[s] = "exclusive" <=> grants[s] # {} /\ owner[s] # NoTask
<1>1. /\ nest[s] \in Word /\ queue[s] = dec(nest[s]) /\ nest[s] = Cardinality(grants[s])
      /\ IsFiniteSet(grants[s])
  BY DEF SemOK, FieldsOf, FieldTypes
<1>2. nest[s] = 0 <=> grants[s] = {}
  BY <1>1, FS_EmptySet
<1>3. (queue[s] = Free <=> nest[s] = 0) /\ (inc(queue[s]) = 0 <=> nest[s] = 0)
  BY <1>1, WordArithmetic
<1>4. LockMode[s] = IF queue[s] = Free THEN "free"
                    ELSE IF owner[s] = NoTask THEN "shared" ELSE "exclusive"
  BY DEF LockMode
<1>. QED  BY <1>2, <1>3, <1>4

LEMMA GrantedIsAvailable ==
  ASSUME FieldTypes, NEW s \in Sems, s \in ready, SemOK(s),
         NEW t \in Tasks, NEW o \in {t, NoTask}
  PROVE  Granted(s, t, o) <=> Locks!Available(s, t, Asked(o))
<1>1. owner[s] # NoTask => \A g \in grants[s] : g[1] = owner[s]
  BY DEF SemOK, FieldsOf
<1>2. \A g \in grants[s] : g[1] \in Locks!Holders(s)
  BY DEF Locks!Holders
<1>3. Locks!Holders(s) \subseteq {t} <=> \A g \in grants[s] : g[1] = t
  BY DEF Locks!Holders
<1>4. grants[s] # {} /\ owner[s] # NoTask =>
        (owner[s] = t <=> \A g \in grants[s] : g[1] = t)
  BY <1>1
<1>. QED  BY <1>3, <1>4, ModeOfFields, NoTaskAssumption
            DEF Granted, Locks!Available, Asked

LEMMA ObtainRefines ==
  ASSUME FieldTypes, \A s \in Sems : SemOK(s), FieldTypes', \A s \in Sems : SemOK(s)',
         NEW S \in SUBSET Sems, NEW R \in SUBSET Sems,
         NEW t \in Tasks, NEW o \in {t, NoTask},
         \A s \in S : s \in ready /\ Cardinality(grants[s]) < MaxHolds /\ Granted(s, t, o),
         \A s \in R : s \in ready /\ ~Granted(s, t, o),
         obtain_semaphore_impl(S, t, o, R), Grant(S, t), ready' = ready,
         \/ outcome' = "ok"
         \/ R # {} /\ outcome' \in {"false", "blocked"}
  PROVE  Locks!Obtain(t, S, Asked(o))
<1>1. \A s \in S : Locks!Available(s, t, Asked(o))
  BY GrantedIsAvailable
<1>2. LockMode' = [s \in Sems |-> IF s \in S /\ LockMode[s] = "free"
                                    THEN Asked(o) ELSE LockMode[s]]
  <2>1. ASSUME NEW s \in Sems
        PROVE  LockMode'[s] = IF s \in S /\ LockMode[s] = "free" THEN Asked(o) ELSE LockMode[s]
    <3>1. CASE s \in S
      <4>1. grants'[s] # {}
        BY <3>1 DEF Grant
      <4>2. owner'[s] = IF inc(queue[s]) = 0 THEN o ELSE owner[s]
        BY <3>1 DEF obtain_semaphore_impl
      <4>3. /\ LockMode'[s] = "shared" <=> grants'[s] # {} /\ owner'[s] = NoTask
            /\ LockMode'[s] = "exclusive" <=> grants'[s] # {} /\ owner'[s] # NoTask
        <5>1. queue'[s] # Free
          <6>1. nest'[s] # 0 /\ nest'[s] \in Word /\ queue'[s] = dec(nest'[s])
            BY <3>1, <4>1, FS_EmptySet DEF SemOK, FieldsOf, FieldTypes
          <6>. QED  BY <6>1, WordArithmetic
        <5>. QED  BY <3>1, <4>1, <5>1 DEF LockMode
      <4>. QED  BY <3>1, <4>1, <4>2, <4>3, ModeOfFields DEF Asked
    <3>2. CASE s \notin S
      BY <3>2 DEF obtain_semaphore_impl, LockMode
    <3>. QED  BY <3>1, <3>2
  <2>. QED  BY <2>1 DEF LockMode
<1>3. \E hold \in [S -> Holds] :
        /\ \A l \in S : <<t, hold[l]>> \notin grants[l]
        /\ grants' = [l \in Sems |-> IF l \in S THEN grants[l] \union {<<t, hold[l]>>}
                                                ELSE grants[l]]
  <2>. DEFINE hold == [s \in S |-> NewHold(s, t)]
  <2>1. \A s \in S : NewHold(s, t) \in Holds /\ <<t, NewHold(s, t)>> \notin grants[s]
    BY NewHoldExists DEF SemOK
  <2>2. hold \in [S -> Holds] /\ \A s \in S : hold[s] = NewHold(s, t)
    BY <2>1
  <2>3. grants' = [l \in Sems |-> IF l \in S THEN grants[l] \union {<<t, hold[l]>>}
                                            ELSE grants[l]]
    BY <2>2 DEF Grant
  <2>. QED  BY <2>1, <2>2, <2>3
<1>4. \/ outcome' = "ok"
      \/ outcome' \in {"false", "blocked"} /\ \E l \in Sems \ S : ~Locks!Available(l, t, Asked(o))
  <2>1. \A s \in R : s \in Sems \ S /\ ~Locks!Available(s, t, Asked(o))
    BY GrantedIsAvailable
  <2>. QED  BY <2>1
<1>. QED  BY <1>1, <1>2, <1>3, <1>4 DEF Locks!Obtain

LEMMA ReleaseRefines ==
  ASSUME FieldTypes, \A s \in Sems : SemOK(s), FieldTypes', \A s \in Sems : SemOK(s)',
         NEW S \in SUBSET Sems, NEW R \in SUBSET Sems, NEW t \in Tasks,
         \A s \in S : s \in ready /\ HeldBy(s, t) # {} /\ Releasable(s, t),
         \A s \in R : s \in ready /\ ~Releasable(s, t),
         release_semaphore_impl(S), Ungrant(S, t), ready' = ready,
         \/ outcome' = "ok"
         \/ R # {} /\ outcome' = "mismatch"
  PROVE  Locks!Release(t, S)
<1>1. \A s \in S : OldHold(s, t) \in Holds /\ <<t, OldHold(s, t)>> \in grants[s]
  BY OldHoldExists DEF FieldTypes
<1>2. \E hold \in [S -> Holds] :
        /\ \A l \in S : <<t, hold[l]>> \in grants[l]
        /\ grants' = [l \in Sems |-> IF l \in S THEN grants[l] \ {<<t, hold[l]>>}
                                                ELSE grants[l]]
  <2>. DEFINE hold == [s \in S |-> OldHold(s, t)]
  <2>1. hold \in [S -> Holds] /\ \A s \in S : hold[s] = OldHold(s, t)
    BY <1>1
  <2>2. grants' = [l \in Sems |-> IF l \in S THEN grants[l] \ {<<t, hold[l]>>}
                                            ELSE grants[l]]
    BY <2>1 DEF Ungrant
  <2>. QED  BY <1>1, <2>1, <2>2
<1>3. LockMode' = [s \in Sems |-> IF s \in S /\ grants'[s] = {} THEN "free" ELSE LockMode[s]]
  <2>1. ASSUME NEW s \in Sems
        PROVE  LockMode'[s] = IF s \in S /\ grants'[s] = {} THEN "free" ELSE LockMode[s]
    <3>1. CASE s \in S
      <4>1. /\ nest'[s] \in Word /\ queue'[s] = dec(nest'[s])
            /\ nest'[s] = Cardinality(grants'[s]) /\ IsFiniteSet(grants'[s])
        BY <3>1 DEF SemOK, FieldsOf, FieldTypes
      <4>2. (queue'[s] = Free <=> nest'[s] = 0) /\ (nest'[s] = 0 <=> grants'[s] = {})
        BY <4>1, WordArithmetic, FS_EmptySet
      <4>3. nest'[s] = dec(nest[s])
            /\ owner'[s] = IF dec(nest[s]) = 0 THEN NoTask ELSE owner[s]
        BY <3>1 DEF release_semaphore_impl
      <4>4. LockMode'[s] = IF queue'[s] = Free THEN "free"
                           ELSE IF owner'[s] = NoTask THEN "shared" ELSE "exclusive"
        BY <3>1 DEF LockMode
      <4>5. LockMode[s] = IF owner[s] = NoTask THEN "shared" ELSE "exclusive"
        BY <3>1 DEF LockMode, Releasable
      <4>. QED  BY <3>1, <4>2, <4>3, <4>4, <4>5
    <3>2. CASE s \notin S
      BY <3>2 DEF release_semaphore_impl, LockMode
    <3>. QED  BY <3>1, <3>2
  <2>. QED  BY <2>1 DEF LockMode
<1>4. outcome' = "ok" \/ (outcome' = "mismatch" /\ \E l \in Sems \ S : t \notin Locks!Holders(l))
  <2>1. ASSUME NEW s \in R PROVE s \in Sems \ S /\ t \notin Locks!Holders(s)
    <3>1. LockMode[s] = "free" \/ (LockMode[s] = "exclusive" /\ owner[s] # t)
      BY <2>1, ModeOfFields DEF Releasable
    <3>2. \A g \in grants[s] : g[1] # t
      BY <2>1, <3>1, ModeOfFields DEF SemOK, FieldsOf
    <3>. QED  BY <2>1, <3>2 DEF Locks!Holders
  <2>. QED  BY <2>1
<1>. QED  BY <1>2, <1>3, <1>4 DEF Locks!Release

LEMMA NextRefines ==
  ASSUME Careful, Inv, Inv', [Next]_vars
  PROVE  [Locks!Next]_(Locks!vars)
<1>0. /\ FieldTypes /\ public \in Seq(Sems) /\ \A s \in Sems : SemOK(s)
      /\ FieldTypes' /\ \A s \in Sems : SemOK(s)'
  BY Typing DEF Inv, TypeOK, FieldTypes, OtherTypes
<1>. HIDE DEF Locks!Obtain, Locks!Release
<1>m. \A o : Asked(o) \in Locks!Mode
  BY DEF Asked, Locks!Mode
<1>1. ASSUME NEW r \in Sems, grants[r] = {}, init_semaphore_impl(r), grants' = grants,
             ready' = ready \union {r}, Succeeds
      PROVE  Locks!Next
  <2>1. LockMode' = LockMode
    <3>1. ASSUME NEW s \in Sems PROVE LockMode'[s] = LockMode[s]
      <4>1. CASE s = r
        <5>1. LockMode[s] = "free"
          BY <1>0, <1>1, <4>1, ModeOfFields DEF LockMode
        <5>2. queue'[s] = Free
          BY <1>0, <1>1, <4>1 DEF init_semaphore_impl, FieldTypes
        <5>. QED  BY <5>1, <5>2 DEF LockMode
      <4>2. CASE s # r
        BY <1>0, <1>1, <4>2 DEF init_semaphore_impl, LockMode, FieldTypes
      <4>. QED  BY <4>1, <4>2
    <3>. QED  BY <3>1 DEF LockMode
  <2>. QED  BY <1>1, <2>1 DEF Locks!Next, Locks!Other, Succeeds
<1>2. ASSUME NEW s \in Sems, rem_semaphore_handler(s) PROVE Locks!Next
  BY <1>2 DEF rem_semaphore_handler, Succeeds, LockMode, Locks!Next, Locks!Other
<1>3. ASSUME NEW t \in Tasks, NEW s \in Sems, NEW o \in {t, NoTask}, obtain(t, s, o)
      PROVE  Locks!Next
  <2>1. Locks!Obtain(t, {s}, Asked(o))
    <3>1. \A r \in {} : r \in ready /\ ~Granted(r, t, o)
      OBVIOUS
    <3>. QED  BY <1>0, <1>3, <3>1, ObtainRefines DEF obtain, CanObtain, Succeeds
  <2>. QED  BY <1>m, <2>1 DEF Locks!Next
<1>4. ASSUME NEW t \in Tasks, NEW s \in Sems, NEW o \in {t, NoTask},
             NEW how \in {"false", "blocked"}, refuse(t, s, o, how)
      PROVE  Locks!Next
  <2>1. Grant({}, t) /\ obtain_semaphore_impl({}, t, o, {s}) /\ ready' = ready
        /\ outcome' = how /\ s \in ready /\ ~Granted(s, t, o)
    BY <1>0, <1>4 DEF refuse, Grant, FieldTypes, Ends, CanObtain
  <2>2. Locks!Obtain(t, {}, Asked(o))
    <3>1. \A r \in {} : r \in ready /\ Cardinality(grants[r]) < MaxHolds /\ Granted(r, t, o)
      OBVIOUS
    <3>2. {} \in SUBSET Sems /\ {s} \in SUBSET Sems /\ {s} # {}
          /\ \A r \in {s} : r \in ready /\ ~Granted(r, t, o)
      BY <2>1
    <3>3. outcome' = "ok" \/ ({s} # {} /\ outcome' \in {"false", "blocked"})
      BY <2>1
    <3>. QED  BY <1>0, <2>1, <3>1, <3>2, <3>3, ObtainRefines
  <2>. QED  BY <1>m, <2>2 DEF Locks!Next
<1>5. ASSUME NEW t \in Tasks, NEW s \in Sems, release_semaphore_handler(t, s)
      PROVE  Locks!Next
  <2>1. CASE /\ Releasable(s, t) /\ CanRelease(s, t) /\ release_semaphore_impl({s})
             /\ Ungrant({s}, t) /\ Succeeds /\ ready' = ready
    <3>1. s \in ready /\ HeldBy(s, t) # {}
      BY <1>0, <2>1, ReleasableIsHeld
    <3>2. \A r \in {} : r \in ready /\ ~Releasable(r, t)
      OBVIOUS
    <3>3. {} \in SUBSET Sems /\ {s} \in SUBSET Sems /\ outcome' = "ok"
          /\ \A r \in {s} : r \in ready /\ HeldBy(r, t) # {} /\ Releasable(r, t)
      BY <2>1, <3>1 DEF Succeeds
    <3>4. Locks!Release(t, {s})
      BY <1>0, <2>1, <3>2, <3>3, ReleaseRefines
    <3>. QED  BY <3>4 DEF Locks!Next
  <2>2. CASE /\ ~Releasable(s, t) /\ CanRelease(s, t) /\ Ends("mismatch", t, s)
             /\ UNCHANGED <<nest, owner, queue, grants, ready>>
    <3>1. release_semaphore_impl({}) /\ Ungrant({}, t)
      BY <1>0, <2>2 DEF release_semaphore_impl, Ungrant, FieldTypes
    <3>2. \A r \in {} : r \in ready /\ HeldBy(r, t) # {} /\ Releasable(r, t)
      OBVIOUS
    <3>3. /\ {} \in SUBSET Sems /\ {s} \in SUBSET Sems /\ {s} # {} /\ outcome' = "mismatch"
          /\ \A r \in {s} : r \in ready /\ ~Releasable(r, t)
      BY <2>2 DEF Ends, CanRelease
    <3>4. Locks!Release(t, {})
      BY <1>0, <2>2, <3>1, <3>2, <3>3, ReleaseRefines
    <3>. QED  BY <3>4 DEF Locks!Next
  <2>. QED  BY <1>5, <2>1, <2>2 DEF release_semaphore_handler
<1>6. ASSUME NEW t \in Tasks, NEW L \in Lists \union {public},
             obtain_semaphore_list_handler(t, L)
      PROVE  Locks!Next
  <2>1. \A i \in 1..Len(L) : L[i] \in Nodes(L) /\ L[i] \in Sems
    BY <1>0, ListsInSems
  <2>2. /\ Obtained(L, t) \in SUBSET Sems /\ RefusedAt(L, t) \in SUBSET Sems
        /\ Obtained(L, t) \subseteq Nodes(L) /\ RefusedAt(L, t) \subseteq Nodes(L)
        /\ \A s \in Obtained(L, t) : Granted(s, t, t)
        /\ \A s \in RefusedAt(L, t) : ~Granted(s, t, t)
    BY <2>1 DEF Obtained, RefusedAt
  <2>3. /\ \A s \in Nodes(L) : CanObtain(s)
        /\ obtain_semaphore_impl(Obtained(L, t), t, t, RefusedAt(L, t))
        /\ Grant(Obtained(L, t), t) /\ ready' = ready
        /\ \/ outcome' = "ok"
           \/ RefusedAt(L, t) # {} /\ outcome' \in {"false", "blocked"}
    BY <1>6 DEF obtain_semaphore_list_handler, Succeeds, Ends
  <2>4. Locks!Obtain(t, Obtained(L, t), Asked(t))
    BY <1>0, <2>2, <2>3, ObtainRefines DEF CanObtain
  <2>. QED  BY <1>m, <2>2, <2>4 DEF Locks!Next
<1>7. ASSUME NEW t \in Tasks, NEW L \in Lists \union {public},
             release_semaphore_list_handler(t, L)
      PROVE  Locks!Next
  <2>1. \A i \in 1..Len(L) : L[i] \in Nodes(L) /\ L[i] \in Sems
    BY <1>0, ListsInSems
  <2>2. /\ Released(L, t) \in SUBSET Sems /\ MismatchAt(L, t) \in SUBSET Sems
        /\ Released(L, t) \subseteq Nodes(L) /\ MismatchAt(L, t) \subseteq Nodes(L)
        /\ \A s \in Released(L, t) : Releasable(s, t)
        /\ \A s \in MismatchAt(L, t) : ~Releasable(s, t)
    BY <2>1 DEF Released, MismatchAt
  <2>3. /\ \A s \in Nodes(L) : CanRelease(s, t)
        /\ release_semaphore_impl(Released(L, t))
        /\ Ungrant(Released(L, t), t) /\ ready' = ready
        /\ \/ outcome' = "ok"
           \/ MismatchAt(L, t) # {} /\ outcome' = "mismatch"
    BY <1>7 DEF release_semaphore_list_handler, Succeeds, Ends
  <2>4. \A s \in Released(L, t) : s \in ready /\ HeldBy(s, t) # {}
    BY <1>0, <2>2, <2>3, ReleasableIsHeld
  <2>5. Locks!Release(t, Released(L, t))
    BY <1>0, <2>2, <2>3, <2>4, ReleaseRefines DEF CanRelease
  <2>. QED  BY <2>2, <2>5 DEF Locks!Next
<1>8. CASE UNCHANGED vars
  BY <1>8 DEF vars, Locks!vars, LockMode
<1>9. ASSUME NEW s \in Sems, init_semaphore_handler(s) \/ add_semaphore_handler(s)
      PROVE  Locks!Next
  BY <1>1, <1>9 DEF init_semaphore_handler, add_semaphore_handler
<1>10. ASSUME NEW t \in Tasks, NEW s \in Sems,
              \/ obtain_semaphore_handler(t, s) \/ obtain_semaphore_shared_handler(t, s)
              \/ attempt_semaphore_handler(t, s) \/ attempt_semaphore_shared_handler(t, s)
       PROVE  Locks!Next
  BY <1>3, <1>4, <1>10
     DEF obtain_semaphore_handler, obtain_semaphore_shared_handler,
         attempt_semaphore_handler, attempt_semaphore_shared_handler
<1>. QED  BY <1>2, <1>5, <1>6, <1>7, <1>8, <1>9, <1>10 DEF Next

\* The semaphores implement recursive shared/exclusive locks: a grant is
\* made only when no other task's grant excludes it, a call is refused only
\* when one does, and a lock becomes free with its last release.
THEOREM SemaphoresAreLocks == ASSUME Careful PROVE Spec => LocksKept
<1>1. Init => Locks!Init
  BY DEF Init, Locks!Init, LockMode
<1>2. Init => Inv
  BY InvInit
<1>3. Inv /\ [Next]_vars => Inv'
  BY InvNext
<1>4. Inv /\ Inv' /\ [Next]_vars => [Locks!Next]_(Locks!vars)
  BY NextRefines
<1>. QED  BY <1>1, <1>2, <1>3, <1>4, PTL DEF Spec, LocksKept, Locks!Spec

-----------------------------------------------------------------------------
(* Of ExecLibs: LibrariesKept and LostOnlyToACopy, for any names, files and *)
(* heap.  The invariant, Books, is a predicate on any registry L, LibList l, *)
(* seglists ss, memory m, running inits ps and opens o, so that it can be   *)
(* said of what a handler has half done; b is a base in memory that is not  *)
(* entered yet, or is being entered again, and NULL between handlers.       *)

Entries == [base : Addrs \union {NULL}, seglist : BPtrs \union {NULL}, alloc : Addrs \union {NULL}]
Bases == [file : Files \union {NULL}, seglist : BPtrs \union {NULL}, count : Nat]
Inits == [name : Names, seglist : BPtrs, alloc : Addrs \union {NULL},
          preexisting : Addrs \union {NULL}, made : Addrs \union {NULL}]

\* The libraries in memory, and those of them whose init is over.
LiveIn(m) == {c \in Addrs : m[c].file # NULL}
IsAlloc(ps, c) == \E i \in DOMAIN ps : ps[i].alloc = c
IsMade(ps, c) == \E i \in DOMAIN ps : ps[i].made = c
Settled(m, ps, c) == c \in LiveIn(m) /\ ~IsAlloc(ps, c)

TypesOf(L, l, ss, m, ps, o) ==
  /\ L \in [Names -> Entries] /\ l \in Seq(Addrs) /\ ss \subseteq BPtrs
  /\ m \in [Addrs -> Bases] /\ ps \in Seq(Inits) /\ o \in [Addrs -> Nat]

\* An entry of the registry is that of a live library, without a seglist while the
\* init that added it runs; under no other name.
Right(e, m, ps) ==
  /\ Settled(m, ps, e.base)
  /\ e.seglist = IF IsMade(ps, e.base) THEN NULL ELSE m[e.base].seglist
  /\ e.alloc \in {NULL, e.base}
Registry(L, m, ps, b) ==
  \A n \in Names :
    /\ L[n] # NoEntry => L[n].base # NULL
    /\ L[n].base \notin {NULL, b} =>
         Right(L[n], m, ps) /\ \A k \in Names : L[k].base = L[n].base => k = n

\* Every library but b is linked when its init is over, and only once.
ListOf(l, m, ps, b) ==
  /\ \A c \in Addrs : c # b => (Listed(l, c) <=> Settled(m, ps, c))
  /\ \A i, j \in DOMAIN l : l[i] = l[j] => i = j

\* The seglists in memory are those of libraries and of running inits, each of
\* one: of an init and of the base made for it.
Carried(m, ps, s) == \/ \E c \in LiveIn(m) : m[c].seglist = s
                   \/ \E i \in DOMAIN ps : ps[i].seglist = s
Segs(ss, m, ps) == \A s : s \in ss <=> Carried(m, ps, s)

OwnSegs(m, ps) ==
  /\ \A c, d \in LiveIn(m) : m[c].seglist = m[d].seglist => c = d
  /\ \A i, j \in DOMAIN ps : ps[i].seglist = ps[j].seglist => i = j
  /\ \A c \in LiveIn(m), i \in DOMAIN ps : 
       m[c].seglist = ps[i].seglist => c \in {ps[i].alloc, ps[i].made}

\* The base made for a running init is not open; and none is that is not in memory.
Bare(p, m, o) == p.alloc # NULL => /\ p.alloc \in LiveIn(m)
                                   /\ m[p.alloc].seglist = p.seglist
                                   /\ m[p.alloc].count = 0 /\ o[p.alloc] = 0
\* The base that a running init added is its own, from its file.
Adds(p, m) == p.made # NULL => /\ p.alloc = NULL /\ p.made \in LiveIn(m)
                               /\ m[p.made].seglist = p.seglist
                               /\ m[p.made].file = FileOf[p.name]
InUse(m, ps, o) == /\ \A c \in Addrs : o[c] > 0 => c \in LiveIn(m)
                   /\ \A c \in Addrs : o[c] <= m[c].count
                   /\ \A i \in DOMAIN ps : Bare(ps[i], m, o) /\ Adds(ps[i], m)

Books(L, l, ss, m, ps, o, b) ==
  /\ TypesOf(L, l, ss, m, ps, o)
  /\ Registry(L, m, ps, b)
  /\ ListOf(l, m, ps, b)
  /\ Segs(ss, m, ps)
  /\ OwnSegs(m, ps)
  /\ InUse(m, ps, o)

LibsInv == Books(loaded, libList, seglists, lib, pending, opens, NULL) /\ NoLoudFailure

LEMMA NullFacts == NULL \notin Addrs /\ NULL \notin BPtrs /\ NULL \notin Files
BY NullAssumption

LEMMA InitLibsInv == LibsInit => LibsInv
<1> SUFFICES ASSUME LibsInit PROVE LibsInv
  OBVIOUS
<1>1. TypesOf(loaded, libList, seglists, lib, pending, opens)
  BY DEF LibsInit, TypesOf, Entries, Bases, NoEntry, NoLib
<1>2. LiveIn(lib) = {} /\ DOMAIN pending = {} /\ DOMAIN libList = {}
  BY DEF LibsInit, LiveIn, NoLib
<1>3. Registry(loaded, lib, pending, NULL)
  BY DEF LibsInit, Registry, NoEntry
<1>4. ListOf(libList, lib, pending, NULL)
  BY <1>2 DEF ListOf, Listed, Settled
<1>5. Segs(seglists, lib, pending)
  BY <1>2 DEF Segs, Carried, LibsInit
<1>6. OwnSegs(lib, pending) /\ InUse(lib, pending, opens)
  BY <1>2 DEF OwnSegs, InUse, LibsInit, NoLib
<1>7. NoLoudFailure
  BY DEF LibsInit, NoLoudFailure
<1> QED BY <1>1, <1>3, <1>4, <1>5, <1>6, <1>7 DEF LibsInv, Books

LEMMA BooksMean == LibsInv => LibrariesKept
<1> SUFFICES ASSUME LibsInv PROVE LibrariesKept
  OBVIOUS
<1>1. /\ TypesOf(loaded, libList, seglists, lib, pending, opens)
      /\ Registry(loaded, lib, pending, NULL)
      /\ ListOf(libList, lib, pending, NULL)
      /\ Segs(seglists, lib, pending)
      /\ OwnSegs(lib, pending)
      /\ InUse(lib, pending, opens)
      /\ NoLoudFailure
  BY DEF LibsInv, Books
<1>2. Live = LiveIn(lib)
  BY DEF Live, LiveIn
<1>3. \A c \in Addrs : c \in Initialising <=> IsAlloc(pending, c)
  BY NullFacts DEF Initialising, RunningInits, Range, IsAlloc
<1>4. \A c \in Addrs : c \in Added <=> IsMade(pending, c)
  BY NullFacts DEF Added, RunningInits, Range, IsMade
<1>5. InUseLive
  <2>1. \A c \in Addrs : opens[c] > 0 => c \in Live /\ lib[c].seglist \in seglists
    BY <1>1, <1>2 DEF InUse, Segs, Carried
  <2>2. \A i \in DOMAIN pending : /\ pending[i].seglist \in seglists
                                  /\ {pending[i].alloc, pending[i].made} \subseteq Live \union {NULL}
    BY <1>1, <1>2 DEF InUse, Bare, Adds, Segs, Carried
  <2> QED BY <2>1, <2>2 DEF InUseLive, RunningInits, Range
<1>6. RegistryAgrees
  <2> SUFFICES ASSUME NEW n \in Names, loaded[n] # NoEntry
               PROVE  /\ loaded[n].base \in Live \ Initialising
                      /\ loaded[n].seglist = IF loaded[n].base \in Added
                                                THEN NULL ELSE lib[loaded[n].base].seglist
                      /\ opens[loaded[n].base] <= lib[loaded[n].base].count
                      /\ loaded_library_by_base(loaded, loaded[n].base) = {n}
    BY DEF RegistryAgrees
  <2>1. loaded[n].base \in Addrs \union {NULL}
    BY <1>1 DEF TypesOf, Entries
  <2>2. loaded[n].base # NULL
    BY <1>1 DEF Registry
  <2> QED BY <1>1, <1>2, <1>3, <1>4, <2>1, <2>2
          DEF Registry, Right, Settled, InUse, loaded_library_by_base
<1>7. ListAgrees
  <2>1. libList \in Seq(Addrs)
    BY <1>1 DEF TypesOf
  <2>2. \A c : c \in Range(libList) <=> c \in Addrs /\ Listed(libList, c)
    BY <2>1 DEF Range, Listed
  <2>3. \A c : c \in Range(libList) <=> c \in Live \ Initialising
    BY <1>1, <1>2, <1>3, <2>2, NullFacts DEF ListOf, Settled, LiveIn
  <2>4. IsInjective(libList)
    BY <1>1 DEF ListOf, IsInjective
  <2> QED BY <2>3, <2>4 DEF ListAgrees
<1>8. SeglistsOwned
  BY <1>1, <1>2 DEF SeglistsOwned, Segs, Carried, RunningInits, Range
<1> QED BY <1>1, <1>5, <1>6, <1>7, <1>8 DEF LibrariesKept, BooksAgree

-----------------------------------------------------------------------------
(* Sequences. *)

LEMMA LeastPlace ==
  ASSUME NEW T \in SUBSET Nat, T # {} PROVE \E i \in T : \A j \in T : i <= j
<1>1. \E i \in T : \A j \in T : ~ (<<j, i>> \in OpToRel(<, Nat))
  BY NatLessThanWellFounded, WFMin
<1>2. PICK i \in T : \A j \in T : ~ (<<j, i>> \in OpToRel(<, Nat))
  BY <1>1
<1>3. \A j \in T : i <= j
  <2> TAKE j \in T
  <2>1. ~ (<<j, i>>[1] < <<j, i>>[2])
    BY <1>2 DEF OpToRel
  <2> QED BY <2>1
<1> QED BY <1>3

LEMMA AppendFacts ==
  ASSUME NEW S, NEW q \in Seq(S), NEW x \in S
  PROVE  /\ Append(q, x) \in Seq(S)
         /\ \A i : i \in DOMAIN Append(q, x) <=> i \in DOMAIN q \/ i = Len(q) + 1
         /\ Len(q) + 1 \notin DOMAIN q
         /\ \A i \in DOMAIN q : Append(q, x)[i] = q[i]
         /\ Append(q, x)[Len(q) + 1] = x
OBVIOUS

LEMMA FrontFacts ==
  ASSUME NEW S, NEW q \in Seq(S), q # <<>>
  PROVE  /\ Front(q) \in Seq(S)
         /\ \A i : i \in DOMAIN q <=> i \in DOMAIN Front(q) \/ i = Len(q)
         /\ Len(q) \notin DOMAIN Front(q)
         /\ \A i \in DOMAIN Front(q) : Front(q)[i] = q[i]
         /\ Last(q) = q[Len(q)] /\ Last(q) \in S
BY DEF Front, Last

LEMMA UnlinkedFacts ==
  ASSUME NEW S, NEW q \in Seq(S), NEW x,
         \A i, j \in DOMAIN q : q[i] = q[j] => i = j
  PROVE  /\ Unlinked(q, x) \in Seq(S)
         /\ \A c : Listed(Unlinked(q, x), c) <=> Listed(q, c) /\ c # x
         /\ \A i, j \in DOMAIN Unlinked(q, x) : Unlinked(q, x)[i] = Unlinked(q, x)[j] => i = j
         /\ Unlinked(Unlinked(q, x), x) = Unlinked(q, x)
<1>1. ASSUME NEW r \in Seq(S), ~Listed(r, x) PROVE Unlinked(r, x) = r
  BY <1>1 DEF Unlinked, RemoveFirst, Listed
<1>2. CASE ~Listed(q, x)
  <2>1. Unlinked(q, x) = q
    BY <1>1, <1>2
  <2> QED BY <1>2, <2>1
<1>3. CASE Listed(q, x)
  <2>1. PICK k \in DOMAIN q : q[k] = x
    BY <1>3 DEF Listed
  <2>2. {i \in 1..Len(q) : q[i] = x} = {k}
    BY <2>1
  <2>3. Unlinked(q, x) = RemoveAt(q, k)
    BY <2>1, <2>2 DEF Unlinked, RemoveFirst, SelectInSeq, Min
  <2> DEFINE r == RemoveAt(q, k)
  <2>4. /\ r \in Seq(S) /\ Len(r) = Len(q) - 1
        /\ \A i \in 1..Len(r) : r[i] = IF i < k THEN q[i] ELSE q[i + 1]
    <3> DEFINE u == SubSeq(q, 1, k - 1)
               w == SubSeq(q, k + 1, Len(q))
    <3>1. u \in Seq(S) /\ Len(u) = k - 1 /\ \A i \in 1..k - 1 : u[i] = q[i]
      BY <2>1
    <3>2. w \in Seq(S) /\ Len(w) = Len(q) - k /\ \A i \in 1..Len(q) - k : w[i] = q[k + i]
      BY <2>1
    <3>3. r = u \o w
      BY DEF RemoveAt
    <3> HIDE DEF u, w, r
    <3>4. r \in Seq(S) /\ Len(r) = Len(q) - 1
      BY <2>1, <3>1, <3>2, <3>3
    <3>5. \A i \in 1..Len(r) : r[i] = IF i <= k - 1 THEN u[i] ELSE w[i - (k - 1)]
      BY <2>1, <3>1, <3>2, <3>3
    <3>6. ASSUME NEW i \in 1..Len(r), i >= k PROVE r[i] = q[i + 1]
      <4>1. i - (k - 1) \in 1..Len(q) - k /\ k + (i - (k - 1)) = i + 1
        BY <2>1, <3>4, <3>6
      <4> QED BY <2>1, <3>2, <3>5, <3>6, <4>1
    <3>7. ASSUME NEW i \in 1..Len(r), i < k PROVE r[i] = q[i]
      BY <2>1, <3>1, <3>5, <3>7
    <3> QED BY <2>1, <3>4, <3>6, <3>7
  <2> HIDE DEF r
  <2>5. \A c : Listed(r, c) <=> Listed(q, c) /\ c # x
    <3> SUFFICES ASSUME NEW c PROVE Listed(r, c) <=> Listed(q, c) /\ c # x
      OBVIOUS
    <3>1. ASSUME Listed(r, c) PROVE Listed(q, c) /\ c # x
      <4>1. PICK i \in 1..Len(r) : r[i] = c
        BY <2>4, <3>1 DEF Listed
      <4>2. CASE i < k
        BY <2>1, <2>4, <4>1, <4>2 DEF Listed
      <4>3. CASE i >= k
        <5>1. i + 1 \in DOMAIN q /\ q[i + 1] = c /\ i + 1 # k
          BY <2>1, <2>4, <4>1, <4>3
        <5> QED BY <2>1, <5>1 DEF Listed
      <4> QED BY <2>1, <2>4, <4>1, <4>2, <4>3
    <3>2. ASSUME Listed(q, c), c # x PROVE Listed(r, c)
      <4>1. PICK i \in DOMAIN q : q[i] = c
        BY <3>2 DEF Listed
      <4>2. CASE i < k
        <5>1. i \in DOMAIN r /\ r[i] = c
          BY <2>1, <2>4, <4>1, <4>2
        <5> QED BY <5>1 DEF Listed
      <4>3. CASE i > k
        <5>1. i - 1 \in DOMAIN r /\ r[i - 1] = c
          BY <2>1, <2>4, <4>1, <4>3
        <5> QED BY <5>1 DEF Listed
      <4> QED BY <2>1, <3>2, <4>1, <4>2, <4>3
    <3> QED BY <3>1, <3>2
  <2>6. ASSUME NEW i \in DOMAIN r, NEW j \in DOMAIN r, r[i] = r[j] PROVE i = j
    <3> DEFINE back(n) == IF n < k THEN n ELSE n + 1
    <3>1. \A n \in DOMAIN r : back(n) \in DOMAIN q /\ r[n] = q[back(n)]
      BY <2>1, <2>4
    <3>2. back(i) = back(j)
      BY <2>6, <3>1
    <3> QED BY <2>1, <2>4, <3>2
  <2> QED BY <1>1, <2>3, <2>4, <2>5, <2>6 DEF r
<1> QED BY <1>2, <1>3

-----------------------------------------------------------------------------
(* What a handler does in part keeps the books. *)

\* The base b is registered under n, and linked.
LEMMA EnteredBooks ==
  ASSUME NEW L, NEW l, NEW ss, NEW m, NEW ps, NEW o, NEW b \in Addrs, NEW n \in Names,
         NEW a \in {NULL, b}, Books(L, l, ss, m, ps, o, b),
         Settled(m, ps, b), ~IsMade(ps, b)
  PROVE  Books(register_loaded(Renamed(L, n, b), n, b, m[b].seglist, a),
               IF Listed(l, b) THEN l ELSE Append(l, b), ss, m, ps, o, NULL)
<1> DEFINE e == [base |-> b, seglist |-> m[b].seglist, alloc |-> a]
           K == register_loaded(Renamed(L, n, b), n, b, m[b].seglist, a)
           k == IF Listed(l, b) THEN l ELSE Append(l, b)
<1>1. /\ TypesOf(L, l, ss, m, ps, o)
      /\ Registry(L, m, ps, b)
      /\ ListOf(l, m, ps, b)
      /\ Segs(ss, m, ps) /\ OwnSegs(m, ps) /\ InUse(m, ps, o)
  BY DEF Books
<1>2. e \in Entries /\ NoEntry \in Entries
  BY <1>1 DEF TypesOf, Entries, Bases, NoEntry
<1>3. K = [j \in Names |-> IF j = n THEN e ELSE IF L[j].base = b THEN NoEntry ELSE L[j]]
  BY <1>1 DEF register_loaded, Renamed, TypesOf
<1>4. k \in Seq(Addrs) /\ (\A c : Listed(k, c) <=> Listed(l, c) \/ c = b)
      /\ \A i, j \in DOMAIN k : k[i] = k[j] => i = j
  <2>1. l \in Seq(Addrs) /\ \A i, j \in DOMAIN l : l[i] = l[j] => i = j
    BY <1>1 DEF TypesOf, ListOf
  <2>2. CASE Listed(l, b)
    BY <2>1, <2>2 DEF Listed
  <2>3. CASE ~Listed(l, b)
    <3>1. k = Append(l, b)
      BY <2>3
    <3> HIDE DEF k
    <3> QED BY <2>1, <2>3, <3>1, AppendFacts DEF Listed
  <2> QED BY <2>2, <2>3
<1> HIDE DEF K, k
<1>5. TypesOf(K, k, ss, m, ps, o)
  BY <1>1, <1>2, <1>3, <1>4 DEF TypesOf
<1>6. Registry(K, m, ps, NULL)
  <2> SUFFICES ASSUME NEW j \in Names
               PROVE  /\ K[j] # NoEntry => K[j].base # NULL
                      /\ K[j].base # NULL =>
                           /\ Right(K[j], m, ps)
                           /\ \A i \in Names : K[i].base = K[j].base => i = j
    BY DEF Registry
  <2>1. CASE j = n
    BY <1>3, <2>1, NullFacts DEF Right, Settled, LiveIn, NoEntry
  <2>2. CASE j # n /\ L[j].base = b
    BY <1>3, <2>2 DEF NoEntry
  <2>3. CASE j # n /\ L[j].base # b
    BY <1>1, <1>3, <2>3 DEF Registry, NoEntry
  <2> QED BY <2>1, <2>2, <2>3
<1>7. ListOf(k, m, ps, NULL)
  BY <1>1, <1>4 DEF ListOf
<1> QED BY <1>1, <1>5, <1>6, <1>7 DEF Books, K, k

\* Counts of the libraries and of their opens change, and nothing else.
LEMMA RecountedBooks ==
  ASSUME NEW L, NEW l, NEW ss, NEW m, NEW ps, NEW o, Books(L, l, ss, m, ps, o, NULL),
         NEW m2 \in [Addrs -> Bases], NEW o2 \in [Addrs -> Nat],
         \A c \in Addrs : m2[c].file = m[c].file /\ m2[c].seglist = m[c].seglist,
         \A c \in Addrs : o2[c] <= m2[c].count /\ (o2[c] > 0 => c \in LiveIn(m)),
         \A c \in Addrs : IsAlloc(ps, c) => m2[c] = m[c] /\ o2[c] = o[c]
  PROVE  Books(L, l, ss, m2, ps, o2, NULL)
<1>1. /\ TypesOf(L, l, ss, m, ps, o)
      /\ Registry(L, m, ps, NULL)
      /\ ListOf(l, m, ps, NULL)
      /\ Segs(ss, m, ps) /\ OwnSegs(m, ps) /\ InUse(m, ps, o)
  BY DEF Books
<1>2. LiveIn(m2) = LiveIn(m)
  BY DEF LiveIn
<1>3. \A c \in LiveIn(m) : c \in Addrs /\ m2[c].seglist = m[c].seglist
  BY DEF LiveIn
<1>4. \A c : Settled(m2, ps, c) <=> Settled(m, ps, c)
  BY <1>2 DEF Settled
<1>5. TypesOf(L, l, ss, m2, ps, o2)
  BY <1>1 DEF TypesOf
<1>6. Registry(L, m2, ps, NULL)
  BY <1>1, <1>3, <1>4 DEF Registry, Right, Settled
<1>7. ListOf(l, m2, ps, NULL)
  BY <1>1, <1>4 DEF ListOf
<1>8. Segs(ss, m2, ps)
  BY <1>1, <1>2, <1>3 DEF Segs, Carried
<1>9. OwnSegs(m2, ps)
  BY <1>1, <1>2, <1>3 DEF OwnSegs
<1>10. InUse(m2, ps, o2)
  <2>1. ASSUME NEW i \in DOMAIN ps, ps[i].alloc # NULL PROVE Bare(ps[i], m2, o2)
    <3>1. Bare(ps[i], m, o) /\ ps[i].alloc \in Addrs
      BY <1>1, <2>1 DEF InUse, Bare, LiveIn
    <3>2. IsAlloc(ps, ps[i].alloc)
      BY DEF IsAlloc
    <3> QED BY <1>2, <3>1, <3>2 DEF Bare
  <2>2. ASSUME NEW i \in DOMAIN ps PROVE Adds(ps[i], m2)
    BY <1>1, <1>2, <1>3 DEF InUse, Adds, LiveIn
  <2> QED BY <1>2, <2>1, <2>2 DEF InUse, Bare
<1> QED BY <1>5, <1>6, <1>7, <1>8, <1>9, <1>10 DEF Books

\* A segment list is loaded, and an init that brings its own base starts.
LEMMA LoadedBooks ==
  ASSUME NEW L, NEW l, NEW ss, NEW m, NEW ps, NEW o, Books(L, l, ss, m, ps, o, NULL),
         NEW p \in Inits, p.alloc = NULL, p.made = NULL, p.seglist \notin ss
  PROVE  Books(L, l, ss \union {p.seglist}, m, Append(ps, p), o, NULL)
<1> DEFINE q == Append(ps, p)
<1>1. /\ TypesOf(L, l, ss, m, ps, o)
      /\ Registry(L, m, ps, NULL)
      /\ ListOf(l, m, ps, NULL)
      /\ Segs(ss, m, ps) /\ OwnSegs(m, ps) /\ InUse(m, ps, o)
  BY DEF Books
<1>2. /\ ps \in Seq(Inits) /\ q \in Seq(Inits)
      /\ \A i : i \in DOMAIN q <=> i \in DOMAIN ps \/ i = Len(ps) + 1
      /\ \A i \in DOMAIN ps : q[i] = ps[i]
      /\ q[Len(ps) + 1] = p
  BY <1>1, AppendFacts DEF TypesOf
<1> HIDE DEF q
<1>3. \A c \in Addrs : (IsAlloc(q, c) <=> IsAlloc(ps, c)) /\ (IsMade(q, c) <=> IsMade(ps, c))
  BY <1>2, NullFacts DEF IsAlloc, IsMade
<1>4. \A c : Settled(m, q, c) <=> Settled(m, ps, c)
  BY <1>3 DEF Settled, LiveIn
<1>5. \A s : Carried(m, q, s) <=> Carried(m, ps, s) \/ s = p.seglist
  BY <1>2 DEF Carried
<1>6. ~Carried(m, ps, p.seglist)
  BY <1>1 DEF Segs
<1>7. TypesOf(L, l, ss \union {p.seglist}, m, q, o)
  BY <1>1, <1>2 DEF TypesOf, Inits
<1>8. Registry(L, m, q, NULL)
  BY <1>1, <1>3, <1>4 DEF Registry, Right, Settled, LiveIn
<1>9. ListOf(l, m, q, NULL)
  BY <1>1, <1>4 DEF ListOf
<1>10. Segs(ss \union {p.seglist}, m, q)
  BY <1>1, <1>5 DEF Segs
<1>11. OwnSegs(m, q)
  BY <1>1, <1>2, <1>6 DEF OwnSegs, Carried
<1>12. InUse(m, q, o)
  BY <1>1, <1>2 DEF InUse, Bare, Adds
<1> QED BY <1>7, <1>8, <1>9, <1>10, <1>11, <1>12 DEF Books, q

\* What a new base adds: m2 is m with the base b of a file, from s.
Made(m, m2, b, f, s) ==
  /\ b \in Addrs \ LiveIn(m) /\ f \in Files /\ s \in BPtrs
  /\ m2 = MakeLibrary(m, b, f, s)

LEMMA MadeFacts ==
  ASSUME NEW m \in [Addrs -> Bases], NEW m2, NEW b, NEW f, NEW s, Made(m, m2, b, f, s)
  PROVE  /\ m2 \in [Addrs -> Bases]
         /\ LiveIn(m2) = LiveIn(m) \union {b} /\ b \notin LiveIn(m) /\ b \in Addrs
         /\ m2[b].seglist = s /\ m2[b].count = 0 /\ m2[b].file = f
         /\ \A c \in Addrs : c # b => m2[c] = m[c]
<1>1. m2 \in [Addrs -> Bases] /\ m2[b] = [file |-> f, seglist |-> s, count |-> 0]
  BY DEF Made, MakeLibrary, Bases
<1>2. \A c \in Addrs : c # b => m2[c] = m[c]
  BY DEF Made, MakeLibrary
<1>3. f # NULL
  BY NullFacts DEF Made
<1> QED BY <1>1, <1>2, <1>3 DEF Made, LiveIn

\* A base that is neither live, nor registered, nor listed, nor open.
LEMMA DeadFacts ==
  ASSUME NEW L, NEW l, NEW ss, NEW m, NEW ps, NEW o, Books(L, l, ss, m, ps, o, NULL),
         NEW b \in Addrs, b \notin LiveIn(m)
  PROVE  /\ ~IsAlloc(ps, b) /\ ~IsMade(ps, b) /\ ~Listed(l, b) /\ o[b] = 0
         /\ \A n \in Names : L[n].base # b
<1>1. ~IsAlloc(ps, b) /\ ~IsMade(ps, b)
  BY NullFacts DEF Books, IsAlloc, IsMade, InUse, Bare, Adds
<1>2. ~Listed(l, b)
  BY NullFacts DEF Books, ListOf, Settled
<1>3. o[b] = 0
  BY DEF Books, InUse, TypesOf
<1>4. \A n \in Names : L[n].base # b
  BY NullFacts DEF Books, Registry, Right, Settled
<1> QED BY <1>1, <1>2, <1>3, <1>4

\* A segment list is loaded and a base made for its init, which starts.
LEMMA StartedBooks ==
  ASSUME NEW L, NEW l, NEW ss, NEW m, NEW ps, NEW o, Books(L, l, ss, m, ps, o, NULL),
         NEW p \in Inits, p.alloc # NULL, p.made = NULL, p.seglist \notin ss,
         NEW f, NEW m2, Made(m, m2, p.alloc, f, p.seglist)
  PROVE  Books(L, l, ss \union {p.seglist}, m2, Append(ps, p), o, NULL)
<1> DEFINE q == Append(ps, p)
<1> DEFINE b == p.alloc
<1>1. /\ TypesOf(L, l, ss, m, ps, o)
      /\ Registry(L, m, ps, NULL)
      /\ ListOf(l, m, ps, NULL)
      /\ Segs(ss, m, ps) /\ OwnSegs(m, ps) /\ InUse(m, ps, o)
  BY DEF Books
<1>2. /\ ps \in Seq(Inits) /\ q \in Seq(Inits)
      /\ \A i : i \in DOMAIN q <=> i \in DOMAIN ps \/ i = Len(ps) + 1
      /\ \A i \in DOMAIN ps : q[i] = ps[i]
      /\ q[Len(ps) + 1] = p
  BY <1>1, AppendFacts DEF TypesOf
<1>3. /\ m2 \in [Addrs -> Bases]
      /\ LiveIn(m2) = LiveIn(m) \union {b} /\ b \notin LiveIn(m) /\ b \in Addrs
      /\ m2[b].seglist = p.seglist /\ m2[b].count = 0
      /\ \A c \in Addrs : c # b => m2[c] = m[c]
  BY <1>1, MadeFacts DEF TypesOf
<1>4. /\ ~IsAlloc(ps, b) /\ ~IsMade(ps, b) /\ ~Listed(l, b) /\ o[b] = 0
      /\ \A n \in Names : L[n].base # b
  BY <1>3, DeadFacts
<1> HIDE DEF q, b
<1>5. /\ \A c : IsAlloc(q, c) <=> IsAlloc(ps, c) \/ c = b
      /\ \A c \in Addrs : IsMade(q, c) <=> IsMade(ps, c)
  BY <1>2, NullFacts DEF IsAlloc, IsMade, b
<1>6. \A c : Settled(m2, q, c) <=> Settled(m, ps, c)
  BY <1>3, <1>5 DEF Settled
<1>7. \A c \in LiveIn(m) : c \in Addrs /\ c # b /\ m2[c] = m[c]
  BY <1>3 DEF LiveIn
<1>8. \A s : Carried(m2, q, s) <=> Carried(m, ps, s) \/ s = p.seglist
  BY <1>2, <1>3, <1>7 DEF Carried
<1>9. ~Carried(m, ps, p.seglist)
  BY <1>1 DEF Segs
<1>10. TypesOf(L, l, ss \union {p.seglist}, m2, q, o)
  BY <1>1, <1>2, <1>3 DEF TypesOf, Inits
<1>11. Registry(L, m2, q, NULL)
  BY <1>1, <1>5, <1>6, <1>7 DEF Registry, Right, Settled
<1>12. ListOf(l, m2, q, NULL)
  BY <1>1, <1>6 DEF ListOf
<1>13. Segs(ss \union {p.seglist}, m2, q)
  BY <1>1, <1>8 DEF Segs
<1>14. OwnSegs(m2, q)
  <2>1. \A c, d \in LiveIn(m2) : m2[c].seglist = m2[d].seglist => c = d
    BY <1>1, <1>3, <1>7, <1>9 DEF OwnSegs, Carried
  <2>2. \A i, j \in DOMAIN q : q[i].seglist = q[j].seglist => i = j
    BY <1>1, <1>2, <1>9 DEF OwnSegs, Carried
  <2>3. \A c \in LiveIn(m2), i \in DOMAIN q :
          m2[c].seglist = q[i].seglist => c \in {q[i].alloc, q[i].made}
    BY <1>1, <1>2, <1>3, <1>7, <1>9 DEF OwnSegs, Carried, b
  <2> QED BY <2>1, <2>2, <2>3 DEF OwnSegs
<1>15. InUse(m2, q, o)
  <2>1. \A c \in Addrs : o[c] <= m2[c].count /\ (o[c] > 0 => c \in LiveIn(m2))
    BY <1>1, <1>3, <1>4 DEF InUse
  <2>2. \A i \in DOMAIN q : Bare(q[i], m2, o)
    BY <1>1, <1>2, <1>3, <1>4, <1>7 DEF InUse, Bare, b
  <2>3. \A i \in DOMAIN q : Adds(q[i], m2)
    BY <1>1, <1>2, <1>3, <1>7 DEF InUse, Adds, b
  <2> QED BY <2>1, <2>2, <2>3 DEF InUse
<1> QED BY <1>10, <1>11, <1>12, <1>13, <1>14, <1>15 DEF Books, q

\* The same where there is no init to start: the base is about to be entered.
LEMMA UninitedBooks ==
  ASSUME NEW L, NEW l, NEW ss, NEW m, NEW ps, NEW o, Books(L, l, ss, m, ps, o, NULL),
         NEW b, NEW f, NEW s, s \notin ss, NEW m2, Made(m, m2, b, f, s)
  PROVE  /\ Books(L, l, ss \union {s}, m2, ps, o, b)
         /\ Settled(m2, ps, b) /\ ~IsMade(ps, b) /\ m2[b].seglist = s
<1>1. /\ TypesOf(L, l, ss, m, ps, o)
      /\ Registry(L, m, ps, NULL)
      /\ ListOf(l, m, ps, NULL)
      /\ Segs(ss, m, ps) /\ OwnSegs(m, ps) /\ InUse(m, ps, o)
  BY DEF Books
<1>2. /\ m2 \in [Addrs -> Bases]
      /\ LiveIn(m2) = LiveIn(m) \union {b} /\ b \notin LiveIn(m) /\ b \in Addrs
      /\ m2[b].seglist = s /\ m2[b].count = 0 /\ s \in BPtrs
      /\ \A c \in Addrs : c # b => m2[c] = m[c]
  BY <1>1, MadeFacts DEF TypesOf, Made
<1>3. /\ ~IsAlloc(ps, b) /\ ~IsMade(ps, b) /\ ~Listed(l, b) /\ o[b] = 0
      /\ \A n \in Names : L[n].base # b
  BY <1>2, DeadFacts
<1>4. \A c : Settled(m2, ps, c) <=> Settled(m, ps, c) \/ c = b
  BY <1>2, <1>3 DEF Settled
<1>5. \A c \in LiveIn(m) : c \in Addrs /\ c # b /\ m2[c] = m[c]
  BY <1>2 DEF LiveIn
<1>6. \A t : Carried(m2, ps, t) <=> Carried(m, ps, t) \/ t = s
  BY <1>2, <1>5 DEF Carried
<1>7. ~Carried(m, ps, s)
  BY <1>1 DEF Segs
<1>8. TypesOf(L, l, ss \union {s}, m2, ps, o)
  BY <1>1, <1>2 DEF TypesOf
<1>9. Registry(L, m2, ps, b)
  BY <1>1, <1>4, <1>5 DEF Registry, Right, Settled
<1>10. ListOf(l, m2, ps, b)
  BY <1>1, <1>2, <1>4, NullFacts DEF ListOf
<1>11. Segs(ss \union {s}, m2, ps)
  BY <1>1, <1>6 DEF Segs
<1>12. OwnSegs(m2, ps)
  <2>1. \A c, d \in LiveIn(m2) : m2[c].seglist = m2[d].seglist => c = d
    BY <1>1, <1>2, <1>5, <1>7 DEF OwnSegs, Carried
  <2>2. \A c \in LiveIn(m2), i \in DOMAIN ps :
          m2[c].seglist = ps[i].seglist => c \in {ps[i].alloc, ps[i].made}
    BY <1>1, <1>2, <1>5, <1>7 DEF OwnSegs, Carried
  <2> QED BY <1>1, <2>1, <2>2 DEF OwnSegs
<1>13. InUse(m2, ps, o)
  <2>1. \A c \in Addrs : o[c] <= m2[c].count /\ (o[c] > 0 => c \in LiveIn(m2))
    BY <1>1, <1>2, <1>3 DEF InUse
  <2> QED BY <1>1, <1>2, <1>5, <2>1 DEF InUse, Bare, Adds
<1> QED BY <1>2, <1>3, <1>4, <1>8, <1>9, <1>10, <1>11, <1>12, <1>13 DEF Books

\* What is left when the newest init has returned.
Popped(ps, q) ==
  /\ q \in Seq(Inits)
  /\ \A i : i \in DOMAIN ps <=> i \in DOMAIN q \/ i = Len(ps)
  /\ Len(ps) \notin DOMAIN q
  /\ \A i \in DOMAIN q : q[i] = ps[i]
  /\ Last(ps) = ps[Len(ps)] /\ Last(ps) \in Inits

LEMMA PoppedFront ==
  ASSUME NEW ps \in Seq(Inits), ps # <<>>
  PROVE  Popped(ps, Front(ps))
BY FrontFacts DEF Popped

\* An init returns the base that was made for it.
LEMMA InitedBooks ==
  ASSUME NEW L, NEW l, NEW ss, NEW m, NEW ps, NEW o, Books(L, l, ss, m, ps, o, NULL),
         ps # <<>>, Last(ps).alloc # NULL
  PROVE  LET b == Last(ps).alloc
             q == Front(ps)
         IN  /\ Books(L, l, ss, m, q, o, b)
             /\ Settled(m, q, b) /\ ~IsMade(q, b) /\ m[b].seglist = Last(ps).seglist
<1> DEFINE q == Front(ps)
           p == Last(ps)
           b == p.alloc
<1>1. /\ TypesOf(L, l, ss, m, ps, o)
      /\ Registry(L, m, ps, NULL)
      /\ ListOf(l, m, ps, NULL)
      /\ Segs(ss, m, ps) /\ OwnSegs(m, ps) /\ InUse(m, ps, o)
  BY DEF Books
<1>2. Popped(ps, q)
  BY <1>1, PoppedFront DEF TypesOf
<1> HIDE DEF q
<1>3. p = ps[Len(ps)] /\ Len(ps) \in DOMAIN ps
  BY <1>2 DEF Popped
<1>4. b \in LiveIn(m) /\ m[b].seglist = p.seglist /\ m[b].count = 0 /\ o[b] = 0
  BY <1>1, <1>3 DEF InUse, Bare
<1>5. ~IsAlloc(q, b) /\ ~IsMade(q, b)
  <2> SUFFICES ASSUME NEW i \in DOMAIN q, b \in {ps[i].alloc, ps[i].made} PROVE FALSE
    BY <1>2 DEF IsAlloc, IsMade, Popped
  <2>1. i \in DOMAIN ps /\ i # Len(ps)
    BY <1>2 DEF Popped
  <2>2. ps[i].seglist = ps[Len(ps)].seglist
    BY <1>1, <1>3, <1>4, <2>1 DEF InUse, Bare, Adds
  <2> QED BY <1>1, <1>3, <2>1, <2>2 DEF OwnSegs
<1>6. /\ \A c : IsAlloc(ps, c) <=> IsAlloc(q, c) \/ c = b
      /\ \A c \in Addrs : IsMade(ps, c) <=> IsMade(q, c)
  <2>1. p.made = NULL
    BY <1>1, <1>3 DEF InUse, Adds
  <2> QED BY <1>2, <1>3, <2>1, NullFacts DEF IsAlloc, IsMade, Popped
<1> HIDE DEF p, b
<1>7. \A c : Settled(m, q, c) <=> Settled(m, ps, c) \/ c = b
  BY <1>4, <1>5, <1>6 DEF Settled
<1>8. \A s : Carried(m, q, s) <=> Carried(m, ps, s)
  BY <1>2, <1>3, <1>4 DEF Carried, Popped
<1>9. TypesOf(L, l, ss, m, q, o)
  BY <1>1, <1>2 DEF TypesOf, Popped
<1>10. Registry(L, m, q, b)
  BY <1>1, <1>6, <1>7 DEF Registry, Right, Settled, LiveIn
<1>11. ListOf(l, m, q, b)
  BY <1>1, <1>4, <1>7, NullFacts DEF ListOf
<1>12. Segs(ss, m, q)
  BY <1>1, <1>8 DEF Segs
<1>13. OwnSegs(m, q) /\ InUse(m, q, o)
  BY <1>1, <1>2 DEF OwnSegs, InUse, Popped
<1> QED BY <1>4, <1>5, <1>9, <1>10, <1>11, <1>12, <1>13 DEF Books, Settled, q, p, b

\* An init refuses: its segment list goes, and the base if one was made for it.
LEMMA RefusedBooks ==
  ASSUME NEW L, NEW l, NEW ss, NEW m, NEW ps, NEW o, Books(L, l, ss, m, ps, o, NULL),
         ps # <<>>, Last(ps).made = NULL
  PROVE  Books(L, l, ss \ {Last(ps).seglist}, Freed(m, Last(ps).alloc), Front(ps), o, NULL)
<1> DEFINE q == Front(ps)
           p == Last(ps)
           b == p.alloc
           m2 == Freed(m, b)
<1>1. /\ TypesOf(L, l, ss, m, ps, o)
      /\ Registry(L, m, ps, NULL)
      /\ ListOf(l, m, ps, NULL)
      /\ Segs(ss, m, ps) /\ OwnSegs(m, ps) /\ InUse(m, ps, o)
  BY DEF Books
<1>2. Popped(ps, q)
  BY <1>1, PoppedFront DEF TypesOf
<1> HIDE DEF q
<1>3. p = ps[Len(ps)] /\ Len(ps) \in DOMAIN ps /\ p \in Inits /\ p.made = NULL
  BY <1>2 DEF Popped
<1>4. b # NULL => b \in LiveIn(m) /\ m[b].seglist = p.seglist /\ o[b] = 0
  BY <1>1, <1>3 DEF InUse, Bare
<1>5. m2 \in [Addrs -> Bases] /\ \A c \in Addrs : m2[c] = IF c = b THEN NoLib ELSE m[c]
  BY <1>1, <1>4, NullFacts DEF TypesOf, Freed, LiveIn, Bases, NoLib
<1>6. b # NULL => ~IsAlloc(q, b) /\ ~IsMade(q, b)
  <2> SUFFICES ASSUME NEW i \in DOMAIN q, b \in {ps[i].alloc, ps[i].made}, b # NULL PROVE FALSE
    BY <1>2 DEF IsAlloc, IsMade, Popped
  <2>1. i \in DOMAIN ps /\ i # Len(ps)
    BY <1>2 DEF Popped
  <2>2. ps[i].seglist = ps[Len(ps)].seglist
    BY <1>1, <1>3, <1>4, <2>1 DEF InUse, Bare, Adds
  <2> QED BY <1>1, <1>3, <2>1, <2>2 DEF OwnSegs
<1>7. /\ \A c : IsAlloc(ps, c) <=> IsAlloc(q, c) \/ c = b
      /\ \A c \in Addrs : IsMade(ps, c) <=> IsMade(q, c)
  BY <1>2, <1>3, NullFacts DEF IsAlloc, IsMade, Popped
<1> HIDE DEF p, b, m2
<1>8. \A c : c \in LiveIn(m2) <=> c \in LiveIn(m) /\ c # b
  BY <1>5 DEF LiveIn, NoLib
<1>9. \A c \in LiveIn(m2) : c \in Addrs /\ c \in LiveIn(m) /\ c # b /\ m2[c] = m[c]
  BY <1>5, <1>8 DEF LiveIn
<1>10. \A c : Settled(m2, q, c) <=> Settled(m, ps, c)
  BY <1>7, <1>8 DEF Settled
<1>11. \A s : Carried(m2, q, s) <=> Carried(m, ps, s) /\ s # p.seglist
  <2>1. ASSUME NEW s, Carried(m2, q, s) PROVE Carried(m, ps, s) /\ s # p.seglist
    <3>1. CASE \E c \in LiveIn(m2) : m2[c].seglist = s
      BY <1>1, <1>3, <1>9, <3>1, NullFacts DEF Carried, OwnSegs, b
    <3>2. CASE \E i \in DOMAIN q : q[i].seglist = s
      BY <1>1, <1>2, <1>3, <3>2 DEF Carried, OwnSegs, Popped
    <3> QED BY <2>1, <3>1, <3>2 DEF Carried
  <2>2. ASSUME NEW s, Carried(m, ps, s), s # p.seglist PROVE Carried(m2, q, s)
    <3>1. CASE \E c \in LiveIn(m) : m[c].seglist = s
      <4>1. PICK c \in LiveIn(m) : m[c].seglist = s
        BY <3>1
      <4>2. c # NULL
        BY NullFacts DEF LiveIn
      <4>3. c # b
        BY <1>4, <2>2, <4>1, <4>2
      <4> QED BY <1>8, <1>9, <4>1, <4>3 DEF Carried
    <3>2. CASE \E i \in DOMAIN ps : ps[i].seglist = s
      BY <1>2, <1>3, <2>2, <3>2 DEF Carried, Popped
    <3> QED BY <2>2, <3>1, <3>2 DEF Carried
  <2> QED BY <2>1, <2>2
<1>12. TypesOf(L, l, ss \ {p.seglist}, m2, q, o)
  BY <1>1, <1>2, <1>5 DEF TypesOf, Popped
<1>13. Registry(L, m2, q, NULL)
  BY <1>1, <1>7, <1>9, <1>10 DEF Registry, Right, Settled
<1>14. ListOf(l, m2, q, NULL)
  BY <1>1, <1>10 DEF ListOf
<1>15. Segs(ss \ {p.seglist}, m2, q)
  BY <1>1, <1>11 DEF Segs
<1>16. OwnSegs(m2, q)
  BY <1>1, <1>2, <1>9 DEF OwnSegs, Popped
<1>17. InUse(m2, q, o)
  <2>1. \A c \in Addrs : o[c] <= m2[c].count /\ (o[c] > 0 => c \in LiveIn(m2))
    BY <1>1, <1>4, <1>5, <1>8, NullFacts DEF InUse, NoLib, TypesOf
  <2>2. ASSUME NEW i \in DOMAIN q, q[i].alloc # NULL PROVE Bare(q[i], m2, o)
    <3>1. Bare(q[i], m, o) /\ q[i].alloc \in Addrs
      BY <1>1, <1>2, <2>2 DEF InUse, Bare, Popped, LiveIn
    <3>2. q[i].alloc # b
      BY <1>6, <2>2 DEF IsAlloc
    <3> QED BY <1>8, <1>9, <2>2, <3>1, <3>2 DEF Bare
  <2>3. ASSUME NEW i \in DOMAIN q, q[i].made # NULL PROVE Adds(q[i], m2)
    <3>1. Adds(q[i], m)
      BY <1>1, <1>2 DEF InUse, Popped
    <3>2. q[i].made # b
      BY <1>6, <2>3 DEF IsMade
    <3> QED BY <1>8, <1>9, <2>3, <3>1, <3>2 DEF Adds
  <2> QED BY <2>1, <2>2, <2>3 DEF InUse, Bare, Adds
<1> QED BY <1>12, <1>13, <1>14, <1>15, <1>16, <1>17 DEF Books, q, p, b, m2

\* A running init adds the library b that it built: it is linked, and entered
\* under n without its seglist.
LEMMA AddedBooks ==
  ASSUME NEW L, NEW l, NEW ss, NEW m, NEW ps, NEW o, Books(L, l, ss, m, ps, o, NULL),
         NEW i \in DOMAIN ps, ps[i].alloc = NULL, ps[i].made = NULL,
         NEW b, NEW m2, Made(m, m2, b, FileOf[ps[i].name], ps[i].seglist), NEW n \in Names
  PROVE  Books(register_loaded(L, n, b, NULL, NULL), Append(l, b), ss, m2,
               [ps EXCEPT ![i].made = b], o, NULL)
<1> DEFINE e == [base |-> b, seglist |-> NULL, alloc |-> NULL]
           K == register_loaded(L, n, b, NULL, NULL)
           k == Append(l, b)
           f == FileOf[ps[i].name]
           s == ps[i].seglist
           q == [ps EXCEPT ![i].made = b]
<1>1. /\ TypesOf(L, l, ss, m, ps, o)
      /\ Registry(L, m, ps, NULL)
      /\ ListOf(l, m, ps, NULL)
      /\ Segs(ss, m, ps) /\ OwnSegs(m, ps) /\ InUse(m, ps, o)
  BY DEF Books
<1>2. /\ m2 \in [Addrs -> Bases]
      /\ LiveIn(m2) = LiveIn(m) \union {b} /\ b \notin LiveIn(m) /\ b \in Addrs
      /\ m2[b].seglist = s /\ m2[b].count = 0 /\ m2[b].file = f
      /\ \A c \in Addrs : c # b => m2[c] = m[c]
  BY <1>1, MadeFacts DEF TypesOf
<1>3. /\ ~IsAlloc(ps, b) /\ ~IsMade(ps, b) /\ ~Listed(l, b) /\ o[b] = 0
      /\ \A j \in Names : L[j].base # b
  BY <1>2, DeadFacts
<1>4. /\ ps \in Seq(Inits) /\ ps[i] \in Inits
      /\ q = [ps EXCEPT ![i] = [ps[i] EXCEPT !.made = b]]
  BY <1>1 DEF TypesOf
<1>5. /\ q \in Seq(Inits) /\ DOMAIN q = DOMAIN ps
      /\ \A j \in DOMAIN ps : /\ q[j].alloc = ps[j].alloc /\ q[j].seglist = ps[j].seglist
                              /\ q[j].name = ps[j].name
                              /\ q[j].made = IF j = i THEN b ELSE ps[j].made
  <2> DEFINE r == [ps[i] EXCEPT !.made = b]
  <2>1. /\ r \in Inits /\ r.alloc = ps[i].alloc /\ r.seglist = ps[i].seglist
        /\ r.name = ps[i].name /\ r.made = b
    BY <1>2, <1>4 DEF Inits
  <2> HIDE DEF r
  <2>2. q = [ps EXCEPT ![i] = r]
    BY <1>4 DEF r
  <2> HIDE DEF q
  <2>3. /\ q \in Seq(Inits) /\ DOMAIN q = DOMAIN ps
        /\ \A j \in DOMAIN ps : q[j] = IF j = i THEN r ELSE ps[j]
    BY <1>4, <2>1, <2>2
  <2> QED BY <2>1, <2>3
<1> HIDE DEF q, f, s
<1>6. /\ \A c : IsAlloc(q, c) <=> IsAlloc(ps, c)
      /\ \A c \in Addrs : IsMade(q, c) <=> IsMade(ps, c) \/ c = b
  BY <1>5, NullFacts DEF IsAlloc, IsMade
<1>7. \A c : Settled(m2, q, c) <=> Settled(m, ps, c) \/ c = b
  BY <1>2, <1>3, <1>6 DEF Settled
<1>8. \A c \in LiveIn(m) : c \in Addrs /\ c # b /\ m2[c] = m[c]
  BY <1>2 DEF LiveIn
<1>9. \A t : Carried(m2, q, t) <=> Carried(m, ps, t)
  BY <1>2, <1>5, <1>8 DEF Carried, s
<1>10. /\ k \in Seq(Addrs) /\ (\A c : Listed(k, c) <=> Listed(l, c) \/ c = b)
       /\ \A x, y \in DOMAIN k : k[x] = k[y] => x = y
  <2>1. l \in Seq(Addrs) /\ \A x, y \in DOMAIN l : l[x] = l[y] => x = y
    BY <1>1 DEF TypesOf, ListOf
  <2> QED BY <1>2, <1>3, <2>1, AppendFacts DEF Listed
<1>11. K \in [Names -> Entries] /\ \A j \in Names : K[j] = IF j = n THEN e ELSE L[j]
  <2>1. e \in Entries
    BY <1>2 DEF Entries
  <2>2. L \in [Names -> Entries] /\ K = [L EXCEPT ![n] = e]
    BY <1>1 DEF TypesOf, register_loaded
  <2> HIDE DEF e, K
  <2> QED BY <2>1, <2>2
<1>12. e.base = b /\ e.seglist = NULL /\ e.alloc = NULL /\ b # NULL
  BY <1>2, NullFacts
<1> HIDE DEF K, k, e
<1>13. TypesOf(K, k, ss, m2, q, o)
  BY <1>1, <1>2, <1>5, <1>10, <1>11 DEF TypesOf
<1>14. Registry(K, m2, q, NULL)
  <2>1. Right(e, m2, q)
    BY <1>2, <1>6, <1>7, <1>12 DEF Right
  <2>2. ASSUME NEW j \in Names, j # n, K[j].base # NULL
        PROVE  Right(K[j], m2, q) /\ \A h \in Names : K[h].base = K[j].base => h = j
    <3>1. K[j] = L[j] /\ Right(L[j], m, ps) /\ L[j].base \in LiveIn(m)
      BY <1>1, <1>11, <2>2 DEF Registry, Right, Settled
    <3>2. Right(K[j], m2, q)
      BY <1>6, <1>7, <1>8, <3>1 DEF Right
    <3>3. \A h \in Names : K[h].base = K[j].base => h = j
      BY <1>1, <1>3, <1>11, <1>12, <2>2, <3>1 DEF Registry
    <3> QED BY <3>2, <3>3
  <2>3. \A h \in Names : K[h].base = b => h = n
    BY <1>3, <1>11
  <2>4. \A j \in Names : K[j] # NoEntry => K[j].base # NULL
    BY <1>1, <1>11, <1>12 DEF Registry
  <2> QED BY <1>11, <1>12, <2>1, <2>2, <2>3, <2>4 DEF Registry
<1>15. ListOf(k, m2, q, NULL)
  BY <1>1, <1>2, <1>7, <1>10, NullFacts DEF ListOf
<1>16. Segs(ss, m2, q)
  BY <1>1, <1>9 DEF Segs
<1>17. OwnSegs(m2, q)
  <2>1. \A c \in LiveIn(m) : m[c].seglist # s
    BY <1>1, NullFacts DEF OwnSegs, LiveIn, s
  <2>2. \A c, d \in LiveIn(m2) : m2[c].seglist = m2[d].seglist => c = d
    BY <1>1, <1>2, <1>8, <2>1 DEF OwnSegs
  <2>3. \A x, y \in DOMAIN q : q[x].seglist = q[y].seglist => x = y
    BY <1>1, <1>5 DEF OwnSegs
  <2>4. \A c \in LiveIn(m2), j \in DOMAIN q :
          m2[c].seglist = q[j].seglist => c \in {q[j].alloc, q[j].made}
    <3> TAKE c \in LiveIn(m2), j \in DOMAIN q
    <3>1. CASE c = b
      BY <1>1, <1>2, <1>5, <3>1 DEF OwnSegs, s
    <3>2. CASE c # b /\ j # i
      BY <1>1, <1>2, <1>5, <1>8, <3>2 DEF OwnSegs
    <3>3. CASE c # b /\ j = i
      BY <1>2, <1>5, <1>8, <2>1, <3>3 DEF s
    <3> QED BY <3>1, <3>2, <3>3
  <2> QED BY <2>2, <2>3, <2>4 DEF OwnSegs
<1>18. InUse(m2, q, o)
  <2>1. \A c \in Addrs : o[c] <= m2[c].count /\ (o[c] > 0 => c \in LiveIn(m2))
    BY <1>1, <1>2, <1>3 DEF InUse
  <2>2. \A j \in DOMAIN q : Bare(q[j], m2, o)
    BY <1>1, <1>5, <1>2, <1>8 DEF InUse, Bare
  <2>3. \A j \in DOMAIN q : Adds(q[j], m2)
    BY <1>1, <1>2, <1>5, <1>8 DEF InUse, Adds, s, f
  <2> QED BY <2>1, <2>2, <2>3 DEF InUse
<1> QED BY <1>13, <1>14, <1>15, <1>16, <1>17, <1>18 DEF Books, q, k, K

\* The init that added b returns it.
LEMMA AddedInitBooks ==
  ASSUME NEW L, NEW l, NEW ss, NEW m, NEW ps, NEW o, Books(L, l, ss, m, ps, o, NULL),
         ps # <<>>, Last(ps).made # NULL
  PROVE  LET b == Last(ps).made
             q == Front(ps)
         IN  /\ Books(L, l, ss, m, q, o, b)
             /\ Settled(m, q, b) /\ ~IsMade(q, b) /\ m[b].seglist = Last(ps).seglist
<1> DEFINE q == Front(ps)
           p == Last(ps)
           b == p.made
<1>1. /\ TypesOf(L, l, ss, m, ps, o)
      /\ Registry(L, m, ps, NULL)
      /\ ListOf(l, m, ps, NULL)
      /\ Segs(ss, m, ps) /\ OwnSegs(m, ps) /\ InUse(m, ps, o)
  BY DEF Books
<1>2. Popped(ps, q)
  BY <1>1, PoppedFront DEF TypesOf
<1> HIDE DEF q
<1>3. p = ps[Len(ps)] /\ Len(ps) \in DOMAIN ps
  BY <1>2 DEF Popped
<1>4. b \in LiveIn(m) /\ b \in Addrs /\ b # NULL /\ m[b].seglist = p.seglist /\ p.alloc = NULL
  BY <1>1, <1>3 DEF InUse, Adds, LiveIn
<1>5. ~IsAlloc(ps, b) /\ ~IsMade(q, b)
  <2>1. ASSUME NEW i \in DOMAIN ps, b \in {ps[i].alloc, ps[i].made} PROVE i = Len(ps)
    <3>1. ps[i].seglist = ps[Len(ps)].seglist
      BY <1>1, <1>3, <1>4, <2>1 DEF InUse, Bare, Adds
    <3> QED BY <1>1, <1>3, <3>1 DEF OwnSegs
  <2> QED BY <1>2, <1>3, <1>4, <2>1 DEF IsAlloc, IsMade, Popped
<1>6. /\ \A c \in Addrs : IsAlloc(ps, c) <=> IsAlloc(q, c)
      /\ \A c : IsMade(ps, c) <=> IsMade(q, c) \/ c = b
  BY <1>2, <1>3, <1>4, NullFacts DEF IsAlloc, IsMade, Popped
<1> HIDE DEF p, b
<1>7. \A c : Settled(m, q, c) <=> Settled(m, ps, c)
  BY <1>6 DEF Settled, LiveIn
<1>8. \A s : Carried(m, q, s) <=> Carried(m, ps, s)
  BY <1>2, <1>3, <1>4 DEF Carried, Popped
<1>9. TypesOf(L, l, ss, m, q, o)
  BY <1>1, <1>2 DEF TypesOf, Popped
<1>10. Registry(L, m, q, b)
  BY <1>1, <1>6, <1>7 DEF Registry, Right
<1>11. ListOf(l, m, q, b)
  BY <1>1, <1>7, NullFacts DEF ListOf
<1>12. Segs(ss, m, q)
  BY <1>1, <1>8 DEF Segs
<1>13. OwnSegs(m, q) /\ InUse(m, q, o)
  BY <1>1, <1>2 DEF OwnSegs, InUse, Popped
<1>14. Settled(m, q, b)
  BY <1>4, <1>5, <1>7 DEF Settled
<1> QED BY <1>4, <1>5, <1>9, <1>10, <1>11, <1>12, <1>13, <1>14 DEF Books, q, p, b

\* An init that built its own base and did not add it is about to hand it over.
LEMMA DirectBooks ==
  ASSUME NEW L, NEW l, NEW ss, NEW m, NEW ps, NEW o, Books(L, l, ss, m, ps, o, NULL),
         ps # <<>>, Last(ps).alloc = NULL, Last(ps).made = NULL,
         NEW b, NEW f, NEW m2, Made(m, m2, b, f, Last(ps).seglist)
  PROVE  /\ Books(L, l, ss, m2, Front(ps), o, b)
         /\ Settled(m2, Front(ps), b) /\ ~IsMade(Front(ps), b)
         /\ m2[b].seglist = Last(ps).seglist
<1> DEFINE q == Front(ps)
           p == Last(ps)
           s == p.seglist
<1>1. /\ TypesOf(L, l, ss, m, ps, o)
      /\ Registry(L, m, ps, NULL)
      /\ ListOf(l, m, ps, NULL)
      /\ Segs(ss, m, ps) /\ OwnSegs(m, ps) /\ InUse(m, ps, o)
  BY DEF Books
<1>2. Popped(ps, q)
  BY <1>1, PoppedFront DEF TypesOf
<1> HIDE DEF q
<1>3. p = ps[Len(ps)] /\ Len(ps) \in DOMAIN ps /\ p.alloc = NULL /\ p.made = NULL
  BY <1>2 DEF Popped
<1>4. /\ m2 \in [Addrs -> Bases]
      /\ LiveIn(m2) = LiveIn(m) \union {b} /\ b \notin LiveIn(m) /\ b \in Addrs
      /\ m2[b].seglist = s /\ m2[b].count = 0
      /\ \A c \in Addrs : c # b => m2[c] = m[c]
  BY <1>1, MadeFacts DEF TypesOf, Made
<1>5. /\ ~IsAlloc(ps, b) /\ ~IsMade(ps, b) /\ ~Listed(l, b) /\ o[b] = 0
      /\ \A n \in Names : L[n].base # b
  BY <1>4, DeadFacts
<1>6. \A c \in Addrs : (IsAlloc(ps, c) <=> IsAlloc(q, c)) /\ (IsMade(ps, c) <=> IsMade(q, c))
  BY <1>2, <1>3, NullFacts DEF IsAlloc, IsMade, Popped
<1> HIDE DEF p, s
<1>7. \A c : Settled(m2, q, c) <=> Settled(m, ps, c) \/ c = b
  BY <1>4, <1>5, <1>6 DEF Settled, LiveIn
<1>8. \A c \in LiveIn(m) : c \in Addrs /\ c # b /\ m2[c] = m[c]
  BY <1>4 DEF LiveIn
<1>9. \A t : Carried(m2, q, t) <=> Carried(m, ps, t)
  <2>1. \A t : (\E c \in LiveIn(m2) : m2[c].seglist = t)
                 <=> (\E c \in LiveIn(m) : m[c].seglist = t) \/ t = s
    BY <1>4, <1>8
  <2>2. \A t : (\E i \in DOMAIN ps : ps[i].seglist = t)
                 <=> (\E i \in DOMAIN q : q[i].seglist = t) \/ t = s
    BY <1>2, <1>3 DEF Popped, s
  <2> QED BY <2>1, <2>2 DEF Carried
<1>10. TypesOf(L, l, ss, m2, q, o)
  BY <1>1, <1>2, <1>4 DEF TypesOf, Popped
<1>11. Registry(L, m2, q, b)
  BY <1>1, <1>6, <1>7, <1>8 DEF Registry, Right, Settled
<1>12. ListOf(l, m2, q, b)
  BY <1>1, <1>7, NullFacts DEF ListOf
<1>13. Segs(ss, m2, q)
  BY <1>1, <1>9 DEF Segs
<1>14. OwnSegs(m2, q)
  <2>1. \A i \in DOMAIN q : i \in DOMAIN ps /\ i # Len(ps) /\ q[i] = ps[i]
    BY <1>2 DEF Popped
  <2>2. \A c \in LiveIn(m) : m[c].seglist # s
    BY <1>1, <1>3, NullFacts DEF OwnSegs, LiveIn, s
  <2>3. \A i \in DOMAIN q : q[i].seglist # s
    BY <1>1, <1>3, <2>1 DEF OwnSegs, s
  <2>4. \A c, d \in LiveIn(m2) : m2[c].seglist = m2[d].seglist => c = d
    BY <1>1, <1>4, <1>8, <2>2 DEF OwnSegs
  <2>5. \A c \in LiveIn(m2), i \in DOMAIN q :
          m2[c].seglist = q[i].seglist => c \in {q[i].alloc, q[i].made}
    BY <1>1, <1>4, <1>8, <2>1, <2>3 DEF OwnSegs
  <2>6. \A i, j \in DOMAIN q : q[i].seglist = q[j].seglist => i = j
    BY <1>1, <2>1 DEF OwnSegs
  <2> QED BY <2>4, <2>5, <2>6 DEF OwnSegs
<1>15. InUse(m2, q, o)
  <2>1. \A c \in Addrs : o[c] <= m2[c].count /\ (o[c] > 0 => c \in LiveIn(m2))
    BY <1>1, <1>4, <1>5 DEF InUse
  <2> QED BY <1>1, <1>2, <1>4, <1>8, <2>1 DEF InUse, Bare, Adds, Popped
<1>16. Settled(m2, q, b) /\ ~IsMade(q, b)
  BY <1>4, <1>5, <1>6, <1>7
<1> QED BY <1>4, <1>10, <1>11, <1>12, <1>13, <1>14, <1>15, <1>16 DEF Books, q, p, s

\* A library that nobody has open goes: its entry, its node, its segment list
\* and its base.
LEMMA UnloadedBooks ==
  ASSUME NEW L, NEW l, NEW ss, NEW m, NEW ps, NEW o, Books(L, l, ss, m, ps, o, NULL),
         NEW n \in Names, NEW b \in Addrs, L[n].base = b, o[b] = 0, ~IsMade(ps, b)
  PROVE  Books(unregister_loaded(L, n), Unlinked(l, b), ss \ {m[b].seglist},
               [m EXCEPT ![b] = NoLib], ps, o, NULL)
<1> DEFINE K == unregister_loaded(L, n)
           k == Unlinked(l, b)
           s == m[b].seglist
           m2 == [m EXCEPT ![b] = NoLib]
<1>1. /\ TypesOf(L, l, ss, m, ps, o)
      /\ Registry(L, m, ps, NULL)
      /\ ListOf(l, m, ps, NULL)
      /\ Segs(ss, m, ps) /\ OwnSegs(m, ps) /\ InUse(m, ps, o)
  BY DEF Books
<1>2. b # NULL /\ b \in LiveIn(m) /\ ~IsAlloc(ps, b) /\ \A j \in Names : L[j].base = b => j = n
  BY <1>1, NullFacts DEF Registry, Right, Settled
<1>3. m2 \in [Addrs -> Bases] /\ \A c \in Addrs : m2[c] = IF c = b THEN NoLib ELSE m[c]
  BY <1>1 DEF TypesOf, Bases, NoLib
<1>4. \A c : c \in LiveIn(m2) <=> c \in LiveIn(m) /\ c # b
  BY <1>3 DEF LiveIn, NoLib
<1>5. \A c \in LiveIn(m2) : c \in Addrs /\ c \in LiveIn(m) /\ c # b /\ m2[c] = m[c]
  BY <1>3, <1>4 DEF LiveIn
<1>6. K \in [Names -> Entries] /\ \A j \in Names : K[j] = IF j = n THEN NoEntry ELSE L[j]
  BY <1>1 DEF unregister_loaded, TypesOf, Entries, NoEntry
<1>7. /\ k \in Seq(Addrs) /\ \A c : Listed(k, c) <=> Listed(l, c) /\ c # b
      /\ \A i, j \in DOMAIN k : k[i] = k[j] => i = j
  BY <1>1, UnlinkedFacts DEF TypesOf, ListOf
<1> HIDE DEF K, k, s, m2
<1>8. \A c : Settled(m2, ps, c) <=> Settled(m, ps, c) /\ c # b
  BY <1>4 DEF Settled
<1>9. \A t : Carried(m2, ps, t) <=> Carried(m, ps, t) /\ t # s
  <2>1. \A i \in DOMAIN ps : ps[i].seglist # s
    BY <1>1, <1>2 DEF OwnSegs, IsAlloc, IsMade, s
  <2>2. \A c \in LiveIn(m) : c # b <=> m[c].seglist # s
    BY <1>1, <1>2 DEF OwnSegs, s
  <2> QED BY <1>4, <1>5, <2>1, <2>2 DEF Carried
<1>10. TypesOf(K, k, ss \ {s}, m2, ps, o)
  BY <1>1, <1>3, <1>6, <1>7 DEF TypesOf
<1>11. Registry(K, m2, ps, NULL)
  <2>1. ASSUME NEW j \in Names, K[j].base # NULL
        PROVE  Right(K[j], m2, ps) /\ \A i \in Names : K[i].base = K[j].base => i = j
    <3>1. j # n /\ K[j] = L[j]
      BY <1>6, <2>1 DEF NoEntry
    <3>2. L[j].base # b /\ Right(L[j], m, ps)
      BY <1>1, <1>2, <2>1, <3>1 DEF Registry
    <3>3. Right(K[j], m2, ps)
      BY <1>5, <1>8, <3>1, <3>2 DEF Right, Settled
    <3>4. \A i \in Names : K[i].base = K[j].base => i = j
      BY <1>1, <1>6, <2>1, <3>1 DEF Registry, NoEntry
    <3> QED BY <3>3, <3>4
  <2>2. \A j \in Names : K[j] # NoEntry => K[j].base # NULL
    BY <1>1, <1>6 DEF Registry
  <2> QED BY <2>1, <2>2 DEF Registry
<1>12. ListOf(k, m2, ps, NULL)
  BY <1>1, <1>7, <1>8 DEF ListOf
<1>13. Segs(ss \ {s}, m2, ps)
  BY <1>1, <1>9 DEF Segs
<1>14. OwnSegs(m2, ps)
  BY <1>1, <1>5 DEF OwnSegs
<1>15. InUse(m2, ps, o)
  <2>1. \A c \in Addrs : o[c] <= m2[c].count /\ (o[c] > 0 => c \in LiveIn(m2))
    BY <1>1, <1>3, <1>4 DEF InUse, NoLib
  <2>2. ASSUME NEW i \in DOMAIN ps, ps[i].alloc # NULL PROVE Bare(ps[i], m2, o)
    <3>1. Bare(ps[i], m, o) /\ ps[i].alloc # b /\ ps[i].alloc \in LiveIn(m2)
      BY <1>1, <1>2, <1>4, <2>2 DEF InUse, Bare, IsAlloc
    <3> QED BY <1>5, <3>1 DEF Bare
  <2>3. ASSUME NEW i \in DOMAIN ps, ps[i].made # NULL PROVE Adds(ps[i], m2)
    <3>1. Adds(ps[i], m) /\ ps[i].made # b /\ ps[i].made \in LiveIn(m2)
      BY <1>1, <1>4, <2>3 DEF InUse, Adds, IsMade
    <3> QED BY <1>5, <3>1 DEF Adds
  <2> QED BY <2>1, <2>2, <2>3 DEF InUse, Bare, Adds
<1> QED BY <1>10, <1>11, <1>12, <1>13, <1>14, <1>15 DEF Books, K, k, s, m2

-----------------------------------------------------------------------------
(* The steps. *)

Steady == fault' = fault /\ NoLoudFailure

LEMMA SteadyQuiet == ASSUME Steady PROVE NoLoudFailure'
BY DEF Steady, NoLoudFailure

\* The Open vector of a library whose init is over, or that its init added.
LEMMA OpenVectorBooks ==
  ASSUME NEW L, NEW l, NEW ss, NEW m, NEW ps, NEW b \in Addrs,
         Books(L, l, ss, m, ps, opens, NULL), Settled(m, ps, b), OpenVector(b, m)
  PROVE  Books(L, l, ss, lib', ps, opens', NULL)
<1>1. /\ TypesOf(L, l, ss, m, ps, opens)
      /\ InUse(m, ps, opens)
  BY DEF Books
<1>2. CASE lib' = m /\ UNCHANGED opens
  BY <1>2
<1>3. CASE /\ lib' = [m EXCEPT ![b].count = @ + 1]
           /\ opens' = [opens EXCEPT ![b] = @ + 1]
  <2>1. m \in [Addrs -> Bases] /\ opens \in [Addrs -> Nat] /\ m[b] \in Bases
    BY <1>1 DEF TypesOf
  <2>2. lib' = [m EXCEPT ![b] = [m[b] EXCEPT !.count = m[b].count + 1]]
    BY <1>3
  <2> DEFINE e == [m[b] EXCEPT !.count = m[b].count + 1]
  <2>3. /\ e \in Bases /\ e.file = m[b].file /\ e.seglist = m[b].seglist
        /\ e.count = m[b].count + 1
    BY <2>1 DEF Bases
  <2> HIDE DEF e
  <2>4. lib' \in [Addrs -> Bases] /\ \A c \in Addrs : lib'[c] = IF c = b THEN e ELSE m[c]
    BY <2>1, <2>2, <2>3 DEF e
  <2>5. /\ opens' \in [Addrs -> Nat]
        /\ \A c \in Addrs : opens'[c] = IF c = b THEN opens[b] + 1 ELSE opens[c]
    BY <1>3, <2>1
  <2>6. \A c \in Addrs : lib'[c].file = m[c].file /\ lib'[c].seglist = m[c].seglist
    BY <2>3, <2>4
  <2>7. \A c \in Addrs : opens'[c] <= lib'[c].count /\ (opens'[c] > 0 => c \in LiveIn(m))
    <3> TAKE c \in Addrs
    <3>1. opens[c] <= m[c].count /\ (opens[c] > 0 => c \in LiveIn(m)) /\ b \in LiveIn(m)
      BY <1>1 DEF InUse, Settled
    <3>2. m[c].count \in Nat /\ opens[c] \in Nat
      BY <2>1 DEF Bases
    <3> QED BY <2>3, <2>4, <2>5, <3>1, <3>2
  <2>8. \A c \in Addrs : IsAlloc(ps, c) => lib'[c] = m[c] /\ opens'[c] = opens[c]
    BY <2>4, <2>5 DEF Settled
  <2> QED BY <2>4, <2>5, <2>6, <2>7, <2>8, RecountedBooks
<1> QED BY <1>2, <1>3 DEF OpenVector

\* The base b that an init left is entered and opened.
LEMMA OpenedBooks ==
  ASSUME NEW p \in Inits, NEW b \in Addrs, NEW m, NEW ps,
         Books(loaded, libList, seglists \union {p.seglist}, m, ps, opens, b),
         Settled(m, ps, b), ~IsMade(ps, b), m[b].seglist = p.seglist,
         p.alloc \in {NULL, b}, after_init(p, b, m), pending' = ps, Steady
  PROVE  LibsInv'
<1>1. /\ libList' = IF Listed(libList, b) THEN libList ELSE Append(libList, b)
      /\ loaded' = register_loaded(Renamed(loaded, p.name, b), p.name, b, p.seglist, p.alloc)
      /\ OpenVector(b, m)
      /\ seglists' = seglists \union {p.seglist}
  BY NullFacts DEF after_init
<1>2. p.name \in Names
  BY DEF Inits
<1>3. Books(loaded', libList', seglists', m, ps, opens, NULL)
  BY <1>1, <1>2, EnteredBooks
<1>4. Books(loaded', libList', seglists', lib', ps, opens', NULL)
  BY <1>1, <1>3, OpenVectorBooks DEF Settled
<1> QED BY <1>4, SteadyQuiet DEF LibsInv

LEMMA LibsTypes == ASSUME LibsInv PROVE TypesOf(loaded, libList, seglists, lib, pending, opens)
BY DEF LibsInv, Books

LEMMA ReopenKeeps ==
  ASSUME LibsInv, NEW n \in Names, reopen(n) PROVE LibsInv'
<1> DEFINE b == loaded[n].base
<1>1. Registry(loaded, lib, pending, NULL)
  BY DEF LibsInv, Books
<1>2. b \in Addrs /\ Settled(lib, pending, b)
  BY <1>1 DEF reopen, Registry, Right, Settled, LiveIn
<1>3. OpenVector(b, lib)
  BY DEF reopen
<1> HIDE DEF b
<1>4. Books(loaded, libList, seglists, lib', pending, opens', NULL)
  BY <1>2, <1>3, OpenVectorBooks DEF LibsInv
<1>5. Steady
  BY DEF reopen, Steady, LibsInv
<1> QED BY <1>4, <1>5, SteadyQuiet DEF LibsInv, reopen

LEMMA CommonKeeps ==
  ASSUME LibsInv, NEW n \in Names, open_library_common(n) PROVE LibsInv'
<1>1. NoLoudFailure'
  BY DEF open_library_common, LibsInv, NoLoudFailure
<1> QED BY <1>1 DEF open_library_common, LibsInv

LEMMA BeginOpenKeeps ==
  ASSUME LibsInv, NEW n \in Names, NEW s \in BPtrs, NEW b \in Addrs, begin_open(n, s, b)
  PROVE  LibsInv'
<1> DEFINE f == FileOf[n]
           p == PendingOpen(n, s, b, NULL)
           m2 == MakeLibrary(lib, b, f, s)
<1>1. Made(lib, m2, b, f, s) /\ s \notin seglists
  BY NameAssumption DEF begin_open, Made, Live, LiveIn
<1>2. p \in Inits /\ p.alloc = b /\ p.made = NULL /\ p.seglist = s /\ b # NULL
  BY NullFacts DEF PendingOpen, Inits
<1>3. Steady
  BY DEF begin_open, Steady, LibsInv
<1>4. CASE f \in NullInit
  <2>1. after_init(p, b, m2) /\ pending' = pending
    BY <1>4 DEF begin_open
  <2> HIDE DEF p, m2, f
  <2>2. /\ Books(loaded, libList, seglists \union {s}, m2, pending, opens, b)
        /\ Settled(m2, pending, b) /\ ~IsMade(pending, b) /\ m2[b].seglist = s
    BY <1>1, UninitedBooks DEF LibsInv
  <2> QED BY <1>2, <1>3, <2>1, <2>2, OpenedBooks
<1>5. CASE f \notin NullInit
  <2>1. /\ seglists' = seglists \union {s} /\ lib' = m2 /\ pending' = Append(pending, p)
        /\ UNCHANGED <<loaded, libList, opens>>
    BY <1>5 DEF begin_open
  <2> HIDE DEF p, m2, f
  <2>2. Books(loaded, libList, seglists \union {s}, m2, Append(pending, p), opens, NULL)
    BY <1>1, <1>2, StartedBooks DEF LibsInv
  <2> QED BY <1>3, <2>1, <2>2, SteadyQuiet DEF LibsInv
<1> QED BY <1>4, <1>5

LEMMA BeginDirectKeeps ==
  ASSUME LibsInv, NEW n \in Names, NEW s \in BPtrs, begin_direct_init(n, s)
  PROVE  LibsInv'
<1> DEFINE pre == find_lib_node_named(libList, lib, LnName[FileOf[n]], NULL)
           p == PendingOpen(n, s, NULL, pre)
<1>1. pre \in Addrs \union {NULL}
  <2> DEFINE hits == {i \in DOMAIN libList : /\ libList[i] # NULL /\ lib[libList[i]].file # NULL
                                             /\ LnName[lib[libList[i]].file] = LnName[FileOf[n]]}
  <2>1. pre = IF hits = {} THEN NULL
              ELSE libList[CHOOSE i \in hits : \A j \in hits : i <= j]
    BY DEF find_lib_node_named
  <2>2. libList \in Seq(Addrs)
    BY LibsTypes DEF TypesOf
  <2>3. CASE hits = {}
    BY <2>1, <2>3
  <2>4. CASE hits # {}
    <3>1. hits \subseteq DOMAIN libList /\ hits \subseteq Nat
      BY <2>2
    <3> HIDE DEF hits, pre
    <3>2. \E i \in hits : \A j \in hits : i <= j
      BY <2>4, <3>1, LeastPlace
    <3> QED BY <2>1, <2>2, <2>4, <3>1, <3>2
  <2> QED BY <2>3, <2>4
<1>2. /\ s \notin seglists /\ pending' = Append(pending, p)
      /\ seglists' = seglists \union {s}
      /\ UNCHANGED <<loaded, libList, lib, opens>>
  BY DEF begin_direct_init
<1>3. Steady
  BY DEF begin_direct_init, Steady, LibsInv
<1>4. p \in Inits /\ p.alloc = NULL /\ p.made = NULL /\ p.seglist = s
  BY <1>1 DEF PendingOpen, Inits
<1> HIDE DEF p, pre
<1>5. Books(loaded, libList, seglists \union {s}, lib, Append(pending, p), opens, NULL)
  BY <1>2, <1>4, LoadedBooks DEF LibsInv
<1> QED BY <1>2, <1>3, <1>5, SteadyQuiet DEF LibsInv

\* The newest init, as the steps that end it find it.
LEMMA TopFacts ==
  ASSUME LibsInv, pending # <<>>
  PROVE  /\ pending \in Seq(Inits) /\ Top \in Inits /\ Top.seglist \in seglists
         /\ seglists \union {Top.seglist} = seglists
         /\ Top.alloc # NULL => Top.made = NULL
         /\ Top.made # NULL => /\ Top.made \in Addrs /\ Settled(lib, pending, Top.made)
                               /\ lib[Top.made].file = FileOf[Top.name]
<1>1. /\ pending \in Seq(Inits) /\ Segs(seglists, lib, pending)
      /\ InUse(lib, pending, opens) /\ OwnSegs(lib, pending)
  BY DEF LibsInv, Books, TypesOf
<1>2. Popped(pending, Front(pending))
  BY <1>1, PoppedFront
<1>3. Top \in Inits /\ Top = pending[Len(pending)] /\ Len(pending) \in DOMAIN pending
  BY <1>2 DEF Popped, Top
<1>4. Adds(Top, lib)
  BY <1>1, <1>3 DEF InUse
<1> HIDE DEF Top
<1>5. ASSUME Top.made # NULL PROVE Top.made \in Addrs /\ Settled(lib, pending, Top.made)
  <2>1. Top.made \in LiveIn(lib) /\ lib[Top.made].seglist = Top.seglist /\ Top.alloc = NULL
    BY <1>4, <1>5 DEF Adds
  <2>2. ASSUME NEW i \in DOMAIN pending, pending[i].alloc = Top.made PROVE FALSE
    <3>1. pending[i].seglist = Top.seglist
      BY <1>1, <1>5, <2>1, <2>2 DEF InUse, Bare
    <3>2. pending[i] = Top
      BY <1>1, <1>3, <3>1 DEF OwnSegs
    <3> QED BY <1>5, <2>1, <2>2, <3>2
  <2> QED BY <2>1, <2>2 DEF Settled, IsAlloc, LiveIn
<1> QED BY <1>1, <1>3, <1>4, <1>5 DEF Segs, Carried, Adds

LEMMA InitReturnsKeeps ==
  ASSUME LibsInv, InitReturns PROVE LibsInv'
<1>1. /\ pending # <<>> /\ Top.alloc # NULL /\ pending' = Front(pending)
      /\ Steady
  BY DEF InitReturns, Steady, LibsInv
<1>2. /\ pending \in Seq(Inits) /\ Top \in Inits /\ Top.alloc \in Addrs /\ Top.made = NULL
      /\ seglists \union {Top.seglist} = seglists
  BY <1>1, TopFacts DEF Inits
<1>3. CASE after_init(Top, Top.alloc, lib)
  <2>1. /\ Books(loaded, libList, seglists, lib, Front(pending), opens, Top.alloc)
        /\ Settled(lib, Front(pending), Top.alloc) /\ ~IsMade(Front(pending), Top.alloc)
        /\ lib[Top.alloc].seglist = Top.seglist
    BY <1>1, InitedBooks DEF LibsInv, Top
  <2> QED BY <1>1, <1>2, <1>3, <2>1, OpenedBooks
<1>4. CASE after_init(Top, NULL, lib)
  <2>1. Books(loaded, libList, seglists \ {Top.seglist}, Freed(lib, Top.alloc), Front(pending),
              opens, NULL)
    BY <1>1, <1>2, RefusedBooks DEF LibsInv, Top
  <2>2. /\ lib' = Freed(lib, Top.alloc) /\ seglists' = seglists \ {Top.seglist}
        /\ loaded' = loaded /\ libList' = libList /\ opens' = opens
    BY <1>4 DEF after_init, Refused
  <2> QED BY <1>1, <2>1, <2>2, SteadyQuiet DEF LibsInv
<1> QED BY <1>3, <1>4 DEF InitReturns

LEMMA AddKeeps ==
  ASSUME LibsInv, NEW i \in DOMAIN pending, NEW b \in Addrs, add_library_handler(i, b)
  PROVE  LibsInv'
<1> DEFINE f == FileOf[pending[i].name]
           m2 == MakeLibrary(lib, b, f, pending[i].seglist)
<1>1. /\ pending[i].alloc = NULL /\ pending[i].made = NULL /\ b \in Addrs \ Live
      /\ lib' = m2 /\ libList' = Append(libList, b)
      /\ loaded' = register_loaded(loaded, LnName[f], b, NULL, NULL)
      /\ pending' = [pending EXCEPT ![i].made = b]
      /\ seglists' = seglists /\ opens' = opens /\ Steady
  BY DEF add_library_handler, Steady, LibsInv
<1>2. pending[i] \in Inits
  BY LibsTypes DEF TypesOf
<1>3. f \in Files /\ LnName[f] \in Names /\ Made(lib, m2, b, f, pending[i].seglist)
  BY <1>1, <1>2, NameAssumption DEF Inits, Made, Live, LiveIn
<1> HIDE DEF m2
<1>4. Books(loaded, libList, seglists, lib, pending, opens, NULL)
  BY DEF LibsInv
<1>5. Books(loaded', libList', seglists, m2, pending', opens, NULL)
  BY <1>1, <1>3, <1>4, AddedBooks
<1> QED BY <1>1, <1>5, SteadyQuiet DEF LibsInv

\* The base that an rt_Init leaves, when the rules of NullTwice are kept: its
\* own, also when it returns NULL.
LEMMA OwnNode ==
  ASSUME LibsInv, pending # <<>>, Top.made # NULL, Alone(FileOf[Top.name])
  PROVE  find_lib_node_named(libList, lib, LnName[FileOf[Top.name]], Top.preexisting) = Top.made
<1> DEFINE f == FileOf[Top.name]
           b == Top.made
           pre == Top.preexisting
           hits == {i \in DOMAIN libList : /\ libList[i] # pre /\ lib[libList[i]].file # NULL
                                           /\ LnName[lib[libList[i]].file] = LnName[f]}
<1>1. /\ ListOf(libList, lib, pending, NULL) /\ libList \in Seq(Addrs)
      /\ b \in Addrs /\ b # NULL /\ Settled(lib, pending, b) /\ lib[b].file = f
  BY TopFacts, NullFacts DEF LibsInv, Books, TypesOf
<1>2. b # pre /\ \A i \in DOMAIN libList : libList[i] \notin {pre, b} =>
                   LnName[lib[libList[i]].file] # LnName[f]
  BY DEF Alone, Range
<1>3. PICK k \in DOMAIN libList : libList[k] = b
  BY <1>1 DEF ListOf, Listed
<1>4. lib[b].file # NULL
  BY <1>1 DEF Settled, LiveIn
<1>5. find_lib_node_named(libList, lib, LnName[f], pre)
        = IF hits = {} THEN NULL ELSE libList[CHOOSE i \in hits : \A j \in hits : i <= j]
  BY DEF find_lib_node_named
<1> HIDE DEF f, b, pre
<1>6. hits = {k}
  BY <1>1, <1>2, <1>3, <1>4 DEF ListOf
<1>7. k \in Nat
  BY <1>1
<1> HIDE DEF hits
<1>8. (CHOOSE i \in hits : \A j \in hits : i <= j) = k
  BY <1>6, <1>7
<1> QED BY <1>3, <1>5, <1>6, <1>8 DEF f, b, pre

LEMMA NoNode ==
  ASSUME LibsInv, Top.made = NULL, NEW f \in Files, Alone(f)
  PROVE  find_lib_node_named(libList, lib, LnName[f], Top.preexisting) = NULL
<1>1. libList \in Seq(Addrs)
  BY LibsTypes DEF TypesOf
<1>2. \A i \in DOMAIN libList : libList[i] # NULL
  BY <1>1, NullFacts
<1>3. \A i \in DOMAIN libList : libList[i] # Top.preexisting =>
        LnName[lib[libList[i]].file] # LnName[f]
  BY <1>2 DEF Alone, Range
<1> QED BY <1>3 DEF find_lib_node_named

\* The newest init returns the base that it added.
LEMMA AddedReturnKeeps ==
  ASSUME LibsInv, pending # <<>>, Top.made # NULL, pending' = Front(pending), Steady,
         after_init(Top, Top.made, lib)
  PROVE  LibsInv'
<1>1. /\ Top \in Inits /\ Top.made \in Addrs /\ Top.alloc = NULL
      /\ seglists \union {Top.seglist} = seglists
  BY TopFacts DEF Inits
<1>2. /\ Books(loaded, libList, seglists, lib, Front(pending), opens, Top.made)
      /\ Settled(lib, Front(pending), Top.made) /\ ~IsMade(Front(pending), Top.made)
      /\ lib[Top.made].seglist = Top.seglist
  BY AddedInitBooks DEF LibsInv, Top
<1> HIDE DEF Top
<1> QED BY <1>1, <1>2, OpenedBooks

LEMMA DirectReturnsKeeps ==
  ASSUME LibsInv, NEW b \in Addrs, DirectInitReturns(b)
  PROVE  LibsInv'
<1> DEFINE f == FileOf[Top.name]
           mem == MakeLibrary(lib, b, f, Top.seglist)
<1>1. /\ pending # <<>> /\ Top.alloc = NULL /\ pending' = Front(pending)
      /\ \/ Top.made = b /\ b # NULL /\ after_init(Top, b, lib)
         \/ Top.made = NULL /\ b \in Addrs \ Live /\ after_init(Top, b, mem)
      /\ Steady
  BY DEF DirectInitReturns, Steady, LibsInv
<1>2. CASE Top.made = b /\ b # NULL /\ after_init(Top, b, lib)
  BY <1>1, <1>2, AddedReturnKeeps
<1>3. CASE Top.made = NULL /\ b \in Addrs \ Live /\ after_init(Top, b, mem)
  <2>1. Top \in Inits /\ seglists \union {Top.seglist} = seglists
    BY <1>1, TopFacts
  <2>2. Made(lib, mem, b, f, Top.seglist)
    BY <1>3, <2>1, NameAssumption DEF Inits, Made, Live, LiveIn
  <2> HIDE DEF mem, f
  <2>3. Books(loaded, libList, seglists, lib, pending, opens, NULL)
    BY DEF LibsInv
  <2>4. /\ Books(loaded, libList, seglists, mem, Front(pending), opens, b)
        /\ Settled(mem, Front(pending), b) /\ ~IsMade(Front(pending), b)
        /\ mem[b].seglist = Top.seglist
    <3>1. Top = Last(pending)
      BY DEF Top
    <3>2. pending # <<>> /\ Top.alloc = NULL /\ Top.made = NULL
      BY <1>1, <1>3
    <3> HIDE DEF Top
    <3>3. Last(pending).alloc = NULL /\ Last(pending).made = NULL
      BY <3>1, <3>2
    <3>4. Made(lib, mem, b, f, Last(pending).seglist)
      BY <2>2, <3>1
    <3>5. /\ Books(loaded, libList, seglists, mem, Front(pending), opens, b)
          /\ Settled(mem, Front(pending), b) /\ ~IsMade(Front(pending), b)
          /\ mem[b].seglist = Last(pending).seglist
      BY <2>3, <3>2, <3>3, <3>4, DirectBooks
    <3> QED BY <3>1, <3>5
  <2> HIDE DEF Top
  <2> QED BY <1>1, <1>3, <2>1, <2>4, OpenedBooks
<1> QED BY <1>1, <1>2, <1>3

LEMMA DirectNullKeeps ==
  ASSUME LibsInv, ~NullTwice, DirectInitReturnsNull PROVE LibsInv'
<1> DEFINE f == FileOf[Top.name]
<1>1. /\ pending # <<>> /\ Top.alloc = NULL /\ Alone(f) /\ pending' = Front(pending)
      /\ after_init(Top, find_lib_node_named(libList, lib, LnName[f], Top.preexisting), lib)
      /\ Steady
  BY DEF DirectInitReturnsNull, Steady, LibsInv
<1>2. CASE Top.made # NULL
  <2>1. after_init(Top, Top.made, lib)
    BY <1>1, <1>2, OwnNode
  <2> QED BY <1>1, <1>2, <2>1, AddedReturnKeeps
<1>3. CASE Top.made = NULL
  <2>1. f \in Files
    BY <1>1, TopFacts, NameAssumption DEF Inits
  <2>2. after_init(Top, NULL, lib)
    BY <1>1, <1>3, <2>1, NoNode
  <2>3. Books(loaded, libList, seglists \ {Top.seglist}, Freed(lib, Top.alloc), Front(pending),
              opens, NULL)
    BY <1>1, <1>3, RefusedBooks DEF LibsInv, Top
  <2>4. /\ lib' = Freed(lib, Top.alloc) /\ seglists' = seglists \ {Top.seglist}
        /\ loaded' = loaded /\ libList' = libList /\ opens' = opens
    BY <2>2 DEF after_init, Refused
  <2> QED BY <1>1, <2>3, <2>4, SteadyQuiet DEF LibsInv
<1> QED BY <1>2, <1>3

\* The unloading half of CloseLibrary and RemLibrary.  k is the memory before the
\* base b went, and o the opens that are left; the vector that returned m freed b, or
\* the host is to free it.
Finishes(n, b, k, o, m, l, tolerant) ==
  /\ n \in Names /\ b \in Addrs
  /\ Books(loaded, libList, seglists, k, pending, o, NULL) /\ NoLoudFailure
  /\ loaded[n].base = b /\ o[b] = 0 /\ ~IsMade(pending, b) /\ l \in SelfUnlinked(b)
  /\ m = Freed(k, b) \/ (loaded[n].alloc # NULL /\ m = k)
  /\ m = k \/ tolerant \/ loaded[n].alloc = NULL
  /\ finish_close(n, b, k[b].seglist, loaded[n].alloc, l, m, tolerant)

LEMMA FinishEffects ==
  ASSUME NEW n, NEW b, NEW k, NEW o, NEW m, NEW l, NEW tolerant \in BOOLEAN,
         Finishes(n, b, k, o, m, l, tolerant)
  PROVE  /\ loaded' = unregister_loaded(loaded, n) /\ libList' = Unlinked(libList, b)
         /\ seglists' = seglists \ {k[b].seglist} /\ lib' = [k EXCEPT ![b] = NoLib]
         /\ fault' = "no"
<1>1. /\ TypesOf(loaded, libList, seglists, k, pending, o)
      /\ Registry(loaded, k, pending, NULL)
      /\ ListOf(libList, k, pending, NULL)
      /\ Segs(seglists, k, pending)
  BY DEF Books, Finishes
<1>2. /\ b # NULL /\ b \in LiveIn(k) /\ loaded[n].alloc \in {NULL, b}
  BY <1>1, NullFacts DEF Registry, Right, Settled, Finishes
<1>3. k[b].seglist \in seglists
  BY <1>1, <1>2 DEF Segs, Carried
<1>4. libList' = Unlinked(libList, b)
  <2>1. libList' = Unlinked(l, b)
    BY DEF finish_close, Finishes
  <2>2. Unlinked(Unlinked(libList, b), b) = Unlinked(libList, b)
    BY <1>1, UnlinkedFacts DEF TypesOf, ListOf
  <2> QED BY <2>1, <2>2 DEF SelfUnlinked, Finishes
<1>5. /\ loaded' = unregister_loaded(loaded, n)
      /\ seglists' = seglists \ {k[b].seglist}
      /\ lib' = Freed(m, loaded[n].alloc)
      /\ fault' = IF loaded[n].alloc # NULL /\ m[loaded[n].alloc] = NoLib /\ ~tolerant
                    THEN "free" ELSE "no"
  BY <1>3 DEF finish_close, Unload, Finishes
<1>6. Freed(k, b) = [k EXCEPT ![b] = NoLib]
  BY <1>2 DEF Freed
<1>7. /\ m = Freed(k, b) \/ (loaded[n].alloc # NULL /\ m = k)
      /\ m = k \/ tolerant \/ loaded[n].alloc = NULL
  BY DEF Finishes
<1>8. lib' = [k EXCEPT ![b] = NoLib]
  <2>1. CASE loaded[n].alloc = NULL
    BY <1>5, <1>6, <1>7, <2>1 DEF Freed
  <2>2. CASE loaded[n].alloc = b /\ m = k
    BY <1>2, <1>5, <1>6, <2>2
  <2>3. CASE loaded[n].alloc = b /\ m = Freed(k, b)
    <3>1. lib' = [m EXCEPT ![b] = NoLib]
      BY <1>2, <1>5, <2>3 DEF Freed
    <3>2. k \in [Addrs -> Bases]
      BY <1>1 DEF TypesOf
    <3> QED BY <1>6, <2>3, <3>1, <3>2
  <2> QED BY <1>2, <1>7, <2>1, <2>2, <2>3
<1>9. fault' = "no"
  BY <1>2, <1>5, <1>7 DEF LiveIn, NoLib
<1> QED BY <1>4, <1>5, <1>8, <1>9

LEMMA FinishKeeps ==
  ASSUME NEW n, NEW b, NEW k, NEW o, NEW m, NEW l, NEW tolerant \in BOOLEAN,
         Finishes(n, b, k, o, m, l, tolerant), UNCHANGED pending, opens' = o
  PROVE  LibsInv'
<1>1. Books(unregister_loaded(loaded, n), Unlinked(libList, b), seglists \ {k[b].seglist},
            [k EXCEPT ![b] = NoLib], pending, o, NULL)
  BY UnloadedBooks DEF Finishes
<1>2. Books(loaded', libList', seglists', lib', pending', opens', NULL)
  BY <1>1, FinishEffects
<1>3. fault' = "no"
  BY FinishEffects
<1> QED BY <1>2, <1>3 DEF LibsInv, NoLoudFailure

\* One open less, of a library that has one.
OneLess(b, L, m, o, k) ==
  /\ o = [opens EXCEPT ![b] = @ - 1]
  /\ k = IF loaded_library_by_base(L, b) = {} THEN m ELSE [m EXCEPT ![b].count = @ - 1]

LEMMA ClosedBooks ==
  ASSUME NEW L, NEW l, NEW ss, NEW m, NEW ps, NEW b \in Addrs,
         Books(L, l, ss, m, ps, opens, NULL), opens[b] > 0,
         NEW o, NEW k, OneLess(b, L, m, o, k)
  PROVE  Books(L, l, ss, k, ps, o, NULL)
<1>1. /\ TypesOf(L, l, ss, m, ps, opens)
      /\ InUse(m, ps, opens)
  BY DEF Books
<1>2. m \in [Addrs -> Bases] /\ opens \in [Addrs -> Nat] /\ m[b] \in Bases
  BY <1>1 DEF TypesOf
<1>3. /\ o \in [Addrs -> Nat]
      /\ \A c \in Addrs : o[c] = IF c = b THEN opens[b] - 1 ELSE opens[c]
  BY <1>2 DEF OneLess
<1>4. \A c \in Addrs : o[c] > 0 => c \in LiveIn(m)
  BY <1>1, <1>3 DEF InUse
<1>5. ~IsAlloc(ps, b)
  BY <1>1, NullFacts DEF InUse, Bare, IsAlloc
<1>6. \A c \in Addrs : opens[c] <= m[c].count /\ m[c].count \in Nat /\ opens[c] \in Nat
  BY <1>1, <1>2 DEF InUse, Bases
<1>7. CASE loaded_library_by_base(L, b) = {}
  <2>1. k = m
    BY <1>7 DEF OneLess
  <2>2. \A c \in Addrs : o[c] <= k[c].count
    BY <1>3, <1>6, <2>1
  <2>3. \A c \in Addrs : IsAlloc(ps, c) => k[c] = m[c] /\ o[c] = opens[c]
    BY <1>3, <1>5, <2>1
  <2>4. /\ k \in [Addrs -> Bases]
        /\ \A c \in Addrs : k[c].file = m[c].file /\ k[c].seglist = m[c].seglist
    BY <1>2, <2>1
  <2> QED BY <1>3, <1>4, <2>2, <2>3, <2>4, RecountedBooks
<1>8. CASE loaded_library_by_base(L, b) # {}
  <2> DEFINE e == [m[b] EXCEPT !.count = m[b].count - 1]
  <2>1. /\ e \in Bases /\ e.file = m[b].file /\ e.seglist = m[b].seglist
        /\ e.count = m[b].count - 1
    BY <1>2, <1>6 DEF Bases
  <2>2. k = [m EXCEPT ![b] = e]
    BY <1>8 DEF OneLess
  <2> HIDE DEF e
  <2>3. k \in [Addrs -> Bases] /\ \A c \in Addrs : k[c] = IF c = b THEN e ELSE m[c]
    BY <1>2, <2>1, <2>2
  <2>4. \A c \in Addrs : o[c] <= k[c].count
    BY <1>3, <1>6, <2>1, <2>3
  <2>5. \A c \in Addrs : IsAlloc(ps, c) => k[c] = m[c] /\ o[c] = opens[c]
    BY <1>3, <1>5, <2>3
  <2>6. \A c \in Addrs : k[c].file = m[c].file /\ k[c].seglist = m[c].seglist
    BY <2>1, <2>3
  <2> QED BY <1>3, <1>4, <2>3, <2>4, <2>5, <2>6, RecountedBooks
<1> QED BY <1>7, <1>8

\* A library that agrees to go has no open, and is no running init's.
LEMMA AgreesFacts ==
  ASSUME ~EarlyEnd, NEW b \in Addrs, NEW m, NEW o \in [Addrs -> Nat], InUse(m, pending, o),
         Agrees(b, m)
  PROVE  o[b] = 0 /\ ~IsMade(pending, b)
<1>1. m[b].count = 0 /\ o[b] <= m[b].count /\ o[b] \in Nat
  BY DEF Agrees, InUse
<1>2. b \notin Added
  BY DEF Agrees
<1>3. ~IsMade(pending, b)
  BY <1>2, NullFacts DEF Added, RunningInits, Range, IsMade
<1> QED BY <1>1, <1>3

\* What CloseLibrary of b comes to.
LEMMA CloseCases ==
  ASSUME LibsInv, ~EarlyEnd, OwnExpunge = {}, NEW b \in Addrs, close_library_handler(b)
  PROVE  LET o == [opens EXCEPT ![b] = @ - 1]
             k == IF loaded_library_by_base(loaded, b) = {} THEN lib
                                                            ELSE [lib EXCEPT ![b].count = @ - 1]
         IN  /\ opens' = o /\ UNCHANGED pending
             /\ Books(loaded, libList, seglists, k, pending, o, NULL)
             /\ \/ UNCHANGED <<loaded, libList, seglists, fault>> /\ lib' = k
                \/ \E n, m, l : Finishes(n, b, k, o, m, l, FALSE)
<1> DEFINE o == [opens EXCEPT ![b] = @ - 1]
           k0 == [lib EXCEPT ![b].count = @ - 1]
           k == IF loaded_library_by_base(loaded, b) = {} THEN lib ELSE k0
<1>1. opens[b] > 0 /\ opens' = o /\ UNCHANGED pending /\ NoLoudFailure
  BY DEF close_library_handler, LibsInv
<1>2. Books(loaded, libList, seglists, k, pending, o, NULL)
  BY <1>1, ClosedBooks DEF LibsInv, OneLess
<1>3. ASSUME NEW n \in loaded_library_by_base(loaded, b), NEW l \in SelfUnlinked(b), k = k0,
             Agrees(b, k0),
             finish_close(n, b, lib[b].seglist, loaded[n].alloc, l,
                          IF OwnsBase(n) \/ lib[b].file \in OwnExpunge THEN Freed(k0, b) ELSE k0,
                          FALSE)
      PROVE  \E m : Finishes(n, b, k, o, m, l, FALSE)
  <2> DEFINE m == IF OwnsBase(n) THEN Freed(k0, b) ELSE k0
  <2>1. n \in Names /\ loaded[n].base = b
    BY <1>3 DEF loaded_library_by_base
  <2>2. /\ TypesOf(loaded, libList, seglists, k, pending, o)
        /\ InUse(k, pending, o)
        /\ lib \in [Addrs -> Bases]
    BY <1>2, LibsTypes DEF Books, TypesOf
  <2>3. o[b] = 0 /\ ~IsMade(pending, b)
    BY <1>3, <2>2, AgreesFacts DEF TypesOf
  <2>4. k[b].seglist = lib[b].seglist
    BY <1>3, <2>2
  <2>5. finish_close(n, b, k[b].seglist, loaded[n].alloc, l, m, FALSE)
    BY <1>3, <2>4
  <2>6. /\ m = Freed(k, b) \/ (loaded[n].alloc # NULL /\ m = k)
        /\ m = k \/ FALSE \/ loaded[n].alloc = NULL
    BY <1>3 DEF OwnsBase
  <2> HIDE DEF o, k0, k, m
  <2> QED BY <1>1, <1>2, <1>3, <2>1, <2>3, <2>5, <2>6 DEF Finishes
<1>4. \/ UNCHANGED <<loaded, libList, seglists, fault>> /\ lib' = k
      \/ \E n, m, l : Finishes(n, b, k, o, m, l, FALSE)
  BY <1>3 DEF close_library_handler
<1> QED BY <1>1, <1>2, <1>4

LEMMA CloseKeeps ==
  ASSUME LibsInv, ~EarlyEnd, OwnExpunge = {}, NEW b \in Addrs, close_library_handler(b)
  PROVE  LibsInv'
<1> DEFINE o == [opens EXCEPT ![b] = @ - 1]
           k == IF loaded_library_by_base(loaded, b) = {} THEN lib
                                                          ELSE [lib EXCEPT ![b].count = @ - 1]
<1>1. /\ opens' = o /\ UNCHANGED pending
      /\ Books(loaded, libList, seglists, k, pending, o, NULL)
      /\ \/ UNCHANGED <<loaded, libList, seglists, fault>> /\ lib' = k
         \/ \E n, m, l : Finishes(n, b, k, o, m, l, FALSE)
  BY CloseCases
<1> HIDE DEF o, k
<1>2. CASE UNCHANGED <<loaded, libList, seglists, fault>> /\ lib' = k
  BY <1>1, <1>2, SteadyQuiet DEF LibsInv, Steady
<1> QED BY <1>1, <1>2, FinishKeeps

LEMMA RemCases ==
  ASSUME LibsInv, ~EarlyEnd, NEW b \in Addrs, rem_library_handler(b)
  PROVE  /\ UNCHANGED <<pending, opens>>
         /\ \E n, m, l : Finishes(n, b, lib, opens, m, l, TRUE)
<1>1. PICK n \in loaded_library_by_base(loaded, b), l \in SelfUnlinked(b) :
        /\ Agrees(b, lib)
        /\ \E m \in {Freed(lib, b)} \union (IF OwnsBase(n) THEN {} ELSE {lib}) :
             finish_close(n, b, lib[b].seglist, loaded[n].alloc, l, m, TRUE)
  BY DEF rem_library_handler
<1>2. PICK m \in {Freed(lib, b)} \union (IF OwnsBase(n) THEN {} ELSE {lib}) :
        finish_close(n, b, lib[b].seglist, loaded[n].alloc, l, m, TRUE)
  BY <1>1
<1>3. n \in Names /\ loaded[n].base = b
  BY DEF loaded_library_by_base
<1>4. /\ Books(loaded, libList, seglists, lib, pending, opens, NULL) /\ NoLoudFailure
      /\ UNCHANGED pending /\ opens' = opens
  BY DEF LibsInv, rem_library_handler
<1>5. opens[b] = 0 /\ ~IsMade(pending, b)
  BY <1>1, <1>4, AgreesFacts DEF Books, TypesOf
<1>6. m = Freed(lib, b) \/ (loaded[n].alloc # NULL /\ m = lib)
  BY DEF OwnsBase
<1>7. Finishes(n, b, lib, opens, m, l, TRUE)
  BY <1>2, <1>3, <1>4, <1>5, <1>6 DEF Finishes
<1> QED BY <1>4, <1>7

LEMMA RemKeeps ==
  ASSUME LibsInv, ~EarlyEnd, NEW b \in Addrs, rem_library_handler(b)
  PROVE  LibsInv'
BY RemCases, FinishKeeps

LEMMA NextLibsInv ==
  ASSUME LibsInv, ~NullTwice, ~EarlyEnd, OwnExpunge = {}, [LibsNext]_libsVars
  PROVE  LibsInv'
<1>1. ASSUME UNCHANGED libsVars PROVE LibsInv'
  BY <1>1 DEF libsVars, LibsInv, NoLoudFailure
<1>2. ASSUME LibsNext PROVE LibsInv'
  <2>1. ASSUME NEW n \in Names,
               \/ Unhurt /\ reopen(n)
               \/ open_library_common(n)
               \/ \E s \in BPtrs : begin_direct_init(n, s) \/ \E b \in Addrs : begin_open(n, s, b)
        PROVE  LibsInv'
    BY <2>1, ReopenKeeps, CommonKeeps, BeginOpenKeeps, BeginDirectKeeps
  <2>2. ASSUME NEW b \in Addrs,
               (\E i \in DOMAIN pending : add_library_handler(i, b)) \/ DirectInitReturns(b)
        PROVE  LibsInv'
    BY <2>2, AddKeeps, DirectReturnsKeeps
  <2>3. ASSUME NEW b \in Addrs, close_library_handler(b) \/ rem_library_handler(b)
        PROVE  LibsInv'
    BY <2>3, CloseKeeps, RemKeeps
  <2> QED BY <1>2, <2>1, <2>2, <2>3, InitReturnsKeeps, DirectNullKeeps DEF LibsNext
<1> QED BY <1>1, <1>2

\* LibrariesKept holds of ExecLibs, with other tasks at a library between the
\* AddLibrary of its rt_Init and the return, if no library frees its own base on
\* Close while the host would too, none agrees to go while its own init runs, and
\* no rt_Init returns NULL where a copy came or went.
THEOREM LibrariesStayInMemory ==
  ASSUME ~NullTwice, ~EarlyEnd, OwnExpunge = {}
  PROVE  LibsSpec => []LibrariesKept
<1>1. LibsInit => LibsInv
  BY InitLibsInv
<1>2. LibsInv /\ [LibsNext]_libsVars => LibsInv'
  BY NextLibsInv
<1>3. LibsInv => LibrariesKept
  BY BooksMean
<1> QED BY <1>1, <1>2, <1>3, PTL DEF LibsSpec

-----------------------------------------------------------------------------
(* LostOnlyToACopy: what each step does to the registry, and to what file   *)
(* the libraries in memory are made from.                                   *)

\* A name is that of the file it leads to.
NamesMatch == \A f \in Files : FileOf[LnName[f]] = f

FilesRight ==
  /\ \A n \in Names : loaded[n].base # NULL => lib[loaded[n].base].file = FileOf[n]
  /\ \A i \in DOMAIN pending :
       pending[i].alloc # NULL => lib[pending[i].alloc].file = FileOf[pending[i].name]

FilesLast == \A c \in LiveIn(lib) : c \in LiveIn(lib') => lib'[c].file = lib[c].file
InitsLast ==
  \A i \in DOMAIN pending' :
    \/ i \in DOMAIN pending /\ pending'[i] = pending[i]
    \/ pending'[i].alloc # NULL => lib'[pending'[i].alloc].file = FileOf[pending'[i].name]

\* The base d is entered under n; who loses an entry is d itself or of n's file.
Entered(n, d) ==
  /\ n \in Names /\ d \in Addrs /\ loaded'[n].base = d /\ lib'[d].file = FileOf[n]
  /\ \A j \in Names \ {n} :
       \/ loaded'[j] = loaded[j]
       \/ loaded'[j].base = NULL /\ (loaded[j].base = d \/ FileOf[j] = FileOf[n])

\* The base under n goes from memory.
Gone(n) == n \in Names /\ loaded' = unregister_loaded(loaded, n) /\ lib'[loaded[n].base].file = NULL

Effects ==
  /\ FilesLast /\ InitsLast
  /\ \/ loaded' = loaded
     \/ \E n, d : Entered(n, d)
     \/ \E n : Gone(n)

LEMMA OpenVectorFiles ==
  ASSUME NEW m \in [Addrs -> Bases], NEW b \in Addrs, OpenVector(b, m)
  PROVE  lib' \in [Addrs -> Bases] /\ \A c \in Addrs : lib'[c].file = m[c].file
<1>1. CASE lib' = m
  BY <1>1
<1>2. CASE lib' = [m EXCEPT ![b].count = @ + 1]
  <2> DEFINE e == [m[b] EXCEPT !.count = m[b].count + 1]
  <2>1. e \in Bases /\ e.file = m[b].file
    BY DEF Bases
  <2>2. lib' = [m EXCEPT ![b] = e]
    BY <1>2
  <2> HIDE DEF e
  <2> QED BY <2>1, <2>2
<1> QED BY <1>1, <1>2 DEF OpenVector

\* Entering the base d that an init of p left, in the memory m.
LEMMA EnteredEffects ==
  ASSUME NEW p \in Inits, NEW d \in Addrs, loaded \in [Names -> Entries],
         NEW m \in [Addrs -> Bases], after_init(p, d, m), m[d].file = FileOf[p.name]
  PROVE  Entered(p.name, d) /\ \A c \in Addrs : lib'[c].file = m[c].file
<1>1. /\ loaded' = register_loaded(Renamed(loaded, p.name, d), p.name, d, p.seglist, p.alloc)
      /\ OpenVector(d, m)
  BY NullFacts DEF after_init
<1>2. p.name \in Names
  BY DEF Inits
<1>3. \A j \in Names :
        loaded'[j] = IF j = p.name THEN [base |-> d, seglist |-> p.seglist, alloc |-> p.alloc]
                     ELSE IF loaded[j].base = d THEN NoEntry ELSE loaded[j]
  BY <1>1, <1>2 DEF register_loaded, Renamed
<1>4. \A c \in Addrs : lib'[c].file = m[c].file
  BY <1>1, OpenVectorFiles
<1>5. \A j \in Names \ {p.name} :
        \/ loaded'[j] = loaded[j]
        \/ loaded'[j].base = NULL /\ (loaded[j].base = d \/ FileOf[j] = FileOf[p.name])
  BY <1>3 DEF NoEntry
<1> QED BY <1>2, <1>3, <1>4, <1>5 DEF Entered

LEMMA NoInitsLast == ASSUME pending' = pending PROVE InitsLast
BY DEF InitsLast

LEMMA PoppedInitsLast ==
  ASSUME LibsInv, pending # <<>>, pending' = Front(pending) PROVE InitsLast
<1>1. Popped(pending, Front(pending))
  BY PoppedFront, LibsTypes DEF TypesOf
<1> QED BY <1>1 DEF Popped, InitsLast

LEMMA BeginOpenEffects ==
  ASSUME LibsInv, FilesRight, NEW n \in Names, NEW s \in BPtrs, NEW b \in Addrs, begin_open(n, s, b)
  PROVE  Effects
<1> DEFINE f == FileOf[n]
           p == PendingOpen(n, s, b, NULL)
           m2 == MakeLibrary(lib, b, f, s)
<1>1. Made(lib, m2, b, f, s)
  BY NameAssumption DEF begin_open, Made, Live, LiveIn
<1>2. p \in Inits /\ p.alloc = b /\ p.name = n /\ b # NULL
  BY NullFacts DEF PendingOpen, Inits
<1>3. TypesOf(loaded, libList, seglists, lib, pending, opens)
  BY LibsTypes
<1>4. /\ m2 \in [Addrs -> Bases] /\ m2[b].file = f /\ b \notin LiveIn(lib)
      /\ \A c \in Addrs : c # b => m2[c] = lib[c]
  <2> HIDE DEF m2, f
  <2>1. lib \in [Addrs -> Bases]
    BY <1>3 DEF TypesOf
  <2> QED BY <1>1, <2>1, MadeFacts
<1>5. CASE f \in NullInit
  <2>1. after_init(p, b, m2) /\ pending' = pending
    BY <1>5 DEF begin_open
  <2> HIDE DEF p, m2
  <2>2. Entered(n, b) /\ \A c \in Addrs : lib'[c].file = m2[c].file
    BY <1>2, <1>3, <1>4, <2>1, EnteredEffects DEF TypesOf
  <2>3. FilesLast
    BY <1>4, <2>2 DEF FilesLast, LiveIn
  <2> QED BY <2>1, <2>2, <2>3, NoInitsLast DEF Effects
<1>6. CASE f \notin NullInit
  <2>1. lib' = m2 /\ pending' = Append(pending, p) /\ UNCHANGED loaded
    BY <1>6 DEF begin_open
  <2> HIDE DEF p, m2
  <2>2. FilesLast
    BY <1>4, <2>1 DEF FilesLast, LiveIn
  <2>3. InitsLast
    BY <1>2, <1>3, <1>4, <2>1, AppendFacts DEF InitsLast, TypesOf
  <2> QED BY <2>1, <2>2, <2>3 DEF Effects
<1> QED BY <1>5, <1>6

LEMMA BeginDirectEffects ==
  ASSUME LibsInv, NEW n \in Names, NEW s \in BPtrs, begin_direct_init(n, s)
  PROVE  Effects
<1> DEFINE p == PendingOpen(n, s, NULL, find_lib_node_named(libList, lib, LnName[FileOf[n]], NULL))
<1>1. lib' = lib /\ loaded' = loaded /\ pending' = Append(pending, p)
  BY DEF begin_direct_init
<1>2. p.alloc = NULL
  BY DEF PendingOpen
<1> HIDE DEF p
<1>3. pending \in Seq(Inits)
  BY LibsTypes DEF TypesOf
<1>4. /\ \A i : i \in DOMAIN pending' <=> i \in DOMAIN pending \/ i = Len(pending) + 1
      /\ \A i \in DOMAIN pending : pending'[i] = pending[i]
      /\ pending'[Len(pending) + 1] = p
  BY <1>1, <1>3
<1> QED BY <1>1, <1>2, <1>4 DEF Effects, FilesLast, InitsLast

\* A refused init frees its base, if that was made for it.
LEMMA RefusedEffects ==
  ASSUME LibsInv, pending # <<>>, pending' = Front(pending),
         after_init(Top, NULL, lib)
  PROVE  Effects
<1>1. loaded' = loaded /\ lib' = Freed(lib, Top.alloc)
  BY DEF after_init, Refused
<1>2. lib \in [Addrs -> Bases]
  BY LibsTypes DEF TypesOf
<1>3. \A c \in LiveIn(lib) : c \in LiveIn(lib') => lib'[c] = lib[c]
  BY <1>1, <1>2, NullFacts DEF Freed, LiveIn, NoLib
<1> QED BY <1>1, <1>3, PoppedInitsLast DEF Effects, FilesLast

LEMMA InitReturnsEffects ==
  ASSUME LibsInv, FilesRight, InitReturns PROVE Effects
<1>1. /\ pending # <<>> /\ Top.alloc # NULL /\ pending' = Front(pending)
  BY DEF InitReturns
<1>2. Top \in Inits /\ Top.alloc \in Addrs
  BY <1>1, TopFacts DEF Inits
<1>3. TypesOf(loaded, libList, seglists, lib, pending, opens)
  BY LibsTypes
<1>4. lib[Top.alloc].file = FileOf[Top.name]
  <2>1. Popped(pending, Front(pending))
    BY <1>1, <1>3, PoppedFront DEF TypesOf
  <2> QED BY <1>1, <2>1 DEF FilesRight, Popped, Top
<1>5. CASE after_init(Top, Top.alloc, lib)
  <2>1. Entered(Top.name, Top.alloc) /\ \A c \in Addrs : lib'[c].file = lib[c].file
    BY <1>2, <1>3, <1>4, <1>5, EnteredEffects DEF TypesOf
  <2>2. FilesLast
    BY <2>1 DEF FilesLast, LiveIn
  <2> QED BY <1>1, <2>1, <2>2, PoppedInitsLast DEF Effects
<1>6. CASE after_init(Top, NULL, lib)
  BY <1>1, <1>6, RefusedEffects
<1> QED BY <1>5, <1>6 DEF InitReturns

LEMMA AddEffects ==
  ASSUME LibsInv, NamesMatch, NEW i \in DOMAIN pending, NEW b \in Addrs, add_library_handler(i, b)
  PROVE  Effects
<1> DEFINE f == FileOf[pending[i].name]
           e == [base |-> b, seglist |-> NULL, alloc |-> NULL]
<1>1. /\ b \notin LiveIn(lib) /\ lib' = MakeLibrary(lib, b, f, pending[i].seglist)
      /\ loaded' = [loaded EXCEPT ![LnName[f]] = e]
      /\ pending' = [pending EXCEPT ![i].made = b]
      /\ pending[i].alloc = NULL
  BY DEF add_library_handler, register_loaded, Live, LiveIn
<1>2. TypesOf(loaded, libList, seglists, lib, pending, opens)
  BY LibsTypes
<1>3. pending[i] \in Inits /\ f \in Files /\ LnName[f] \in Names /\ FileOf[LnName[f]] = f
  <2>1. pending[i] \in Inits
    BY <1>2 DEF TypesOf
  <2> QED BY <2>1, NameAssumption DEF Inits, NamesMatch
<1>4. lib'[b].file = f /\ \A c \in Addrs : c # b => lib'[c] = lib[c]
  BY <1>1, <1>2 DEF TypesOf, MakeLibrary
<1>5. FilesLast
  BY <1>1, <1>4 DEF FilesLast, LiveIn
<1>6. InitsLast
  <2>1. pending \in Seq(Inits)
    BY <1>2 DEF TypesOf
  <2>2. /\ DOMAIN pending' = DOMAIN pending
        /\ \A j \in DOMAIN pending : j # i => pending'[j] = pending[j]
    BY <1>1, <2>1
  <2>3. pending'[i].alloc = NULL
    BY <1>1, <1>3, <2>1 DEF Inits
  <2> QED BY <2>2, <2>3 DEF InitsLast
<1>7. Entered(LnName[f], b)
  <2>1. loaded \in [Names -> Entries] /\ e.base = b
    BY <1>2 DEF TypesOf
  <2> HIDE DEF e, f
  <2>2. \A j \in Names : loaded'[j] = IF j = LnName[f] THEN e ELSE loaded[j]
    BY <1>1, <1>3, <2>1
  <2> QED BY <1>3, <1>4, <2>1, <2>2 DEF Entered
<1> QED BY <1>5, <1>6, <1>7 DEF Effects

\* The newest init returns the base that it added.
LEMMA AddedReturnEffects ==
  ASSUME LibsInv, pending # <<>>, Top.made # NULL, pending' = Front(pending),
         after_init(Top, Top.made, lib)
  PROVE  Effects
<1>1. Top \in Inits /\ Top.made \in Addrs /\ lib[Top.made].file = FileOf[Top.name]
  BY TopFacts
<1>2. loaded \in [Names -> Entries] /\ lib \in [Addrs -> Bases]
  BY LibsTypes DEF TypesOf
<1>3. InitsLast
  BY PoppedInitsLast
<1> HIDE DEF Top
<1>4. Entered(Top.name, Top.made) /\ \A c \in Addrs : lib'[c].file = lib[c].file
  BY <1>1, <1>2, EnteredEffects
<1>5. FilesLast
  BY <1>4 DEF FilesLast, LiveIn
<1> QED BY <1>3, <1>4, <1>5 DEF Effects

LEMMA DirectReturnsEffects ==
  ASSUME LibsInv, NEW b \in Addrs, DirectInitReturns(b)
  PROVE  Effects
<1> DEFINE f == FileOf[Top.name]
           m == MakeLibrary(lib, b, f, Top.seglist)
<1>1. /\ pending # <<>> /\ pending' = Front(pending)
      /\ \/ Top.made = b /\ b # NULL /\ after_init(Top, b, lib)
         \/ b \in Addrs \ Live /\ after_init(Top, b, m)
  BY DEF DirectInitReturns
<1>2. CASE Top.made = b /\ b # NULL /\ after_init(Top, b, lib)
  BY <1>1, <1>2, AddedReturnEffects
<1>3. CASE b \in Addrs \ Live /\ after_init(Top, b, m)
  <2>1. Top \in Inits
    BY <1>1, TopFacts
  <2>2. Made(lib, m, b, f, Top.seglist)
    BY <1>3, <2>1, NameAssumption DEF Inits, Made, Live, LiveIn
  <2>3. loaded \in [Names -> Entries] /\ lib \in [Addrs -> Bases]
    BY LibsTypes DEF TypesOf
  <2> HIDE DEF m
  <2>4. /\ m \in [Addrs -> Bases] /\ m[b].file = f /\ b \notin LiveIn(lib)
        /\ \A c \in Addrs : c # b => m[c] = lib[c]
    BY <2>2, <2>3, MadeFacts
  <2>5. InitsLast
    BY <1>1, PoppedInitsLast
  <2> HIDE DEF Top
  <2>6. Entered(Top.name, b) /\ \A c \in Addrs : lib'[c].file = m[c].file
    BY <1>3, <2>1, <2>3, <2>4, EnteredEffects
  <2>7. FilesLast
    BY <2>4, <2>6 DEF FilesLast, LiveIn
  <2> QED BY <2>5, <2>6, <2>7 DEF Effects
<1> QED BY <1>1, <1>2, <1>3

LEMMA DirectNullEffects ==
  ASSUME LibsInv, ~NullTwice, DirectInitReturnsNull PROVE Effects
<1> DEFINE f == FileOf[Top.name]
<1>1. /\ pending # <<>> /\ Alone(f) /\ pending' = Front(pending)
      /\ after_init(Top, find_lib_node_named(libList, lib, LnName[f], Top.preexisting), lib)
  BY DEF DirectInitReturnsNull
<1>2. CASE Top.made # NULL
  <2>1. after_init(Top, Top.made, lib)
    BY <1>1, <1>2, OwnNode
  <2> QED BY <1>1, <1>2, <2>1, AddedReturnEffects
<1>3. CASE Top.made = NULL
  <2>1. f \in Files
    BY <1>1, TopFacts, NameAssumption DEF Inits
  <2>2. after_init(Top, NULL, lib)
    BY <1>1, <1>3, <2>1, NoNode
  <2> QED BY <1>1, <2>2, RefusedEffects
<1> QED BY <1>2, <1>3

LEMMA GoneEffects ==
  ASSUME NEW n, NEW b, NEW k, NEW o, NEW m, NEW l, NEW tolerant \in BOOLEAN,
         Finishes(n, b, k, o, m, l, tolerant), UNCHANGED pending,
         \A c \in Addrs : k[c].file = lib[c].file
  PROVE  Effects
<1>1. k \in [Addrs -> Bases] /\ n \in Names /\ b \in Addrs /\ loaded[n].base = b
  BY DEF Finishes, Books, TypesOf
<1>2. loaded' = unregister_loaded(loaded, n) /\ lib' = [k EXCEPT ![b] = NoLib]
  BY FinishEffects
<1>3. Gone(n)
  BY <1>1, <1>2 DEF Gone, NoLib
<1>4. FilesLast
  BY <1>1, <1>2 DEF FilesLast, LiveIn, NoLib
<1> QED BY <1>3, <1>4, NoInitsLast DEF Effects

LEMMA CloseEffects ==
  ASSUME LibsInv, ~EarlyEnd, OwnExpunge = {}, NEW b \in Addrs, close_library_handler(b)
  PROVE  Effects
<1> DEFINE o == [opens EXCEPT ![b] = @ - 1]
           k == IF loaded_library_by_base(loaded, b) = {} THEN lib
                                                          ELSE [lib EXCEPT ![b].count = @ - 1]
<1>1. /\ UNCHANGED pending
      /\ \/ UNCHANGED <<loaded, libList, seglists, fault>> /\ lib' = k
         \/ \E n, m, l : Finishes(n, b, k, o, m, l, FALSE)
  BY CloseCases
<1>2. \A c \in Addrs : k[c].file = lib[c].file
  <2>1. lib \in [Addrs -> Bases]
    BY LibsTypes DEF TypesOf
  <2> QED BY <2>1 DEF Bases
<1> HIDE DEF o, k
<1>3. CASE UNCHANGED <<loaded, libList, seglists, fault>> /\ lib' = k
  BY <1>1, <1>2, <1>3, NoInitsLast DEF Effects, FilesLast, LiveIn
<1> QED BY <1>1, <1>2, <1>3, GoneEffects

LEMMA NextEffects ==
  ASSUME LibsInv, FilesRight, ~NullTwice, ~EarlyEnd, OwnExpunge = {}, NamesMatch, LibsNext
  PROVE  Effects
<1>1. ASSUME NEW n \in Names, reopen(n) PROVE Effects
  <2>1. loaded[n].base \in Addrs /\ lib \in [Addrs -> Bases]
    BY <1>1 DEF LibsInv, Books, TypesOf, reopen, Registry, Right, Settled, LiveIn
  <2>2. FilesLast /\ loaded' = loaded /\ pending' = pending
    BY <1>1, <2>1, OpenVectorFiles DEF reopen, FilesLast, LiveIn
  <2> QED BY <2>2, NoInitsLast DEF Effects
<1>2. ASSUME NEW n \in Names, open_library_common(n) PROVE Effects
  BY <1>2, NoInitsLast DEF open_library_common, Effects, FilesLast
<1>3. ASSUME NEW b \in Addrs, rem_library_handler(b) PROVE Effects
  BY <1>3, RemCases, GoneEffects
<1>4. ASSUME NEW n \in Names,
             \/ Unhurt /\ reopen(n)
             \/ open_library_common(n)
             \/ \E s \in BPtrs : begin_direct_init(n, s) \/ \E b \in Addrs : begin_open(n, s, b)
      PROVE  Effects
  BY <1>1, <1>2, <1>4, BeginOpenEffects, BeginDirectEffects
<1>5. ASSUME NEW b \in Addrs,
             (\E i \in DOMAIN pending : add_library_handler(i, b)) \/ DirectInitReturns(b)
      PROVE  Effects
  BY <1>5, AddEffects, DirectReturnsEffects
<1>6. ASSUME NEW b \in Addrs, close_library_handler(b) \/ rem_library_handler(b) PROVE Effects
  BY <1>3, <1>6, CloseEffects
<1> QED BY <1>4, <1>5, <1>6, InitReturnsEffects, DirectNullEffects DEF LibsNext

LEMMA FilesRightKept ==
  ASSUME LibsInv, LibsInv', FilesRight, Effects PROVE FilesRight'
<1>1. /\ Registry(loaded, lib, pending, NULL) /\ InUse(lib, pending, opens)
      /\ Registry(loaded', lib', pending', NULL) /\ InUse(lib', pending', opens')
  BY DEF LibsInv, Books
<1>2. ASSUME NEW n \in Names, loaded'[n].base # NULL
      PROVE  lib'[loaded'[n].base].file = FileOf[n]
  <2>1. ASSUME loaded'[n] = loaded[n] PROVE lib'[loaded'[n].base].file = FileOf[n]
    BY <1>1, <1>2, <2>1 DEF Registry, Right, Settled, Effects, FilesLast, FilesRight
  <2>2. loaded'[n] = loaded[n] \/ lib'[loaded'[n].base].file = FileOf[n]
    <3>1. CASE \E m, d : Entered(m, d)
      BY <1>2, <3>1 DEF Entered
    <3>2. CASE \E m : Gone(m)
      <4>1. loaded \in [Names -> Entries]
        BY LibsTypes DEF TypesOf
      <4> QED BY <1>2, <3>2, <4>1 DEF Gone, unregister_loaded, NoEntry
    <3> QED BY <3>1, <3>2 DEF Effects
  <2> QED BY <2>1, <2>2
<1>3. ASSUME NEW i \in DOMAIN pending', pending'[i].alloc # NULL
      PROVE  lib'[pending'[i].alloc].file = FileOf[pending'[i].name]
  <2>1. CASE i \in DOMAIN pending /\ pending'[i] = pending[i]
    BY <1>1, <1>3, <2>1 DEF InUse, Bare, Effects, FilesLast, FilesRight
  <2> QED BY <1>3, <2>1 DEF Effects, InitsLast
<1> QED BY <1>2, <1>3 DEF FilesRight

LostStep ==
  \A n \in Names :
    LET b == loaded[n].base IN
    loaded[n] # NoEntry /\ loaded_library_by_base(loaded', b) = {} =>
      \/ b \notin Live'
      \/ \E c \in Addrs \ {b} : /\ lib'[c].file = lib[b].file
                               /\ loaded_library_by_base(loaded', c) # {}

LEMMA LostOnlySo ==
  ASSUME LibsInv, FilesRight, Effects PROVE LostStep
<1> SUFFICES ASSUME NEW n \in Names, loaded[n] # NoEntry,
                    loaded_library_by_base(loaded', loaded[n].base) = {}
             PROVE  \/ loaded[n].base \notin Live'
                    \/ \E c \in Addrs \ {loaded[n].base} :
                         /\ lib'[c].file = lib[loaded[n].base].file
                         /\ loaded_library_by_base(loaded', c) # {}
  BY DEF LostStep
<1>1. loaded \in [Names -> Entries] /\ loaded[n].base # NULL
  BY DEF LibsInv, Books, TypesOf, Registry
<1>2. \A j \in Names : loaded'[j].base # loaded[n].base
  BY DEF loaded_library_by_base
<1>3. CASE \E m, d : Entered(m, d)
  <2>1. PICK m, d : Entered(m, d)
    BY <1>3
  <2>2. d # loaded[n].base /\ m \in loaded_library_by_base(loaded', d) /\ d \in Addrs
    BY <1>2, <2>1 DEF Entered, loaded_library_by_base
  <2>3. FileOf[n] = FileOf[m]
    BY <1>2, <2>1, <2>2 DEF Entered
  <2>4. lib'[d].file = lib[loaded[n].base].file
    BY <1>1, <2>1, <2>3 DEF Entered, FilesRight
  <2> QED BY <2>2, <2>4
<1>4. CASE \E m : Gone(m)
  BY <1>1, <1>2, <1>4 DEF Gone, unregister_loaded, Live
<1> QED BY <1>2, <1>3, <1>4 DEF Effects

\* LostOnlyToACopy holds under the same assumptions, if the name a file's library
\* carries is one that leads to the file.
THEOREM LostToCopiesOnly ==
  ASSUME ~NullTwice, ~EarlyEnd, OwnExpunge = {}, NamesMatch
  PROVE  LibsSpec => LostOnlyToACopy
<1>1. LibsInit => LibsInv /\ FilesRight
  BY InitLibsInv DEF LibsInit, FilesRight, NoEntry
<1>2. LibsInv /\ FilesRight /\ [LibsNext]_libsVars => LibsInv' /\ FilesRight' /\ [LostStep]_libsVars
  <2>1. ASSUME LibsInv, FilesRight, UNCHANGED libsVars
        PROVE  LibsInv' /\ FilesRight' /\ UNCHANGED libsVars
    BY <2>1 DEF libsVars, LibsInv, NoLoudFailure, FilesRight
  <2>2. ASSUME LibsInv, FilesRight, LibsNext
        PROVE  LibsInv' /\ FilesRight' /\ LostStep
    BY <2>2, NextLibsInv, NextEffects, FilesRightKept, LostOnlySo
  <2> QED BY <2>1, <2>2
<1> QED BY <1>1, <1>2, PTL DEF LibsSpec, LostOnlyToACopy, LostStep
=============================================================================
