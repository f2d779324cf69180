------------------------- MODULE StackShadowProofs --------------------------
(***************************************************************************)
(* Proofs about the stack half of the sanitizer (StackShadow): what it     *)
(* marks dead, and which returns it accuses.                               *)
(***************************************************************************)
EXTENDS StackShadow, FiniteSetTheorems, SequenceTheorems, WellFoundedInduction, TLAPS

-----------------------------------------------------------------------------
(* BelowExact of StackShadow for any two stacks.  What is marked dead is what
   lies below the stack pointer seen last (Poison), and that is the present one
   or, after a handler has returned, the one below it (Pointer).  The return
   addresses of the calls in progress lie above, one below the other, and are
   valid (Progress): leaving a stack must not mark them, and coming back must
   find them so. *)

Frames == [slot : Nat, to : Sites, watched : BOOLEAN]
Calls == [slot_sp : Nat, return_addr : Sites]
States == {"valid", "uninit", "below", "redzone"}

StackTypes ==
  /\ how \in {"StackSwap", "RunCommand", "Wait", "move"}
  /\ cur \in Stacks /\ tracked \in Stacks
  /\ sp \in Extent(cur)
  /\ away \in Extent(Other(cur)) \union {ABSENT}
  /\ away = ABSENT => how = "RunCommand"
  /\ mem \in [StackBytes -> Sites \union {JUNK, ABSENT}]
  /\ frames \in [Stacks -> Seq(Frames)]

\* The shadow map sh when s is in use and l is the last stack pointer that was
\* seen in the tracked stack.
BelowIn(l, s) == IF l = ABSENT THEN {} ELSE base[s] .. l - 1
Poison(sh, l, s, dead) ==
  /\ sh \in [StackBytes -> States]
  /\ \A a \in StackBytes : sh[a] = "below" <=> a \in BelowIn(l, s) \ dead
  /\ \A r \in Stacks : \A a \in base[r] .. top[r] - 1 : sh[a] # "redzone"
Pointer(p, s, t, l) ==
  IF l = ABSENT THEN t = Other(s) ELSE t = s /\ l \in {p - 1, p} /\ l >= base[s]

\* The calls F in progress on a stack, the newest at low or above it.
Pushed(F, sh, low, high) ==
  /\ \A i \in DOMAIN F : F[i].slot \in low .. high /\ sh[F[i].slot] = "valid"
  /\ \A i, j \in DOMAIN F : i < j => F[i].slot > F[j].slot
Progress(fr, sh, s, p, aw) ==
  /\ Pushed(fr[s], sh, p, top[s] - 1)
  /\ IF aw = ABSENT THEN fr[Other(s)] = <<>> ELSE Pushed(fr[Other(s)], sh, aw, top[Other(s)] - 1)

StackInv ==
  /\ StackTypes
  /\ Pointer(sp, cur, tracked, last)
  /\ Poison(bytes, last, cur, scribbled)
  /\ scribbled \subseteq BelowIn(last, cur)
  /\ how # "move" => last # ABSENT
  /\ Progress(frames, bytes, cur, sp, away)

-----------------------------------------------------------------------------
LEMMA Layout ==
  ASSUME NEW s \in Stacks
  PROVE  /\ Other(s) \in Stacks /\ Other(s) # s /\ Other(Other(s)) = s
         /\ \A t \in Stacks : t = s \/ t = Other(s)
         /\ base[s] \in Nat /\ top[s] \in Nat /\ base[s] + 2 <= top[s]
         /\ \A a \in Extent(s) : a \in Nat /\ a \in StackBytes /\ a # ABSENT /\ a \notin Extent(Other(s))
         /\ \A a \in StackBytes : a \in Extent(s) \/ a \in Extent(Other(s))
<1>1. PICK u, v \in Stacks : u # v /\ Stacks = {u, v}
  BY StacksAssumption
<1>2. Other(u) = v /\ Other(v) = u
  BY <1>1 DEF Other
<1>3. /\ Other(s) \in Stacks /\ Other(s) # s /\ Other(Other(s)) = s
      /\ \A t \in Stacks : t = s \/ t = Other(s)
  BY <1>1, <1>2
<1>4. base[s] \in Nat /\ top[s] \in Nat /\ base[s] + 2 <= top[s]
  BY StacksAssumption
<1>5. \A a \in Extent(s) : a \in StackBytes
  BY DEF StackBytes
<1>6. \A a \in Extent(s) : a \in Nat /\ a # ABSENT
  BY <1>4, AbsentAssumption DEF Extent
<1>7. \A a \in Extent(s) : a \notin Extent(Other(s))
  BY <1>3, StacksAssumption
<1>8. \A a \in StackBytes : a \in Extent(s) \/ a \in Extent(Other(s))
  BY <1>3 DEF StackBytes
<1> QED BY <1>3, <1>4, <1>5, <1>6, <1>7, <1>8

LEMMA InExtent ==
  ASSUME NEW s \in Stacks, NEW a PROVE a \in Extent(s) <=> a \in Nat /\ base[s] <= a /\ a <= top[s]
BY Layout DEF Extent

LEMMA LeastOf ==
  ASSUME NEW T \in SUBSET Nat, T # {} PROVE \E i \in T : \A j \in T : i <= j
<1>1. \E i \in T : \A j \in T : ~ (<<j, i>> \in OpToRel(<, Nat))
  BY NatLessThanWellFounded, WFMin
<1>2. PICK i \in T : \A j \in T : ~ (<<j, i>> \in OpToRel(<, Nat))
  BY <1>1
<1>3. \A j \in T : i <= j
  <2> TAKE j \in T
  <2>1. ~ (<<j, i>>[1] < <<j, i>>[2])
    BY <1>2 DEF OpToRel
  <2> QED BY <2>1
<1> QED BY <1>3

\* Of places that form a beginning, the last.
LEMMA LastOf ==
  ASSUME NEW n \in Nat, NEW I \in SUBSET (1 .. n), \A i \in I : \A j \in 1 .. i : j \in I,
         NEW m, m = IF I # {} THEN Max(I) ELSE 0
  PROVE  m \in 0 .. n /\ \A i \in 1 .. n : i \in I <=> i <= m
<1>1. CASE I = {}
  BY <1>1
<1>2. CASE I # {}
  <2>1. PICK d \in {n - i : i \in I} : \A e \in {n - i : i \in I} : d <= e
    <3>1. \A i \in I : n - i \in Nat
      OBVIOUS
    <3>2. {n - i : i \in I} \in SUBSET Nat /\ {n - i : i \in I} # {}
      BY <1>2, <3>1
    <3> QED BY <3>2, LeastOf
  <2>2. PICK k \in I : d = n - k
    BY <2>1
  <2>3. \A i \in I : k >= i
    <3> TAKE i \in I
    <3>1. n - k <= n - i
      BY <2>1, <2>2
    <3> QED BY <3>1
  <2>4. m \in I /\ \A i \in I : m >= i
    BY <1>2, <2>3 DEF Max
  <2> QED BY <2>4
<1> QED BY <1>1, <1>2

\* What is retained.
LEMMA Retained ==
  ASSUME NEW cs \in Seq(Calls), \A i, j \in DOMAIN cs : i < j => cs[i].slot_sp >= cs[j].slot_sp,
         NEW p \in Nat
  PROVE  \E n \in 0 .. Len(cs) : /\ AtOrAbove(cs, p) = SubSeq(cs, 1, n)
                                 /\ \A i \in DOMAIN cs : cs[i].slot_sp >= p <=> i <= n
<1> DEFINE I == {i \in 1 .. Len(cs) : cs[i].slot_sp >= p}
           n == IF I # {} THEN Max(I) ELSE 0
<1>1. AtOrAbove(cs, p) = SubSeq(cs, 1, n)
  BY DEF AtOrAbove, SelectLastInSeq
<1>2. DOMAIN cs = 1 .. Len(cs) /\ \A i \in DOMAIN cs : cs[i].slot_sp \in Nat
  <2>1. DOMAIN cs = 1 .. Len(cs) /\ \A i \in DOMAIN cs : cs[i] \in Calls
    OBVIOUS
  <2> QED BY <2>1 DEF Calls
<1>3. \A i \in I : \A j \in 1 .. i : j \in I
  <2> SUFFICES ASSUME NEW i \in I, NEW j \in 1 .. i PROVE cs[j].slot_sp >= p
    OBVIOUS
  <2>1. i \in DOMAIN cs /\ j \in DOMAIN cs /\ (j = i \/ j < i)
    BY <1>2
  <2> QED BY <1>2, <2>1
<1>4. n \in 0 .. Len(cs) /\ \A i \in 1 .. Len(cs) : i \in I <=> i <= n
  <2> HIDE DEF I
  <2>1. I \in SUBSET (1 .. Len(cs))
    BY DEF I
  <2> QED BY <1>3, <2>1, LastOf
<1> QED BY <1>1, <1>2, <1>4

LEMMA OutsideFacts ==
  ASSUME StackTypes,
         \A i, j \in DOMAIN frames[cur] : i < j => frames[cur][i].slot > frames[cur][j].slot,
         NEW p \in Nat
  PROVE  \E n \in 0 .. Len(frames[cur]) :
           /\ Outside(p) = SubSeq(frames[cur], 1, n)
           /\ \A i \in DOMAIN frames[cur] : frames[cur][i].slot > p <=> i <= n
<1> DEFINE F == frames[cur]
           I == {i \in 1 .. Len(F) : F[i].slot > p}
           n == IF I # {} THEN Max(I) ELSE 0
<1>1. Outside(p) = SubSeq(F, 1, n)
  BY DEF Outside, SelectLastInSeq
<1>2. F \in Seq(Frames) /\ DOMAIN F = 1 .. Len(F) /\ \A i \in DOMAIN F : F[i].slot \in Nat
  <2>1. F \in Seq(Frames)
    BY DEF StackTypes
  <2>2. DOMAIN F = 1 .. Len(F) /\ \A i \in DOMAIN F : F[i] \in Frames
    BY <2>1
  <2> QED BY <2>1, <2>2 DEF Frames
<1>3. \A i \in I : \A j \in 1 .. i : j \in I
  <2> SUFFICES ASSUME NEW i \in I, NEW j \in 1 .. i PROVE j \in 1 .. Len(F) /\ F[j].slot > p
    OBVIOUS
  <2>1. i \in DOMAIN F /\ j \in DOMAIN F /\ (j = i \/ j < i)
    BY <1>2
  <2> QED BY <1>2, <2>1
<1>4. n \in 0 .. Len(F) /\ \A i \in 1 .. Len(F) : i \in I <=> i <= n
  <2>1. I \in SUBSET (1 .. Len(F)) /\ Len(F) \in Nat
    BY <1>2
  <2> HIDE DEF I, F
  <2> QED BY <1>3, <2>1, LastOf
<1>5. DOMAIN F = 1 .. Len(F)
  BY <1>2
<1> QED BY <1>1, <1>4, <1>5

-----------------------------------------------------------------------------
(* The shadow map. *)

LEMMA Stores ==
  ASSUME StackInv, NEW a \in base[cur] .. top[cur] - 1, last = ABSENT \/ a >= last - 1
  PROVE  /\ Poison(check_write(bytes, a), last, cur, scribbled \union {a})
         /\ check_write(bytes, a)[a] = "valid"
         /\ \A b \in StackBytes : bytes[b] = "valid" => check_write(bytes, a)[b] = "valid"
<1> DEFINE sh == check_write(bytes, a)
<1>1. /\ cur \in Stacks /\ sp \in Extent(cur) /\ Pointer(sp, cur, tracked, last)
      /\ Poison(bytes, last, cur, scribbled)
  BY DEF StackInv, StackTypes
<1>2. a \in StackBytes /\ a \in Extent(cur) /\ a \in Nat
  BY <1>1, Layout, InExtent
<1>3. bytes[a] \in States /\ bytes[a] # "redzone"
  BY <1>1, <1>2 DEF Poison
<1>4. bytes[a] = "below" => InGrace(a)
  <2>1. last # ABSENT => last \in Int
    <3>1. sp \in Nat
      BY <1>1, InExtent
    <3> QED BY <1>1, <3>1 DEF Pointer
  <2>2. bytes[a] = "below" => last # ABSENT /\ a < last
    <3>1. bytes[a] = "below" => a \in BelowIn(last, cur)
      BY <1>1, <1>2 DEF Poison
    <3> QED BY <1>2, <2>1, <3>1 DEF BelowIn
  <2> QED BY <2>1, <2>2, <1>2, LimitsAssumption DEF InGrace
<1>5. sh = [bytes EXCEPT ![a] = "valid"]
  <2>1. CASE bytes[a] = "valid"
    BY <1>1, <2>1 DEF check_write, Poison
  <2>2. CASE bytes[a] # "valid"
    BY <1>3, <1>4, <2>2 DEF check_write, States
  <2> QED BY <2>1, <2>2
<1>6. sh \in [StackBytes -> States] /\ sh[a] = "valid" /\ \A b \in StackBytes : b # a => sh[b] = bytes[b]
  BY <1>1, <1>2, <1>5 DEF Poison, States
<1> HIDE DEF sh
<1>7. Poison(sh, last, cur, scribbled \union {a})
  <2>1. \A b \in StackBytes : sh[b] = "below" <=> b \in BelowIn(last, cur) \ (scribbled \union {a})
    BY <1>1, <1>6 DEF Poison
  <2>2. \A r \in Stacks : \A b \in base[r] .. top[r] - 1 : sh[b] # "redzone"
    <3> SUFFICES ASSUME NEW r \in Stacks, NEW b \in base[r] .. top[r] - 1 PROVE sh[b] # "redzone"
      OBVIOUS
    <3>1. b \in StackBytes
      BY Layout, InExtent
    <3> QED BY <1>1, <1>6, <3>1 DEF Poison
  <2> QED BY <1>6, <2>1, <2>2 DEF Poison
<1> QED BY <1>6, <1>7 DEF sh

\* The stack pointer moves within the stack in use.
LEMMA Moves ==
  ASSUME StackInv, NEW sh, NEW cs, NEW p \in Extent(cur), NEW dead,
         Poison(sh, last, cur, dead), last # ABSENT => \A a \in dead : a < last \/ p <= a,
         update_stack_pointer(sh, cs, p)
  PROVE  /\ tracked' = tracked /\ call_stack' = cs
         /\ last' = IF last = ABSENT THEN ABSENT ELSE p
         /\ Poison(bytes', last', cur, dead)
         /\ \A a \in StackBytes : sh[a] = "valid" /\ (a \in Extent(cur) => a >= p)
                                    => bytes'[a] = "valid"
<1>1. /\ cur \in Stacks /\ sp \in Extent(cur) /\ Pointer(sp, cur, tracked, last)
  BY DEF StackInv, StackTypes
<1>2. CASE last = ABSENT
  <2>1. tracked = Other(cur) /\ ~Within(tracked, p) /\ last # p
    BY <1>1, <1>2, Layout DEF Pointer, Within
  <2> QED BY <1>2, <2>1 DEF update_stack_pointer
<1>3. CASE last = p
  BY <1>3, <1>1, Layout DEF update_stack_pointer
<1>4. CASE last # ABSENT /\ last # p
  <2>1. tracked = cur /\ last \in Extent(cur) /\ Within(tracked, p)
    <3>1. sp \in Nat /\ sp <= top[cur] /\ base[cur] \in Nat
      BY <1>1, InExtent, Layout
    <3>2. tracked = cur /\ last \in {sp - 1, sp} /\ last >= base[cur]
      BY <1>1, <1>4 DEF Pointer
    <3>3. last \in Extent(cur)
      BY <1>1, <3>1, <3>2, Layout DEF Extent
    <3> QED BY <3>2, <3>3 DEF Within
  <2>2. /\ bytes' = IF p < last THEN promote(sh, p, last) ELSE Painted(sh, last, p, "below")
        /\ call_stack' = cs /\ last' = p /\ tracked' = tracked
    BY <1>4, <2>1 DEF update_stack_pointer
  <2>3. p \in Nat /\ last \in Nat /\ p # ABSENT /\ last # ABSENT
    BY <1>1, <2>1, Layout
  <2>4. \A a \in StackBytes : a \in BelowIn(last, cur) <=> a \in base[cur] .. last - 1
    BY <2>3 DEF BelowIn
  <2>5. \A a \in StackBytes : a \in BelowIn(p, cur) <=> a \in base[cur] .. p - 1
    BY <2>3 DEF BelowIn
  <2>6. \A a \in StackBytes : a \in Nat
    BY <1>1, Layout
  <2>7. base[cur] \in Nat /\ base[cur] <= p /\ base[cur] <= last
    BY <1>1, <2>1, Layout, InExtent
  <2>8. /\ bytes' \in [StackBytes -> States]
        /\ \A a \in StackBytes : bytes'[a] = "below" <=> a \in BelowIn(p, cur) \ dead
        /\ \A a \in StackBytes : bytes'[a] = "redzone" => sh[a] = "redzone"
        /\ \A a \in StackBytes : sh[a] = "valid" /\ a \notin last .. p - 1 => bytes'[a] = "valid"
    <3>1. CASE p < last
      <4>1. bytes' = promote(sh, p, last)
        BY <2>2, <3>1
      <4> QED BY <2>3, <2>4, <2>5, <2>6, <2>7, <3>1, <4>1 DEF Poison, promote, States
    <3>2. CASE p > last
      <4>1. bytes' = Painted(sh, last, p, "below")
        BY <2>2, <2>3, <3>2
      <4> QED BY <2>3, <2>4, <2>5, <2>6, <2>7, <3>2, <4>1 DEF Poison, Painted, States
    <3> QED BY <1>4, <2>3, <3>1, <3>2
  <2>9. \A r \in Stacks : \A a \in base[r] .. top[r] - 1 : bytes'[a] # "redzone"
    <3> SUFFICES ASSUME NEW r \in Stacks, NEW a \in base[r] .. top[r] - 1
                 PROVE bytes'[a] # "redzone"
      OBVIOUS
    <3>1. a \in StackBytes
      BY Layout, InExtent
    <3> QED BY <2>8, <3>1 DEF Poison
  <2>10. \A a \in StackBytes : sh[a] = "valid" /\ (a \in Extent(cur) => a >= p) => bytes'[a] = "valid"
    <3> SUFFICES ASSUME NEW a \in StackBytes, a \in Extent(cur) => a >= p
                 PROVE a \notin last .. p - 1
      BY <2>8
    <3>1. base[cur] \in Nat /\ top[cur] \in Nat /\ base[cur] <= last /\ p <= top[cur] /\ a \in Nat
      BY <1>1, <2>1, <2>6, InExtent, Layout
    <3>2. base[cur] <= a /\ a <= top[cur] => a >= p
      BY <1>1, <3>1, InExtent
    <3> QED BY <2>3, <3>1, <3>2
  <2> QED BY <1>4, <2>2, <2>8, <2>9, <2>10 DEF Poison
<1> QED BY <1>2, <1>3, <1>4

\* A byte is pushed.
LEMMA Pushes ==
  ASSUME StackInv, sp > base[cur], NEW cs,
         update_stack_pointer(check_write(bytes, sp - 1), cs, sp - 1)
  PROVE  /\ sp - 1 \in Extent(cur) /\ sp - 1 \in base[cur] .. top[cur] - 1
         /\ tracked' = tracked /\ call_stack' = cs
         /\ last' = IF last = ABSENT THEN ABSENT ELSE sp - 1
         /\ Poison(bytes', last', cur, scribbled \ {sp - 1})
         /\ scribbled \ {sp - 1} \subseteq BelowIn(last', cur)
         /\ bytes'[sp - 1] = "valid"
         /\ \A a \in StackBytes : bytes[a] = "valid" /\ (a \in Extent(cur) => a >= sp)
                                    => bytes'[a] = "valid"
<1> DEFINE sh == check_write(bytes, sp - 1)
<1>1. /\ cur \in Stacks /\ sp \in Extent(cur) /\ Pointer(sp, cur, tracked, last)
      /\ scribbled \subseteq BelowIn(last, cur)
  BY DEF StackInv, StackTypes
<1>2. /\ sp - 1 \in Extent(cur) /\ sp - 1 \in base[cur] .. top[cur] - 1 /\ sp - 1 \in StackBytes
      /\ sp \in Nat /\ base[cur] \in Nat /\ sp <= top[cur] /\ top[cur] \in Nat
  BY <1>1, Layout, InExtent
<1>3. last = ABSENT \/ (last \in Nat /\ last \in {sp - 1, sp})
  BY <1>1, <1>2 DEF Pointer
<1>4. /\ Poison(sh, last, cur, scribbled \union {sp - 1}) /\ sh[sp - 1] = "valid"
      /\ \A b \in StackBytes : bytes[b] = "valid" => sh[b] = "valid"
  BY <1>2, <1>3, Stores
<1>5. last # ABSENT => \A a \in scribbled \union {sp - 1} : a < last \/ sp - 1 <= a
  BY <1>1, <1>2, <1>3 DEF BelowIn
<1> HIDE DEF sh
<1>6. /\ tracked' = tracked /\ call_stack' = cs
      /\ last' = IF last = ABSENT THEN ABSENT ELSE sp - 1
      /\ Poison(bytes', last', cur, scribbled \union {sp - 1})
      /\ \A a \in StackBytes : sh[a] = "valid" /\ (a \in Extent(cur) => a >= sp - 1)
                                 => bytes'[a] = "valid"
  BY <1>2, <1>4, <1>5, Moves DEF sh
<1>7. sp - 1 # ABSENT
  BY <1>1, <1>2, Layout
<1>8. \A a \in BelowIn(last', cur) : a # sp - 1
  BY <1>2, <1>6, <1>7 DEF BelowIn
<1>9. Poison(bytes', last', cur, scribbled \ {sp - 1})
  BY <1>6, <1>8 DEF Poison
<1>10. scribbled \ {sp - 1} \subseteq BelowIn(last', cur)
  BY <1>1, <1>2, <1>3, <1>6, <1>7 DEF BelowIn
<1>11. \A a \in StackBytes : bytes[a] = "valid" /\ (a \in Extent(cur) => a >= sp) => bytes'[a] = "valid"
  <2> SUFFICES ASSUME NEW a \in StackBytes, bytes[a] = "valid", a \in Extent(cur) => a >= sp
               PROVE  bytes'[a] = "valid"
    OBVIOUS
  <2>1. a \in Extent(cur) => a >= sp - 1
    BY <1>1, <1>2, InExtent
  <2> QED BY <1>4, <1>6, <2>1
<1> QED BY <1>2, <1>4, <1>6, <1>9, <1>10, <1>11

-----------------------------------------------------------------------------
(* The calls in progress. *)

LEMMA CalledFacts ==
  ASSUME StackTypes, NEW p \in Nat, NEW r \in Sites
  PROVE  /\ Called(p, r) \in Seq(Frames) /\ Len(Called(p, r)) = Len(frames[cur]) + 1
         /\ \A i \in DOMAIN frames[cur] : /\ Called(p, r)[i].slot = frames[cur][i].slot
                                          /\ Called(p, r)[i].to = frames[cur][i].to
         /\ Called(p, r)[Len(frames[cur]) + 1].slot = p
         /\ Called(p, r)[Len(frames[cur]) + 1].to = r
<1> DEFINE F == frames[cur]
           all == Append(F, [slot |-> p, to |-> r, watched |-> TRUE])
           few(i) == Cardinality({j \in DOMAIN all : j > i /\ all[j].watched}) < MAX_CALL_STACK_DEPTH
<1>1. F \in Seq(Frames)
  BY DEF StackTypes
<1>2. all \in Seq(Frames) /\ Len(all) = Len(F) + 1 /\ all[Len(F) + 1] = [slot |-> p, to |-> r, watched |-> TRUE]
      /\ \A i \in DOMAIN F : all[i] = F[i]
  <2>1. [slot |-> p, to |-> r, watched |-> TRUE] \in Frames
    BY DEF Frames
  <2> QED BY <1>1, <2>1, AppendProperties
<1>3. Called(p, r) = [i \in DOMAIN all |-> [all[i] EXCEPT !.watched = @ /\ few(i)]]
  BY DEF Called
<1>4. \A i \in DOMAIN all : /\ [all[i] EXCEPT !.watched = @ /\ few(i)] \in Frames
                            /\ [all[i] EXCEPT !.watched = @ /\ few(i)].slot = all[i].slot
                            /\ [all[i] EXCEPT !.watched = @ /\ few(i)].to = all[i].to
  <2> SUFFICES ASSUME NEW i \in DOMAIN all, NEW b \in BOOLEAN
               PROVE  /\ [all[i] EXCEPT !.watched = b] \in Frames
                      /\ [all[i] EXCEPT !.watched = b].slot = all[i].slot
                      /\ [all[i] EXCEPT !.watched = b].to = all[i].to
    OBVIOUS
  <2>1. all[i] \in Frames
    BY <1>2
  <2> QED BY <2>1 DEF Frames
<1>5. DOMAIN all = 1 .. Len(F) + 1 /\ DOMAIN F = 1 .. Len(F) /\ Len(F) \in Nat
  BY <1>1, <1>2
<1> HIDE DEF all, F, few
<1>6. Called(p, r) \in Seq(Frames) /\ Len(Called(p, r)) = Len(F) + 1
  <2>1. Called(p, r) \in [1 .. Len(F) + 1 -> Frames]
    BY <1>3, <1>4, <1>5
  <2> QED BY <1>5, <2>1, SeqDef
<1>7. \A i \in DOMAIN all : /\ Called(p, r)[i].slot = all[i].slot
                            /\ Called(p, r)[i].to = all[i].to
  BY <1>3, <1>4
<1> QED BY <1>2, <1>5, <1>6, <1>7 DEF F

\* A beginning of the calls in progress.
LEMMA Begins ==
  ASSUME NEW F \in Seq(Frames), NEW n \in 0 .. Len(F)
  PROVE  /\ SubSeq(F, 1, n) \in Seq(Frames) /\ Len(SubSeq(F, 1, n)) = n
         /\ DOMAIN SubSeq(F, 1, n) = 1 .. n
         /\ \A i \in 1 .. n : i \in DOMAIN F /\ SubSeq(F, 1, n)[i] = F[i]
BY SubSeqProperties

LEMMA PushedBegins ==
  ASSUME NEW F \in Seq(Frames), NEW n \in 0 .. Len(F), NEW sh, NEW low, NEW high,
         Pushed(F, sh, low, high)
  PROVE  Pushed(SubSeq(F, 1, n), sh, low, high)
<1> DEFINE N == SubSeq(F, 1, n)
<1>1. DOMAIN N = 1 .. n /\ \A i \in 1 .. n : i \in DOMAIN F /\ N[i] = F[i]
  BY Begins
<1> HIDE DEF N
<1>2. Pushed(N, sh, low, high)
  BY <1>1 DEF Pushed
<1> QED BY <1>2 DEF N

\* The calls go on while the marks of their slots last.
LEMMA PushedLasts ==
  ASSUME NEW s \in Stacks, NEW F \in Seq(Frames), NEW sh, NEW sh1, NEW low \in Nat,
         NEW low1 \in Nat,
         NEW high \in Nat, NEW high1 \in Nat,
         Pushed(F, sh, low, high),
         \A i \in DOMAIN F : F[i].slot \in low1 .. high1,
         \A a \in low1 .. high1 : sh[a] = "valid" => sh1[a] = "valid"
  PROVE  Pushed(F, sh1, low1, high1)
BY DEF Pushed

LEMMA AwayLasts ==
  ASSUME StackInv, NEW sh,
         \A a \in StackBytes : a \notin Extent(cur) /\ bytes[a] = "valid" => sh[a] = "valid"
  PROVE  IF away = ABSENT THEN frames[Other(cur)] = <<>>
         ELSE Pushed(frames[Other(cur)], sh, away, top[Other(cur)] - 1)
<1>1. /\ cur \in Stacks /\ Progress(frames, bytes, cur, sp, away) /\ away \in Extent(Other(cur)) \union {ABSENT}
  BY DEF StackInv, StackTypes
<1>2. CASE away = ABSENT
  BY <1>1, <1>2 DEF Progress
<1>3. CASE away # ABSENT
  <2>1. Pushed(frames[Other(cur)], bytes, away, top[Other(cur)] - 1) /\ away \in Extent(Other(cur))
    BY <1>1, <1>3 DEF Progress
  <2>2. \A a \in away .. top[Other(cur)] - 1 : a \in StackBytes /\ a \notin Extent(cur)
    BY <1>1, <2>1, Layout, InExtent
  <2> QED BY <1>3, <2>1, <2>2 DEF Pushed
<1> QED BY <1>2, <1>3

\* The same calls, with the stack pointer at p: below where it was, or not above
\* the newest.
LEMMA SameCalls ==
  ASSUME StackInv, NEW sh, NEW p \in Extent(cur),
         \A i \in DOMAIN frames[cur] : frames[cur][i].slot >= p,
         \A a \in StackBytes : bytes[a] = "valid" /\ (a \in Extent(cur) => a >= sp /\ a >= p)
                                 => sh[a] = "valid"
  PROVE  Progress(frames, sh, cur, p, away)
<1>1. /\ cur \in Stacks /\ sp \in Extent(cur) /\ Pushed(frames[cur], bytes, sp, top[cur] - 1)
  BY DEF StackInv, StackTypes, Progress
<1>2. Pushed(frames[cur], sh, p, top[cur] - 1)
  <2>1. /\ sp \in Nat /\ base[cur] \in Nat /\ top[cur] \in Nat /\ base[cur] <= sp
        /\ p \in Nat /\ base[cur] <= p
    BY <1>1, Layout, InExtent
  <2>2. ASSUME NEW i \in DOMAIN frames[cur]
        PROVE  frames[cur][i].slot \in p .. top[cur] - 1 /\ sh[frames[cur][i].slot] = "valid"
    <3>1. /\ frames[cur][i].slot \in sp .. top[cur] - 1 /\ bytes[frames[cur][i].slot] = "valid"
          /\ frames[cur][i].slot >= p
      BY <1>1, <2>2 DEF Pushed
    <3>2. frames[cur][i].slot \in StackBytes
      BY <1>1, <2>1, <3>1, Layout, InExtent
    <3> QED BY <2>1, <3>1, <3>2
  <2> QED BY <1>1, <2>2 DEF Pushed
<1>3. \A a \in StackBytes : a \notin Extent(cur) /\ bytes[a] = "valid" => sh[a] = "valid"
  OBVIOUS
<1> QED BY <1>2, <1>3, AwayLasts DEF Progress

LEMMA PushedCalled ==
  ASSUME StackInv, sp > base[cur], NEW r \in Sites, NEW sh,
         \A a \in StackBytes : bytes[a] = "valid" /\ (a \in Extent(cur) => a >= sp) => sh[a] = "valid",
         sh[sp - 1] = "valid"
  PROVE  Progress([frames EXCEPT ![cur] = Called(sp - 1, r)], sh, cur, sp - 1, away)
<1> DEFINE F == frames[cur]
           N == Called(sp - 1, r)
<1>1. /\ cur \in Stacks /\ sp \in Extent(cur) /\ Pushed(F, bytes, sp, top[cur] - 1)
      /\ StackTypes /\ F \in Seq(Frames) /\ cur \in DOMAIN frames
  BY DEF StackInv, StackTypes, Progress
<1>2. /\ sp \in Nat /\ base[cur] \in Nat /\ top[cur] \in Nat /\ base[cur] <= sp /\ sp <= top[cur]
      /\ sp - 1 \in Nat /\ Other(cur) # cur
  BY <1>1, Layout, InExtent
<1>3. /\ N \in Seq(Frames) /\ Len(N) = Len(F) + 1 /\ N[Len(F) + 1].slot = sp - 1
      /\ \A i \in DOMAIN F : N[i].slot = F[i].slot
  BY <1>1, <1>2, CalledFacts
<1>4. \A i \in DOMAIN F : F[i].slot \in sp .. top[cur] - 1 /\ sh[F[i].slot] = "valid"
  <2> SUFFICES ASSUME NEW i \in DOMAIN F
               PROVE F[i].slot \in sp .. top[cur] - 1 /\ sh[F[i].slot] = "valid"
    OBVIOUS
  <2>1. F[i].slot \in sp .. top[cur] - 1 /\ bytes[F[i].slot] = "valid"
    BY <1>1 DEF Pushed
  <2>2. F[i].slot \in StackBytes
    BY <1>1, <1>2, <2>1, Layout, InExtent
  <2> QED BY <1>2, <2>1, <2>2
<1>5. DOMAIN F = 1 .. Len(F) /\ DOMAIN N = 1 .. Len(F) + 1 /\ Len(F) \in Nat
  BY <1>1, <1>3
<1>6. \A i, j \in DOMAIN F : i < j => F[i].slot > F[j].slot
  BY <1>1 DEF Pushed
<1> HIDE DEF F, N
<1>7. Pushed(N, sh, sp - 1, top[cur] - 1)
  <2>1. ASSUME NEW i \in DOMAIN N
        PROVE N[i].slot \in sp - 1 .. top[cur] - 1 /\ sh[N[i].slot] = "valid"
    <3>1. CASE i = Len(F) + 1
      BY <1>2, <1>3, <3>1
    <3>2. CASE i # Len(F) + 1
      <4>1. i \in DOMAIN F
        BY <1>5, <3>2
      <4> QED BY <1>2, <1>3, <1>4, <4>1
    <3> QED BY <3>1, <3>2
  <2>2. ASSUME NEW i \in DOMAIN N, NEW j \in DOMAIN N, i < j PROVE N[i].slot > N[j].slot
    <3>1. i \in DOMAIN F
      BY <1>5, <2>2
    <3>2. CASE j = Len(F) + 1
      BY <1>2, <1>3, <1>4, <3>1, <3>2
    <3>3. CASE j # Len(F) + 1
      <4>1. j \in DOMAIN F
        BY <1>5, <3>3
      <4> QED BY <1>3, <1>6, <2>2, <3>1, <4>1
    <3> QED BY <3>2, <3>3
  <2> QED BY <2>1, <2>2 DEF Pushed
<1>8. \A a \in StackBytes : a \notin Extent(cur) /\ bytes[a] = "valid" => sh[a] = "valid"
  OBVIOUS
<1> QED BY <1>1, <1>2, <1>7, <1>8, AwayLasts DEF Progress, N

LEMMA PointerTypes ==
  ASSUME StackInv
  PROVE  /\ cur \in Stacks /\ sp \in Extent(cur)
         /\ sp \in Nat /\ base[cur] \in Nat /\ base[cur] <= sp /\ sp <= top[cur] /\ top[cur] \in Nat
<1>1. cur \in Stacks /\ sp \in Extent(cur)
  BY DEF StackInv, StackTypes
<1> QED BY <1>1, Layout, InExtent

LEMMA Pointed ==
  ASSUME StackInv, sp > base[cur]
  PROVE  /\ sp \in Nat /\ sp \in Extent(cur) /\ sp - 1 \in Extent(cur) /\ sp - 1 \in Nat
         /\ base[cur] \in Nat /\ base[cur] <= sp - 1 /\ sp - 1 # ABSENT
<1>1. cur \in Stacks /\ sp \in Extent(cur)
  BY DEF StackInv, StackTypes
<1>2. sp \in Nat /\ base[cur] \in Nat /\ base[cur] <= sp /\ sp <= top[cur] /\ top[cur] \in Nat
  BY <1>1, Layout, InExtent
<1>3. sp - 1 \in Extent(cur)
  BY <1>1, <1>2, InExtent
<1> QED BY <1>1, <1>2, <1>3, Layout

LEMMA SlotsAbove ==
  ASSUME StackInv
  PROVE  \A i \in DOMAIN frames[cur] : frames[cur][i].slot \in Nat /\ frames[cur][i].slot >= sp
<1>1. Pushed(frames[cur], bytes, sp, top[cur] - 1) /\ cur \in Stacks /\ sp \in Extent(cur)
  BY DEF StackInv, StackTypes, Progress
<1>2. sp \in Nat /\ top[cur] \in Nat
  BY <1>1, Layout, InExtent
<1> QED BY <1>1, <1>2 DEF Pushed

\* The stack in use stays.
Stays == how' = how /\ cur' = cur /\ away' = away

LEMMA JsrKeeps == ASSUME StackInv, Jsr PROVE StackInv'
<1>1. PICK r \in Sites :
        /\ Stored(r)
        /\ update_stack_pointer(check_write(bytes, sp - 1), record_call(call_stack, sp - 1, r), sp - 1)
        /\ frames' = [frames EXCEPT ![cur] = Called(sp - 1, r)]
  BY DEF Jsr
<1>2. sp > base[cur] /\ sp' = sp - 1 /\ Stays /\ scribbled' = scribbled \ {sp - 1}
      /\ mem' = [mem EXCEPT ![sp - 1] = r]
  BY <1>1 DEF Stored, Stays
<1>3. /\ sp - 1 \in Extent(cur)
      /\ tracked' = tracked
      /\ last' = IF last = ABSENT THEN ABSENT ELSE sp - 1
      /\ Poison(bytes', last', cur, scribbled \ {sp - 1})
      /\ scribbled \ {sp - 1} \subseteq BelowIn(last', cur)
      /\ bytes'[sp - 1] = "valid"
      /\ \A a \in StackBytes : bytes[a] = "valid" /\ (a \in Extent(cur) => a >= sp)
                                 => bytes'[a] = "valid"
  BY <1>1, <1>2, Pushes
<1>4. StackTypes /\ Pointer(sp, cur, tracked, last) /\ (how # "move" => last # ABSENT)
  BY DEF StackInv
<1>5. sp - 1 \in StackBytes /\ sp - 1 \in Nat /\ base[cur] <= sp - 1 /\ sp - 1 # ABSENT
  BY <1>3, <1>4, InExtent, Layout DEF StackTypes
<1>6. Called(sp - 1, r) \in Seq(Frames)
  BY <1>4, <1>5, CalledFacts
<1>7. StackTypes'
  BY <1>1, <1>2, <1>3, <1>4, <1>6 DEF StackTypes, Stays
<1>8. Pointer(sp', cur', tracked', last')
  BY <1>2, <1>3, <1>4, <1>5 DEF Pointer, Stays
<1>9. Progress(frames', bytes', cur', sp', away')
  BY <1>1, <1>2, <1>3, PushedCalled DEF Stays
<1> QED BY <1>2, <1>3, <1>4, <1>5, <1>7, <1>8, <1>9 DEF StackInv, Stays

\* What an action on the stack in use has to keep.
LEMMA Closes ==
  ASSUME StackInv, Stays, sp' \in Extent(cur), tracked' = tracked,
         Pointer(sp', cur, tracked, last'), last = ABSENT <=> last' = ABSENT,
         Poison(bytes', last', cur, scribbled'), scribbled' \subseteq BelowIn(last', cur),
         mem' \in [StackBytes -> Sites \union {JUNK, ABSENT}], frames' \in [Stacks -> Seq(Frames)],
         Progress(frames', bytes', cur, sp', away)
  PROVE  StackInv'
<1>1. StackTypes'
  BY DEF StackInv, StackTypes, Stays
<1> QED BY <1>1 DEF StackInv, Stays

\* The stack pointer falls by a byte, and the calls stay.
LEMMA FallsKeeps ==
  ASSUME StackInv, Stays, sp > base[cur], NEW p \in {sp - 1, sp}, sp' = p,
         mem' \in [StackBytes -> Sites \union {JUNK, ABSENT}],
         frames' \in [Stacks -> Seq(Frames)],
         \A s \in Stacks : /\ DOMAIN frames'[s] = DOMAIN frames[s]
                           /\ \A i \in DOMAIN frames[s] : frames'[s][i].slot = frames[s][i].slot,
         scribbled' = scribbled \ {sp - 1},
         tracked' = tracked, last' = IF last = ABSENT THEN ABSENT ELSE sp - 1,
         Poison(bytes', last', cur, scribbled \ {sp - 1}),
         scribbled \ {sp - 1} \subseteq BelowIn(last', cur),
         \A a \in StackBytes : bytes[a] = "valid" /\ (a \in Extent(cur) => a >= sp)
                                 => bytes'[a] = "valid"
  PROVE  StackInv'
<1>1. StackTypes /\ Pointer(sp, cur, tracked, last)
  BY DEF StackInv
<1>2. /\ sp \in Nat /\ sp - 1 \in Extent(cur) /\ p \in Extent(cur) /\ base[cur] \in Nat
      /\ base[cur] <= sp - 1 /\ sp - 1 # ABSENT
  BY Pointed
<1>3. Pointer(sp', cur, tracked, last')
  BY <1>1, <1>2 DEF Pointer
<1>4. Progress(frames, bytes', cur, p, away)
  <2>1. \A i \in DOMAIN frames[cur] : frames[cur][i].slot >= p
    BY <1>2, SlotsAbove
  <2> QED BY <1>2, <2>1, SameCalls
<1>5. Progress(frames', bytes', cur, p, away)
  <2>1. Other(cur) \in Stacks /\ cur \in Stacks
    BY <1>1, Layout DEF StackTypes
  <2>2. ASSUME NEW s \in Stacks, NEW low, NEW high, Pushed(frames[s], bytes', low, high)
        PROVE  Pushed(frames'[s], bytes', low, high)
    BY <2>2 DEF Pushed
  <2>3. frames[Other(cur)] = <<>> => frames'[Other(cur)] = <<>>
    <3>1. frames'[Other(cur)] \in Seq(Frames)
      BY <2>1
    <3> QED BY <2>1, <3>1
  <2> QED BY <1>4, <2>1, <2>2, <2>3 DEF Progress
<1> QED BY <1>2, <1>3, <1>5, Closes

LEMMA PushKeeps == ASSUME StackInv, Push PROVE StackInv'
<1>1. PICK v \in Sites :
        Stored(v) /\ update_stack_pointer(check_write(bytes, sp - 1), call_stack, sp - 1)
  BY DEF Push
<1>2. /\ sp > base[cur] /\ sp' = sp - 1 /\ Stays /\ scribbled' = scribbled \ {sp - 1}
      /\ mem' = [mem EXCEPT ![sp - 1] = v] /\ frames' = frames
  BY <1>1 DEF Stored, Stays, Push
<1>3. StackTypes
  BY DEF StackInv
<1>4. /\ mem' \in [StackBytes -> Sites \union {JUNK, ABSENT}]
      /\ frames' \in [Stacks -> Seq(Frames)]
  BY <1>2, <1>3 DEF StackTypes
<1> QED BY <1>1, <1>2, <1>4, Pushes, FallsKeeps

LEMMA LibraryCallKeeps == ASSUME StackInv, LibraryCall PROVE StackInv'
<1>1. PICK r \in Sites :
        /\ LET called == record_call(call_stack, sp - 1, r)
           IN update_stack_pointer(check_write(bytes, sp - 1), check_return(called, sp - 1), sp - 1)
        /\ frames' = [frames EXCEPT ![cur] = SubSeq(Called(sp - 1, r), 1, Len(@))]
  BY DEF LibraryCall
<1>2. /\ sp > base[cur] /\ sp' = sp /\ Stays /\ scribbled' = scribbled \ {sp - 1}
      /\ mem' = mem
  BY DEF LibraryCall, Stays
<1>3. StackTypes
  BY DEF StackInv
<1>4. frames' \in [Stacks -> Seq(Frames)]
      /\ \A s \in Stacks : /\ DOMAIN frames'[s] = DOMAIN frames[s]
                           /\ \A i \in DOMAIN frames[s] : frames'[s][i].slot = frames[s][i].slot
  <2> DEFINE F == frames[cur]
             N == Called(sp - 1, r)
             after == SubSeq(N, 1, Len(F))
  <2>1. /\ F \in Seq(Frames) /\ sp - 1 \in Nat /\ cur \in Stacks
    BY <1>2, <1>3, InExtent, Layout DEF StackTypes
  <2>2. /\ N \in Seq(Frames) /\ Len(N) = Len(F) + 1
        /\ \A i \in DOMAIN F : N[i].slot = F[i].slot
    BY <1>3, <2>1, CalledFacts
  <2>3. Len(F) \in 0 .. Len(N) /\ DOMAIN F = 1 .. Len(F)
    BY <2>1, <2>2
  <2>4. after \in Seq(Frames) /\ DOMAIN after = 1 .. Len(F) /\ \A i \in 1 .. Len(F) : after[i] = N[i]
    BY <2>2, <2>3, Begins
  <2>5. frames' = [frames EXCEPT ![cur] = after] /\ frames \in [Stacks -> Seq(Frames)]
    BY <1>1, <1>3 DEF StackTypes
  <2> HIDE DEF N, after
  <2> QED BY <2>1, <2>2, <2>3, <2>4, <2>5
<1>5. mem' \in [StackBytes -> Sites \union {JUNK, ABSENT}]
  BY <1>2, <1>3 DEF StackTypes
<1> QED BY <1>1, <1>2, <1>4, <1>5, Pushes, FallsKeeps

LEMMA ReserveKeeps == ASSUME StackInv, Reserve PROVE StackInv'
<1>1. /\ sp > base[cur] /\ sp' = sp - 1 /\ Stays /\ scribbled' = scribbled \ {sp - 1}
      /\ mem' = mem /\ frames' = frames
      /\ update_stack_pointer(bytes, call_stack, sp - 1)
  BY DEF Reserve, Stays
<1>2. /\ StackTypes /\ Pointer(sp, cur, tracked, last) /\ Poison(bytes, last, cur, scribbled)
      /\ scribbled \subseteq BelowIn(last, cur)
  BY DEF StackInv
<1>3. /\ sp \in Nat /\ sp - 1 \in Extent(cur) /\ base[cur] \in Nat /\ base[cur] <= sp - 1 /\ sp - 1 # ABSENT
  BY <1>1, Pointed
<1>4. last # ABSENT => last \in {sp - 1, sp}
  BY <1>2 DEF Pointer
<1>5. last # ABSENT => \A a \in scribbled : a \in Nat /\ base[cur] <= a /\ a < last
  BY <1>2, <1>3, <1>4 DEF BelowIn
<1>6. /\ tracked' = tracked
      /\ last' = IF last = ABSENT THEN ABSENT ELSE sp - 1
      /\ Poison(bytes', last', cur, scribbled)
      /\ \A a \in StackBytes : bytes[a] = "valid" /\ (a \in Extent(cur) => a >= sp - 1)
                                 => bytes'[a] = "valid"
  BY <1>1, <1>2, <1>3, <1>5, Moves
<1>7. \A a \in BelowIn(last', cur) : a # sp - 1
  BY <1>3, <1>6 DEF BelowIn
<1>8. Poison(bytes', last', cur, scribbled \ {sp - 1})
  BY <1>6, <1>7 DEF Poison
<1>9. scribbled \ {sp - 1} \subseteq BelowIn(last', cur)
  BY <1>2, <1>3, <1>4, <1>5, <1>6 DEF BelowIn
<1>10. \A a \in StackBytes : bytes[a] = "valid" /\ (a \in Extent(cur) => a >= sp) => bytes'[a] = "valid"
  <2> SUFFICES ASSUME NEW a \in StackBytes, bytes[a] = "valid", a \in Extent(cur) => a >= sp
               PROVE  bytes'[a] = "valid"
    OBVIOUS
  <2>1. a \in Extent(cur) => a >= sp - 1
    BY <1>2, <1>3, InExtent DEF StackTypes
  <2> QED BY <1>6, <2>1
<1> QED BY <1>1, <1>2, <1>6, <1>8, <1>9, <1>10, FallsKeeps DEF StackTypes

\* An instruction that leaves the stack pointer alone, and writes at most a live byte.
LEMMA StandsKeeps ==
  ASSUME StackInv, Stays, sp' = sp, scribbled' = scribbled, frames' = frames,
         mem' \in [StackBytes -> Sites \union {JUNK, ABSENT}], NEW sh,
         sh = bytes \/ \E a \in sp .. top[cur] - 1 : sh = check_write(bytes, a),
         update_stack_pointer(sh, call_stack, sp)
  PROVE  StackInv'
<1>1. /\ StackTypes /\ Pointer(sp, cur, tracked, last) /\ Poison(bytes, last, cur, scribbled)
      /\ scribbled \subseteq BelowIn(last, cur) /\ cur \in Stacks /\ sp \in Extent(cur)
  BY DEF StackInv, StackTypes
<1>2. /\ sp \in Nat /\ base[cur] \in Nat /\ top[cur] \in Nat /\ base[cur] <= sp /\ sp # ABSENT
  BY <1>1, Layout, InExtent
<1>3. last # ABSENT => last \in {sp - 1, sp} /\ last >= base[cur]
  BY <1>1 DEF Pointer
<1>4. \A a \in BelowIn(last, cur) : a \in Nat /\ a < sp /\ (last # ABSENT => a < last)
  BY <1>2, <1>3 DEF BelowIn
<1>5. /\ Poison(sh, last, cur, scribbled)
      /\ \A a \in StackBytes : bytes[a] = "valid" => sh[a] = "valid"
  <2>1. CASE sh = bytes
    BY <1>1, <2>1
  <2>2. CASE sh # bytes
    <3>1. PICK a \in sp .. top[cur] - 1 : sh = check_write(bytes, a)
      BY <2>2
    <3>2. a \in base[cur] .. top[cur] - 1 /\ (last = ABSENT \/ a >= last - 1)
      BY <1>2, <1>3
    <3>3. Poison(sh, last, cur, scribbled \union {a})
          /\ \A b \in StackBytes : bytes[b] = "valid" => sh[b] = "valid"
      BY <3>1, <3>2, Stores
    <3>4. a \notin BelowIn(last, cur)
      BY <1>2, <1>4
    <3> QED BY <3>3, <3>4 DEF Poison
  <2> QED BY <2>1, <2>2
<1>6. last # ABSENT => \A a \in scribbled : a < last \/ sp <= a
  BY <1>1, <1>4
<1>7. /\ tracked' = tracked /\ last' = IF last = ABSENT THEN ABSENT ELSE sp
      /\ Poison(bytes', last', cur, scribbled)
      /\ \A a \in StackBytes : sh[a] = "valid" /\ (a \in Extent(cur) => a >= sp)
                                 => bytes'[a] = "valid"
  BY <1>1, <1>5, <1>6, Moves
<1>8. Pointer(sp', cur, tracked, last')
  BY <1>1, <1>2, <1>7 DEF Pointer
<1>9. scribbled \subseteq BelowIn(last', cur)
  BY <1>1, <1>2, <1>3, <1>4, <1>7 DEF BelowIn
<1>10. Progress(frames, bytes', cur, sp, away)
  BY <1>1, <1>5, <1>7, SlotsAbove, SameCalls
<1> QED BY <1>1, <1>2, <1>7, <1>8, <1>9, <1>10, Closes DEF StackTypes

LEMMA WriteKeeps == ASSUME StackInv, Write PROVE StackInv'
<1>1. PICK a \in sp .. top[cur] - 1, v \in Sites :
        mem' = [mem EXCEPT ![a] = v] /\ update_stack_pointer(check_write(bytes, a), call_stack, sp)
  BY DEF Write
<1>2. Stays /\ sp' = sp /\ scribbled' = scribbled /\ frames' = frames
  BY DEF Write, Stays
<1>3. mem' \in [StackBytes -> Sites \union {JUNK, ABSENT}]
  BY <1>1 DEF StackInv, StackTypes
<1> QED BY <1>1, <1>2, <1>3, StandsKeeps

LEMMA OtherInstructionKeeps == ASSUME StackInv, OtherInstruction PROVE StackInv'
<1>1. /\ Stays /\ sp' = sp /\ scribbled' = scribbled /\ frames' = frames /\ mem' = mem
      /\ update_stack_pointer(bytes, call_stack, sp)
  BY DEF OtherInstruction, Stays
<1>2. mem' \in [StackBytes -> Sites \union {JUNK, ABSENT}]
  BY <1>1 DEF StackInv, StackTypes
<1> QED BY <1>1, <1>2, StandsKeeps

LEMMA ScribbleKeeps == ASSUME StackInv, Scribble PROVE StackInv'
<1>1. PICK a \in base[cur] .. sp - 1 :
        /\ last = sp /\ bytes[a] = "below" /\ InGrace(a)
        /\ bytes' = check_write(bytes, a)
        /\ scribbled' = scribbled \union {a}
  BY DEF Scribble
<1>2. /\ Stays /\ sp' = sp /\ mem' = mem /\ tracked' = tracked /\ last' = last /\ frames' = frames
  BY DEF Scribble, Stays
<1>3. /\ StackTypes /\ Pointer(sp, cur, tracked, last) /\ Poison(bytes, last, cur, scribbled)
      /\ scribbled \subseteq BelowIn(last, cur) /\ cur \in Stacks /\ sp \in Extent(cur)
  BY DEF StackInv, StackTypes
<1>4. /\ sp \in Nat /\ base[cur] \in Nat /\ top[cur] \in Nat /\ sp <= top[cur] /\ sp # ABSENT
  BY <1>3, Layout, InExtent
<1>5. a \in StackBytes /\ a \in Nat
  BY <1>3, <1>4, Layout, InExtent
<1>6. bytes' = [bytes EXCEPT ![a] = "valid"]
  BY <1>1 DEF check_write
<1>7. a \in BelowIn(last, cur)
  BY <1>1, <1>4 DEF BelowIn
<1>8. bytes' \in [StackBytes -> States] /\ bytes'[a] = "valid"
      /\ \A b \in StackBytes : b # a => bytes'[b] = bytes[b]
  BY <1>3, <1>5, <1>6 DEF Poison, States
<1>9. Poison(bytes', last', cur, scribbled')
  <2>1. \A r \in Stacks : \A b \in base[r] .. top[r] - 1 : bytes'[b] # "redzone"
    <3> SUFFICES ASSUME NEW r \in Stacks, NEW b \in base[r] .. top[r] - 1
                 PROVE bytes'[b] # "redzone"
      OBVIOUS
    <3>1. b \in StackBytes
      BY Layout, InExtent
    <3> QED BY <1>3, <1>8, <3>1 DEF Poison
  <2>2. \A b \in StackBytes : bytes'[b] = "below" <=> b \in BelowIn(last', cur) \ scribbled'
    BY <1>1, <1>2, <1>3, <1>8 DEF Poison
  <2> QED BY <1>8, <2>1, <2>2 DEF Poison
<1>10. Progress(frames, bytes', cur, sp, away)
  <2>1. \A b \in StackBytes : bytes[b] = "valid" => bytes'[b] = "valid"
    BY <1>8
  <2> QED BY <1>3, <2>1, SlotsAbove, SameCalls
<1> QED BY <1>1, <1>2, <1>3, <1>7, <1>9, <1>10, Closes DEF StackTypes

LEMMA RisesKeeps ==
  ASSUME StackInv, NEW p \in sp + 1 .. top[cur], Rises(p), NEW cs,
         update_stack_pointer(bytes, cs, p)
  PROVE  StackInv'
<1>1. /\ StackTypes /\ Pointer(sp, cur, tracked, last) /\ Poison(bytes, last, cur, scribbled)
      /\ scribbled \subseteq BelowIn(last, cur) /\ cur \in Stacks /\ sp \in Extent(cur)
      /\ frames[cur] \in Seq(Frames) /\ Progress(frames, bytes, cur, sp, away)
  BY DEF StackInv, StackTypes
<1>2. /\ sp' = p /\ Stays /\ scribbled' = scribbled
      /\ mem' = [a \in StackBytes |-> IF a \in sp .. p - 1 THEN JUNK ELSE mem[a]]
      /\ frames' = [frames EXCEPT ![cur] = Outside(p - 1)]
  BY DEF Rises, Stays
<1>3. /\ sp \in Nat /\ base[cur] \in Nat /\ top[cur] \in Nat /\ base[cur] <= sp
      /\ p \in Nat /\ sp < p /\ p <= top[cur] /\ p - 1 \in Nat
  BY <1>1, Layout, InExtent
<1>4. p \in Extent(cur) /\ p # ABSENT
  BY <1>1, <1>3, Layout, InExtent
<1>5. last # ABSENT => last \in {sp - 1, sp} /\ last >= base[cur]
  BY <1>1 DEF Pointer
<1>6. last # ABSENT => \A a \in scribbled : a \in Nat /\ a < last
  BY <1>1, <1>3, <1>5 DEF BelowIn
<1>7. /\ tracked' = tracked /\ last' = IF last = ABSENT THEN ABSENT ELSE p
      /\ Poison(bytes', last', cur, scribbled)
      /\ \A a \in StackBytes : bytes[a] = "valid" /\ (a \in Extent(cur) => a >= p)
                                 => bytes'[a] = "valid"
  BY <1>1, <1>4, <1>6, Moves
<1>8. Pointer(p, cur, tracked, last')
  BY <1>1, <1>3, <1>4, <1>7 DEF Pointer
<1>9. scribbled \subseteq BelowIn(last', cur)
  BY <1>1, <1>3, <1>4, <1>5, <1>7 DEF BelowIn
<1>10. mem' \in [StackBytes -> Sites \union {JUNK, ABSENT}]
  BY <1>1, <1>2 DEF StackTypes
<1>11. PICK n \in 0 .. Len(frames[cur]) :
         /\ Outside(p - 1) = SubSeq(frames[cur], 1, n)
         /\ \A i \in DOMAIN frames[cur] : frames[cur][i].slot > p - 1 <=> i <= n
  BY <1>1, <1>3, OutsideFacts DEF Progress, Pushed
<1> DEFINE N == SubSeq(frames[cur], 1, n)
<1>12. /\ N \in Seq(Frames) /\ DOMAIN N = 1 .. n
       /\ \A i \in 1 .. n : i \in DOMAIN frames[cur] /\ N[i] = frames[cur][i]
  BY <1>1, Begins
<1> HIDE DEF N
<1>13. frames' = [frames EXCEPT ![cur] = N]
  BY <1>2, <1>11 DEF N
<1>14. frames' \in [Stacks -> Seq(Frames)]
  BY <1>1, <1>12, <1>13 DEF StackTypes
<1>15. Pushed(N, bytes', p, top[cur] - 1)
  <2>1. Pushed(frames[cur], bytes, sp, top[cur] - 1)
    BY <1>1 DEF Progress
  <2>2. ASSUME NEW i \in 1 .. n
        PROVE  N[i].slot \in p .. top[cur] - 1 /\ bytes'[N[i].slot] = "valid"
    <3>1. /\ N[i].slot \in sp .. top[cur] - 1 /\ bytes[N[i].slot] = "valid" /\ N[i].slot > p - 1
      BY <1>11, <1>12, <2>1 DEF Pushed
    <3>2. N[i].slot \in StackBytes /\ N[i].slot >= p
      <4>1. N[i].slot \in Nat /\ base[cur] <= N[i].slot /\ N[i].slot <= top[cur] /\ N[i].slot >= p
        BY <1>3, <3>1
      <4>2. N[i].slot \in Extent(cur)
        BY <1>1, <4>1, InExtent
      <4> QED BY <1>1, <4>1, <4>2, Layout
    <3> QED BY <1>3, <1>7, <3>1, <3>2
  <2> QED BY <1>12, <2>1, <2>2 DEF Pushed
<1>16. Progress(frames', bytes', cur, p, away)
  <2>1. frames'[cur] = N /\ frames'[Other(cur)] = frames[Other(cur)]
    BY <1>1, <1>13, Layout DEF StackTypes
  <2>2. \A a \in StackBytes : a \notin Extent(cur) /\ bytes[a] = "valid" => bytes'[a] = "valid"
    BY <1>7
  <2> QED BY <1>15, <2>1, <2>2, AwayLasts DEF Progress
<1> QED BY <1>2, <1>4, <1>7, <1>8, <1>9, <1>10, <1>14, <1>16, Closes

LEMMA PopKeeps == ASSUME StackInv, Pop PROVE StackInv'
<1>1. sp < top[cur] /\ Rises(sp + 1) /\ update_stack_pointer(bytes, call_stack, sp + 1)
  BY DEF Pop
<1>2. sp \in Nat /\ top[cur] \in Nat
  BY PointerTypes
<1>3. sp + 1 \in sp + 1 .. top[cur]
  BY <1>1, <1>2
<1> QED BY <1>1, <1>3, RisesKeeps

LEMMA RtsKeeps == ASSUME StackInv, Rts PROVE StackInv'
<1>1. sp < top[cur] /\ Rises(sp + 1) /\ update_stack_pointer(bytes, check_return(call_stack, sp), sp + 1)
  BY DEF Rts
<1>2. sp \in Nat /\ top[cur] \in Nat
  BY PointerTypes
<1>3. sp + 1 \in sp + 1 .. top[cur]
  BY <1>1, <1>2
<1> QED BY <1>1, <1>3, RisesKeeps

LEMMA LongjmpKeeps == ASSUME StackInv, Longjmp PROVE StackInv'
<1>1. PICK p \in sp + 1 .. top[cur] - 1 :
        Rises(p + 1) /\ update_stack_pointer(bytes, check_return(call_stack, p), p + 1)
  BY DEF Longjmp
<1>2. sp \in Nat /\ top[cur] \in Nat
  BY PointerTypes
<1>3. p + 1 \in sp + 1 .. top[cur]
  BY <1>2
<1> QED BY <1>1, <1>3, RisesKeeps

-----------------------------------------------------------------------------
(* The other stack is taken. *)

LEMMA UnwatchedFacts ==
  ASSUME StackTypes
  PROVE  /\ Unwatched(frames) \in [Stacks -> Seq(Frames)]
         /\ \A s \in Stacks : /\ DOMAIN Unwatched(frames)[s] = DOMAIN frames[s]
                              /\ \A i \in DOMAIN frames[s] :
                                   /\ Unwatched(frames)[s][i].slot = frames[s][i].slot
                                   /\ Unwatched(frames)[s][i].to = frames[s][i].to
                                   /\ ~Unwatched(frames)[s][i].watched
<1> DEFINE U == Unwatched(frames)
<1>1. ASSUME NEW s \in Stacks
      PROVE  /\ U[s] \in Seq(Frames)
             /\ DOMAIN U[s] = DOMAIN frames[s]
             /\ \A i \in DOMAIN frames[s] : /\ U[s][i].slot = frames[s][i].slot
                                            /\ U[s][i].to = frames[s][i].to
                                            /\ ~U[s][i].watched
  <2>1. U[s] = [i \in DOMAIN frames[s] |-> [frames[s][i] EXCEPT !.watched = FALSE]]
    BY DEF Unwatched
  <2>2. frames[s] \in Seq(Frames)
    BY DEF StackTypes
  <2>3. DOMAIN frames[s] = 1 .. Len(frames[s]) /\ Len(frames[s]) \in Nat
        /\ \A i \in DOMAIN frames[s] : frames[s][i] \in Frames
    BY <2>2
  <2>4. \A i \in DOMAIN frames[s] : /\ U[s][i] \in Frames /\ U[s][i].slot = frames[s][i].slot
                                    /\ U[s][i].to = frames[s][i].to
                                    /\ ~U[s][i].watched
    <3> SUFFICES ASSUME NEW i \in DOMAIN frames[s], NEW f, f = frames[s][i], f \in Frames,
                        U[s][i] = [f EXCEPT !.watched = FALSE]
                 PROVE  /\ U[s][i] \in Frames /\ U[s][i].slot = f.slot
                        /\ U[s][i].to = f.to
                        /\ ~U[s][i].watched
      BY <2>1, <2>3
    <3>1. [f EXCEPT !.watched = FALSE] = [slot |-> f.slot, to |-> f.to, watched |-> FALSE]
      BY DEF Frames
    <3> QED BY <3>1 DEF Frames
  <2>5. U[s] \in [1 .. Len(frames[s]) -> Frames]
    BY <2>1, <2>3, <2>4
  <2>6. U[s] \in Seq(Frames)
    BY <2>3, <2>5, SeqDef
  <2> QED BY <2>1, <2>4, <2>6
<1>2. U = [s \in Stacks |-> U[s]]
  BY DEF Unwatched
<1> QED BY <1>1, <1>2

\* The same calls, with other marks of whether they are watched.
LEMMA PushedAlike ==
  ASSUME NEW F, NEW N, NEW sh, NEW low, NEW high, Pushed(F, sh, low, high),
         DOMAIN N = DOMAIN F, \A i \in DOMAIN F : N[i].slot = F[i].slot
  PROVE  Pushed(N, sh, low, high)
BY DEF Pushed

LEMMA Switches ==
  ASSUME StackInv, last # ABSENT, NEW sh \in [StackBytes -> States],
         \A a \in StackBytes : sh[a] = "below" => a \in Extent(cur),
         \A r \in Stacks : \A a \in base[r] .. top[r] - 1 : sh[a] # "redzone",
         NEW q \in Extent(Other(cur)), reset_stack_tracking(sh, Other(cur), q)
  PROVE  /\ tracked' = Other(cur) /\ last' = q /\ call_stack' = <<>>
         /\ Poison(bytes', q, Other(cur), {})
         /\ \A a \in Extent(cur) : bytes'[a] = "valid"
         /\ \A a \in Extent(Other(cur)) : a >= q /\ sh[a] = "valid" => bytes'[a] = "valid"
<1>1. /\ tracked = cur /\ cur \in Stacks
  BY DEF StackInv, StackTypes, Pointer
<1>2. /\ base[cur] \in Nat /\ top[cur] \in Nat
      /\ base[Other(cur)] \in Nat /\ top[Other(cur)] \in Nat /\ Other(cur) \in Stacks
      /\ q \in Nat /\ q # ABSENT /\ q <= top[Other(cur)]
  BY <1>1, Layout, InExtent
<1>3. bytes' = poison_below_sp(clear_stack_region(sh, cur), Other(cur), q)
  BY <1>1 DEF reset_stack_tracking
<1>4. \A a \in StackBytes : /\ a \in Nat
                            /\ a \in Extent(cur) <=> base[cur] <= a /\ a <= top[cur]
                            /\ a \in Extent(Other(cur)) <=> a \notin Extent(cur)
  BY <1>1, <1>2, Layout, InExtent
<1>5. \A a \in base[Other(cur)] .. q - 1 : a \in Extent(Other(cur))
  BY <1>2, InExtent
<1>6. \A a \in StackBytes :
        bytes'[a] = IF a \in base[Other(cur)] .. q - 1 THEN "below"
                    ELSE IF a \in Extent(cur) THEN "valid" ELSE sh[a]
  <2> TAKE a \in StackBytes
  <2>1. clear_stack_region(sh, cur)[a] = IF a \in Extent(cur) THEN "valid" ELSE sh[a]
    BY <1>2, <1>4 DEF clear_stack_region, Painted
  <2>2. bytes'[a] = IF a \in base[Other(cur)] .. q - 1 THEN "below" ELSE clear_stack_region(sh, cur)[a]
    BY <1>3 DEF poison_below_sp, Painted
  <2> QED BY <2>1, <2>2
<1>7. bytes' \in [StackBytes -> States]
  BY <1>3 DEF poison_below_sp, clear_stack_region, Painted, States
<1>8. \A a \in StackBytes : bytes'[a] = "below" <=> a \in BelowIn(q, Other(cur)) \ {}
  BY <1>2, <1>4, <1>6 DEF BelowIn
<1>9. \A r \in Stacks : \A a \in base[r] .. top[r] - 1 : bytes'[a] # "redzone"
  <2> SUFFICES ASSUME NEW r \in Stacks, NEW a \in base[r] .. top[r] - 1 PROVE bytes'[a] # "redzone"
    OBVIOUS
  <2>1. a \in StackBytes
    BY Layout, InExtent
  <2> QED BY <1>6, <2>1
<1>10. \A a \in Extent(cur) : a \in StackBytes /\ a \notin Extent(Other(cur))
  BY <1>1, Layout
<1>11. \A a \in Extent(Other(cur)) : a \in StackBytes /\ a \notin Extent(cur) /\ a \in Nat
  BY <1>1, Layout
<1>12. \A a \in Extent(cur) : bytes'[a] = "valid"
  BY <1>5, <1>6, <1>10
<1>13. \A a \in Extent(Other(cur)) : a >= q /\ sh[a] = "valid" => bytes'[a] = "valid"
  BY <1>2, <1>6, <1>11
<1> QED BY <1>1, <1>2, <1>7, <1>8, <1>9, <1>12, <1>13 DEF reset_stack_tracking, Poison

LEMMA AwayTypes ==
  ASSUME StackInv, away # ABSENT
  PROVE  /\ Other(cur) \in Stacks /\ Other(Other(cur)) = cur /\ away \in Extent(Other(cur)) /\ away \in Nat
         /\ base[Other(cur)] \in Nat /\ base[Other(cur)] <= away /\ away <= top[Other(cur)]
         /\ top[Other(cur)] \in Nat
<1>1. cur \in Stacks /\ away \in Extent(Other(cur))
  BY DEF StackInv, StackTypes
<1> QED BY <1>1, Layout, InExtent

LEMMA BelowInUse ==
  ASSUME StackInv
  PROVE  \A a \in StackBytes : bytes[a] = "below" => last # ABSENT /\ a \in Extent(cur)
<1>1. Poison(bytes, last, cur, scribbled) /\ (last # ABSENT => last \in {sp - 1, sp})
  BY DEF StackInv, Pointer
<1>2. \A a \in BelowIn(last, cur) : last # ABSENT /\ a \in Extent(cur)
  BY <1>1, PointerTypes, InExtent DEF BelowIn
<1> QED BY <1>1, <1>2 DEF Poison

LEMMA NoRedzones ==
  ASSUME NEW sh, NEW sh1, \A a \in StackBytes : sh1[a] \in {sh[a], "valid"},
         \A r \in Stacks : \A a \in base[r] .. top[r] - 1 : sh[a] # "redzone"
  PROVE  \A r \in Stacks : \A a \in base[r] .. top[r] - 1 : sh1[a] # "redzone"
<1> SUFFICES ASSUME NEW r \in Stacks, NEW a \in base[r] .. top[r] - 1 PROVE sh1[a] # "redzone"
  OBVIOUS
<1>1. a \in StackBytes
  BY Layout, InExtent
<1> QED BY <1>1

\* A stack left, with its bytes valid.
LEMMA LeftBehind ==
  ASSUME StackInv, NEW sh, \A a \in Extent(cur) : sh[a] = "valid"
  PROVE  Pushed(frames[cur], sh, sp, top[cur] - 1)
<1>1. Pushed(frames[cur], bytes, sp, top[cur] - 1)
  BY DEF StackInv, Progress
<1>2. \A a \in sp .. top[cur] - 1 : a \in Extent(cur)
  BY PointerTypes, InExtent
<1> QED BY <1>1, <1>2 DEF Pushed

LEMMA TakenKeeps ==
  ASSUME StackInv, last # ABSENT, NEW p \in Extent(Other(cur)),
         NEW pushed \in {0, 1}, p - pushed >= base[Other(cur)],
         Pushed(frames[Other(cur)], bytes, p, top[Other(cur)] - 1),
         NEW sh \in [StackBytes -> States],
         \A a \in StackBytes : sh[a] = "below" => a \in Extent(cur),
         \A r \in Stacks : \A a \in base[r] .. top[r] - 1 : sh[a] # "redzone",
         \A a \in StackBytes : bytes[a] = "valid" => sh[a] = "valid",
         Taken(Other(cur), p, pushed, sh),
         mem' \in [StackBytes -> Sites \union {JUNK, ABSENT}]
  PROVE  StackInv'
<1> DEFINE s == Other(cur)
           q == p - pushed
<1>1. /\ cur' = s /\ sp' = p /\ away' = sp /\ how' = how /\ scribbled' = {}
      /\ frames' = Unwatched(frames) /\ reset_stack_tracking(sh, s, q)
  BY DEF Taken
<1>2. /\ s \in Stacks /\ Other(s) = cur /\ p \in Nat /\ q \in Extent(s)
      /\ base[s] \in Nat /\ base[s] <= q /\ q \in Nat /\ top[s] \in Nat /\ p <= top[s]
  <2>1. s \in Stacks /\ Other(s) = cur
    BY PointerTypes, Layout
  <2>2. p \in Nat /\ p <= top[s] /\ base[s] \in Nat /\ top[s] \in Nat
    BY <2>1, InExtent, Layout
  <2>3. q \in Nat /\ base[s] <= q /\ q <= top[s]
    BY <2>2
  <2> QED BY <2>1, <2>2, <2>3, InExtent
<1>3. StackTypes
  BY DEF StackInv
<1>4. /\ cur \in Stacks /\ sp \in Extent(cur) /\ sp # ABSENT
  BY PointerTypes, Layout
<1>5. q # ABSENT
  BY <1>2, Layout
<1>6. /\ tracked' = s /\ last' = q
      /\ Poison(bytes', q, s, {})
      /\ \A a \in Extent(cur) : bytes'[a] = "valid"
      /\ \A a \in Extent(s) : a >= q /\ sh[a] = "valid" => bytes'[a] = "valid"
  BY <1>1, <1>2, Switches
<1>7. StackTypes'
  BY <1>1, <1>2, <1>3, <1>4, <1>6, UnwatchedFacts DEF StackTypes
<1>8. Pointer(sp', cur', tracked', last')
  BY <1>1, <1>2, <1>5, <1>6 DEF Pointer
<1>9. Pushed(frames[s], bytes', p, top[s] - 1)
  <2>1. Pushed(frames[s], bytes, p, top[s] - 1)
    OBVIOUS
  <2>2. \A a \in p .. top[s] - 1 : a \in Extent(s) /\ a \in StackBytes /\ a >= q
    BY <1>2, InExtent, Layout
  <2> QED BY <1>6, <2>1, <2>2 DEF Pushed
<1>10. Pushed(frames[cur], bytes', sp, top[cur] - 1)
  BY <1>6, LeftBehind
<1>11. Progress(frames', bytes', cur', sp', away')
  <2>1. Pushed(frames'[s], bytes', p, top[s] - 1) /\ Pushed(frames'[cur], bytes', sp, top[cur] - 1)
    <3>1. \A t \in Stacks : /\ DOMAIN frames'[t] = DOMAIN frames[t]
                            /\ \A i \in DOMAIN frames[t] : frames'[t][i].slot = frames[t][i].slot
      BY <1>1, <1>3, UnwatchedFacts
    <3>2. Pushed(frames'[s], bytes', p, top[s] - 1)
      BY <1>2, <1>9, <3>1 DEF Pushed
    <3>3. Pushed(frames'[cur], bytes', sp, top[cur] - 1)
      BY <1>4, <1>10, <3>1 DEF Pushed
    <3> QED BY <3>2, <3>3
  <2> QED BY <1>1, <1>2, <1>4, <2>1 DEF Progress
<1> QED BY <1>1, <1>5, <1>6, <1>7, <1>8, <1>11 DEF StackInv

LEMMA StackSwapKeeps == ASSUME StackInv, StackSwap PROVE StackInv'
<1> DEFINE s == Other(cur)
           sh == check_write(bytes, away - 1)
<1>1. /\ how = "StackSwap" /\ away > base[s] /\ mem' = mem
      /\ Taken(s, away, 1, sh)
  BY DEF StackSwap
<1>2. /\ last # ABSENT /\ away # ABSENT /\ Poison(bytes, last, cur, scribbled)
      /\ Pushed(frames[s], bytes, away, top[s] - 1)
      /\ mem' \in [StackBytes -> Sites \union {JUNK, ABSENT}]
  BY <1>1 DEF StackInv, StackTypes, Progress
<1>3. /\ away \in Extent(s) /\ away - 1 >= base[s]
  BY <1>1, <1>2, AwayTypes
<1>4. sh \in {bytes, [bytes EXCEPT ![away - 1] = "valid"]}
  BY DEF check_write
<1> HIDE DEF sh
<1>5. sh \in [StackBytes -> States] /\ \A a \in StackBytes : sh[a] \in {bytes[a], "valid"}
  BY <1>2, <1>4 DEF Poison, States
<1>6. \A r \in Stacks : \A a \in base[r] .. top[r] - 1 : sh[a] # "redzone"
  BY <1>2, <1>5, NoRedzones DEF Poison
<1>7. \A a \in StackBytes : sh[a] = "below" => a \in Extent(cur)
  BY <1>5, BelowInUse
<1>8. \A a \in StackBytes : bytes[a] = "valid" => sh[a] = "valid"
  BY <1>5
<1> QED BY <1>1, <1>2, <1>3, <1>5, <1>6, <1>7, <1>8, TakenKeeps

LEMMA SwitchTasksKeeps == ASSUME StackInv, SwitchTasks PROVE StackInv'
<1>1. how = "Wait" /\ mem' = mem /\ Taken(Other(cur), away, 0, bytes)
  BY DEF SwitchTasks
<1>2. /\ last # ABSENT /\ away # ABSENT /\ Poison(bytes, last, cur, scribbled)
      /\ Pushed(frames[Other(cur)], bytes, away, top[Other(cur)] - 1)
      /\ mem' \in [StackBytes -> Sites \union {JUNK, ABSENT}]
  BY <1>1 DEF StackInv, StackTypes, Progress
<1>3. away \in Extent(Other(cur)) /\ away - 0 >= base[Other(cur)]
  BY <1>2, AwayTypes
<1> QED BY <1>1, <1>2, <1>3, BelowInUse, TakenKeeps DEF Poison

LEMMA RunCommandKeeps == ASSUME StackInv, RunCommand PROVE StackInv'
<1> DEFINE s == Other(cur)
           sh == clear_stack_region(bytes, s)
<1>1. /\ how = "RunCommand" /\ away = ABSENT /\ Taken(s, top[s] - 1, 1, sh)
      /\ mem' = [mem EXCEPT ![top[s] - 1] = ABSENT]
  BY DEF RunCommand
<1>2. /\ last # ABSENT /\ Poison(bytes, last, cur, scribbled) /\ frames[s] = <<>>
      /\ mem' \in [StackBytes -> Sites \union {JUNK, ABSENT}]
  BY <1>1 DEF StackInv, StackTypes, Progress
<1>3. s \in Stacks
  BY PointerTypes, Layout
<1>4. top[s] - 1 \in Extent(s) /\ top[s] - 1 - 1 >= base[s]
  BY <1>3, Layout, InExtent
<1>5. sh \in [StackBytes -> States] /\ \A a \in StackBytes : sh[a] \in {bytes[a], "valid"}
  BY <1>2 DEF Poison, States, clear_stack_region, Painted
<1> HIDE DEF sh
<1>6. \A r \in Stacks : \A a \in base[r] .. top[r] - 1 : sh[a] # "redzone"
  BY <1>2, <1>5, NoRedzones DEF Poison
<1>7. \A a \in StackBytes : sh[a] = "below" => a \in Extent(cur)
  BY <1>5, BelowInUse
<1>8. \A a \in StackBytes : bytes[a] = "valid" => sh[a] = "valid"
  BY <1>5
<1>9. Pushed(frames[s], bytes, top[s] - 1, top[s] - 1)
  BY <1>2 DEF Pushed
<1> QED BY <1>1, <1>2, <1>4, <1>5, <1>6, <1>7, <1>8, <1>9, TakenKeeps

LEMMA CommandReturnsKeeps == ASSUME StackInv, CommandReturns PROVE StackInv'
<1> DEFINE s == Other(cur)
           q == away - 1
<1>1. /\ how = "RunCommand" /\ away # ABSENT /\ away > base[s] /\ cur' = s /\ sp' = away
      /\ away' = ABSENT /\ how' = how /\ scribbled' = {}
      /\ reset_stack_tracking(bytes, s, q)
      /\ mem' = [a \in StackBytes |-> IF a \in Extent(cur) THEN JUNK ELSE mem[a]]
      /\ frames' = [Unwatched(frames) EXCEPT ![cur] = <<>>]
  BY DEF CommandReturns
<1>2. /\ s \in Stacks /\ Other(s) = cur /\ away \in Extent(s) /\ away \in Nat
      /\ base[s] \in Nat /\ top[s] \in Nat /\ away <= top[s]
      /\ base[s] <= q /\ q \in Nat /\ q <= top[s] /\ s # cur
  BY <1>1, PointerTypes, AwayTypes, Layout
<1>3. StackTypes /\ Poison(bytes, last, cur, scribbled) /\ last # ABSENT /\ cur \in Stacks
  BY <1>1 DEF StackInv, StackTypes
<1>4. q \in Extent(s) /\ q # ABSENT
  BY <1>2, InExtent, Layout
<1>5. \A a \in StackBytes : bytes[a] = "below" => a \in Extent(cur)
  BY BelowInUse
<1>6. /\ tracked' = s /\ last' = q
      /\ Poison(bytes', q, s, {})
      /\ \A a \in Extent(s) : a >= q /\ bytes[a] = "valid" => bytes'[a] = "valid"
  BY <1>1, <1>3, <1>4, <1>5, Switches DEF Poison
<1>7. /\ frames' \in [Stacks -> Seq(Frames)] /\ frames'[cur] = <<>>
      /\ DOMAIN frames'[s] = DOMAIN frames[s]
      /\ \A i \in DOMAIN frames[s] : frames'[s][i].slot = frames[s][i].slot
  <2>1. /\ Unwatched(frames) \in [Stacks -> Seq(Frames)]
        /\ DOMAIN Unwatched(frames)[s] = DOMAIN frames[s]
        /\ \A i \in DOMAIN frames[s] : Unwatched(frames)[s][i].slot = frames[s][i].slot
    BY <1>2, <1>3, UnwatchedFacts
  <2>2. <<>> \in Seq(Frames)
    OBVIOUS
  <2> QED BY <1>1, <1>2, <1>3, <2>1, <2>2
<1>8. StackTypes'
  BY <1>1, <1>2, <1>3, <1>6, <1>7 DEF StackTypes
<1>9. Pointer(sp', cur', tracked', last')
  BY <1>1, <1>2, <1>4, <1>6 DEF Pointer
<1>10. Pushed(frames'[s], bytes', away, top[s] - 1)
  <2>1. Pushed(frames[s], bytes, away, top[s] - 1)
    BY <1>1 DEF StackInv, Progress
  <2>2. \A a \in away .. top[s] - 1 : a \in Extent(s) /\ a >= q
    BY <1>2, InExtent
  <2>3. Pushed(frames[s], bytes', away, top[s] - 1)
    BY <1>6, <2>1, <2>2 DEF Pushed
  <2> QED BY <1>7, <2>3 DEF Pushed
<1>11. Progress(frames', bytes', cur', sp', away')
  BY <1>1, <1>2, <1>7, <1>10 DEF Progress
<1> QED BY <1>1, <1>4, <1>6, <1>8, <1>9, <1>11 DEF StackInv

LEMMA MoveSPMarks ==
  ASSUME StackInv, away # ABSENT, update_stack_pointer(bytes, call_stack, away)
  PROVE  /\ tracked' = tracked
         /\ last' = IF last = ABSENT THEN away ELSE ABSENT
         /\ call_stack' = IF last = ABSENT THEN call_stack ELSE <<>>
         /\ tracked = IF last = ABSENT THEN Other(cur) ELSE cur
         /\ Poison(bytes', last', Other(cur), {})
         /\ \A a \in Extent(cur) : bytes[a] = "valid" => bytes'[a] = "valid"
         /\ \A a \in Extent(Other(cur)) : a >= away /\ bytes[a] = "valid" => bytes'[a] = "valid"
<1> DEFINE s == Other(cur)
<1>1. /\ s \in Stacks /\ Other(s) = cur /\ away \in Extent(s) /\ away \in Nat
      /\ base[s] \in Nat /\ top[s] \in Nat /\ away <= top[s] /\ base[s] <= away
      /\ cur \in Stacks /\ sp \in Extent(cur) /\ sp \in Nat /\ base[cur] \in Nat /\ top[cur] \in Nat
      /\ sp <= top[cur] /\ s # cur
  BY PointerTypes, AwayTypes, Layout
<1>2. Pointer(sp, cur, tracked, last) /\ Poison(bytes, last, cur, scribbled)
  BY DEF StackInv
<1>3. away # ABSENT /\ away \notin Extent(cur)
  BY <1>1, Layout
<1>4. \A a \in Extent(cur) : a \in StackBytes /\ a \notin Extent(s) /\ a \in Nat
  BY <1>1, Layout
<1>5. \A a \in Extent(s) : a \in StackBytes /\ a \notin Extent(cur) /\ a \in Nat
  BY <1>1, Layout
<1>6. \A a \in StackBytes : a \in Nat
  BY <1>1, Layout
<1>7. ASSUME \A a \in StackBytes : bytes'[a] = "redzone" => bytes[a] = "redzone"
      PROVE  \A r \in Stacks : \A a \in base[r] .. top[r] - 1 : bytes'[a] # "redzone"
  <2> SUFFICES ASSUME NEW r \in Stacks, NEW a \in base[r] .. top[r] - 1 PROVE bytes'[a] # "redzone"
    OBVIOUS
  <2>1. a \in StackBytes
    BY Layout, InExtent
  <2> QED BY <1>2, <1>7, <2>1 DEF Poison
<1>8. CASE last = ABSENT
  <2>1. tracked = s /\ Within(tracked, away) /\ last # away
    BY <1>1, <1>2, <1>3, <1>8 DEF Pointer, Within
  <2>2. /\ bytes' = poison_below_sp(bytes, s, away) /\ last' = away /\ call_stack' = call_stack
        /\ tracked' = tracked
    BY <1>8, <2>1 DEF update_stack_pointer
  <2>3. \A a \in StackBytes : bytes[a] # "below"
    BY <1>8, BelowInUse
  <2>4. \A a \in StackBytes : bytes'[a] = IF a \in base[s] .. away - 1 THEN "below" ELSE bytes[a]
    BY <2>2 DEF poison_below_sp, Painted
  <2>5. bytes' \in [StackBytes -> States]
    BY <1>2, <2>2 DEF poison_below_sp, Painted, States, Poison
  <2>6. \A a \in StackBytes : bytes'[a] = "below" <=> a \in BelowIn(last', s) \ {}
    BY <1>3, <2>2, <2>3, <2>4 DEF BelowIn
  <2>7. \A a \in base[s] .. away - 1 : a \in Extent(s)
    BY <1>1, InExtent
  <2>8. \A a \in Extent(cur) : bytes[a] = "valid" => bytes'[a] = "valid"
    BY <1>4, <2>4, <2>7
  <2>9. \A a \in Extent(s) : a >= away /\ bytes[a] = "valid" => bytes'[a] = "valid"
    BY <1>1, <1>5, <2>4
  <2>10. Poison(bytes', last', s, {})
    BY <1>7, <2>4, <2>5, <2>6 DEF Poison
  <2> QED BY <1>8, <2>1, <2>2, <2>8, <2>9, <2>10
<1>9. CASE last # ABSENT
  <2>1. tracked = cur /\ last \in {sp - 1, sp} /\ last >= base[cur]
    BY <1>2, <1>9 DEF Pointer
  <2>2. last \in Extent(cur)
    BY <1>1, <2>1, InExtent
  <2>3. last # away /\ ~Within(tracked, away)
    BY <1>3, <2>1, <2>2 DEF Within
  <2>4. /\ bytes' = clear_stack_region(bytes, cur) /\ last' = ABSENT /\ call_stack' = <<>>
        /\ tracked' = tracked
    BY <1>9, <2>1, <2>3 DEF update_stack_pointer
  <2>5. \A a \in StackBytes : bytes'[a] = IF a \in Extent(cur) THEN "valid" ELSE bytes[a]
    <3> TAKE a \in StackBytes
    <3>1. a \in Extent(cur) <=> base[cur] <= a /\ a <= top[cur]
      BY <1>1, <1>6, InExtent
    <3> QED BY <1>1, <1>6, <2>4, <3>1 DEF clear_stack_region, Painted
  <2>6. bytes' \in [StackBytes -> States]
    BY <1>2, <2>4 DEF clear_stack_region, Painted, States, Poison
  <2>7. \A a \in StackBytes : bytes'[a] # "below"
    BY <2>5, BelowInUse
  <2>8. Poison(bytes', last', s, {})
    BY <1>7, <2>4, <2>5, <2>6, <2>7 DEF Poison, BelowIn
  <2> QED BY <1>4, <1>5, <1>9, <2>1, <2>4, <2>5, <2>8
<1> QED BY <1>8, <1>9

LEMMA MoveSPKeeps == ASSUME StackInv, MoveSP PROVE StackInv'
<1> DEFINE s == Other(cur)
<1>1. /\ how = "move" /\ how' = how /\ cur' = s /\ sp' = away /\ away' = sp /\ mem' = mem
      /\ scribbled' = {} /\ update_stack_pointer(bytes, call_stack, away)
      /\ frames' = IF last # ABSENT THEN Unwatched(frames) ELSE frames
  BY DEF MoveSP
<1>2. StackTypes /\ away # ABSENT /\ Progress(frames, bytes, cur, sp, away)
  BY <1>1 DEF StackInv, StackTypes
<1>3. /\ s \in Stacks /\ Other(s) = cur /\ away \in Extent(s) /\ away \in Nat
      /\ base[s] \in Nat /\ top[s] \in Nat /\ away <= top[s] /\ base[s] <= away /\ away # ABSENT
      /\ cur \in Stacks /\ sp \in Extent(cur) /\ sp \in Nat /\ base[cur] \in Nat /\ top[cur] \in Nat
      /\ sp <= top[cur] /\ base[cur] <= sp /\ sp # ABSENT
  BY <1>2, PointerTypes, AwayTypes, Layout
<1>4. /\ tracked' = tracked
      /\ last' = IF last = ABSENT THEN away ELSE ABSENT
      /\ tracked = IF last = ABSENT THEN s ELSE cur
      /\ Poison(bytes', last', s, {})
      /\ \A a \in Extent(cur) : bytes[a] = "valid" => bytes'[a] = "valid"
      /\ \A a \in Extent(s) : a >= away /\ bytes[a] = "valid" => bytes'[a] = "valid"
  BY <1>1, <1>2, MoveSPMarks
<1>5. /\ frames' \in [Stacks -> Seq(Frames)]
      /\ \A t \in Stacks : /\ DOMAIN frames'[t] = DOMAIN frames[t]
                           /\ \A i \in DOMAIN frames[t] : frames'[t][i].slot = frames[t][i].slot
  <2>1. CASE last # ABSENT
    BY <1>1, <1>2, <2>1, UnwatchedFacts
  <2>2. CASE last = ABSENT
    BY <1>1, <1>2, <2>2 DEF StackTypes
  <2> QED BY <2>1, <2>2
<1>6. StackTypes'
  BY <1>1, <1>2, <1>3, <1>4, <1>5 DEF StackTypes
<1>7. Pointer(sp', cur', tracked', last')
  BY <1>1, <1>3, <1>4 DEF Pointer
<1>8. Pushed(frames[s], bytes, away, top[s] - 1) /\ Pushed(frames[cur], bytes, sp, top[cur] - 1)
  BY <1>2 DEF Progress
<1>9. Pushed(frames'[s], bytes', away, top[s] - 1)
  <2>1. \A a \in away .. top[s] - 1 : a \in Extent(s) /\ a >= away
    BY <1>3, InExtent
  <2> QED BY <1>3, <1>4, <1>5, <1>8, <2>1 DEF Pushed
<1>10. Pushed(frames'[cur], bytes', sp, top[cur] - 1)
  <2>1. \A a \in sp .. top[cur] - 1 : a \in Extent(cur)
    BY <1>3, InExtent
  <2> QED BY <1>3, <1>4, <1>5, <1>8, <2>1 DEF Pushed
<1>11. Progress(frames', bytes', cur', sp', away')
  BY <1>1, <1>3, <1>9, <1>10 DEF Progress
<1> QED BY <1>1, <1>4, <1>6, <1>7, <1>11 DEF StackInv

-----------------------------------------------------------------------------

LEMMA StackInvInit == StackInit => StackInv
<1> SUFFICES ASSUME StackInit PROVE StackInv
  OBVIOUS
<1> DEFINE s == Other(cur)
<1>1. /\ cur \in Stacks /\ sp = top[cur] /\ tracked = cur /\ last = sp /\ scribbled = {}
      /\ away = IF how = "RunCommand" THEN ABSENT ELSE top[s]
      /\ frames = [t \in Stacks |-> <<>>]
      /\ how \in {"StackSwap", "RunCommand", "Wait", "move"}
      /\ mem = [a \in StackBytes |-> JUNK]
  BY DEF StackInit
<1>2. /\ s \in Stacks /\ s # cur /\ base[cur] \in Nat /\ top[cur] \in Nat /\ base[cur] + 2 <= top[cur]
      /\ base[s] \in Nat /\ top[s] \in Nat /\ base[s] + 2 <= top[s]
  BY <1>1, Layout
<1>3. top[cur] \in Extent(cur) /\ top[s] \in Extent(s) /\ top[cur] # ABSENT /\ top[s] # ABSENT
  BY <1>1, <1>2, InExtent, Layout
<1>4. \A a \in StackBytes : a \in Nat /\ (a \in Extent(cur) <=> base[cur] <= a /\ a <= top[cur])
  BY <1>1, <1>2, InExtent, Layout
<1>5. \A a \in StackBytes :
        bytes[a] = IF a \in Extent(cur) THEN (IF a = sp THEN "valid" ELSE "below")
                   ELSE IF how \notin {"StackSwap", "move"} THEN "valid"
                   ELSE IF a = away THEN "redzone" ELSE "uninit"
  BY DEF StackInit
<1>6. bytes \in [StackBytes -> States]
  BY DEF StackInit, States
<1>7. StackTypes
  <2>1. <<>> \in Seq(Frames)
    OBVIOUS
  <2> QED BY <1>1, <1>2, <1>3, <2>1 DEF StackTypes
<1>8. Pointer(sp, cur, tracked, last)
  BY <1>1, <1>2, <1>3 DEF Pointer
<1>9. \A a \in StackBytes : bytes[a] = "below" <=> a \in BelowIn(last, cur) \ scribbled
  BY <1>1, <1>2, <1>3, <1>4, <1>5 DEF BelowIn
<1>10. \A r \in Stacks : \A a \in base[r] .. top[r] - 1 : bytes[a] # "redzone"
  <2> SUFFICES ASSUME NEW r \in Stacks, NEW a \in base[r] .. top[r] - 1 PROVE bytes[a] # "redzone"
    OBVIOUS
  <2>1. a \in Extent(r) /\ a \in StackBytes /\ a < top[r]
    BY Layout, InExtent
  <2>2. bytes[a] = "redzone" => a \notin Extent(cur) /\ a = away /\ away = top[s]
    BY <1>1, <1>5, <2>1
  <2>3. r = cur \/ r = s
    BY <1>1, Layout
  <2> QED BY <1>2, <2>1, <2>2, <2>3
<1>11. Progress(frames, bytes, cur, sp, away)
  BY <1>1, <1>2 DEF Progress, Pushed
<1> QED BY <1>1, <1>3, <1>6, <1>7, <1>8, <1>9, <1>10, <1>11 DEF StackInv, Poison

LEMMA StackInvNext == StackInv /\ [StackNext]_stackVars => StackInv'
<1> SUFFICES ASSUME StackInv, [StackNext]_stackVars PROVE StackInv'
  OBVIOUS
<1>1. CASE UNCHANGED stackVars
  BY <1>1 DEF stackVars, StackInv, StackTypes
<1>2. CASE StackNext
  BY <1>2, JsrKeeps, PushKeeps, ReserveKeeps, PopKeeps, RtsKeeps, LongjmpKeeps, WriteKeeps,
     ScribbleKeeps, OtherInstructionKeeps, LibraryCallKeeps, StackSwapKeeps, RunCommandKeeps,
     CommandReturnsKeeps, SwitchTasksKeeps, MoveSPKeeps DEF StackNext
<1> QED BY <1>1, <1>2

LEMMA StackInvMeans == StackInv => BelowExact
<1> SUFFICES ASSUME StackInv PROVE BelowExact
  OBVIOUS
<1>1. /\ Pointer(sp, cur, tracked, last) /\ Poison(bytes, last, cur, scribbled)
      /\ cur \in Stacks /\ away \in Extent(Other(cur)) \union {ABSENT}
      /\ Progress(frames, bytes, cur, sp, away)
  BY DEF StackInv, StackTypes
<1>2. IF last = ABSENT THEN cur # tracked ELSE cur = tracked /\ last \in {sp - 1, sp}
  BY <1>1, Layout DEF Pointer
<1>3. \A a \in BelowIn(last, cur) : a \in StackBytes
  BY <1>1, PointerTypes, InExtent, Layout DEF BelowIn, Pointer
<1>4. {a \in StackBytes : bytes[a] = "below"}
        = (IF last = ABSENT THEN {} ELSE base[cur] .. last - 1) \ scribbled
  BY <1>1, <1>3 DEF Poison, BelowIn
<1>5. \A s \in Stacks : \A i \in DOMAIN frames[s] : bytes[frames[s][i].slot] = "valid"
  <2>1. \A i \in DOMAIN frames[cur] : bytes[frames[cur][i].slot] = "valid"
    BY <1>1 DEF Progress, Pushed
  <2>2. \A i \in DOMAIN frames[Other(cur)] : bytes[frames[Other(cur)][i].slot] = "valid"
    BY <1>1 DEF Progress, Pushed
  <2> QED BY <1>1, <2>1, <2>2, Layout
<1> QED BY <1>2, <1>4, <1>5 DEF BelowExact

\* Of any two stacks, of any size: exactly the bytes below the stack pointer of
\* the one in use are marked dead, except those that exempt code wrote to.
THEOREM OnlyDeadBytesArePoisoned == StackSpec => []BelowExact
BY StackInvInit, StackInvNext, StackInvMeans, PTL DEF StackSpec

-----------------------------------------------------------------------------
(* ReturnsJudged of StackShadow, of code that leaves no call but by its return
   address or by a longjmp.  The shadow call stack ends in the newest calls of
   the stack in use, in their order, after entries of another stack (Watch);
   with no stack tracked it holds only calls recorded since (Apart); and a
   command stays below the stub that it returns to (InCommand). *)

Falls(cs) == \A i, j \in DOMAIN cs : i < j => cs[i].slot_sp >= cs[j].slot_sp

\* Of the calls F in progress on stack s, those after the first k are the entries of
\* cs after the first m; and those m are of another stack.
Follows(cs, F, s, k, m) ==
  /\ k \in 0 .. Len(F) /\ m \in 0 .. Len(cs) /\ Len(cs) - m = Len(F) - k
  /\ \A i \in k + 1 .. Len(F) : /\ cs[i - k + m].slot_sp = F[i].slot
                                /\ cs[i - k + m].return_addr = F[i].to
  /\ \A i \in 1 .. m : cs[i].slot_sp \notin Extent(s)

Watch(cs, F, s) ==
  /\ cs \in Seq(Calls) /\ Len(cs) <= MAX_CALL_STACK_DEPTH /\ Falls(cs)
  /\ \E k, m \in Nat : /\ Follows(cs, F, s, k, m)
                       /\ \A i \in DOMAIN F : F[i].watched <=> i > k

\* On a stack that is not tracked, everything recorded is of that stack.
Apart ==
  last = ABSENT => /\ \A i \in DOMAIN call_stack : call_stack[i].slot_sp \in Extent(cur)
                 /\ \A i \in DOMAIN frames[Other(cur)] : ~frames[Other(cur)][i].watched

\* A command does not rise above the stub that it returns to.
InCommand ==
  how = "RunCommand" /\ away # ABSENT =>
    /\ mem[top[cur] - 1] = ABSENT
    /\ sp <= top[cur] - 1
    /\ \A i \in DOMAIN frames[cur] : frames[cur][i].slot < top[cur] - 1

WatchInv == StackInv /\ Watch(call_stack, frames[cur], cur) /\ Apart /\ InCommand /\ ReturnsJudged

LEMMA CallsSeq ==
  ASSUME NEW cs \in Seq(Calls)
  PROVE  /\ Len(cs) \in Nat /\ DOMAIN cs = 1 .. Len(cs)
         /\ \A i \in DOMAIN cs : cs[i] \in Calls /\ cs[i].slot_sp \in Nat
         /\ cs \in [1 .. Len(cs) -> Calls]
<1>1. DOMAIN cs = 1 .. Len(cs) /\ Len(cs) \in Nat /\ \A i \in DOMAIN cs : cs[i] \in Calls
  OBVIOUS
<1> QED BY <1>1, LenProperties DEF Calls

LEMMA FramesSeq ==
  ASSUME NEW F \in Seq(Frames)
  PROVE  /\ Len(F) \in Nat /\ DOMAIN F = 1 .. Len(F)
         /\ \A i \in DOMAIN F : F[i] \in Frames /\ F[i].slot \in Nat
<1>1. DOMAIN F = 1 .. Len(F) /\ Len(F) \in Nat /\ \A i \in DOMAIN F : F[i] \in Frames
  OBVIOUS
<1> QED BY <1>1 DEF Frames

LEMMA CallsBegin ==
  ASSUME NEW cs \in Seq(Calls), NEW n \in 0 .. Len(cs), Falls(cs)
  PROVE  /\ SubSeq(cs, 1, n) \in Seq(Calls) /\ Len(SubSeq(cs, 1, n)) = n
         /\ DOMAIN SubSeq(cs, 1, n) = 1 .. n
         /\ \A i \in 1 .. n : i \in DOMAIN cs /\ SubSeq(cs, 1, n)[i] = cs[i]
         /\ Falls(SubSeq(cs, 1, n))
<1> DEFINE b == SubSeq(cs, 1, n)
<1>1. /\ b \in Seq(Calls) /\ Len(b) = n /\ DOMAIN b = 1 .. n
      /\ \A i \in 1 .. n : i \in DOMAIN cs /\ b[i] = cs[i]
  BY SubSeqProperties
<1> HIDE DEF b
<1>2. Falls(b)
  BY <1>1 DEF Falls
<1> QED BY <1>1, <1>2 DEF b

LEMMA RetainedFacts ==
  ASSUME NEW cs \in Seq(Calls), Falls(cs), NEW p \in Nat
  PROVE  \E n \in 0 .. Len(cs) : /\ AtOrAbove(cs, p) = SubSeq(cs, 1, n)
                                 /\ \A i \in DOMAIN cs : cs[i].slot_sp >= p <=> i <= n
BY Retained DEF Falls

LEMMA Offsets ==
  ASSUME NEW k \in Nat, NEW m \in Nat, NEW lf \in Nat, NEW lc \in Nat, k <= lf, m <= lc,
         lc - m = lf - k,
         NEW n \in 0 .. lc, k < lf => n = lc, NEW m1, m1 = IF k < lf THEN m ELSE n
  PROVE  /\ m1 \in 0 .. n /\ n - m1 = lf - k /\ m1 <= m /\ lf + 1 - k + m1 = n + 1
         /\ \A i \in k + 1 .. lf : k < lf /\ m1 = m /\ i - k + m1 \in 1 .. n
OBVIOUS

\* N are the calls F and one at p that returns to r.
Deeper(F, N, p, r) ==
  /\ Len(N) = Len(F) + 1
  /\ \A i \in DOMAIN F : N[i].slot = F[i].slot /\ N[i].to = F[i].to
  /\ N[Len(F) + 1].slot = p /\ N[Len(F) + 1].to = r

\* kept is what is retained of cs, the first n, and the new call.
Kept(cs, kept, n, p, r) ==
  /\ kept \in Seq(Calls) /\ Len(kept) = n + 1
  /\ kept[n + 1].slot_sp = p /\ kept[n + 1].return_addr = r
  /\ \A i \in 1 .. n : kept[i] = cs[i]
  /\ \A i \in DOMAIN cs : cs[i].slot_sp >= p <=> i <= n

\* Once it is recorded, before the oldest is dropped.
Grown(cs, kept, N, s, k, p) ==
  /\ Falls(kept)
  /\ \A i \in DOMAIN kept : kept[i].slot_sp = p \/ \E j \in DOMAIN cs : kept[i] = cs[j]
  /\ \E m1 \in Nat : Follows(kept, N, s, k, m1)

LEMMA KeptAndNew ==
  ASSUME NEW cs \in Seq(Calls), Falls(cs), NEW p \in Nat, NEW r \in Sites
  PROVE  \E n \in 0 .. Len(cs) :
           Kept(cs, Append(AtOrAbove(cs, p), [slot_sp |-> p, return_addr |-> r]), n, p, r)
<1> DEFINE b == AtOrAbove(cs, p)
           new == [slot_sp |-> p, return_addr |-> r]
<1>1. new \in Calls /\ new.slot_sp = p /\ new.return_addr = r
  BY DEF Calls
<1>2. PICK n \in 0 .. Len(cs) : /\ b = SubSeq(cs, 1, n)
                                /\ \A i \in DOMAIN cs : cs[i].slot_sp >= p <=> i <= n
  BY RetainedFacts
<1>3. b \in Seq(Calls) /\ Len(b) = n /\ \A i \in 1 .. n : b[i] = cs[i]
  BY <1>2, CallsBegin
<1> HIDE DEF b, new
<1>4. /\ Append(b, new) \in Seq(Calls) /\ Len(Append(b, new)) = n + 1 /\ Append(b, new)[n + 1] = new
      /\ \A i \in 1 .. n : Append(b, new)[i] = cs[i]
  BY <1>1, <1>3, AppendProperties
<1>5. Kept(cs, Append(b, new), n, p, r)
  BY <1>1, <1>2, <1>4 DEF Kept
<1> QED BY <1>5 DEF b, new

LEMMA Recorded ==
  ASSUME NEW cs \in Seq(Calls), Falls(cs), NEW s \in Stacks, NEW F \in Seq(Frames),
         NEW N \in Seq(Frames),
         NEW k \in Nat, NEW m \in Nat, Follows(cs, F, s, k, m),
         NEW p \in Nat, NEW r \in Sites, \A i \in DOMAIN F : F[i].slot >= p,
         Deeper(F, N, p, r), NEW n \in 0 .. Len(cs), NEW kept, Kept(cs, kept, n, p, r)
  PROVE  Grown(cs, kept, N, s, k, p)
<1>1. /\ Len(N) = Len(F) + 1
      /\ \A i \in DOMAIN F : N[i].slot = F[i].slot /\ N[i].to = F[i].to
      /\ N[Len(F) + 1].slot = p /\ N[Len(F) + 1].to = r
  BY DEF Deeper
<1>2. /\ kept \in Seq(Calls) /\ Len(kept) = n + 1
      /\ kept[n + 1].slot_sp = p /\ kept[n + 1].return_addr = r
      /\ \A i \in 1 .. n : kept[i] = cs[i]
      /\ \A i \in DOMAIN cs : cs[i].slot_sp >= p <=> i <= n
  BY DEF Kept
<1>3. DOMAIN kept = 1 .. n + 1 /\ Len(cs) \in Nat /\ DOMAIN cs = 1 .. Len(cs)
      /\ DOMAIN F = 1 .. Len(F) /\ Len(F) \in Nat
  BY <1>2, CallsSeq, FramesSeq
<1>4. \A i \in 1 .. n : i \in DOMAIN cs /\ cs[i].slot_sp \in Nat /\ cs[i].slot_sp >= p
  <2> TAKE i \in 1 .. n
  <2>1. i \in DOMAIN cs
    BY <1>3
  <2>2. cs[i].slot_sp \in Nat
    BY <2>1, CallsSeq
  <2> QED BY <1>2, <2>1, <2>2
<1>5. Falls(kept)
  <2> SUFFICES ASSUME NEW i \in DOMAIN kept, NEW j \in DOMAIN kept, i < j
               PROVE  kept[i].slot_sp >= kept[j].slot_sp
    BY DEF Falls
  <2>1. i \in 1 .. n /\ kept[i] = cs[i]
    BY <1>2, <1>3
  <2>2. CASE j = n + 1
    BY <1>2, <1>3, <1>4, <2>1, <2>2
  <2>3. CASE j # n + 1
    BY <1>2, <1>3, <1>4, <2>1, <2>3 DEF Falls
  <2> QED BY <2>2, <2>3
<1>6. \A i \in DOMAIN kept : kept[i].slot_sp = p \/ \E j \in DOMAIN cs : kept[i] = cs[j]
  <2> TAKE i \in DOMAIN kept
  <2>1. CASE i = n + 1
    BY <1>2, <2>1
  <2>2. CASE i # n + 1
    <3>1. i \in 1 .. n
      BY <1>3, <2>2
    <3> QED BY <1>2, <1>4, <3>1
  <2> QED BY <2>1, <2>2
<1> DEFINE m1 == IF k < Len(F) THEN m ELSE n
<1>7. /\ k \in 0 .. Len(F) /\ m \in 0 .. Len(cs) /\ Len(cs) - m = Len(F) - k
      /\ \A i \in k + 1 .. Len(F) : /\ cs[i - k + m].slot_sp = F[i].slot
                                    /\ cs[i - k + m].return_addr = F[i].to
      /\ \A i \in 1 .. m : cs[i].slot_sp \notin Extent(s)
  BY DEF Follows
<1>8. k < Len(F) => n = Len(cs)
  <2> SUFFICES ASSUME k < Len(F) PROVE n = Len(cs)
    OBVIOUS
  <2>1. Len(F) \in k + 1 .. Len(F) /\ Len(F) - k + m = Len(cs) /\ Len(F) \in DOMAIN F
        /\ Len(cs) \in DOMAIN cs
    BY <1>3, <1>7
  <2>2. cs[Len(F) - k + m].slot_sp = F[Len(F)].slot
    BY <1>7, <2>1
  <2>3. cs[Len(cs)].slot_sp >= p
    BY <2>1, <2>2
  <2>4. Len(cs) <= n
    BY <1>2, <2>1, <2>3
  <2> QED BY <1>3, <2>4
<1>9. /\ m1 \in 0 .. n /\ n - m1 = Len(F) - k /\ m1 <= m /\ Len(F) + 1 - k + m1 = n + 1
      /\ \A i \in k + 1 .. Len(F) : m1 = m /\ i - k + m1 \in 1 .. n
  <2>1. k <= Len(F) /\ m <= Len(cs) /\ Len(F) \in Nat /\ Len(cs) \in Nat
    BY <1>3, <1>7
  <2>2. m1 = IF k < Len(F) THEN m ELSE n
    OBVIOUS
  <2>3. Len(cs) - m = Len(F) - k
    BY <1>7
  <2> HIDE DEF m1
  <2>4. ASSUME NEW lf \in Nat, NEW lc \in Nat, lf = Len(F), lc = Len(cs)
        PROVE  /\ m1 \in 0 .. n /\ n - m1 = lf - k /\ m1 <= m /\ lf + 1 - k + m1 = n + 1
               /\ \A i \in k + 1 .. lf : m1 = m /\ i - k + m1 \in 1 .. n
    <3>1. /\ k <= lf /\ m <= lc /\ lc - m = lf - k /\ (k < lf => n = lc) /\ n \in 0 .. lc
          /\ m1 = IF k < lf THEN m ELSE n
      BY <1>8, <2>1, <2>2, <2>3, <2>4
    <3> QED BY <3>1, Offsets
  <2> QED BY <2>1, <2>4
<1> HIDE DEF m1
<1>10. \A i \in 1 .. m1 : kept[i].slot_sp \notin Extent(s)
  <2> TAKE i \in 1 .. m1
  <2>1. i \in 1 .. m /\ i \in 1 .. n
    BY <1>3, <1>7, <1>9
  <2> QED BY <1>2, <1>7, <2>1
<1>11. \A i \in k + 1 .. Len(N) : /\ kept[i - k + m1].slot_sp = N[i].slot
                                  /\ kept[i - k + m1].return_addr = N[i].to
  <2> TAKE i \in k + 1 .. Len(N)
  <2>1. CASE i = Len(F) + 1
    <3>1. Len(F) + 1 - k + m1 = n + 1
      BY <1>9
    <3>2. /\ kept[Len(F) + 1 - k + m1].slot_sp = N[Len(F) + 1].slot
          /\ kept[Len(F) + 1 - k + m1].return_addr = N[Len(F) + 1].to
      BY <1>1, <1>2, <3>1
    <3> QED BY <2>1, <3>2
  <2>2. CASE i # Len(F) + 1
    <3>1. i \in k + 1 .. Len(F) /\ i \in DOMAIN F
      BY <1>1, <1>3, <2>2
    <3> QED BY <1>1, <1>2, <1>7, <1>9, <3>1
  <2> QED BY <2>1, <2>2
<1>12. Follows(kept, N, s, k, m1)
  <2>1. k \in 0 .. Len(N) /\ m1 \in 0 .. Len(kept) /\ Len(kept) - m1 = Len(N) - k
    BY <1>1, <1>2, <1>3, <1>7, <1>9
  <2> QED BY <1>10, <1>11, <2>1 DEF Follows
<1> QED BY <1>5, <1>6, <1>9, <1>12 DEF Grown

\* The oldest entry is dropped.
LEMMA Dropped ==
  ASSUME NEW cs \in Seq(Calls), Falls(cs), Len(cs) > 0, NEW s, NEW F \in Seq(Frames),
         NEW k \in Nat, NEW m \in Nat, Follows(cs, F, s, k, m)
  PROVE  /\ Tail(cs) \in Seq(Calls) /\ Falls(Tail(cs)) /\ Len(Tail(cs)) = Len(cs) - 1
         /\ \A i \in DOMAIN Tail(cs) : \E j \in DOMAIN cs : Tail(cs)[i] = cs[j]
         /\ IF m = 0 THEN Follows(Tail(cs), F, s, k + 1, 0) ELSE Follows(Tail(cs), F, s, k, m - 1)
<1> DEFINE t == Tail(cs)
<1>1. /\ t \in Seq(Calls) /\ Len(t) = Len(cs) - 1 /\ Len(cs) \in Nat
      /\ DOMAIN t = 1 .. Len(cs) - 1 /\ DOMAIN cs = 1 .. Len(cs)
      /\ \A i \in 1 .. Len(cs) - 1 : t[i] = cs[i + 1]
  <2>1. cs # <<>>
    OBVIOUS
  <2> QED BY <2>1, HeadTailProperties, CallsSeq
<1> HIDE DEF t
<1>2. Falls(t) /\ \A i \in DOMAIN t : \E j \in DOMAIN cs : t[i] = cs[j]
  <2>1. \A i \in DOMAIN t : i + 1 \in DOMAIN cs /\ t[i] = cs[i + 1]
    BY <1>1
  <2> QED BY <1>1, <2>1 DEF Falls
<1>3. /\ k \in 0 .. Len(F) /\ m \in 0 .. Len(cs) /\ Len(cs) - m = Len(F) - k /\ Len(F) \in Nat
      /\ \A i \in k + 1 .. Len(F) : /\ cs[i - k + m].slot_sp = F[i].slot
                                    /\ cs[i - k + m].return_addr = F[i].to
      /\ \A i \in 1 .. m : cs[i].slot_sp \notin Extent(s)
  BY FramesSeq DEF Follows
<1>4. CASE m = 0
  <2>1. k + 1 \in 0 .. Len(F) /\ Len(t) - 0 = Len(F) - (k + 1)
    BY <1>1, <1>3, <1>4
  <2>2. \A i \in k + 1 + 1 .. Len(F) : /\ t[i - (k + 1) + 0].slot_sp = F[i].slot
                                       /\ t[i - (k + 1) + 0].return_addr = F[i].to
    <3> TAKE i \in k + 1 + 1 .. Len(F)
    <3>1. i - (k + 1) + 0 \in 1 .. Len(cs) - 1 /\ i - (k + 1) + 0 + 1 = i - k + m /\ i \in k + 1 .. Len(F)
      BY <1>1, <1>3, <1>4
    <3>2. t[i - (k + 1) + 0] = cs[i - k + m]
      BY <1>1, <3>1
    <3> QED BY <1>3, <3>1, <3>2
  <2>3. Follows(t, F, s, k + 1, 0)
    BY <1>1, <2>1, <2>2 DEF Follows
  <2> QED BY <1>1, <1>2, <1>4, <2>3 DEF t
<1>5. CASE m # 0
  <2>1. m - 1 \in 0 .. Len(t) /\ Len(t) - (m - 1) = Len(F) - k
    BY <1>1, <1>3, <1>5
  <2>2. \A i \in k + 1 .. Len(F) : /\ t[i - k + (m - 1)].slot_sp = F[i].slot
                                   /\ t[i - k + (m - 1)].return_addr = F[i].to
    <3> TAKE i \in k + 1 .. Len(F)
    <3>1. i - k + (m - 1) \in 1 .. Len(cs) - 1 /\ i - k + (m - 1) + 1 = i - k + m
      BY <1>1, <1>3, <1>5
    <3>2. t[i - k + (m - 1)] = cs[i - k + m]
      BY <1>1, <3>1
    <3> QED BY <1>3, <3>2
  <2>3. \A i \in 1 .. m - 1 : t[i].slot_sp \notin Extent(s)
    BY <1>1, <1>3
  <2>4. Follows(t, F, s, k, m - 1)
    BY <1>3, <2>1, <2>2, <2>3 DEF Follows
  <2> QED BY <1>1, <1>2, <1>5, <2>4 DEF t
<1> QED BY <1>4, <1>5

\* Which calls are watched after a call.
LEMMA CalledWatched ==
  ASSUME StackTypes, NEW p \in Nat, NEW r \in Sites, NEW k \in 0 .. Len(frames[cur]),
         \A i \in DOMAIN frames[cur] : frames[cur][i].watched <=> i > k
  PROVE  \A i \in 1 .. Len(frames[cur]) + 1 :
           Called(p, r)[i].watched <=> i > k /\ Len(frames[cur]) + 1 - i < MAX_CALL_STACK_DEPTH
<1> DEFINE F == frames[cur]
           new == [slot |-> p, to |-> r, watched |-> TRUE]
           all == Append(F, new)
           later(i) == {j \in DOMAIN all : j > i /\ all[j].watched}
           few(i) == Cardinality(later(i)) < MAX_CALL_STACK_DEPTH
<1>1. F \in Seq(Frames) /\ new \in Frames /\ new.watched
  BY DEF StackTypes, Frames
<1>2. Called(p, r) = [i \in DOMAIN all |-> [all[i] EXCEPT !.watched = @ /\ few(i)]]
  BY DEF Called
<1> HIDE DEF F, new
<1>3. PICK n \in Nat : n = Len(F)
  BY <1>1, FramesSeq
<1>4. /\ all \in Seq(Frames) /\ Len(all) = n + 1 /\ all[n + 1] = new
      /\ \A i \in 1 .. n : all[i] = F[i]
  BY <1>1, <1>3, AppendProperties
<1> HIDE DEF all
<1>5. DOMAIN all = 1 .. n + 1 /\ DOMAIN F = 1 .. n
  BY <1>1, <1>3, <1>4, FramesSeq
<1>6. \A i \in 1 .. n : F[i].watched <=> i > k
  BY <1>5 DEF F
<1>7. k \in 0 .. n
  BY <1>3 DEF F
<1>8. \A i \in 1 .. n + 1 : all[i].watched <=> i > k
  <2> TAKE i \in 1 .. n + 1
  <2>1. CASE i = n + 1
    BY <1>1, <1>4, <1>7, <2>1
  <2>2. CASE i # n + 1
    BY <1>4, <1>6, <2>2
  <2> QED BY <2>1, <2>2
<1>9. ASSUME NEW i \in 1 .. n + 1 PROVE Called(p, r)[i].watched <=> all[i].watched /\ few(i)
  <2>1. Called(p, r)[i] = [all[i] EXCEPT !.watched = all[i].watched /\ few(i)]
    BY <1>2, <1>5
  <2>2. all[i] \in Frames
    BY <1>4, <1>5
  <2>3. \A f \in Frames : \A b : [f EXCEPT !.watched = b].watched = b
    BY DEF Frames
  <2> HIDE DEF few
  <2> QED BY <2>1, <2>2, <2>3
<1>10. \A i \in 1 .. n + 1 : i > k => (few(i) <=> n + 1 - i < MAX_CALL_STACK_DEPTH)
  <2> SUFFICES ASSUME NEW i \in 1 .. n + 1, i > k PROVE Cardinality(later(i)) = n + 1 - i
    OBVIOUS
  <2>1. later(i) = i + 1 .. n + 1
    BY <1>5, <1>7, <1>8
  <2>2. Cardinality(i + 1 .. n + 1) = IF i + 1 > n + 1 THEN 0 ELSE n + 1 - (i + 1) + 1
    BY FS_Interval
  <2>3. ~ (i + 1 > n + 1) => n + 1 - (i + 1) + 1 = n + 1 - i
    OBVIOUS
  <2>4. i + 1 > n + 1 => n + 1 - i = 0
    OBVIOUS
  <2> QED BY <2>1, <2>2, <2>3, <2>4
<1> HIDE DEF few
<1> QED BY <1>3, <1>8, <1>9, <1>10 DEF F

LEMMA RecordWatch ==
  ASSUME StackTypes, NEW p \in Nat, NEW r \in Sites, Watch(call_stack, frames[cur], cur),
         \A i \in DOMAIN frames[cur] : frames[cur][i].slot >= p
  PROVE  /\ Watch(record_call(call_stack, p, r), Called(p, r), cur)
         /\ \A i \in DOMAIN record_call(call_stack, p, r) :
              \/ record_call(call_stack, p, r)[i].slot_sp = p
              \/ \E j \in DOMAIN call_stack : record_call(call_stack, p, r)[i] = call_stack[j]
<1> DEFINE F == frames[cur]
           N == Called(p, r)
           new == [slot_sp |-> p, return_addr |-> r]
           kept == Append(AtOrAbove(call_stack, p), new)
           MAX == MAX_CALL_STACK_DEPTH
<1>1. /\ call_stack \in Seq(Calls) /\ Len(call_stack) <= MAX /\ Falls(call_stack)
      /\ cur \in Stacks /\ F \in Seq(Frames) /\ MAX \in Nat /\ MAX > 0
  BY LimitsAssumption DEF Watch, StackTypes
<1>2. PICK k \in Nat, m \in Nat : /\ Follows(call_stack, F, cur, k, m)
                                  /\ \A i \in DOMAIN F : F[i].watched <=> i > k
  BY DEF Watch
<1>3. /\ N \in Seq(Frames) /\ Len(N) = Len(F) + 1
      /\ \A i \in DOMAIN F : N[i].slot = F[i].slot /\ N[i].to = F[i].to
      /\ N[Len(F) + 1].slot = p /\ N[Len(F) + 1].to = r
      /\ Deeper(F, N, p, r)
  BY CalledFacts DEF Deeper
<1>4. \A i \in 1 .. Len(F) + 1 : N[i].watched <=> i > k /\ Len(F) + 1 - i < MAX
  <2>1. k \in 0 .. Len(F)
    BY <1>2 DEF Follows
  <2> QED BY <1>2, <2>1, CalledWatched
<1>5. record_call(call_stack, p, r) = IF Len(kept) > MAX THEN Tail(kept) ELSE kept
  BY DEF record_call
<1>6. \A i \in DOMAIN F : F[i].slot >= p
  OBVIOUS
<1>7. PICK n \in 0 .. Len(call_stack) : Kept(call_stack, kept, n, p, r)
  BY <1>1, KeptAndNew
<1> HIDE DEF new, F, N, kept
<1>8. /\ kept \in Seq(Calls) /\ Len(kept) = n + 1 /\ Falls(kept)
      /\ \A i \in DOMAIN kept : kept[i].slot_sp = p \/ \E j \in DOMAIN call_stack : kept[i] = call_stack[j]
      /\ \E m1 \in Nat : Follows(kept, N, cur, k, m1)
  <2>1. kept \in Seq(Calls) /\ Len(kept) = n + 1
    BY <1>7 DEF Kept
  <2>2. Follows(call_stack, F, cur, k, m) /\ Deeper(F, N, p, r) /\ N \in Seq(Frames)
    BY <1>2, <1>3
  <2>3. Grown(call_stack, kept, N, cur, k, p)
    BY <1>1, <1>6, <1>7, <2>2, Recorded
  <2> QED BY <2>1, <2>3 DEF Grown
<1>9. PICK m1 \in Nat : Follows(kept, N, cur, k, m1)
  BY <1>8
<1>10. PICK lf \in Nat, lk \in Nat : lf = Len(F) /\ lk = Len(kept)
  BY <1>1, <1>8, FramesSeq, CallsSeq
<1>11. lk - m1 = lf + 1 - k /\ lk <= MAX + 1 /\ lk > 0 /\ k <= lf + 1 /\ m1 <= lk
  <2>1. Len(call_stack) \in Nat
    BY <1>1, CallsSeq
  <2>2. n + 1 <= MAX + 1
    BY <1>1, <2>1
  <2>3. lk = n + 1
    BY <1>8, <1>10
  <2>4. k \in 0 .. Len(N) /\ m1 \in 0 .. Len(kept) /\ Len(kept) - m1 = Len(N) - k
    BY <1>9 DEF Follows
  <2>5. k \in 0 .. lf + 1 /\ m1 \in 0 .. lk /\ lk - m1 = lf + 1 - k
    BY <1>3, <1>10, <2>4
  <2> QED BY <2>2, <2>3, <2>5
<1>12. DOMAIN N = 1 .. lf + 1
  BY <1>3, <1>10, FramesSeq
<1>13. CASE lk <= MAX
  <2>1. \A i \in DOMAIN N : N[i].watched <=> i > k
    <3>1. \A i \in 1 .. lf + 1 : i > k => lf + 1 - i < MAX
      BY <1>1, <1>11, <1>13
    <3> QED BY <1>4, <1>10, <1>12, <3>1
  <2>2. record_call(call_stack, p, r) = kept
    BY <1>1, <1>5, <1>10, <1>13
  <2>3. Watch(kept, N, cur)
    BY <1>8, <1>8, <1>9, <1>10, <1>13, <2>1 DEF Watch
  <2> QED BY <1>8, <2>2, <2>3 DEF N
<1>14. CASE lk > MAX
  <2> DEFINE t == Tail(kept)
  <2>1. /\ t \in Seq(Calls) /\ Falls(t) /\ Len(t) = Len(kept) - 1
        /\ \A i \in DOMAIN t : \E j \in DOMAIN kept : t[i] = kept[j]
        /\ IF m1 = 0 THEN Follows(t, N, cur, k + 1, 0) ELSE Follows(t, N, cur, k, m1 - 1)
    BY <1>3, <1>8, <1>8, <1>9, <1>10, <1>11, Dropped
  <2>2. record_call(call_stack, p, r) = t
    BY <1>5, <1>10, <1>14
  <2> HIDE DEF t
  <2>3. Len(t) <= MAX
    BY <1>1, <1>10, <1>11, <2>1
  <2>4. Watch(t, N, cur)
    <3>1. CASE m1 = 0
      <4>1. \A i \in 1 .. lf + 1 : i > k /\ lf + 1 - i < MAX <=> i > k + 1
        BY <1>1, <1>11, <1>14, <3>1
      <4>2. \A i \in DOMAIN N : N[i].watched <=> i > k + 1
        BY <1>4, <1>10, <1>12, <4>1
      <4>3. Follows(t, N, cur, k + 1, 0) /\ k + 1 \in Nat /\ 0 \in Nat
        BY <2>1, <3>1
      <4> QED BY <2>1, <2>3, <4>2, <4>3 DEF Watch
    <3>2. CASE m1 # 0
      <4>1. \A i \in 1 .. lf + 1 : i > k => lf + 1 - i < MAX
        BY <1>1, <1>11, <1>14, <3>2
      <4>2. \A i \in DOMAIN N : N[i].watched <=> i > k
        BY <1>4, <1>10, <1>12, <4>1
      <4>3. Follows(t, N, cur, k, m1 - 1) /\ m1 - 1 \in Nat
        BY <2>1, <3>2
      <4> QED BY <2>1, <2>3, <4>2, <4>3 DEF Watch
    <3> QED BY <3>1, <3>2
  <2>5. \A i \in DOMAIN t : t[i].slot_sp = p \/ \E j \in DOMAIN call_stack : t[i] = call_stack[j]
    BY <1>8, <2>1
  <2> QED BY <2>2, <2>4, <2>5 DEF N
<1> QED BY <1>1, <1>13, <1>14

-----------------------------------------------------------------------------
(* A return. *)

\* res is the first n of cs.
Starts(res, cs, n) ==
  res \in Seq(Calls) /\ Len(res) = n /\ \A i \in 1 .. n : res[i] = cs[i]

LEMMA AccusesIs ==
  ASSUME NEW cs \in Seq(Calls), Falls(cs), NEW q \in Nat, NEW x
  PROVE  Accuses(cs, q, x) <=> /\ Len(cs) > 0
                               /\ cs[Len(cs)].slot_sp = q
                               /\ cs[Len(cs)].return_addr # x
<1> DEFINE kept == AtOrAbove(cs, q)
<1>1. PICK n \in 0 .. Len(cs) : /\ kept = SubSeq(cs, 1, n)
                                /\ \A i \in DOMAIN cs : cs[i].slot_sp >= q <=> i <= n
  BY RetainedFacts
<1>2. kept \in Seq(Calls) /\ Len(kept) = n /\ \A i \in 1 .. n : kept[i] = cs[i]
  BY <1>1, CallsBegin
<1>3. Accuses(cs, q, x) <=> /\ kept # <<>> /\ kept[Len(kept)].slot_sp = q
                            /\ Len(kept) = Len(cs) /\ kept[Len(kept)].return_addr # x
  BY DEF Accuses, Matches
<1> HIDE DEF kept
<1>4. kept # <<>> <=> n > 0
  <2>1. kept = <<>> <=> Len(kept) = 0
    BY <1>2, EmptySeq
  <2> QED BY <1>2, <2>1
<1>5. Len(cs) \in Nat /\ DOMAIN cs = 1 .. Len(cs) /\ \A i \in DOMAIN cs : cs[i].slot_sp \in Nat
  BY CallsSeq
<1>6. Len(cs) > 0 /\ cs[Len(cs)].slot_sp = q => n = Len(cs)
  <2> SUFFICES ASSUME Len(cs) > 0, cs[Len(cs)].slot_sp = q PROVE n = Len(cs)
    OBVIOUS
  <2>1. Len(cs) \in DOMAIN cs
    BY <1>5
  <2>2. Len(cs) <= n
    BY <1>1, <2>1
  <2>3. Len(cs) \in Nat
    BY <1>5
  <2> QED BY <2>2, <2>3
<1>7. n = Len(cs) /\ n > 0 => kept[Len(kept)] = cs[Len(cs)]
  BY <1>2
<1> QED BY <1>2, <1>3, <1>4, <1>6, <1>7

LEMMA CheckedFacts ==
  ASSUME NEW cs \in Seq(Calls), Falls(cs), NEW q \in Nat
  PROVE  \E n \in 0 .. Len(cs) :
           /\ \A i \in DOMAIN cs : cs[i].slot_sp >= q <=> i <= n
           /\ IF n > 0 /\ cs[n].slot_sp = q THEN Starts(check_return(cs, q), cs, n - 1)
              ELSE Starts(check_return(cs, q), cs, n)
<1> DEFINE kept == AtOrAbove(cs, q)
<1>1. PICK n \in 0 .. Len(cs) : /\ kept = SubSeq(cs, 1, n)
                                /\ \A i \in DOMAIN cs : cs[i].slot_sp >= q <=> i <= n
  BY RetainedFacts
<1>2. kept \in Seq(Calls) /\ Len(kept) = n /\ Falls(kept) /\ \A i \in 1 .. n : kept[i] = cs[i]
  BY <1>1, CallsBegin
<1>3. check_return(cs, q)
        = IF kept # <<>> /\ kept[Len(kept)].slot_sp = q THEN SubSeq(kept, 1, Len(kept) - 1) ELSE kept
  BY DEF check_return, Matches
<1> HIDE DEF kept
<1>4. n \in Nat /\ (kept # <<>> <=> n > 0)
  <2>1. kept = <<>> <=> Len(kept) = 0
    BY <1>2, EmptySeq
  <2>2. n \in Nat
    BY CallsSeq
  <2> QED BY <1>2, <2>1, <2>2
<1>5. CASE n > 0 /\ cs[n].slot_sp = q
  <2>1. check_return(cs, q) = SubSeq(kept, 1, n - 1)
    BY <1>2, <1>3, <1>4, <1>5
  <2>2. n - 1 \in 0 .. Len(kept) /\ \A i \in 1 .. n - 1 : i \in 1 .. n
    BY <1>2, <1>4, <1>5
  <2>3. /\ SubSeq(kept, 1, n - 1) \in Seq(Calls) /\ Len(SubSeq(kept, 1, n - 1)) = n - 1
        /\ \A i \in 1 .. n - 1 : SubSeq(kept, 1, n - 1)[i] = kept[i]
    BY <1>2, <2>2, CallsBegin
  <2>4. Starts(check_return(cs, q), cs, n - 1)
    BY <1>2, <2>1, <2>2, <2>3 DEF Starts
  <2> QED BY <1>1, <1>5, <2>4
<1>6. CASE ~ (n > 0 /\ cs[n].slot_sp = q)
  <2>1. check_return(cs, q) = kept
    BY <1>2, <1>3, <1>4, <1>6
  <2>2. Starts(check_return(cs, q), cs, n)
    BY <1>2, <2>1 DEF Starts
  <2> QED BY <1>1, <1>6, <2>2
<1> QED BY <1>5, <1>6

\* Which call the last entry is of.
LEMMA AccusesMeans ==
  ASSUME NEW cs, NEW s \in Stacks, NEW F \in Seq(Frames), Watch(cs, F, s), NEW q \in Extent(s),
         NEW x,
         Accuses(cs, q, x)
  PROVE  F # <<>> /\ F[Len(F)].slot = q /\ F[Len(F)].to # x
<1>1. cs \in Seq(Calls) /\ Falls(cs) /\ q \in Nat
  BY InExtent DEF Watch
<1>2. PICK k \in Nat, m \in Nat : Follows(cs, F, s, k, m)
  BY DEF Watch
<1>3. Len(cs) > 0 /\ cs[Len(cs)].slot_sp = q /\ cs[Len(cs)].return_addr # x
  BY <1>1, AccusesIs
<1>4. PICK lc \in Nat, lf \in Nat : lc = Len(cs) /\ lf = Len(F)
  BY <1>1, CallsSeq, FramesSeq
<1>5. /\ k \in 0 .. lf /\ m \in 0 .. lc /\ lc - m = lf - k
      /\ \A i \in k + 1 .. lf : /\ cs[i - k + m].slot_sp = F[i].slot
                                /\ cs[i - k + m].return_addr = F[i].to
      /\ \A i \in 1 .. m : cs[i].slot_sp \notin Extent(s)
  BY <1>2, <1>4 DEF Follows
<1>6. m < lc
  <2>1. lc \notin 1 .. m
    BY <1>3, <1>4, <1>5
  <2> QED BY <1>3, <1>4, <1>5, <2>1
<1>7. lf \in k + 1 .. lf /\ lf - k + m = lc
  <2>1. k \in Nat /\ lf \in Nat /\ m \in Nat /\ lc \in Nat /\ lc - m = lf - k
    BY <1>4, <1>5
  <2>2. k < lf
    BY <1>6, <2>1
  <2> QED BY <2>1, <2>2
<1>8. F # <<>>
  BY <1>4, <1>7
<1> QED BY <1>3, <1>4, <1>5, <1>7, <1>8

LEMMA AccusesWhen ==
  ASSUME NEW cs, NEW s \in Stacks, NEW F \in Seq(Frames), Watch(cs, F, s), NEW q \in Extent(s),
         NEW x,
         F # <<>>, F[Len(F)].slot = q, F[Len(F)].to # x, F[Len(F)].watched
  PROVE  Accuses(cs, q, x)
<1>1. cs \in Seq(Calls) /\ Falls(cs) /\ q \in Nat
  BY InExtent DEF Watch
<1>2. PICK k \in Nat, m \in Nat : Follows(cs, F, s, k, m) /\ \A i \in DOMAIN F : F[i].watched <=> i > k
  BY DEF Watch
<1>3. PICK lc \in Nat, lf \in Nat : lc = Len(cs) /\ lf = Len(F)
  BY <1>1, CallsSeq, FramesSeq
<1>4. /\ k \in 0 .. lf /\ m \in 0 .. lc /\ lc - m = lf - k
      /\ \A i \in k + 1 .. lf : /\ cs[i - k + m].slot_sp = F[i].slot
                                /\ cs[i - k + m].return_addr = F[i].to
  BY <1>2, <1>3 DEF Follows
<1>5. lf \in DOMAIN F /\ lf > 0
  <2>1. lf # 0
    BY <1>3, EmptySeq
  <2> QED BY <1>3, <2>1, FramesSeq
<1>6. lf > k
  BY <1>2, <1>3, <1>5
<1>7. lf \in k + 1 .. lf /\ lf - k + m = lc /\ lc > 0
  BY <1>4, <1>6
<1>8. cs[lc].slot_sp = q /\ cs[lc].return_addr # x
  BY <1>3, <1>4, <1>7
<1> QED BY <1>1, <1>3, <1>7, <1>8, AccusesIs

LEMMA CheckedWatch ==
  ASSUME NEW cs, NEW s \in Stacks, NEW F \in Seq(Frames), Watch(cs, F, s), NEW q \in Extent(s),
         \A i, j \in DOMAIN F : i < j => F[i].slot > F[j].slot,
         NEW n \in 0 .. Len(F), \A i \in DOMAIN F : F[i].slot > q <=> i <= n
  PROVE  Watch(check_return(cs, q), SubSeq(F, 1, n), s)
<1> DEFINE N == SubSeq(F, 1, n)
           res == check_return(cs, q)
<1>1. cs \in Seq(Calls) /\ Falls(cs) /\ q \in Nat /\ Len(cs) <= MAX_CALL_STACK_DEPTH
      /\ MAX_CALL_STACK_DEPTH \in Nat
  BY InExtent, LimitsAssumption DEF Watch
<1>2. PICK k \in Nat, m \in Nat : Follows(cs, F, s, k, m) /\ \A i \in DOMAIN F : F[i].watched <=> i > k
  BY DEF Watch
<1>3. PICK lc \in Nat, lf \in Nat : lc = Len(cs) /\ lf = Len(F)
  BY <1>1, CallsSeq, FramesSeq
<1>4. /\ k \in 0 .. lf /\ m \in 0 .. lc /\ lc - m = lf - k
      /\ \A i \in k + 1 .. lf : /\ cs[i - k + m].slot_sp = F[i].slot
                                /\ cs[i - k + m].return_addr = F[i].to
      /\ \A i \in 1 .. m : cs[i].slot_sp \notin Extent(s)
  BY <1>2, <1>3 DEF Follows
<1>5. n \in 0 .. lf /\ DOMAIN F = 1 .. lf /\ DOMAIN cs = 1 .. lc
      /\ \A i \in DOMAIN F : F[i].slot \in Nat
  BY <1>1, <1>3, CallsSeq, FramesSeq
<1>6. /\ N \in Seq(Frames) /\ Len(N) = n /\ DOMAIN N = 1 .. n
      /\ \A i \in 1 .. n : i \in DOMAIN F /\ N[i] = F[i]
  BY Begins
<1>7. PICK c \in 0 .. Len(cs) :
         /\ \A i \in DOMAIN cs : cs[i].slot_sp >= q <=> i <= c
         /\ IF c > 0 /\ cs[c].slot_sp = q THEN Starts(res, cs, c - 1) ELSE Starts(res, cs, c)
  BY <1>1, CheckedFacts
<1> HIDE DEF N, res
<1>8. c \in 0 .. lc
  BY <1>3, <1>7
<1> DEFINE d == IF c > 0 /\ cs[c].slot_sp = q THEN c - 1 ELSE c
<1>9. Starts(res, cs, d) /\ d \in 0 .. c
  BY <1>7, <1>8
\* The entries of calls.
<1>10. ASSUME NEW i \in k + 1 .. lf
       PROVE  /\ i \in DOMAIN F /\ i - k + m \in 1 .. lc
              /\ i <= n <=> i - k + m <= d
  <2>1. i \in DOMAIN F /\ i - k + m \in 1 .. lc
    BY <1>4, <1>5
  <2>2. cs[i - k + m].slot_sp = F[i].slot /\ F[i].slot \in Nat
    BY <1>4, <1>5, <2>1
  <2>3. i - k + m <= c <=> F[i].slot >= q
    BY <1>5, <1>7, <2>1, <2>2
  <2>4. CASE F[i].slot > q
    <3>1. i - k + m <= c /\ i <= n
      BY <1>1, <2>1, <2>2, <2>3, <2>4
    <3>2. ~ (i - k + m = c /\ cs[c].slot_sp = q)
      BY <1>1, <2>2, <2>4
    <3> QED BY <1>8, <2>1, <3>1, <3>2
  <2>5. CASE F[i].slot < q
    <3>1. ~ (i - k + m <= c) /\ ~ (i <= n)
      BY <1>1, <2>1, <2>2, <2>3, <2>5
    <3> QED BY <1>8, <1>9, <2>1, <3>1
  <2>6. CASE F[i].slot = q
    <3>1. i - k + m <= c /\ ~ (i <= n)
      BY <1>1, <2>1, <2>2, <2>3, <2>6
    <3>2. i - k + m = c
      <4>1. CASE c <= m
        BY <1>4, <1>8, <2>1, <3>1, <4>1
      <4>2. CASE c > m
        <5>1. /\ c - m + k \in k + 1 .. lf /\ (c - m + k) - k + m = c /\ c \in 1 .. lc
              /\ c - m + k \in DOMAIN F /\ c - m + k >= i
          BY <1>4, <1>5, <1>8, <2>1, <3>1, <4>2
        <5>2. cs[c].slot_sp = F[c - m + k].slot
          BY <1>4, <5>1
        <5>3. cs[c].slot_sp >= q
          BY <1>5, <1>7, <5>1
        <5>4. ~ (i < c - m + k)
          <6> SUFFICES ASSUME i < c - m + k PROVE FALSE
            OBVIOUS
          <6>1. F[i].slot > F[c - m + k].slot
            BY <2>1, <5>1
          <6>2. F[i].slot = q /\ F[c - m + k].slot >= q /\ F[c - m + k].slot \in Nat
            BY <1>5, <2>6, <5>1, <5>2, <5>3
          <6> QED BY <1>1, <6>1, <6>2
        <5> QED BY <1>4, <1>8, <2>1, <5>1, <5>4
      <4>3. c \in Nat /\ m \in Nat
        BY <1>8
      <4> QED BY <4>1, <4>2, <4>3
    <3>3. d = c - 1
      BY <1>8, <2>1, <2>2, <2>6, <3>2
    <3> QED BY <1>8, <2>1, <3>1, <3>2, <3>3
  <2> QED BY <1>1, <2>1, <2>2, <2>4, <2>5, <2>6
<1> HIDE DEF d
<1>11. /\ res \in Seq(Calls) /\ Len(res) = d /\ \A i \in 1 .. d : i \in DOMAIN cs /\ res[i] = cs[i]
       /\ DOMAIN res = 1 .. d /\ d \in Nat /\ d <= lc
  <2>1. d \in Nat /\ d <= lc
    BY <1>8, <1>9
  <2> QED BY <1>5, <1>9, <2>1, CallsSeq DEF Starts
<1>12. Falls(res) /\ Len(res) <= MAX_CALL_STACK_DEPTH
  <2>1. Falls(res)
    BY <1>1, <1>11 DEF Falls
  <2> QED BY <1>1, <1>3, <1>11, <2>1
<1>13. CASE n > k
  <2>1. n \in k + 1 .. lf
    BY <1>5, <1>13
  <2>2. n - k + m <= d
    BY <1>5, <1>10, <2>1
  <2>3. d <= n - k + m
    <3>1. CASE n = lf
      BY <1>4, <1>11, <3>1
    <3>2. CASE n # lf
      <4>1. n + 1 \in k + 1 .. lf
        BY <1>5, <2>1, <3>2
      <4>2. n + 1 <= n <=> n + 1 - k + m <= d
        BY <1>10, <4>1
      <4>3. ~ (n + 1 <= n)
        BY <1>5
      <4> QED BY <1>5, <1>11, <2>1, <4>2, <4>3
    <3> QED BY <3>1, <3>2
  <2>4. d = n - k + m
    <3>1. d \in Int /\ n - k + m \in Int
      BY <1>5, <1>11
    <3> QED BY <2>2, <2>3, <3>1
  <2>5. Follows(res, N, s, k, m)
    <3>1. k \in 0 .. Len(N) /\ m \in 0 .. Len(res) /\ Len(res) - m = Len(N) - k
      BY <1>4, <1>5, <1>6, <1>11, <1>13, <2>4
    <3>2. ASSUME NEW i \in k + 1 .. Len(N)
          PROVE  res[i - k + m].slot_sp = N[i].slot /\ res[i - k + m].return_addr = N[i].to
      <4>1. i \in k + 1 .. lf /\ i \in 1 .. n /\ i - k + m \in 1 .. d
        BY <1>4, <1>5, <1>6, <2>4
      <4> QED BY <1>4, <1>6, <1>11, <4>1
    <3>3. \A i \in 1 .. m : res[i].slot_sp \notin Extent(s)
      <4> TAKE i \in 1 .. m
      <4>1. i \in 1 .. d
        BY <1>5, <1>13, <2>4
      <4> QED BY <1>4, <1>11, <4>1
    <3> QED BY <3>1, <3>2, <3>3 DEF Follows
  <2>6. \A i \in DOMAIN N : N[i].watched <=> i > k
    BY <1>2, <1>6
  <2> QED BY <1>11, <1>12, <2>5, <2>6 DEF Watch, N, res
<1>14. CASE n <= k
  <2>1. d <= m
    <3>1. CASE k = lf
      BY <1>4, <1>11, <3>1
    <3>2. CASE k # lf
      <4>1. k + 1 \in k + 1 .. lf
        BY <1>4, <3>2
      <4>2. ~ (k + 1 - k + m <= d)
        BY <1>5, <1>10, <1>14, <4>1
      <4> QED BY <1>11, <4>2
    <3> QED BY <3>1, <3>2
  <2>2. Follows(res, N, s, n, d)
    <3>1. n \in 0 .. Len(N) /\ d \in 0 .. Len(res) /\ Len(res) - d = Len(N) - n
      BY <1>5, <1>6, <1>11
    <3>2. \A i \in n + 1 .. Len(N) : FALSE
      BY <1>5, <1>6
    <3>3. \A i \in 1 .. d : res[i].slot_sp \notin Extent(s)
      <4> TAKE i \in 1 .. d
      <4>1. i \in 1 .. m
        BY <1>11, <2>1
      <4> QED BY <1>4, <1>11, <4>1
    <3> QED BY <3>1, <3>2, <3>3 DEF Follows
  <2>3. \A i \in DOMAIN N : N[i].watched <=> i > n
    <3> TAKE i \in DOMAIN N
    <3>1. ~ (i > n) /\ ~ (i > k) /\ i \in DOMAIN F /\ N[i] = F[i]
      BY <1>5, <1>6, <1>14
    <3> QED BY <1>2, <3>1
  <2>4. n \in Nat
    BY <1>5
  <2> QED BY <1>11, <1>12, <2>2, <2>3, <2>4 DEF Watch, N, res
<1> QED BY <1>5, <1>13, <1>14

\* Nothing is kept for a return but what was there.
LEMMA CheckedEntries ==
  ASSUME NEW cs \in Seq(Calls), Falls(cs), NEW q \in Nat
  PROVE  \A i \in DOMAIN check_return(cs, q) : \E j \in DOMAIN cs : check_return(cs, q)[i] = cs[j]
<1> DEFINE res == check_return(cs, q)
<1>1. PICK n \in 0 .. Len(cs) : Starts(res, cs, n)
  <2>1. PICK c \in 0 .. Len(cs) :
           IF c > 0 /\ cs[c].slot_sp = q THEN Starts(res, cs, c - 1) ELSE Starts(res, cs, c)
    BY CheckedFacts
  <2>2. c > 0 => c - 1 \in 0 .. Len(cs)
    BY CallsSeq
  <2> HIDE DEF res
  <2> QED BY <2>1, <2>2
<1> HIDE DEF res
<1>2. DOMAIN res = 1 .. n /\ DOMAIN cs = 1 .. Len(cs) /\ Len(cs) \in Nat
  BY <1>1, CallsSeq DEF Starts
<1>3. \A i \in DOMAIN res : i \in DOMAIN cs /\ res[i] = cs[i]
  BY <1>1, <1>2 DEF Starts
<1> QED BY <1>3 DEF res

LEMMA EmptyWatch ==
  ASSUME NEW F \in Seq(Frames), NEW s, \A i \in DOMAIN F : ~F[i].watched
  PROVE  Watch(<<>>, F, s)
<1>1. <<>> \in Seq(Calls) /\ Len(<<>>) = 0 /\ DOMAIN <<>> = {}
  BY EmptySeq
<1>2. Falls(<<>>) /\ Len(<<>>) <= MAX_CALL_STACK_DEPTH
  BY <1>1, LimitsAssumption DEF Falls
<1>3. PICK n \in Nat : n = Len(F)
  BY FramesSeq
<1>4. Follows(<<>>, F, s, n, 0)
  BY <1>1, <1>3 DEF Follows
<1>5. \A i \in DOMAIN F : F[i].watched <=> i > n
  BY <1>3, FramesSeq
<1> QED BY <1>1, <1>2, <1>4, <1>5 DEF Watch

LEMMA AloneWatch ==
  ASSUME NEW cs \in Seq(Calls), Falls(cs), Len(cs) <= MAX_CALL_STACK_DEPTH,
         NEW F \in Seq(Frames), NEW s, \A i \in DOMAIN F : ~F[i].watched,
         \A i \in DOMAIN cs : cs[i].slot_sp \notin Extent(s)
  PROVE  Watch(cs, F, s)
<1>1. PICK n \in Nat, m \in Nat : n = Len(F) /\ m = Len(cs)
  BY FramesSeq, CallsSeq
<1>2. DOMAIN cs = 1 .. m
  BY <1>1, CallsSeq
<1>3. Follows(cs, F, s, n, m)
  BY <1>1, <1>2 DEF Follows
<1>4. \A i \in DOMAIN F : F[i].watched <=> i > n
  BY <1>1, FramesSeq
<1> QED BY <1>3, <1>4 DEF Watch

-----------------------------------------------------------------------------
(* The actions on the stack in use. *)

LEMMA StillTracked ==
  ASSUME StackInv, NEW p \in Extent(cur), NEW sh, NEW cs, update_stack_pointer(sh, cs, p)
  PROVE  call_stack' = cs /\ (last' = ABSENT => last = ABSENT)
<1>1. cur \in Stacks /\ Pointer(sp, cur, tracked, last)
  BY DEF StackInv, StackTypes
<1>2. p # ABSENT
  BY <1>1, Layout
<1>3. last # ABSENT => Within(tracked, p)
  BY <1>1 DEF Pointer, Within
<1>4. last = ABSENT => ~ Within(tracked, p)
  BY <1>1, Layout DEF Pointer, Within
<1> QED BY <1>2, <1>3, <1>4 DEF update_stack_pointer

\* What an action on the stack in use has to keep.
LEMMA InUseKeeps ==
  ASSUME WatchInv, StackInv', Stays, last' = ABSENT => last = ABSENT,
         Watch(call_stack', frames'[cur], cur), frames'[Other(cur)] = frames[Other(cur)],
         \A i \in DOMAIN call_stack' : \/ call_stack'[i].slot_sp \in Extent(cur)
                                       \/ \E j \in DOMAIN call_stack : call_stack'[i] = call_stack[j],
         InCommand', ReturnsJudged'
  PROVE  WatchInv'
<1>1. cur' = cur /\ Apart
  BY DEF Stays, WatchInv
<1>2. Apart'
  BY <1>1 DEF Apart
<1> QED BY <1>1, <1>2 DEF WatchInv

LEMMA FallsInCommand ==
  ASSUME WatchInv, Stays, sp > base[cur], sp' \in {sp - 1, sp},
         mem' = mem \/ \E v : mem' = [mem EXCEPT ![sp - 1] = v],
         \A i \in DOMAIN frames'[cur] :
           \/ frames'[cur][i].slot = sp - 1
           \/ \E j \in DOMAIN frames[cur] : frames'[cur][i].slot = frames[cur][j].slot
  PROVE  InCommand'
<1> SUFFICES ASSUME how = "RunCommand", away # ABSENT
             PROVE  /\ mem'[top[cur] - 1] = ABSENT
                    /\ sp' <= top[cur] - 1
                    /\ \A i \in DOMAIN frames'[cur] : frames'[cur][i].slot < top[cur] - 1
  BY DEF InCommand, Stays
<1>1. /\ mem[top[cur] - 1] = ABSENT /\ sp <= top[cur] - 1
      /\ \A i \in DOMAIN frames[cur] : frames[cur][i].slot < top[cur] - 1
  BY DEF WatchInv, InCommand
<1>2. StackInv /\ mem \in [StackBytes -> Sites \union {JUNK, ABSENT}]
  BY DEF WatchInv, StackInv, StackTypes
<1>3. sp \in Nat /\ top[cur] \in Nat /\ top[cur] - 1 # sp - 1
  BY <1>1, <1>2, PointerTypes
<1>4. mem'[top[cur] - 1] = ABSENT
  <2>1. top[cur] - 1 \in StackBytes
    <3>1. cur \in Stacks
      BY <1>2, PointerTypes
    <3> QED BY <3>1, Layout, InExtent
  <2> QED BY <1>1, <1>2, <1>3, <2>1
<1> QED BY <1>1, <1>3, <1>4

LEMMA RisesInCommand ==
  ASSUME WatchInv, NEW p \in sp + 1 .. top[cur], Rises(p), mem[p - 1] # ABSENT
  PROVE  InCommand'
<1> SUFFICES ASSUME how = "RunCommand", away # ABSENT
             PROVE  /\ mem'[top[cur] - 1] = ABSENT
                    /\ sp' <= top[cur] - 1
                    /\ \A i \in DOMAIN frames'[cur] : frames'[cur][i].slot < top[cur] - 1
  BY DEF InCommand, Rises
<1>1. /\ mem[top[cur] - 1] = ABSENT /\ sp <= top[cur] - 1
      /\ \A i \in DOMAIN frames[cur] : frames[cur][i].slot < top[cur] - 1
  BY DEF WatchInv, InCommand
<1>2. StackInv /\ StackTypes /\ Progress(frames, bytes, cur, sp, away) /\ frames[cur] \in Seq(Frames)
      /\ cur \in Stacks /\ cur \in DOMAIN frames
  BY DEF WatchInv, StackInv, StackTypes
<1>3. sp \in Nat /\ top[cur] \in Nat /\ p \in Nat /\ p - 1 \in Nat /\ p # top[cur] /\ p <= top[cur]
  BY <1>1, <1>2, PointerTypes
<1>4. /\ sp' = p /\ frames'[cur] = Outside(p - 1)
      /\ mem' = [a \in StackBytes |-> IF a \in sp .. p - 1 THEN JUNK ELSE mem[a]]
  BY <1>2 DEF Rises
<1>5. top[cur] - 1 \in StackBytes
  <2>1. top[cur] - 1 \in Nat /\ base[cur] <= top[cur] - 1 /\ top[cur] - 1 <= top[cur]
    BY <1>2, Layout
  <2> QED BY <1>2, <2>1, Layout, InExtent
<1>6. top[cur] - 1 \notin sp .. p - 1 /\ p <= top[cur] - 1
  BY <1>3
<1>7. PICK n \in 0 .. Len(frames[cur]) : Outside(p - 1) = SubSeq(frames[cur], 1, n)
  BY <1>2, <1>3, OutsideFacts DEF Progress, Pushed
<1>8. \A i \in DOMAIN frames'[cur] : i \in DOMAIN frames[cur] /\ frames'[cur][i] = frames[cur][i]
  BY <1>2, <1>4, <1>7, Begins
<1> QED BY <1>1, <1>4, <1>5, <1>6, <1>8

LEMMA JudgesNoReturn == ASSUME verdict' = NoReturn PROVE ReturnsJudged'
BY DEF ReturnsJudged, NoReturn, Judged

LEMMA WatchParts ==
  ASSUME WatchInv
  PROVE  /\ StackInv /\ StackTypes /\ Watch(call_stack, frames[cur], cur)
         /\ call_stack \in Seq(Calls) /\ Falls(call_stack)
         /\ cur \in Stacks /\ Other(cur) \in Stacks /\ Other(cur) # cur
         /\ frames \in [Stacks -> Seq(Frames)] /\ frames[cur] \in Seq(Frames)
         /\ \A i \in DOMAIN frames[cur] : frames[cur][i].slot \in Nat /\ frames[cur][i].slot >= sp
         /\ \A i, j \in DOMAIN frames[cur] : i < j => frames[cur][i].slot > frames[cur][j].slot
<1>1. /\ StackInv /\ StackTypes /\ Watch(call_stack, frames[cur], cur)
      /\ frames \in [Stacks -> Seq(Frames)] /\ cur \in Stacks
      /\ Pushed(frames[cur], bytes, sp, top[cur] - 1)
  BY DEF WatchInv, StackInv, StackTypes, Progress
<1> QED BY <1>1, Layout, SlotsAbove DEF Watch, Pushed

\* The calls stay.
LEMMA StayWatched ==
  ASSUME WatchInv, StackInv', Stays, frames' = frames, verdict' = NoReturn, InCommand',
         call_stack' = call_stack, last' = ABSENT => last = ABSENT
  PROVE  WatchInv'
<1>1. Watch(call_stack', frames'[cur], cur)
  BY WatchParts
<1> QED BY <1>1, JudgesNoReturn, InUseKeeps

LEMMA PushWatched == ASSUME WatchInv, Push PROVE WatchInv'
<1>1. PICK v \in Sites :
        Stored(v) /\ update_stack_pointer(check_write(bytes, sp - 1), call_stack, sp - 1)
  BY DEF Push
<1>2. /\ sp > base[cur] /\ sp' = sp - 1 /\ Stays /\ frames' = frames /\ verdict' = NoReturn
      /\ mem' = [mem EXCEPT ![sp - 1] = v]
  BY <1>1 DEF Push, Stored, Stays
<1>3. StackInv /\ StackInv'
  BY WatchParts, PushKeeps
<1>4. call_stack' = call_stack /\ (last' = ABSENT => last = ABSENT)
  BY <1>1, <1>2, <1>3, Pointed, StillTracked
<1>5. InCommand'
  BY <1>2, FallsInCommand
<1> QED BY <1>2, <1>3, <1>4, <1>5, StayWatched

LEMMA ReserveWatched == ASSUME WatchInv, Reserve PROVE WatchInv'
<1>1. /\ sp > base[cur] /\ sp' = sp - 1 /\ Stays /\ frames' = frames /\ verdict' = NoReturn
      /\ mem' = mem /\ update_stack_pointer(bytes, call_stack, sp - 1)
  BY DEF Reserve, Stays
<1>2. StackInv /\ StackInv'
  BY WatchParts, ReserveKeeps
<1>3. call_stack' = call_stack /\ (last' = ABSENT => last = ABSENT)
  BY <1>1, <1>2, Pointed, StillTracked
<1>4. InCommand'
  BY <1>1, FallsInCommand
<1> QED BY <1>1, <1>2, <1>3, <1>4, StayWatched

LEMMA WriteWatched == ASSUME WatchInv, Write PROVE WatchInv'
<1>1. PICK a \in sp .. top[cur] - 1, v \in Sites :
        /\ mem[a] \notin {v, ABSENT} /\ mem' = [mem EXCEPT ![a] = v]
        /\ update_stack_pointer(check_write(bytes, a), call_stack, sp)
  BY DEF Write
<1>2. Stays /\ sp' = sp /\ frames' = frames /\ verdict' = NoReturn
  BY DEF Write, Stays
<1>3. StackInv /\ StackInv'
  BY WatchParts, WriteKeeps
<1>4. call_stack' = call_stack /\ (last' = ABSENT => last = ABSENT)
  BY <1>1, <1>3, PointerTypes, StillTracked
<1>5. InCommand'
  <2> SUFFICES ASSUME how = "RunCommand", away # ABSENT PROVE mem'[top[cur] - 1] = ABSENT
    BY <1>2 DEF InCommand, Stays, WatchInv
  <2>1. mem[top[cur] - 1] = ABSENT
    BY DEF WatchInv, InCommand
  <2>2. mem \in [StackBytes -> Sites \union {JUNK, ABSENT}]
    BY <1>3 DEF StackInv, StackTypes
  <2>3. a # top[cur] - 1
    BY <1>1, <2>1
  <2> QED BY <1>1, <2>1, <2>2, <2>3
<1> QED BY <1>2, <1>3, <1>4, <1>5, StayWatched

LEMMA OtherInstructionWatched == ASSUME WatchInv, OtherInstruction PROVE WatchInv'
<1>1. /\ Stays /\ sp' = sp /\ frames' = frames /\ mem' = mem /\ verdict' = NoReturn
      /\ update_stack_pointer(bytes, call_stack, sp)
  BY DEF OtherInstruction, Stays
<1>2. StackInv /\ StackInv'
  BY WatchParts, OtherInstructionKeeps
<1>3. call_stack' = call_stack /\ (last' = ABSENT => last = ABSENT)
  BY <1>1, <1>2, PointerTypes, StillTracked
<1>4. InCommand'
  BY <1>1 DEF InCommand, Stays, WatchInv
<1> QED BY <1>1, <1>2, <1>3, <1>4, StayWatched

LEMMA ScribbleWatched == ASSUME WatchInv, Scribble PROVE WatchInv'
<1>1. /\ Stays /\ sp' = sp /\ frames' = frames /\ mem' = mem /\ verdict' = NoReturn
      /\ call_stack' = call_stack /\ last' = last
  BY DEF Scribble, Stays
<1>2. StackInv /\ StackInv'
  BY WatchParts, ScribbleKeeps
<1>3. InCommand'
  BY <1>1 DEF InCommand, Stays, WatchInv
<1> QED BY <1>1, <1>2, <1>3, StayWatched

LEMMA JsrWatched == ASSUME WatchInv, Jsr PROVE WatchInv'
<1>1. PICK r \in Sites :
        /\ Stored(r)
        /\ update_stack_pointer(check_write(bytes, sp - 1), record_call(call_stack, sp - 1, r), sp - 1)
        /\ frames' = [frames EXCEPT ![cur] = Called(sp - 1, r)]
  BY DEF Jsr
<1>2. sp > base[cur] /\ sp' = sp - 1 /\ Stays /\ verdict' = NoReturn
      /\ mem' = [mem EXCEPT ![sp - 1] = r]
  BY <1>1 DEF Jsr, Stored, Stays
<1>3. StackInv /\ StackInv'
  BY WatchParts, JsrKeeps
<1>4. sp - 1 \in Extent(cur) /\ sp - 1 \in Nat /\ sp \in Nat
  BY <1>2, <1>3, Pointed
<1>5. /\ call_stack' = record_call(call_stack, sp - 1, r) /\ (last' = ABSENT => last = ABSENT)
  BY <1>1, <1>3, <1>4, StillTracked
<1>6. frames'[cur] = Called(sp - 1, r) /\ frames'[Other(cur)] = frames[Other(cur)]
  BY <1>1, WatchParts
<1>7. \A i \in DOMAIN frames[cur] : frames[cur][i].slot >= sp - 1
  BY <1>4, WatchParts
<1>8. /\ Watch(call_stack', frames'[cur], cur)
      /\ \A i \in DOMAIN call_stack' : \/ call_stack'[i].slot_sp = sp - 1
                                       \/ \E j \in DOMAIN call_stack : call_stack'[i] = call_stack[j]
  BY <1>4, <1>5, <1>6, <1>7, WatchParts, RecordWatch
<1>9. InCommand'
  <2>1. ASSUME NEW i \in DOMAIN frames'[cur]
        PROVE  \/ frames'[cur][i].slot = sp - 1
               \/ \E j \in DOMAIN frames[cur] : frames'[cur][i].slot = frames[cur][j].slot
    <3>1. /\ Called(sp - 1, r) \in Seq(Frames) /\ Len(Called(sp - 1, r)) = Len(frames[cur]) + 1
          /\ \A j \in DOMAIN frames[cur] : Called(sp - 1, r)[j].slot = frames[cur][j].slot
          /\ Called(sp - 1, r)[Len(frames[cur]) + 1].slot = sp - 1
      BY <1>4, WatchParts, CalledFacts
    <3>2. /\ DOMAIN Called(sp - 1, r) = 1 .. Len(frames[cur]) + 1
          /\ DOMAIN frames[cur] = 1 .. Len(frames[cur]) /\ Len(frames[cur]) \in Nat
      BY <3>1, WatchParts, FramesSeq
    <3>3. i = Len(frames[cur]) + 1 \/ i \in DOMAIN frames[cur]
      BY <1>6, <3>2
    <3> QED BY <1>6, <3>1, <3>3
  <2> QED BY <1>2, <2>1, FallsInCommand
<1>10. \A i \in DOMAIN call_stack' : \/ call_stack'[i].slot_sp \in Extent(cur)
                                     \/ \E j \in DOMAIN call_stack : call_stack'[i] = call_stack[j]
  BY <1>4, <1>8
<1> QED BY <1>2, <1>3, <1>5, <1>6, <1>8, <1>9, <1>10, JudgesNoReturn, InUseKeeps

LEMMA LibraryCallWatched == ASSUME WatchInv, LibraryCall PROVE WatchInv'
<1> DEFINE q == sp - 1
           F == frames[cur]
<1>1. PICK r \in Sites :
        /\ update_stack_pointer(check_write(bytes, q), check_return(record_call(call_stack, q, r), q), q)
        /\ frames' = [frames EXCEPT ![cur] = SubSeq(Called(q, r), 1, Len(F))]
  BY DEF LibraryCall
<1> DEFINE N == Called(q, r)
           called == record_call(call_stack, q, r)
<1>2. sp > base[cur] /\ sp' = sp /\ Stays /\ verdict' = NoReturn /\ mem' = mem
  BY DEF LibraryCall, Stays
<1>3. StackInv /\ StackInv' /\ StackTypes
  BY WatchParts, LibraryCallKeeps
<1>4. q \in Extent(cur) /\ q \in Nat /\ sp \in Nat
  BY <1>2, <1>3, Pointed
<1>5. /\ call_stack' = check_return(called, q) /\ (last' = ABSENT => last = ABSENT)
  BY <1>1, <1>3, <1>4, StillTracked
<1>6. frames'[cur] = SubSeq(N, 1, Len(F)) /\ frames'[Other(cur)] = frames[Other(cur)]
  BY <1>1, WatchParts
<1>7. \A i \in DOMAIN F : F[i].slot \in Nat /\ F[i].slot > q
  BY <1>4, WatchParts
<1>8. /\ Watch(called, N, cur)
      /\ \A i \in DOMAIN called : \/ called[i].slot_sp = q
                                  \/ \E j \in DOMAIN call_stack : called[i] = call_stack[j]
  <2>1. \A i \in DOMAIN F : F[i].slot >= q
    BY <1>4, <1>7
  <2> QED BY <1>3, <1>4, <2>1, WatchParts, RecordWatch
<1>9. /\ N \in Seq(Frames) /\ Len(N) = Len(F) + 1
      /\ \A j \in DOMAIN F : N[j].slot = F[j].slot
      /\ N[Len(F) + 1].slot = q
  BY <1>3, <1>4, CalledFacts
<1>10. F \in Seq(Frames) /\ cur \in Stacks /\ \A i, j \in DOMAIN F : i < j => F[i].slot > F[j].slot
  BY WatchParts
<1> HIDE DEF q, F, N, called
<1>11. PICK n \in Nat : n = Len(F)
  BY <1>10, FramesSeq
<1>12. DOMAIN N = 1 .. n + 1 /\ DOMAIN F = 1 .. n
  BY <1>9, <1>10, <1>11, FramesSeq
<1>13. \A i \in DOMAIN N : i = n + 1 \/ i \in DOMAIN F
  BY <1>12
<1>14. \A i, j \in DOMAIN N : i < j => N[i].slot > N[j].slot
  <2> SUFFICES ASSUME NEW i \in DOMAIN N, NEW j \in DOMAIN N, i < j PROVE N[i].slot > N[j].slot
    OBVIOUS
  <2>1. i \in DOMAIN F
    BY <1>12
  <2> QED BY <1>7, <1>9, <1>10, <1>11, <1>13, <2>1
<1>15. \A i \in DOMAIN N : N[i].slot > q <=> i <= n
  <2> TAKE i \in DOMAIN N
  <2>1. CASE i = n + 1
    BY <1>4, <1>9, <1>11, <2>1
  <2>2. CASE i \in DOMAIN F
    <3>1. i <= n
      BY <1>12, <2>2
    <3> QED BY <1>7, <1>9, <2>2, <3>1
  <2> QED BY <1>13, <2>1, <2>2
<1>16. n \in 0 .. Len(N)
  BY <1>9, <1>11
<1>17. Watch(call_stack', frames'[cur], cur)
  BY <1>4, <1>5, <1>6, <1>8, <1>9, <1>10, <1>11, <1>14, <1>15, <1>16, CheckedWatch
<1>18. \A i \in DOMAIN call_stack' : \/ call_stack'[i].slot_sp \in Extent(cur)
                                     \/ \E j \in DOMAIN call_stack : call_stack'[i] = call_stack[j]
  <2>1. called \in Seq(Calls) /\ Falls(called)
    BY <1>8 DEF Watch
  <2> QED BY <1>4, <1>5, <1>8, <2>1, CheckedEntries
<1>19. InCommand'
  <2>1. \A i \in DOMAIN frames'[cur] :
          frames'[cur][i].slot = sp - 1 \/ \E j \in DOMAIN F : frames'[cur][i].slot = F[j].slot
    <3>1. \A i \in DOMAIN frames'[cur] : i \in 1 .. n /\ frames'[cur][i] = N[i]
      BY <1>6, <1>9, <1>11, <1>16, Begins
    <3> QED BY <1>9, <1>12, <3>1
  <2> QED BY <1>2, <2>1, FallsInCommand DEF F
<1> QED BY <1>2, <1>3, <1>5, <1>6, <1>17, <1>18, <1>19, JudgesNoReturn, InUseKeeps

\* A return through q, which may be above the stack pointer.
LEMMA ReturnsWatched ==
  ASSUME WatchInv, StackInv', NEW q \in sp .. top[cur] - 1, Rises(q + 1),
         update_stack_pointer(bytes, check_return(call_stack, q), q + 1),
         mem[q] # ABSENT, ReturnsJudged'
  PROVE  WatchInv'
<1>1. StackInv /\ StackTypes /\ sp \in Nat /\ top[cur] \in Nat /\ base[cur] \in Nat /\ base[cur] <= sp
      /\ cur \in Stacks
  BY WatchParts, PointerTypes
<1>2. q \in Nat /\ q + 1 \in Extent(cur) /\ q \in Extent(cur) /\ q + 1 \in sp + 1 .. top[cur] /\ q + 1 - 1 = q
  <2>1. /\ q \in Nat /\ q + 1 \in Nat /\ base[cur] <= q /\ q <= top[cur] /\ base[cur] <= q + 1
        /\ q + 1 <= top[cur] /\ q + 1 \in sp + 1 .. top[cur] /\ q + 1 - 1 = q
    BY <1>1
  <2> QED BY <1>1, <2>1, InExtent
<1>3. call_stack' = check_return(call_stack, q) /\ (last' = ABSENT => last = ABSENT)
  BY <1>1, <1>2, StillTracked
<1>4. frames'[cur] = Outside(q) /\ frames'[Other(cur)] = frames[Other(cur)] /\ Stays
  BY <1>2, WatchParts DEF Rises, Stays
<1>5. PICK n \in 0 .. Len(frames[cur]) :
         /\ Outside(q) = SubSeq(frames[cur], 1, n)
         /\ \A i \in DOMAIN frames[cur] : frames[cur][i].slot > q <=> i <= n
  BY <1>1, <1>2, WatchParts, OutsideFacts
<1>6. Watch(call_stack', frames'[cur], cur)
  BY <1>2, <1>3, <1>4, <1>5, WatchParts, CheckedWatch
<1>7. InCommand'
  BY <1>2, RisesInCommand
<1>8. \A i \in DOMAIN call_stack' : \E j \in DOMAIN call_stack : call_stack'[i] = call_stack[j]
  BY <1>2, <1>3, WatchParts, CheckedEntries
<1> QED BY <1>3, <1>4, <1>6, <1>7, <1>8, InUseKeeps

LEMMA RtsWatched == ASSUME WatchInv, Rts PROVE WatchInv'
<1> DEFINE F == frames[cur]
<1>1. /\ sp < top[cur] /\ mem[sp] \in Sites /\ Rises(sp + 1)
      /\ update_stack_pointer(bytes, check_return(call_stack, sp), sp + 1)
      /\ verdict' = Judged(Accuses(call_stack, sp, mem[sp]),
                           Returning /\ Innermost(cur).to # mem[sp],
                           Returning /\ Innermost(cur).watched)
  BY DEF Rts
<1>2. sp \in Nat /\ top[cur] \in Nat /\ sp \in Extent(cur) /\ StackInv' /\ cur \in Stacks
  BY WatchParts, PointerTypes, RtsKeeps
<1>3. sp \in sp .. top[cur] - 1 /\ mem[sp] # ABSENT
  BY <1>1, <1>2, AbsentAssumption
<1>4. F \in Seq(Frames) /\ Watch(call_stack, F, cur)
  BY WatchParts
<1>5. Returning <=> F # <<>> /\ F[Len(F)].slot = sp
  BY DEF Returning, Innermost
<1>6. Accuses(call_stack, sp, mem[sp]) => Returning /\ Innermost(cur).to # mem[sp]
  BY <1>2, <1>4, <1>5, AccusesMeans DEF Innermost
<1>7. Returning /\ Innermost(cur).to # mem[sp] /\ Innermost(cur).watched => Accuses(call_stack, sp, mem[sp])
  BY <1>2, <1>4, <1>5, AccusesWhen DEF Innermost
<1>8. ReturnsJudged'
  BY <1>1, <1>6, <1>7 DEF ReturnsJudged, Judged
<1> QED BY <1>1, <1>2, <1>3, <1>8, ReturnsWatched

\* What is accused is a return from the innermost call.
LEMMA NotAccused ==
  ASSUME WatchInv, NEW q \in Extent(cur), NEW x, frames[cur] # <<>> => Innermost(cur).slot # q
  PROVE  ~Accuses(call_stack, q, x)
BY WatchParts, AccusesMeans DEF Innermost

LEMMA LongjmpWatched == ASSUME WatchInv, Longjmp PROVE WatchInv'
<1>1. PICK p \in sp + 1 .. top[cur] - 1, r \in Sites :
        /\ mem[p] # ABSENT /\ Rises(p + 1)
        /\ update_stack_pointer(bytes, check_return(call_stack, p), p + 1)
        /\ verdict' = Judged(Accuses(call_stack, p, r), FALSE, FALSE)
  BY DEF Longjmp
<1>2. Returning
  BY DEF Longjmp
<1>3. /\ sp \in Nat /\ top[cur] \in Nat /\ base[cur] \in Nat /\ base[cur] <= sp /\ cur \in Stacks
      /\ StackInv'
  BY WatchParts, PointerTypes, LongjmpKeeps
<1>4. p \in Nat /\ p # sp /\ p \in sp .. top[cur] - 1 /\ base[cur] <= p /\ p <= top[cur]
  BY <1>3
<1>5. p \in Extent(cur)
  BY <1>3, <1>4, InExtent
<1>6. ~Accuses(call_stack, p, r)
  BY <1>2, <1>4, <1>5, NotAccused DEF Returning
<1>7. ReturnsJudged'
  BY <1>1, <1>6 DEF ReturnsJudged, Judged
<1> QED BY <1>1, <1>3, <1>4, <1>7, ReturnsWatched

\* Nothing but a return pops a return address.
LEMMA PopWatched == ASSUME WatchInv, Pop, ~Discards PROVE WatchInv'
<1> DEFINE F == frames[cur]
<1>1. /\ sp < top[cur] /\ mem[sp] # ABSENT /\ ~Returning /\ Rises(sp + 1) /\ verdict' = NoReturn
      /\ update_stack_pointer(bytes, call_stack, sp + 1)
  BY DEF Pop
<1>2. StackInv /\ StackTypes /\ StackInv' /\ sp \in Nat /\ top[cur] \in Nat /\ base[cur] \in Nat
      /\ base[cur] <= sp /\ cur \in Stacks
  BY WatchParts, PointerTypes, PopKeeps
<1>3. sp + 1 \in Nat /\ sp + 1 \in sp + 1 .. top[cur] /\ base[cur] <= sp + 1 /\ sp + 1 <= top[cur]
      /\ sp + 1 - 1 = sp
  BY <1>1, <1>2
<1>4. sp + 1 \in Extent(cur)
  BY <1>2, <1>3, InExtent
<1>5. call_stack' = call_stack /\ (last' = ABSENT => last = ABSENT)
  BY <1>1, <1>2, <1>4, StillTracked
<1> DEFINE p == sp + 1
<1>6. Rises(p) /\ p - 1 = sp /\ p \in sp + 1 .. top[cur]
  BY <1>1, <1>2, <1>3
<1> HIDE DEF p
<1>7. frames'[cur] = Outside(sp) /\ frames'[Other(cur)] = frames[Other(cur)] /\ Stays
  BY <1>6, WatchParts DEF Rises, Stays
<1>8. PICK n \in 0 .. Len(F) :
         /\ Outside(sp) = SubSeq(F, 1, n)
         /\ \A i \in DOMAIN F : F[i].slot > sp <=> i <= n
  <2>1. \A i, j \in DOMAIN F : i < j => F[i].slot > F[j].slot
    BY WatchParts
  <2> QED BY <1>2, <2>1, OutsideFacts
<1>9. /\ F \in Seq(Frames)
      /\ \A i \in DOMAIN F : F[i].slot \in Nat /\ F[i].slot >= sp
      /\ \A i, j \in DOMAIN F : i < j => F[i].slot > F[j].slot
  BY WatchParts
<1>10. F # <<>> => F[Len(F)].slot # sp
  BY <1>1 DEF Returning, Innermost
<1> HIDE DEF F
<1>11. PICK f \in Nat : f = Len(F)
  BY <1>9, FramesSeq
<1>12. n = f
  <2>1. CASE f = 0
    BY <1>8, <1>11, <2>1
  <2>2. CASE f > 0
    <3>1. f \in DOMAIN F
      BY <1>9, <1>11, <2>2, FramesSeq
    <3>2. F[f].slot > sp
      <4>1. F # <<>>
        BY <1>11, <2>2, EmptySeq
      <4> QED BY <1>2, <1>9, <1>10, <1>11, <3>1, <4>1
    <3> QED BY <1>8, <1>11, <3>1, <3>2
  <2> QED BY <1>11, <2>1, <2>2
<1>13. frames'[cur] = F
  <2>1. Outside(sp) = SubSeq(F, 1, Len(F))
    BY <1>8, <1>11, <1>12
  <2> QED BY <1>7, <1>9, <2>1, SubSeqFull
<1>14. Watch(call_stack', frames'[cur], cur)
  <2>1. Watch(call_stack, F, cur)
    BY WatchParts DEF F
  <2> QED BY <1>5, <1>13, <2>1
<1>15. InCommand'
  BY <1>1, <1>6, RisesInCommand
<1> QED BY <1>1, <1>2, <1>5, <1>7, <1>14, <1>15, JudgesNoReturn, InUseKeeps

-----------------------------------------------------------------------------
(* The actions that leave the stack. *)

LEMMA TakenWatched ==
  ASSUME WatchInv, StackInv', last # ABSENT, NEW p \in Extent(Other(cur)), NEW pushed \in {0, 1},
         p - pushed >= base[Other(cur)], NEW sh, Taken(Other(cur), p, pushed, sh), InCommand'
  PROVE  WatchInv'
<1> DEFINE s == Other(cur)
           q == p - pushed
<1>1. /\ cur' = s /\ frames' = Unwatched(frames) /\ verdict' = NoReturn
      /\ reset_stack_tracking(sh, s, q)
  BY DEF Taken
<1>2. call_stack' = <<>> /\ last' = q
  BY <1>1 DEF reset_stack_tracking
<1>3. StackTypes /\ s \in Stacks
  BY WatchParts
<1>4. frames'[s] \in Seq(Frames) /\ \A i \in DOMAIN frames'[s] : ~frames'[s][i].watched
  BY <1>1, <1>3, UnwatchedFacts
<1>5. Watch(call_stack', frames'[cur'], cur')
  BY <1>1, <1>2, <1>4, EmptyWatch
<1>6. last' # ABSENT
  <2>1. p \in Nat /\ base[s] \in Nat
    BY <1>3, Layout, InExtent
  <2>2. q \in Nat
    BY <2>1
  <2> QED BY <1>2, <2>2, AbsentAssumption
<1>7. Apart'
  BY <1>6 DEF Apart
<1> QED BY <1>1, <1>5, <1>7, JudgesNoReturn DEF WatchInv

LEMMA StackSwapWatched == ASSUME WatchInv, StackSwap PROVE WatchInv'
<1>1. /\ how = "StackSwap" /\ how' = how /\ away > base[Other(cur)]
      /\ Taken(Other(cur), away, 1, check_write(bytes, away - 1))
  BY DEF StackSwap, Taken
<1>2. StackInv /\ StackInv' /\ last # ABSENT /\ away # ABSENT
  BY <1>1, WatchParts, StackSwapKeeps DEF StackInv, StackTypes
<1>3. away \in Extent(Other(cur)) /\ away - 1 >= base[Other(cur)]
  BY <1>1, <1>2, AwayTypes
<1>4. InCommand'
  BY <1>1 DEF InCommand
<1> QED BY <1>1, <1>2, <1>3, <1>4, TakenWatched

LEMMA SwitchTasksWatched == ASSUME WatchInv, SwitchTasks PROVE WatchInv'
<1>1. how = "Wait" /\ how' = how /\ Taken(Other(cur), away, 0, bytes)
  BY DEF SwitchTasks, Taken
<1>2. StackInv /\ StackInv' /\ last # ABSENT /\ away # ABSENT
  BY <1>1, WatchParts, SwitchTasksKeeps DEF StackInv, StackTypes
<1>3. away \in Extent(Other(cur)) /\ away - 0 >= base[Other(cur)]
  BY <1>2, AwayTypes
<1>4. InCommand'
  BY <1>1 DEF InCommand
<1> QED BY <1>1, <1>2, <1>3, <1>4, TakenWatched

LEMMA RunCommandWatched == ASSUME WatchInv, RunCommand PROVE WatchInv'
<1> DEFINE s == Other(cur)
<1>1. /\ how = "RunCommand" /\ away = ABSENT
      /\ Taken(s, top[s] - 1, 1, clear_stack_region(bytes, s))
      /\ mem' = [mem EXCEPT ![top[s] - 1] = ABSENT]
      /\ cur' = s /\ sp' = top[s] - 1 /\ frames' = Unwatched(frames)
  BY DEF RunCommand, Taken
<1>2. /\ StackInv /\ StackInv' /\ last # ABSENT /\ frames[s] = <<>> /\ s \in Stacks /\ StackTypes
      /\ mem \in [StackBytes -> Sites \union {JUNK, ABSENT}]
  BY <1>1, WatchParts, RunCommandKeeps DEF StackInv, StackTypes, Progress
<1>3. top[s] - 1 \in Extent(s) /\ top[s] - 1 - 1 >= base[s] /\ top[s] \in Nat
  BY <1>2, Layout, InExtent
<1>4. mem'[top[s] - 1] = ABSENT
  BY <1>1, <1>2, <1>3, Layout
<1>5. DOMAIN frames'[s] = {}
  <2>1. DOMAIN frames'[s] = DOMAIN frames[s]
    BY <1>1, <1>2, UnwatchedFacts
  <2> QED BY <1>2, <2>1
<1>6. InCommand'
  <2>1. sp' <= top[s] - 1
    BY <1>1, <1>3
  <2> QED BY <1>1, <1>4, <1>5, <2>1 DEF InCommand
<1> QED BY <1>1, <1>2, <1>3, <1>6, TakenWatched

LEMMA CommandReturnsWatched == ASSUME WatchInv, CommandReturns PROVE WatchInv'
<1> DEFINE s == Other(cur)
<1>1. /\ how = "RunCommand" /\ away # ABSENT /\ away > base[s] /\ sp = top[cur] - 1 /\ cur' = s
      /\ away' = ABSENT /\ how' = how
      /\ reset_stack_tracking(bytes, s, away - 1)
      /\ frames' = [Unwatched(frames) EXCEPT ![cur] = <<>>]
      /\ verdict' = Judged(Accuses(call_stack, sp, ABSENT), FALSE, FALSE)
  BY DEF CommandReturns
<1>2. call_stack' = <<>> /\ last' = away - 1
  BY <1>1 DEF reset_stack_tracking
<1>3. /\ StackTypes /\ s \in Stacks /\ s # cur /\ cur \in Stacks /\ StackInv /\ StackInv'
      /\ frames[cur] \in Seq(Frames) /\ sp \in Extent(cur) /\ sp \in Nat
  BY WatchParts, PointerTypes, CommandReturnsKeeps
<1>4. frames'[s] \in Seq(Frames) /\ \A i \in DOMAIN frames'[s] : ~frames'[s][i].watched
  <2>1. /\ Unwatched(frames) \in [Stacks -> Seq(Frames)]
        /\ \A i \in DOMAIN Unwatched(frames)[s] : ~Unwatched(frames)[s][i].watched
    BY <1>3, UnwatchedFacts
  <2> QED BY <1>1, <1>3, <2>1
<1>5. Watch(call_stack', frames'[cur'], cur')
  BY <1>1, <1>2, <1>4, EmptyWatch
<1>6. Apart'
  <2>1. away - 1 \in Nat
    BY <1>1, <1>3, AwayTypes
  <2>2. last' # ABSENT
    BY <1>2, <2>1, AbsentAssumption
  <2> QED BY <2>2 DEF Apart
<1>7. InCommand'
  BY <1>1 DEF InCommand
<1>8. ~Accuses(call_stack, sp, ABSENT)
  <2>1. \A i \in DOMAIN frames[cur] : frames[cur][i].slot < top[cur] - 1
    BY <1>1 DEF WatchInv, InCommand
  <2>2. frames[cur] # <<>> => Len(frames[cur]) \in DOMAIN frames[cur]
    BY <1>3, FramesSeq, EmptySeq
  <2>3. frames[cur] # <<>> => Innermost(cur).slot # sp
    BY <1>1, <1>3, <2>1, <2>2 DEF Innermost
  <2> QED BY <1>3, <2>3, NotAccused
<1>9. ReturnsJudged'
  BY <1>1, <1>8 DEF ReturnsJudged, Judged
<1> QED BY <1>3, <1>5, <1>6, <1>7, <1>9 DEF WatchInv

LEMMA MoveSPWatched == ASSUME WatchInv, MoveSP PROVE WatchInv'
<1> DEFINE s == Other(cur)
<1>1. /\ how = "move" /\ how' = how /\ cur' = s
      /\ update_stack_pointer(bytes, call_stack, away)
      /\ frames' = IF last # ABSENT THEN Unwatched(frames) ELSE frames
      /\ verdict' = NoReturn
  BY DEF MoveSP
<1>2. /\ StackInv /\ StackInv' /\ StackTypes /\ s \in Stacks /\ Other(s) = cur /\ cur \in Stacks
      /\ away # ABSENT
  BY <1>1, WatchParts, MoveSPKeeps, Layout DEF StackTypes
<1>3. /\ last' = IF last = ABSENT THEN away ELSE ABSENT
      /\ call_stack' = IF last = ABSENT THEN call_stack ELSE <<>>
  BY <1>1, <1>2, MoveSPMarks
<1>4. InCommand'
  BY <1>1 DEF InCommand
<1>5. CASE last = ABSENT
  <2>1. /\ \A i \in DOMAIN call_stack : call_stack[i].slot_sp \in Extent(cur)
        /\ \A i \in DOMAIN frames[s] : ~frames[s][i].watched
    BY <1>5 DEF WatchInv, Apart
  <2>2. \A i \in DOMAIN call_stack : call_stack[i].slot_sp \notin Extent(s)
    BY <1>2, <2>1, Layout
  <2>3. /\ call_stack \in Seq(Calls) /\ Falls(call_stack) /\ Len(call_stack) <= MAX_CALL_STACK_DEPTH
        /\ frames[s] \in Seq(Frames)
    BY <1>2, WatchParts DEF Watch
  <2>4. Watch(call_stack, frames[s], s)
    BY <2>1, <2>2, <2>3, AloneWatch
  <2>5. Watch(call_stack', frames'[cur'], cur')
    BY <1>1, <1>3, <1>5, <2>4
  <2>6. Apart'
    BY <1>2, <1>3, <1>5 DEF Apart
  <2> QED BY <1>1, <1>2, <1>4, <2>5, <2>6, JudgesNoReturn DEF WatchInv
<1>6. CASE last # ABSENT
  <2>1. \A t \in Stacks : /\ frames'[t] \in Seq(Frames)
                          /\ \A i \in DOMAIN frames'[t] : ~frames'[t][i].watched
    BY <1>1, <1>2, <1>6, UnwatchedFacts
  <2>2. Watch(call_stack', frames'[cur'], cur')
    BY <1>1, <1>2, <1>3, <1>6, <2>1, EmptyWatch
  <2>3. Apart'
    BY <1>1, <1>2, <1>3, <1>6, <2>1 DEF Apart
  <2> QED BY <1>1, <1>2, <1>4, <2>2, <2>3, JudgesNoReturn DEF WatchInv
<1> QED BY <1>5, <1>6

-----------------------------------------------------------------------------

LEMMA WatchInvInit == StackInit => WatchInv
<1> SUFFICES ASSUME StackInit PROVE WatchInv
  OBVIOUS
<1>1. /\ cur \in Stacks /\ sp = top[cur] /\ last = sp /\ call_stack = <<>> /\ verdict = NoReturn
      /\ frames = [t \in Stacks |-> <<>>]
      /\ (how = "RunCommand" => away = ABSENT)
  BY DEF StackInit
<1>2. frames[cur] = <<>> /\ <<>> \in Seq(Frames) /\ \A i \in DOMAIN <<>> : ~<<>>[i].watched
  BY <1>1
<1>3. Watch(call_stack, frames[cur], cur)
  BY <1>1, <1>2, EmptyWatch
<1>4. last # ABSENT
  BY <1>1, Layout, AbsentAssumption
<1> QED BY <1>1, <1>3, <1>4, StackInvInit
        DEF WatchInv, Apart, InCommand, ReturnsJudged, NoReturn, Judged

LEMMA WatchInvNext == ASSUME ~Discards PROVE WatchInv /\ [StackNext]_stackVars => WatchInv'
<1> SUFFICES ASSUME WatchInv, [StackNext]_stackVars PROVE WatchInv'
  OBVIOUS
<1>1. CASE UNCHANGED stackVars
  <2>1. StackInv'
    BY <1>1, WatchParts, StackInvNext
  <2> QED BY <1>1, <2>1 DEF stackVars, WatchInv, Apart, InCommand, ReturnsJudged
<1>2. CASE StackNext
  BY <1>2, JsrWatched, PushWatched, ReserveWatched, PopWatched, RtsWatched, LongjmpWatched,
     WriteWatched, ScribbleWatched, OtherInstructionWatched, LibraryCallWatched, StackSwapWatched,
     RunCommandWatched, CommandReturnsWatched, SwitchTasksWatched, MoveSPWatched DEF StackNext
<1> QED BY <1>1, <1>2

\* A return by the address that the call left is not accused, and one by an
\* overwritten address is while the call is on the shadow call stack, whatever
\* stacks, calls, longjmps and library calls come between.
THEOREM ReturnsAreJudged == ASSUME ~Discards PROVE StackSpec => []ReturnsJudged
<1>1. WatchInv => ReturnsJudged
  BY DEF WatchInv
<1> QED BY <1>1, WatchInvInit, WatchInvNext, PTL DEF StackSpec
==============================================================================
