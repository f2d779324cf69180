-------------------------- MODULE GuestHeapProofs ---------------------------
(***************************************************************************)
(* The heap never loses an address nor gives it twice, its byte count of   *)
(* the quarantine never drifts, and it implements Arena, for every memory  *)
(* size and all requests of more than 0 bytes.                             *)
(***************************************************************************)
EXTENDS GuestHeap, SequenceTheorems, FiniteSetTheorems, TLAPS

\* No handler asks for 0 bytes.
Sized == \A r \in Requests : r[1] > 0

\* Free lists as values, so that lemmas can speak of the old and the new one.
Covers(b, x) == b.start <= x /\ x < EndOf(b)
SpareOf(F) == UNION {Span(F[i].start, EndOf(F[i])) : i \in DOMAIN F}
Ordered(F) ==
  /\ \A i \in 1..Len(F) : F[i].size > 0
  /\ \A i, j \in 1..Len(F) : i < j => EndOf(F[i]) < F[j].start
Before(F, G) == \A m \in 1..Len(F), k \in 1..Len(G) : EndOf(F[m]) < G[k].start

-----------------------------------------------------------------------------
(* What align_up returns, and what a free list made of three parts covers. *)

LEMMA AlignUp ==
  ASSUME NEW v \in Word
  PROVE  align_up(v) \in Word /\ (v > 0 => align_up(v) > 0)
<1>1. MaxWord \in Nat /\ MaxWord > 3
  BY WordAssumption
<1>2. CASE v + 3 > MaxWord
  BY <1>1, <1>2 DEF align_up, Word
<1>3. CASE v + 3 <= MaxWord
  <2>1. ((v + 3) \div 4) * 4 \in 0..(v + 3)
    BY <1>1 DEF Word
  <2>2. v > 0 => ((v + 3) \div 4) * 4 > 0
    BY <1>1 DEF Word
  <2> QED
    BY <1>1, <1>3, <2>1, <2>2 DEF align_up, Word
<1> QED
  BY <1>1, <1>2, <1>3 DEF Word

LEMMA ConcatElements ==
  ASSUME NEW S, NEW P \in Seq(S), NEW B \in Seq(S), NEW R \in Seq(S)
  PROVE  /\ P \o B \o R \in Seq(S)
         /\ Len(P \o B \o R) = Len(P) + Len(B) + Len(R)
         /\ \A k \in 1..Len(P) : (P \o B \o R)[k] = P[k]
         /\ \A k \in 1..Len(B) : (P \o B \o R)[Len(P) + k] = B[k]
         /\ \A k \in 1..Len(R) : (P \o B \o R)[Len(P) + Len(B) + k] = R[k]
OBVIOUS

LEMMA BlockFields ==
  ASSUME NEW F \in Seq(FreeBlock), NEW i \in 1..Len(F)
  PROVE  /\ F[i] \in FreeBlock
         /\ F[i].start \in Nat /\ F[i].size \in Nat
         /\ EndOf(F[i]) \in Nat /\ EndOf(F[i]) = F[i].start + F[i].size
<1>1. F[i] \in FreeBlock
  BY ElementOfSeq
<1> QED
  BY <1>1, WordAssumption DEF FreeBlock, Word, EndOf

LEMMA InSpare ==
  ASSUME NEW F \in Seq(FreeBlock), NEW x
  PROVE  x \in SpareOf(F) <=> x \in Int /\ \E i \in 1..Len(F) : Covers(F[i], x)
<1>1. \A i \in 1..Len(F) : F[i].start \in Int /\ EndOf(F[i]) \in Int
  BY BlockFields
<1>2. DOMAIN F = 1..Len(F)
  BY LenProperties
<1>3. ASSUME NEW i \in 1..Len(F)
      PROVE  x \in Span(F[i].start, EndOf(F[i])) <=> x \in Int /\ Covers(F[i], x)
  BY <1>1 DEF Span, Covers
<1> QED
  BY <1>2, <1>3 DEF SpareOf

LEMMA SpareConcat ==
  ASSUME NEW P \in Seq(FreeBlock), NEW B \in Seq(FreeBlock), NEW R \in Seq(FreeBlock)
  PROVE  SpareOf(P \o B \o R) = SpareOf(P) \union SpareOf(B) \union SpareOf(R)
<1> DEFINE G == P \o B \o R
           p == Len(P)
           b == Len(B)
           r == Len(R)
<1>1. p \in Nat /\ b \in Nat /\ r \in Nat
  BY LenProperties
<1>2. /\ G \in Seq(FreeBlock)
      /\ Len(G) = p + b + r
      /\ \A k \in 1..p : G[k] = P[k]
      /\ \A k \in 1..b : G[p + k] = B[k]
      /\ \A k \in 1..r : G[p + b + k] = R[k]
  BY ConcatElements
<1>3. ASSUME NEW x
      PROVE  /\ x \in SpareOf(G) <=> x \in Int /\ \E k \in 1..Len(G) : Covers(G[k], x)
             /\ x \in SpareOf(P) <=> x \in Int /\ \E k \in 1..p : Covers(P[k], x)
             /\ x \in SpareOf(B) <=> x \in Int /\ \E k \in 1..b : Covers(B[k], x)
             /\ x \in SpareOf(R) <=> x \in Int /\ \E k \in 1..r : Covers(R[k], x)
  BY <1>2, InSpare
<1> HIDE DEF G, p, b, r
<1>4. ASSUME NEW k \in 1..Len(G)
      PROVE  \/ k \in 1..p /\ G[k] = P[k]
             \/ \E m \in 1..b : G[k] = B[m]
             \/ \E m \in 1..r : G[k] = R[m]
  <2>1. CASE k <= p
    BY <1>1, <1>2, <2>1
  <2>2. CASE p < k /\ k <= p + b
    <3>1. k - p \in 1..b /\ p + (k - p) = k
      BY <1>1, <2>2
    <3> QED
      BY <1>2, <3>1
  <2>3. CASE p + b < k
    <3> DEFINE m == k - (p + b)
    <3>1. m \in 1..r /\ p + b + m = k
      BY <1>1, <1>2, <2>3
    <3> HIDE DEF m
    <3> QED
      BY <1>2, <3>1
  <2> QED
    BY <1>1, <1>2, <2>1, <2>2, <2>3
<1>5. /\ \A m \in 1..p : m \in 1..Len(G)
      /\ \A m \in 1..b : p + m \in 1..Len(G)
      /\ \A m \in 1..r : p + b + m \in 1..Len(G)
  BY <1>1, <1>2
<1>6. ASSUME NEW x
      PROVE  x \in SpareOf(G) <=> x \in SpareOf(P) \/ x \in SpareOf(B) \/ x \in SpareOf(R)
  <2>1. ASSUME x \in SpareOf(G)
        PROVE  x \in SpareOf(P) \/ x \in SpareOf(B) \/ x \in SpareOf(R)
    BY <1>3, <1>4, <2>1
  <2>2. ASSUME x \in SpareOf(P) \/ x \in SpareOf(B) \/ x \in SpareOf(R)
        PROVE  x \in SpareOf(G)
    BY <1>2, <1>3, <1>5, <2>2
  <2> QED
    BY <2>1, <2>2
<1> QED
  BY <1>6 DEF G

(* Three parts in order, each wholly before the next, are in order. *)
LEMMA OrderedConcat ==
  ASSUME NEW P \in Seq(FreeBlock), NEW B \in Seq(FreeBlock), NEW R \in Seq(FreeBlock),
         Ordered(P), Ordered(B), Ordered(R),
         Before(P, B), Before(B, R), Before(P, R)
  PROVE  Ordered(P \o B \o R)
<1> DEFINE G == P \o B \o R
           p == Len(P)
           b == Len(B)
           r == Len(R)
<1>1. p \in Nat /\ b \in Nat /\ r \in Nat
  BY LenProperties
<1>2. /\ G \in Seq(FreeBlock)
      /\ Len(G) = p + b + r
      /\ \A k \in 1..p : G[k] = P[k]
      /\ \A k \in 1..b : G[p + k] = B[k]
      /\ \A k \in 1..r : G[p + b + k] = R[k]
  BY ConcatElements
<1>3. /\ \A m \in 1..p : P[m].size > 0
      /\ \A m \in 1..b : B[m].size > 0
      /\ \A m \in 1..r : R[m].size > 0
      /\ \A m, n \in 1..p : m < n => EndOf(P[m]) < P[n].start
      /\ \A m, n \in 1..b : m < n => EndOf(B[m]) < B[n].start
      /\ \A m, n \in 1..r : m < n => EndOf(R[m]) < R[n].start
      /\ \A m \in 1..p, n \in 1..b : EndOf(P[m]) < B[n].start
      /\ \A m \in 1..b, n \in 1..r : EndOf(B[m]) < R[n].start
      /\ \A m \in 1..p, n \in 1..r : EndOf(P[m]) < R[n].start
  BY DEF Ordered, Before
<1> HIDE DEF G, p, b, r
<1>4. ASSUME NEW k \in 1..Len(G)
      PROVE  \/ k \in 1..p /\ G[k] = P[k]
             \/ \E m \in 1..b : k = p + m /\ G[k] = B[m]
             \/ \E m \in 1..r : k = p + b + m /\ G[k] = R[m]
  <2>1. CASE k <= p
    BY <1>1, <1>2, <2>1
  <2>2. CASE p < k /\ k <= p + b
    <3>1. k - p \in 1..b /\ p + (k - p) = k
      BY <1>1, <2>2
    <3> QED
      BY <1>2, <3>1
  <2>3. CASE p + b < k
    <3> DEFINE m == k - (p + b)
    <3>1. m \in 1..r /\ p + b + m = k
      BY <1>1, <1>2, <2>3
    <3> HIDE DEF m
    <3> QED
      BY <1>2, <3>1
  <2> QED
    BY <1>1, <1>2, <2>1, <2>2, <2>3
<1>5. ASSUME NEW k \in 1..Len(G)
      PROVE  G[k].size > 0
  BY <1>3, <1>4
<1>6. ASSUME NEW k \in 1..Len(G), NEW l \in 1..Len(G), k < l
      PROVE  EndOf(G[k]) < G[l].start
  <2>1. CASE k \in 1..p /\ G[k] = P[k]
    <3>1. CASE l \in 1..p /\ G[l] = P[l]
      BY <1>3, <1>6, <2>1, <3>1
    <3>2. CASE \E n \in 1..b : l = p + n /\ G[l] = B[n]
      BY <1>3, <2>1, <3>2
    <3>3. CASE \E n \in 1..r : l = p + b + n /\ G[l] = R[n]
      BY <1>3, <2>1, <3>3
    <3> QED
      BY <1>4, <3>1, <3>2, <3>3
  <2>2. CASE \E m \in 1..b : k = p + m /\ G[k] = B[m]
    <3>1. PICK m \in 1..b : k = p + m /\ G[k] = B[m]
      BY <2>2
    <3>2. ~(l \in 1..p)
      BY <1>1, <1>6, <3>1
    <3>3. CASE \E n \in 1..b : l = p + n /\ G[l] = B[n]
      <4>1. PICK n \in 1..b : l = p + n /\ G[l] = B[n]
        BY <3>3
      <4>2. m < n
        BY <1>1, <1>6, <3>1, <4>1
      <4> QED
        BY <1>3, <3>1, <4>1, <4>2
    <3>4. CASE \E n \in 1..r : l = p + b + n /\ G[l] = R[n]
      BY <1>3, <3>1, <3>4
    <3> QED
      BY <1>4, <3>2, <3>3, <3>4
  <2>3. CASE \E m \in 1..r : k = p + b + m /\ G[k] = R[m]
    <3>1. PICK m \in 1..r : k = p + b + m /\ G[k] = R[m]
      BY <2>3
    <3>2. ~(l \in 1..p) /\ ~(\E n \in 1..b : l = p + n)
      BY <1>1, <1>6, <3>1
    <3>3. PICK n \in 1..r : l = p + b + n /\ G[l] = R[n]
      BY <1>4, <3>2
    <3>4. m < n
      BY <1>1, <1>6, <3>1, <3>3
    <3> QED
      BY <1>3, <3>1, <3>3, <3>4
  <2> QED
    BY <1>4, <2>1, <2>2, <2>3
<1> QED
  BY <1>5, <1>6 DEF Ordered, G

(* A free list is what lies before its entries i..j, these, and what follows. *)
LEMMA Parts ==
  ASSUME NEW S, NEW F \in Seq(S), NEW i \in 1..(Len(F) + 1), NEW j \in (i - 1)..Len(F)
  PROVE  /\ SubSeq(F, 1, i - 1) \in Seq(S)
         /\ SubSeq(F, i, j) \in Seq(S)
         /\ SubSeq(F, j + 1, Len(F)) \in Seq(S)
         /\ Len(SubSeq(F, 1, i - 1)) = i - 1
         /\ Len(SubSeq(F, i, j)) = j - i + 1
         /\ Len(SubSeq(F, j + 1, Len(F))) = Len(F) - j
         /\ \A k \in 1..(i - 1) : SubSeq(F, 1, i - 1)[k] = F[k]
         /\ \A k \in 1..(j - i + 1) : SubSeq(F, i, j)[k] = F[i + k - 1]
         /\ \A k \in 1..(Len(F) - j) : SubSeq(F, j + 1, Len(F))[k] = F[j + k]
OBVIOUS

LEMMA PartsMakeWhole ==
  ASSUME NEW S, NEW F \in Seq(S), NEW i \in 1..(Len(F) + 1), NEW j \in (i - 1)..Len(F)
  PROVE  SubSeq(F, 1, i - 1) \o SubSeq(F, i, j) \o SubSeq(F, j + 1, Len(F)) = F
<1> DEFINE P == SubSeq(F, 1, i - 1)
           M == SubSeq(F, i, j)
           R == SubSeq(F, j + 1, Len(F))
           G == P \o M \o R
<1>1. /\ P \in Seq(S) /\ M \in Seq(S) /\ R \in Seq(S)
      /\ Len(P) = i - 1 /\ Len(M) = j - i + 1 /\ Len(R) = Len(F) - j
      /\ \A k \in 1..(i - 1) : P[k] = F[k]
      /\ \A k \in 1..(j - i + 1) : M[k] = F[i + k - 1]
      /\ \A k \in 1..(Len(F) - j) : R[k] = F[j + k]
  BY Parts
<1>2. P \in Seq(S) /\ M \in Seq(S) /\ R \in Seq(S)
  BY <1>1
<1> HIDE DEF P, M, R
<1>3. /\ G \in Seq(S)
      /\ Len(G) = Len(P) + Len(M) + Len(R)
      /\ \A k \in 1..Len(P) : G[k] = P[k]
      /\ \A k \in 1..Len(M) : G[Len(P) + k] = M[k]
      /\ \A k \in 1..Len(R) : G[Len(P) + Len(M) + k] = R[k]
  BY <1>2, ConcatElements
<1> HIDE DEF G
<1>4. Len(F) \in Nat
  BY LenProperties
<1>5. Len(G) = Len(F)
  BY <1>1, <1>3, <1>4
<1>6. ASSUME NEW k \in 1..Len(G)
      PROVE  G[k] = F[k]
  <2>1. CASE k <= i - 1
    <3>1. k \in 1..(i - 1) /\ Len(P) = i - 1
      BY <1>1, <2>1
    <3>2. G[k] = P[k]
      BY <1>3, <3>1
    <3>3. P[k] = F[k]
      BY <1>1, <3>1
    <3> QED
      BY <3>2, <3>3
  <2>2. CASE i - 1 < k /\ k <= j
    <3>1. k - (i - 1) \in 1..(j - i + 1) /\ Len(P) + (k - (i - 1)) = k
      BY <1>1, <1>4, <2>2
    <3>2. G[k] = M[k - (i - 1)]
      BY <1>1, <1>3, <3>1
    <3>3. M[k - (i - 1)] = F[i + (k - (i - 1)) - 1] /\ i + (k - (i - 1)) - 1 = k
      BY <1>1, <3>1
    <3> QED
      BY <3>2, <3>3
  <2>3. CASE j < k
    <3>1. k - j \in 1..(Len(F) - j) /\ Len(P) + Len(M) + (k - j) = k /\ j + (k - j) = k
      BY <1>1, <1>4, <1>5, <2>3
    <3>2. G[k] = R[k - j]
      BY <1>1, <1>3, <3>1
    <3> QED
      BY <1>1, <3>1, <3>2
  <2> QED
    BY <1>4, <2>1, <2>2, <2>3
<1>7. G = F
  BY <1>3, <1>5, <1>6, SeqEqual
<1> QED
  BY <1>7 DEF G, P, M, R

(* The parts of a list in order are in order, one wholly before the next. *)
LEMMA OrderedParts ==
  ASSUME NEW P \in Seq(FreeBlock), NEW B \in Seq(FreeBlock), NEW R \in Seq(FreeBlock),
         Ordered(P \o B \o R)
  PROVE  /\ Ordered(P) /\ Ordered(B) /\ Ordered(R)
         /\ Before(P, B) /\ Before(B, R) /\ Before(P, R)
<1> DEFINE G == P \o B \o R
           p == Len(P)
           b == Len(B)
           r == Len(R)
<1>1. p \in Nat /\ b \in Nat /\ r \in Nat
  BY LenProperties
<1>2. /\ Len(G) = p + b + r
      /\ \A k \in 1..p : G[k] = P[k]
      /\ \A k \in 1..b : G[p + k] = B[k]
      /\ \A k \in 1..r : G[p + b + k] = R[k]
  BY ConcatElements
<1>3. /\ \A k \in 1..Len(G) : G[k].size > 0
      /\ \A k, l \in 1..Len(G) : k < l => EndOf(G[k]) < G[l].start
  BY DEF Ordered
<1> HIDE DEF G, p, b, r
<1>4. /\ \A k \in 1..p : k \in 1..Len(G)
      /\ \A k \in 1..b : p + k \in 1..Len(G)
      /\ \A k \in 1..r : p + b + k \in 1..Len(G)
  BY <1>1, <1>2
<1>5. /\ \A k \in 1..p : P[k].size > 0
      /\ \A k \in 1..b : B[k].size > 0
      /\ \A k \in 1..r : R[k].size > 0
  BY <1>2, <1>3, <1>4
<1>6. \A k, l \in 1..p : k < l => EndOf(P[k]) < P[l].start
  BY <1>2, <1>3, <1>4
<1>7. ASSUME NEW k \in 1..b, NEW l \in 1..b, k < l
      PROVE  EndOf(B[k]) < B[l].start
  <2>1. p + k < p + l
    BY <1>1, <1>7
  <2> QED
    BY <1>2, <1>3, <1>4, <2>1
<1>8. ASSUME NEW k \in 1..r, NEW l \in 1..r, k < l
      PROVE  EndOf(R[k]) < R[l].start
  <2>1. p + b + k < p + b + l
    BY <1>1, <1>8
  <2> QED
    BY <1>2, <1>3, <1>4, <2>1
<1>9. ASSUME NEW k \in 1..p, NEW l \in 1..b
      PROVE  EndOf(P[k]) < B[l].start
  <2>1. k < p + l
    BY <1>1
  <2> QED
    BY <1>2, <1>3, <1>4, <2>1
<1>10. ASSUME NEW k \in 1..b, NEW l \in 1..r
       PROVE  EndOf(B[k]) < R[l].start
  <2>1. p + k < p + b + l
    BY <1>1
  <2> QED
    BY <1>2, <1>3, <1>4, <2>1
<1>11. ASSUME NEW k \in 1..p, NEW l \in 1..r
       PROVE  EndOf(P[k]) < R[l].start
  <2>1. k < p + b + l
    BY <1>1
  <2> QED
    BY <1>2, <1>3, <1>4, <2>1
<1> QED
  BY <1>5, <1>6, <1>7, <1>8, <1>9, <1>10, <1>11 DEF Ordered, Before, p, b, r

(* Entries are replaced by others that keep their distance from the rest: the
   list stays in order and only what these entries covered changes. *)
LEMMA Replaced ==
  ASSUME NEW P \in Seq(FreeBlock), NEW M \in Seq(FreeBlock), NEW R \in Seq(FreeBlock),
         NEW B \in Seq(FreeBlock), Ordered(P \o M \o R), Ordered(B),
         Before(P, B), Before(B, R)
  PROVE  /\ P \o B \o R \in Seq(FreeBlock)
         /\ Ordered(P \o B \o R)
         /\ SpareOf(P \o B \o R) = (SpareOf(P \o M \o R) \ SpareOf(M)) \union SpareOf(B)
<1>1. /\ Ordered(P) /\ Ordered(M) /\ Ordered(R)
      /\ Before(P, M) /\ Before(M, R) /\ Before(P, R)
  BY OrderedParts
<1>2. P \o B \o R \in Seq(FreeBlock)
  BY ConcatElements
<1>3. Ordered(P \o B \o R)
  BY <1>1, OrderedConcat
<1>4. /\ SpareOf(P \o B \o R) = SpareOf(P) \union SpareOf(B) \union SpareOf(R)
      /\ SpareOf(P \o M \o R) = SpareOf(P) \union SpareOf(M) \union SpareOf(R)
  BY SpareConcat
<1>5. ASSUME NEW x \in SpareOf(M), x \in SpareOf(P) \/ x \in SpareOf(R)
      PROVE  FALSE
  <2>1. PICK k \in 1..Len(M) : Covers(M[k], x)
    BY InSpare
  <2>2. x \in Int /\ M[k].start \in Nat /\ EndOf(M[k]) \in Nat
    BY BlockFields, InSpare
  <2>3. CASE x \in SpareOf(P)
    <3>1. PICK m \in 1..Len(P) : Covers(P[m], x)
      BY <2>3, InSpare
    <3>2. EndOf(P[m]) \in Nat /\ EndOf(P[m]) < M[k].start
      BY <1>1, BlockFields DEF Before
    <3> QED
      BY <2>1, <2>2, <3>1, <3>2 DEF Covers
  <2>4. CASE x \in SpareOf(R)
    <3>1. PICK m \in 1..Len(R) : Covers(R[m], x)
      BY <2>4, InSpare
    <3>2. R[m].start \in Nat /\ EndOf(M[k]) < R[m].start
      BY <1>1, BlockFields DEF Before
    <3> QED
      BY <2>1, <2>2, <3>1, <3>2 DEF Covers
  <2> QED
    BY <1>5, <2>3, <2>4
<1> QED
  BY <1>2, <1>3, <1>4, <1>5

LEMMA SmallLists ==
  ASSUME NEW b \in FreeBlock, b.size > 0
  PROVE  /\ <<>> \in Seq(FreeBlock) /\ Ordered(<<>>) /\ SpareOf(<<>>) = {}
         /\ <<b>> \in Seq(FreeBlock) /\ Ordered(<<b>>)
         /\ SpareOf(<<b>>) = Span(b.start, EndOf(b))
<1>1. <<>> \in Seq(FreeBlock) /\ Ordered(<<>>) /\ SpareOf(<<>>) = {}
  BY DEF Ordered, SpareOf
<1>2. <<b>> \in Seq(FreeBlock) /\ DOMAIN <<b>> = {1} /\ <<b>>[1] = b /\ Len(<<b>>) = 1
  OBVIOUS
<1>3. Ordered(<<b>>)
  BY <1>2 DEF Ordered
<1>4. SpareOf(<<b>>) = Span(b.start, EndOf(b))
  BY <1>2 DEF SpareOf
<1> QED
  BY <1>1, <1>2, <1>3, <1>4

-----------------------------------------------------------------------------
(* What the operations do to the free list. *)

(* One block is replaced by what is left of it. *)
LEMMA BlockCut ==
  ASSUME NEW F \in Seq(FreeBlock), Ordered(F), NEW i \in 1..Len(F),
         NEW B \in Seq(FreeBlock), Ordered(B),
         \A k \in 1..Len(B) : F[i].start <= B[k].start /\ EndOf(B[k]) <= EndOf(F[i])
  PROVE  /\ Splice(F, i, i, B) \in Seq(FreeBlock)
         /\ Ordered(Splice(F, i, i, B))
         /\ SpareOf(Splice(F, i, i, B)) =
              (SpareOf(F) \ Span(F[i].start, EndOf(F[i]))) \union SpareOf(B)
<1> DEFINE P == SubSeq(F, 1, i - 1)
           M == SubSeq(F, i, i)
           R == SubSeq(F, i + 1, Len(F))
<1>1. Len(F) \in Nat /\ i \in 1..(Len(F) + 1) /\ i \in (i - 1)..Len(F)
  BY LenProperties
<1>2. /\ P \in Seq(FreeBlock) /\ M \in Seq(FreeBlock) /\ R \in Seq(FreeBlock)
      /\ Len(M) = i - i + 1
      /\ \A k \in 1..(i - i + 1) : M[k] = F[i + k - 1]
  BY <1>1, Parts
<1>3. P \in Seq(FreeBlock) /\ M \in Seq(FreeBlock) /\ R \in Seq(FreeBlock)
  BY <1>2
<1>4. P \o M \o R = F
  BY <1>1, PartsMakeWhole
<1>5. Len(M) = 1 /\ M[1] = F[i]
  <2>1. i - i + 1 = 1 /\ i + 1 - 1 = i /\ 1 \in 1..1
    OBVIOUS
  <2> QED
    BY <1>2, <2>1
<1>6. Splice(F, i, i, B) = P \o B \o R
  BY DEF Splice
<1> HIDE DEF P, M, R
<1>7. /\ \A m \in 1..Len(P) : EndOf(P[m]) < F[i].start
      /\ \A k \in 1..Len(R) : EndOf(F[i]) < R[k].start
  <2>1. Ordered(P \o M \o R)
    BY <1>4
  <2>2. Before(P, M) /\ Before(M, R)
    BY <1>3, <2>1, OrderedParts
  <2> QED
    BY <1>5, <2>2 DEF Before
<1>8. F[i].start \in Nat /\ EndOf(F[i]) \in Nat
  BY BlockFields
<1>9. Before(P, B)
  <2> SUFFICES ASSUME NEW m \in 1..Len(P), NEW k \in 1..Len(B)
               PROVE  EndOf(P[m]) < B[k].start
    BY DEF Before
  <2>1. EndOf(P[m]) \in Nat /\ B[k].start \in Nat
    BY <1>3, BlockFields
  <2> QED
    BY <1>7, <1>8, <2>1
<1>10. Before(B, R)
  <2> SUFFICES ASSUME NEW m \in 1..Len(B), NEW k \in 1..Len(R)
               PROVE  EndOf(B[m]) < R[k].start
    BY DEF Before
  <2>1. EndOf(B[m]) \in Nat /\ R[k].start \in Nat
    BY <1>3, BlockFields
  <2> QED
    BY <1>7, <1>8, <2>1
<1>11. SpareOf(M) = Span(F[i].start, EndOf(F[i]))
  <2>1. DOMAIN M = 1..1
    BY <1>3, <1>5, LenProperties
  <2>2. \A k \in DOMAIN M : M[k] = F[i]
    BY <1>5, <2>1
  <2> QED
    BY <2>1, <2>2 DEF SpareOf
<1>12. /\ P \o B \o R \in Seq(FreeBlock)
       /\ Ordered(P \o B \o R)
       /\ SpareOf(P \o B \o R) = (SpareOf(P \o M \o R) \ SpareOf(M)) \union SpareOf(B)
  <2>1. Ordered(P \o M \o R)
    BY <1>4
  <2> QED
    BY <1>3, <1>9, <1>10, <2>1, Replaced
<1> QED
  BY <1>4, <1>6, <1>11, <1>12

(* A run of n spare addresses lies in one free block, since no two touch. *)
LEMMA RunsFit ==
  ASSUME NEW F \in Seq(FreeBlock), Ordered(F), NEW n \in Nat, NEW x \in SpareOf(F),
         \A i \in 1..Len(F) : F[i].size < n
  PROVE  ~(x..(x + n - 1) \subseteq SpareOf(F))
<1>1. PICK i \in 1..Len(F) : Covers(F[i], x)
  BY InSpare
<1>2. /\ x \in Int /\ F[i].start \in Nat /\ F[i].size \in Nat
      /\ EndOf(F[i]) = F[i].start + F[i].size
  BY BlockFields, InSpare
<1>3. EndOf(F[i]) \in x..(x + n - 1)
  BY <1>1, <1>2 DEF Covers
<1>4. ASSUME EndOf(F[i]) \in SpareOf(F)
      PROVE  FALSE
  <2>1. PICK j \in 1..Len(F) : Covers(F[j], EndOf(F[i]))
    BY <1>4, InSpare
  <2>2. F[j].start \in Nat /\ EndOf(F[j]) \in Nat
    BY BlockFields
  <2>3. CASE j < i
    <3>1. EndOf(F[j]) < F[i].start
      BY <2>3 DEF Ordered
    <3> QED
      BY <1>2, <2>1, <2>2, <3>1 DEF Covers
  <2>4. CASE j = i
    BY <1>2, <2>1, <2>4 DEF Covers
  <2>5. CASE i < j
    <3>1. EndOf(F[i]) < F[j].start
      BY <2>5 DEF Ordered
    <3> QED
      BY <1>2, <2>1, <2>2, <3>1 DEF Covers
  <2> QED
    BY <2>3, <2>4, <2>5
<1> QED
  BY <1>3, <1>4

(* release_block puts a block that is not spare between those before it and
   those after it, merged with its neighbours where they touch. *)
LEMMA Released ==
  ASSUME free \in Seq(FreeBlock), Ordered(free),
         \A i \in 1..Len(free) : EndOf(free[i]) <= MaxWord,
         NEW from \in Word, NEW to \in Word, from < to,
         Span(from, to) \intersect SpareOf(free) = {},
         release_block(from, to)
  PROVE  /\ free' \in Seq(FreeBlock) /\ Ordered(free')
         /\ SpareOf(free') = SpareOf(free) \union Span(from, to)
<1> DEFINE F == free
           n == Len(F)
           L(at) == at > 1 /\ EndOf(F[at - 1]) = from
           Right(at) == at <= n /\ F[at].start = to
<1>1. PICK at \in 1..(n + 1) :
        LET start == IF L(at) THEN F[at - 1].start ELSE from
            end   == IF Right(at) THEN EndOf(F[at]) ELSE to
        IN  /\ \A i \in 1..(at - 1) : F[i].start <= from
            /\ at <= n => F[at].start > from
            /\ free' = Splice(F, IF L(at) THEN at - 1 ELSE at,
                                 IF Right(at) THEN at ELSE at - 1,
                              <<[start |-> start, size |-> end - start]>>)
  BY DEF release_block
<1> DEFINE start == IF L(at) THEN F[at - 1].start ELSE from
           end   == IF Right(at) THEN EndOf(F[at]) ELSE to
           i == IF L(at) THEN at - 1 ELSE at
           j == IF Right(at) THEN at ELSE at - 1
           merged == [start |-> start, size |-> end - start]
           P == SubSeq(F, 1, i - 1)
           M == SubSeq(F, i, j)
           R == SubSeq(F, j + 1, n)
           B == <<merged>>
<1>2. /\ n \in Nat /\ at \in 1..(n + 1)
      /\ MaxWord \in Nat /\ from \in 0..MaxWord /\ to \in 0..MaxWord /\ from < to
      /\ \A k \in 1..n : /\ F[k].start \in Nat /\ EndOf(F[k]) \in Nat
                         /\ F[k].start < EndOf(F[k]) /\ EndOf(F[k]) <= MaxWord
  <2>1. \A k \in 1..n : F[k].size > 0
    BY DEF Ordered
  <2>2. ASSUME NEW k \in 1..n
        PROVE  /\ F[k].start \in Nat /\ EndOf(F[k]) \in Nat
               /\ F[k].start < EndOf(F[k])
    <3>1. /\ F[k].start \in Nat /\ F[k].size \in Nat
          /\ EndOf(F[k]) \in Nat /\ EndOf(F[k]) = F[k].start + F[k].size
      BY BlockFields
    <3> QED
      BY <2>1, <3>1
  <2> QED
    BY <1>1, <2>2, LenProperties, WordAssumption DEF Word
<1>3. \A k, l \in 1..n : k < l => EndOf(F[k]) < F[l].start
  BY DEF Ordered
<1>4. ASSUME NEW k \in 1..n
      PROVE  EndOf(F[k]) <= from \/ to <= F[k].start
  <2>1. SUFFICES ASSUME EndOf(F[k]) > from, to > F[k].start
                 PROVE  FALSE
    BY <1>2
  <2> DEFINE x == IF F[k].start > from THEN F[k].start ELSE from
  <2>2. x \in Int /\ from <= x /\ x < to /\ F[k].start <= x /\ x < EndOf(F[k])
    BY <1>2, <2>1
  <2>3. x \in Span(from, to)
    BY <1>2, <2>2 DEF Span
  <2>4. x \in SpareOf(F)
    <3>1. Covers(F[k], x)
      BY <2>2 DEF Covers
    <3> QED
      BY <2>2, <3>1, InSpare
  <2> QED
    BY <2>3, <2>4
<1>5. /\ \A k \in 1..(at - 1) : k \in 1..n /\ F[k].start <= from
      /\ at <= n => at \in 1..n /\ F[at].start > from
  BY <1>1, <1>2
<1>6. \A k \in 1..n : k < at => EndOf(F[k]) <= from
  BY <1>2, <1>4, <1>5
<1>7. \A k \in 1..n : k >= at => to <= F[k].start
  <2> SUFFICES ASSUME NEW k \in 1..n, k >= at
               PROVE  to <= F[k].start
    OBVIOUS
  <2>1. at \in 1..n /\ F[at].start > from
    BY <1>2, <1>5
  <2>2. to <= F[at].start
    BY <1>2, <1>4, <2>1
  <2>3. k = at \/ EndOf(F[at]) < F[k].start
    BY <1>2, <1>3, <2>1
  <2> QED
    BY <1>2, <2>1, <2>2, <2>3
<1>8. /\ i \in 1..(n + 1) /\ j \in (i - 1)..n
      /\ start \in Nat /\ start <= from /\ end \in Nat /\ to <= end /\ end <= MaxWord
  BY <1>2, <1>6
<1>9. /\ L(at) => i = at - 1 /\ start = F[at - 1].start
      /\ ~L(at) => i = at /\ start = from
      /\ Right(at) => j = at /\ end = EndOf(F[at])
      /\ ~Right(at) => j = at - 1 /\ end = to
  OBVIOUS
<1>10. free' = Splice(F, i, j, B)
  BY <1>1
<1> HIDE DEF i, j, start, end
<1>11. \A k \in 1..n : k < i => EndOf(F[k]) < start
  <2> SUFFICES ASSUME NEW k \in 1..n, k < i
               PROVE  EndOf(F[k]) < start
    OBVIOUS
  <2>1. CASE L(at)
    <3>1. at - 1 \in 1..n /\ k < at - 1
      BY <1>2, <1>9, <2>1
    <3> QED
      BY <1>3, <1>9, <2>1, <3>1
  <2>2. CASE ~L(at) /\ k = at - 1
    <3>1. EndOf(F[k]) # from
      BY <1>2, <2>2
    <3> QED
      BY <1>2, <1>6, <1>9, <2>2, <3>1
  <2>3. CASE ~L(at) /\ k < at - 1
    <3>1. at - 1 \in 1..n /\ at - 1 \in 1..(at - 1) /\ k < at - 1 /\ start = from
      BY <1>2, <1>9, <2>3
    <3>2. EndOf(F[k]) < F[at - 1].start /\ F[at - 1].start <= from
      BY <1>3, <1>5, <3>1
    <3>3. EndOf(F[k]) \in Nat /\ F[at - 1].start \in Nat /\ from \in Nat
      BY <1>2, <3>1
    <3> QED
      BY <3>1, <3>2, <3>3
  <2> QED
    BY <1>2, <1>9, <2>1, <2>2, <2>3
<1>12. \A k \in 1..n : k > j => end < F[k].start
  <2> SUFFICES ASSUME NEW k \in 1..n, k > j
               PROVE  end < F[k].start
    OBVIOUS
  <2>1. CASE Right(at)
    <3>1. at \in 1..n /\ at < k
      BY <1>2, <1>9, <2>1
    <3> QED
      BY <1>3, <1>9, <2>1, <3>1
  <2>2. CASE ~Right(at) /\ k = at
    <3>1. F[k].start # to
      BY <1>2, <2>2
    <3> QED
      BY <1>2, <1>7, <1>9, <2>2, <3>1
  <2>3. CASE ~Right(at) /\ k > at
    <3>1. at \in 1..n /\ EndOf(F[at]) < F[k].start
      BY <1>2, <1>3, <2>3
    <3>2. to <= F[at].start
      BY <1>2, <1>7, <3>1
    <3> QED
      BY <1>2, <1>9, <2>3, <3>1, <3>2
  <2> QED
    BY <1>2, <1>9, <2>1, <2>2, <2>3
<1>13. \A k \in 1..n : i <= k /\ k <= j =>
          (L(at) /\ k = at - 1) \/ (Right(at) /\ k = at)
  BY <1>2, <1>9
<1>14. /\ P \in Seq(FreeBlock) /\ M \in Seq(FreeBlock) /\ R \in Seq(FreeBlock)
       /\ Len(P) = i - 1 /\ Len(M) = j - i + 1 /\ Len(R) = n - j
       /\ \A k \in 1..(i - 1) : P[k] = F[k]
       /\ \A k \in 1..(j - i + 1) : M[k] = F[i + k - 1]
       /\ \A k \in 1..(n - j) : R[k] = F[j + k]
  BY <1>8, Parts
<1>15. P \o M \o R = F
  BY <1>8, PartsMakeWhole
<1>16. free' = P \o B \o R
  BY <1>10 DEF Splice
<1>17. /\ merged \in FreeBlock /\ merged.size > 0
       /\ merged.start = start /\ EndOf(merged) = end
  <2>1. end - start \in 0..MaxWord /\ end - start > 0 /\ start \in 0..MaxWord
        /\ start + (end - start) = end
    BY <1>2, <1>8
  <2> QED
    BY <2>1 DEF FreeBlock, EndOf, Word
<1>18. \A x \in Int :
         x \in Span(start, end) <=>
           \/ x \in Span(from, to)
           \/ L(at) /\ Covers(F[at - 1], x)
           \/ Right(at) /\ Covers(F[at], x)
  <2>1. L(at) => F[at - 1].start <= from /\ EndOf(F[at - 1]) = from
    BY <1>2, <1>5
  <2>2. Right(at) => F[at].start = to /\ to <= EndOf(F[at])
    BY <1>2
  <2> QED
    BY <1>2, <1>8, <1>9, <2>1, <2>2 DEF Span, Covers
<1>19. \A x \in Int :
         x \in SpareOf(M) <=>
           \/ L(at) /\ Covers(F[at - 1], x)
           \/ Right(at) /\ Covers(F[at], x)
  <2> SUFFICES ASSUME NEW x \in Int
               PROVE  x \in SpareOf(M) <=>
                        \/ L(at) /\ Covers(F[at - 1], x)
                        \/ Right(at) /\ Covers(F[at], x)
    OBVIOUS
  <2>1. ASSUME x \in SpareOf(M)
        PROVE  \/ L(at) /\ Covers(F[at - 1], x)
               \/ Right(at) /\ Covers(F[at], x)
    <3>1. PICK k \in 1..Len(M) : Covers(M[k], x)
      BY <1>14, <2>1, InSpare
    <3>2. i + k - 1 \in 1..n /\ i <= i + k - 1 /\ i + k - 1 <= j /\ k \in 1..(j - i + 1)
      BY <1>2, <1>8, <1>14, <3>1
    <3>3. M[k] = F[i + k - 1]
      BY <1>14, <3>2
    <3> QED
      BY <1>13, <3>1, <3>2, <3>3
  <2>2. ASSUME L(at), Covers(F[at - 1], x)
        PROVE  x \in SpareOf(M)
    <3>1. 1 \in 1..(j - i + 1) /\ i + 1 - 1 = at - 1
      BY <1>2, <1>8, <1>9, <2>2
    <3>2. M[1] = F[at - 1] /\ 1 \in 1..Len(M)
      BY <1>14, <3>1
    <3> QED
      BY <1>14, <2>2, <3>2, InSpare
  <2>3. ASSUME Right(at), Covers(F[at], x)
        PROVE  x \in SpareOf(M)
    <3>1. j - i + 1 \in 1..(j - i + 1) /\ i + (j - i + 1) - 1 = at
      BY <1>2, <1>8, <1>9, <2>3
    <3>2. M[j - i + 1] = F[at] /\ j - i + 1 \in 1..Len(M)
      BY <1>14, <3>1
    <3> QED
      BY <1>14, <2>3, <3>2, InSpare
  <2> QED
    BY <2>1, <2>2, <2>3
<1>20. B \in Seq(FreeBlock) /\ Ordered(B) /\ SpareOf(B) = Span(start, end)
  BY <1>17, SmallLists
<1>21. P \in Seq(FreeBlock) /\ M \in Seq(FreeBlock) /\ R \in Seq(FreeBlock)
  BY <1>14
<1>22. \A k \in 1..Len(B) : B[k] = merged
  OBVIOUS
<1> HIDE DEF B, merged
<1>23. \A k \in 1..Len(B) : B[k].start = start /\ EndOf(B[k]) = end
  BY <1>17, <1>22
<1>24. Before(P, B)
  <2>1. SUFFICES ASSUME NEW m \in 1..Len(P)
                 PROVE  EndOf(P[m]) < start
    BY <1>23 DEF Before
  <2>2. m \in 1..(i - 1) /\ m \in 1..n /\ m < i
    BY <1>2, <1>8, <1>14
  <2>3. P[m] = F[m]
    BY <1>14, <2>2
  <2> QED
    BY <1>11, <2>2, <2>3
<1>25. Before(B, R)
  <2>1. SUFFICES ASSUME NEW k \in 1..Len(R)
                 PROVE  end < R[k].start
    BY <1>23 DEF Before
  <2>2. k \in 1..(n - j) /\ j + k \in 1..n /\ j + k > j
    BY <1>2, <1>8, <1>14
  <2>3. R[k] = F[j + k]
    BY <1>14, <2>2
  <2> QED
    BY <1>12, <2>2, <2>3
<1> HIDE DEF P, M, R
<1>26. Ordered(P \o M \o R)
  BY <1>15
<1>27. /\ P \o B \o R \in Seq(FreeBlock)
       /\ Ordered(P \o B \o R)
       /\ SpareOf(P \o B \o R) = (SpareOf(P \o M \o R) \ SpareOf(M)) \union SpareOf(B)
  <2>1. B \in Seq(FreeBlock) /\ Ordered(B)
    BY <1>20
  <2> QED
    BY <1>21, <1>24, <1>25, <1>26, <2>1, Replaced
<1>28. SpareOf(free') = (SpareOf(free) \ SpareOf(M)) \union Span(start, end)
  BY <1>15, <1>16, <1>20, <1>27
<1>29. SpareOf(free) \subseteq Int /\ Span(start, end) \subseteq Int
       /\ Span(from, to) \subseteq Int
  BY <1>8, InSpare DEF Span, Word
<1>30. SpareOf(M) \subseteq SpareOf(free)
  <2>1. SpareOf(P \o M \o R) = SpareOf(P) \union SpareOf(M) \union SpareOf(R)
    BY <1>21, SpareConcat
  <2> QED
    BY <1>15, <2>1
<1>31. SpareOf(free') = SpareOf(free) \union Span(from, to)
  BY <1>18, <1>19, <1>28, <1>29, <1>30
<1> QED
  BY <1>16, <1>27, <1>31

-----------------------------------------------------------------------------
(* The inductive invariant: the partition of memory and the exact byte count
   hold because the free list is in order with gaps and no block is empty. *)

Inv ==
  /\ HeapTypeOK
  /\ Ordered(free)
  /\ \A u \in DOMAIN live : live[u].block_start <= u /\ u < live[u].block_end
  /\ \A i \in DOMAIN quarantine : quarantine[i].block_start < quarantine[i].block_end
  /\ Partition
  /\ quarantine_bytes = Cardinality(Resting)

LEMMA Ends == Base \in Word /\ Limit \in Word
<1>1. Base \in Word
  BY AlignUp, RangeAssumption DEF Base
<1>2. MaxWord \in Nat /\ End \in 0..MaxWord
  BY WordAssumption, RangeAssumption DEF Word
<1>3. (End \div 4) * 4 \in 0..MaxWord
  BY <1>2
<1> QED
  BY <1>1, <1>3 DEF Limit, align_down, Word

LEMMA ReplyWords ==
  /\ "none" \in Replies /\ "granted" \in Replies /\ "out of memory" \in Replies
  /\ "freed" \in Replies /\ "invalid" \in Replies
BY DEF Replies

LEMMA SpareIsSpareOf == Spare = SpareOf(free)
BY DEF Spare, SpareOf

(* No free block reaches past the end of the heap. *)
LEMMA BlocksInMemory ==
  ASSUME Inv
  PROVE  \A i \in 1..Len(free) : EndOf(free[i]) <= Limit /\ EndOf(free[i]) <= MaxWord
<1> SUFFICES ASSUME NEW i \in 1..Len(free)
             PROVE  EndOf(free[i]) <= Limit /\ EndOf(free[i]) <= MaxWord
  OBVIOUS
<1>1. free \in Seq(FreeBlock)
  BY DEF Inv, HeapTypeOK
<1>2. /\ free[i].start \in Nat /\ free[i].size \in Nat
      /\ EndOf(free[i]) = free[i].start + free[i].size /\ free[i].size > 0
  BY <1>1, BlockFields DEF Inv, Ordered
<1>3. EndOf(free[i]) - 1 \in SpareOf(free)
  <2>1. EndOf(free[i]) - 1 \in Int /\ Covers(free[i], EndOf(free[i]) - 1)
    BY <1>2 DEF Covers
  <2> QED
    BY <1>1, <2>1, InSpare
<1>4. EndOf(free[i]) - 1 \in Span(Base, Limit)
  BY <1>3, SpareIsSpareOf DEF Inv, Partition, Managed
<1>5. MaxWord \in Nat /\ Base \in 0..MaxWord /\ Limit \in 0..MaxWord
  BY Ends, WordAssumption DEF Word
<1> QED
  BY <1>2, <1>4, <1>5 DEF Span

(* What an allocation does, in terms of addresses. *)
Granted(from, to, u) ==
  /\ from <= u /\ u < to
  /\ Span(from, to) \subseteq Spare
  /\ free' \in Seq(FreeBlock) /\ Ordered(free')
  /\ SpareOf(free') = SpareOf(free) \ Span(from, to)
  /\ DOMAIN live' = DOMAIN live \union {u}
  /\ live'[u] \in LiveAlloc /\ live'[u].block_start = from /\ live'[u].block_end = to
  /\ \A v \in DOMAIN live \ {u} : live'[v] = live[v]
  /\ answer' = <<"granted", u>>

LEMMA AllocGrants ==
  ASSUME Inv, Sized, NEW r \in Requests, alloc(r[1], r[2])
  PROVE  \E from, to, u \in Word : Granted(from, to, u)
<1> DEFINE size == r[1]
           requested == r[2]
           need == total_needed(size)
<1>1. /\ size \in Word /\ requested \in Word /\ size > 0
      /\ redzone_size \in Word /\ free \in Seq(FreeBlock) /\ Ordered(free)
  BY InputsAssumption DEF Sized, Inv, HeapTypeOK
<1>2. MaxWord \in Nat /\ align_up(size) \in Word /\ align_up(size) > 0
  BY <1>1, AlignUp, WordAssumption
<1>3. /\ need = 2 * redzone_size + align_up(size) /\ need \in Nat
      /\ redzone_size \in Nat /\ redzone_size < need
  BY <1>1, <1>2 DEF total_needed, Word
<1>4. PICK i \in 1..Len(free) :
        LET block       == free[i]
            block_end   == block.start + total_needed(size)
            user_start  == block.start + redzone_size
            entry       == [user_size |-> align_up(size),
                            requested |-> Recorded(size, requested),
                            block_start |-> block.start, block_end |-> block_end]
        IN  /\ HasRoom(block, size)
            /\ free' = Splice(free, i, i,
                              IF block.size = total_needed(size) THEN <<>>
                              ELSE <<[start |-> block_end,
                                      size |-> block.size - total_needed(size)]>>)
            /\ live' = [u \in DOMAIN live \union {user_start} |->
                          IF u = user_start THEN entry ELSE live[u]]
            /\ answer' = <<"granted", user_start>>
  BY DEF alloc
<1> DEFINE block == free[i]
           from == block.start
           to == from + need
           u == from + redzone_size
           tail == [start |-> to, size |-> block.size - need]
           B == IF block.size = need THEN <<>> ELSE <<tail>>
           entry == [user_size |-> align_up(size), requested |-> Recorded(size, requested),
                     block_start |-> from, block_end |-> to]
<1>5. /\ free' = Splice(free, i, i, B)
      /\ live' = [v \in DOMAIN live \union {u} |-> IF v = u THEN entry ELSE live[v]]
      /\ answer' = <<"granted", u>>
      /\ block.size >= need
  BY <1>4 DEF HasRoom
<1>6. /\ from \in Nat /\ block.size \in Nat /\ block.size > 0
      /\ EndOf(block) = from + block.size /\ EndOf(block) <= MaxWord
  BY <1>1, BlockFields, BlocksInMemory DEF Ordered
<1>7. /\ to = from + need /\ u = from + redzone_size
      /\ tail = [start |-> to, size |-> block.size - need]
      /\ block.size = need => B = <<>>
      /\ block.size # need => B = <<tail>>
      /\ entry = [user_size |-> align_up(size), requested |-> Recorded(size, requested),
                  block_start |-> from, block_end |-> to]
      /\ from = free[i].start /\ EndOf(block) = EndOf(free[i])
  OBVIOUS
<1> HIDE DEF block, need, size, requested, from, to, u, tail, B, entry
<1>8. /\ to = from + need /\ u = from + redzone_size
      /\ need \in Nat /\ redzone_size \in Nat /\ redzone_size < need
      /\ from \in Nat /\ block.size \in Nat /\ block.size >= need
      /\ EndOf(block) = from + block.size /\ EndOf(block) <= MaxWord /\ MaxWord \in Nat
  BY <1>2, <1>3, <1>5, <1>6, <1>7
<1>9. /\ to \in Nat /\ u \in Nat /\ from <= u /\ u < to /\ to <= EndOf(block)
      /\ from \in 0..MaxWord /\ to \in 0..MaxWord /\ u \in 0..MaxWord
  BY <1>8
<1>10. from \in Word /\ to \in Word /\ u \in Word
  BY <1>9 DEF Word
<1>11. Recorded(size, requested) \in Word
  BY <1>1, <1>2 DEF Recorded
<1>12. entry \in LiveAlloc /\ entry.block_start = from /\ entry.block_end = to
  BY <1>2, <1>7, <1>10, <1>11 DEF LiveAlloc
<1>13. /\ B \in Seq(FreeBlock) /\ Ordered(B)
       /\ SpareOf(B) = Span(to, EndOf(block))
       /\ \A k \in 1..Len(B) : from <= B[k].start /\ EndOf(B[k]) <= EndOf(block)
  <2>1. CASE block.size = need
    <3>1. B = <<>> /\ to = EndOf(block)
      BY <1>6, <1>7, <2>1
    <3>2. Span(to, EndOf(block)) = {}
      BY <1>6, <3>1 DEF Span
    <3>3. <<>> \in Seq(FreeBlock) /\ Ordered(<<>>) /\ SpareOf(<<>>) = {} /\ Len(<<>>) = 0
      BY DEF Ordered, SpareOf
    <3>4. \A k \in 1..Len(B) : FALSE
      BY <3>1, <3>3
    <3> QED
      BY <3>1, <3>2, <3>3, <3>4
  <2>2. CASE block.size # need
    <3>1. /\ block.size - need \in 0..MaxWord /\ block.size - need > 0
          /\ to + (block.size - need) = EndOf(block)
      BY <1>8, <2>2
    <3>2. /\ tail \in FreeBlock /\ tail.size > 0
          /\ tail.start = to /\ EndOf(tail) = EndOf(block)
      BY <1>7, <1>10, <3>1 DEF FreeBlock, EndOf, Word
    <3>3. B = <<tail>>
      BY <1>7, <2>2
    <3>4. <<tail>> \in Seq(FreeBlock) /\ Ordered(<<tail>>)
          /\ SpareOf(<<tail>>) = Span(tail.start, EndOf(tail))
      BY <3>2, SmallLists
    <3>5. \A k \in 1..Len(<<tail>>) : <<tail>>[k] = tail
      OBVIOUS
    <3>6. \A k \in 1..Len(B) : B[k].start = to /\ EndOf(B[k]) = EndOf(block)
      BY <3>2, <3>3, <3>5
    <3>7. from <= to /\ EndOf(block) <= EndOf(block)
      BY <1>6, <1>9
    <3> QED
      BY <3>2, <3>3, <3>4, <3>6, <3>7
  <2> QED
    BY <2>1, <2>2
<1>14. /\ free' \in Seq(FreeBlock) /\ Ordered(free')
       /\ SpareOf(free') = (SpareOf(free) \ Span(from, EndOf(block))) \union SpareOf(B)
  <2>1. /\ free \in Seq(FreeBlock) /\ Ordered(free)
        /\ B \in Seq(FreeBlock) /\ Ordered(B)
        /\ \A k \in 1..Len(B) : free[i].start <= B[k].start /\ EndOf(B[k]) <= EndOf(free[i])
    BY <1>1, <1>7, <1>13
  <2>2. /\ Splice(free, i, i, B) \in Seq(FreeBlock) /\ Ordered(Splice(free, i, i, B))
        /\ SpareOf(Splice(free, i, i, B)) =
             (SpareOf(free) \ Span(free[i].start, EndOf(free[i]))) \union SpareOf(B)
    BY <2>1, BlockCut
  <2> QED
    BY <1>5, <1>7, <2>2
<1>15. Span(from, EndOf(block)) \subseteq SpareOf(free)
  <2>1. \A x \in Span(from, EndOf(block)) : x \in Int /\ Covers(free[i], x)
    BY <1>6, <1>7 DEF Span, Covers
  <2> QED
    BY <1>1, <2>1, InSpare
<1>16. Span(from, EndOf(block)) = Span(from, to) \union Span(to, EndOf(block))
       /\ Span(from, to) \intersect Span(to, EndOf(block)) = {}
  BY <1>6, <1>9 DEF Span
<1>17. SpareOf(free') = SpareOf(free) \ Span(from, to)
       /\ Span(from, to) \subseteq Spare
  BY <1>13, <1>14, <1>15, <1>16, SpareIsSpareOf
<1>18. Granted(from, to, u)
  BY <1>5, <1>9, <1>12, <1>14, <1>17 DEF Granted
<1> QED
  BY <1>10, <1>18

LEMMA TwoBlocks ==
  ASSUME NEW b \in FreeBlock, NEW c \in FreeBlock,
         b.size > 0, c.size > 0, EndOf(b) < c.start
  PROVE  /\ <<b, c>> \in Seq(FreeBlock) /\ Ordered(<<b, c>>)
         /\ SpareOf(<<b, c>>) = Span(b.start, EndOf(b)) \union Span(c.start, EndOf(c))
         /\ \A k \in 1..Len(<<b, c>>) : <<b, c>>[k] = b \/ <<b, c>>[k] = c
<1>1. /\ <<b, c>> \in Seq(FreeBlock) /\ DOMAIN <<b, c>> = {1, 2} /\ Len(<<b, c>>) = 2
      /\ <<b, c>>[1] = b /\ <<b, c>>[2] = c
  OBVIOUS
<1>2. SpareOf(<<b, c>>) = Span(b.start, EndOf(b)) \union Span(c.start, EndOf(c))
  BY <1>1 DEF SpareOf
<1>3. Ordered(<<b, c>>)
  BY <1>1 DEF Ordered
<1> QED
  BY <1>1, <1>2, <1>3

LEMMA ShortConcat ==
  ASSUME NEW b \in FreeBlock, NEW c \in FreeBlock
  PROVE  /\ <<b>> \o <<c>> = <<b, c>>
         /\ <<b>> \o <<>> = <<b>> /\ <<>> \o <<c>> = <<c>> /\ <<>> \o <<>> = <<>>
<1>1. <<b>> \o <<>> = <<b>> /\ <<>> \o <<c>> = <<c>> /\ <<>> \o <<>> = <<>>
  OBVIOUS
<1>2. <<b>> \o <<c>> = <<b, c>>
  <2> DEFINE d == <<b>> \o <<c>>
             e == <<b, c>>
  <2>1. /\ d \in Seq(FreeBlock) /\ Len(d) = 2 /\ d[1] = b /\ d[2] = c
        /\ e \in Seq(FreeBlock) /\ Len(e) = 2 /\ e[1] = b /\ e[2] = c
    OBVIOUS
  <2> HIDE DEF d, e
  <2>2. \A k \in 1..Len(d) : d[k] = e[k]
    BY <2>1
  <2>3. d = e
    BY <2>1, <2>2, SeqEqual
  <2> QED
    BY <2>3 DEF d, e
<1> QED
  BY <1>1, <1>2

LEMMA ReserveTakes ==
  ASSUME Inv, NEW r \in Reservations, reserve_range(r[1], r[2])
  PROVE  \E gone \in SUBSET SpareOf(free) :
           /\ free' \in Seq(FreeBlock) /\ Ordered(free')
           /\ SpareOf(free') = SpareOf(free) \ gone
           /\ reserved' = reserved \union gone
<1> DEFINE start == r[1]
           len == r[2]
           end == start + len
           Around(b) == b.start <= start /\ end <= EndOf(b)
<1>1. /\ start \in Nat /\ len \in Nat /\ MaxWord \in Nat
      /\ free \in Seq(FreeBlock) /\ Ordered(free)
  BY InputsAssumption, WordAssumption DEF Inv, HeapTypeOK, Word
<1>2. CASE ~(len > 0 /\ end <= MaxWord /\ \E i \in 1..Len(free) : Around(free[i]))
  <2>1. free' = free /\ reserved' = reserved
    BY <1>2 DEF reserve_range
  <2>2. WITNESS {} \in SUBSET SpareOf(free)
  <2> QED
    BY <1>1, <2>1
<1>3. CASE len > 0 /\ end <= MaxWord /\ \E i \in 1..Len(free) : Around(free[i])
  <2>1. PICK i \in 1..Len(free) :
          LET block == free[i]
              head == IF block.start < start
                      THEN <<[start |-> block.start, size |-> start - block.start]>>
                      ELSE <<>>
              tail == IF end < EndOf(block)
                      THEN <<[start |-> end, size |-> EndOf(block) - end]>>
                      ELSE <<>>
          IN  /\ Around(block)
              /\ free' = Splice(free, i, i, head \o tail)
              /\ reserved' = reserved \union Span(start, end)
    BY <1>3 DEF reserve_range
  <2> DEFINE from == free[i].start
             to == EndOf(free[i])
             h == [start |-> from, size |-> start - from]
             t == [start |-> end, size |-> to - end]
             head == IF from < start THEN <<h>> ELSE <<>>
             tail == IF end < to THEN <<t>> ELSE <<>>
             B == head \o tail
  <2>2. /\ free' = Splice(free, i, i, B)
        /\ reserved' = reserved \union Span(start, end)
        /\ from <= start /\ end <= to
    BY <2>1
  <2>3. /\ from \in Nat /\ to \in Nat /\ to <= MaxWord
        /\ start \in Nat /\ end \in Nat /\ start < end
    BY <1>1, <1>3, BlockFields, BlocksInMemory
  <2> HIDE DEF from, to, start, end
  <2>4. /\ from < start => start - from \in 0..MaxWord /\ start - from > 0
        /\ end < to => to - end \in 0..MaxWord /\ to - end > 0
        /\ from \in 0..MaxWord /\ (end < to => end \in 0..MaxWord)
    BY <1>1, <2>2, <2>3
  <2>5. /\ from < start => h \in FreeBlock /\ h.size > 0
        /\ end < to => t \in FreeBlock /\ t.size > 0
    BY <2>4 DEF FreeBlock, Word
  <2>6. h.start = from /\ EndOf(h) = start /\ t.start = end /\ EndOf(t) = to
    BY <2>3 DEF EndOf
  <2>7. /\ from < start => head = <<h>>
        /\ ~(from < start) => head = <<>>
        /\ end < to => tail = <<t>>
        /\ ~(end < to) => tail = <<>>
    OBVIOUS
  <2> HIDE DEF h, t, head, tail
  <2>8. /\ B \in Seq(FreeBlock) /\ Ordered(B)
        /\ SpareOf(B) = Span(from, start) \union Span(end, to)
        /\ \A k \in 1..Len(B) : from <= B[k].start /\ EndOf(B[k]) <= to
    <3>1. CASE from < start /\ end < to
      <4>1. B = <<h, t>>
        BY <2>5, <2>7, <3>1, ShortConcat
      <4>2. EndOf(h) < t.start
        BY <2>3, <2>6
      <4>3. /\ B \in Seq(FreeBlock) /\ Ordered(B)
            /\ SpareOf(B) = Span(h.start, EndOf(h)) \union Span(t.start, EndOf(t))
            /\ \A k \in 1..Len(B) : B[k] = h \/ B[k] = t
        BY <2>5, <3>1, <4>1, <4>2, TwoBlocks
      <4>4. from <= h.start /\ EndOf(h) <= to /\ from <= t.start /\ EndOf(t) <= to
        BY <2>2, <2>3, <2>6
      <4> QED
        BY <2>6, <4>3, <4>4
    <3>2. CASE from < start /\ ~(end < to)
      <4>1. B = <<h>> /\ end = to
        <5>1. h \in FreeBlock /\ head = <<h>> /\ tail = <<>>
          BY <2>5, <2>7, <3>2
        <5> QED
          BY <2>2, <2>3, <3>2, <5>1, ShortConcat
      <4>2. /\ B \in Seq(FreeBlock) /\ Ordered(B)
            /\ SpareOf(B) = Span(h.start, EndOf(h))
        BY <2>5, <3>2, <4>1, SmallLists
      <4>3. \A k \in 1..Len(B) : B[k] = h
        BY <4>1
      <4>4. Span(end, to) = {}
        BY <2>3, <4>1 DEF Span
      <4> QED
        BY <2>2, <2>3, <2>6, <4>2, <4>3, <4>4
    <3>3. CASE ~(from < start) /\ end < to
      <4>1. B = <<t>> /\ start = from
        <5>1. t \in FreeBlock /\ tail = <<t>> /\ head = <<>>
          BY <2>5, <2>7, <3>3
        <5> QED
          BY <2>2, <2>3, <3>3, <5>1, ShortConcat
      <4>2. /\ B \in Seq(FreeBlock) /\ Ordered(B)
            /\ SpareOf(B) = Span(t.start, EndOf(t))
        BY <2>5, <3>3, <4>1, SmallLists
      <4>3. \A k \in 1..Len(B) : B[k] = t
        BY <4>1
      <4>4. Span(from, start) = {}
        BY <2>3, <4>1 DEF Span
      <4> QED
        BY <2>2, <2>3, <2>6, <4>2, <4>3, <4>4
    <3>4. CASE ~(from < start) /\ ~(end < to)
      <4>1. B = <<>> /\ start = from /\ end = to
        BY <2>2, <2>3, <2>7, <3>4
      <4>2. Span(from, start) = {} /\ Span(end, to) = {}
        BY <2>3, <4>1 DEF Span
      <4>3. <<>> \in Seq(FreeBlock) /\ Ordered(<<>>) /\ SpareOf(<<>>) = {} /\ Len(<<>>) = 0
        BY DEF Ordered, SpareOf
      <4>4. \A k \in 1..Len(B) : FALSE
        BY <4>1, <4>3
      <4> QED
        BY <4>1, <4>2, <4>3, <4>4
    <3> QED
      BY <3>1, <3>2, <3>3, <3>4
  <2> HIDE DEF B
  <2>9. /\ free' \in Seq(FreeBlock) /\ Ordered(free')
        /\ SpareOf(free') = (SpareOf(free) \ Span(from, to)) \union SpareOf(B)
    <3>1. /\ B \in Seq(FreeBlock) /\ Ordered(B)
          /\ \A k \in 1..Len(B) : free[i].start <= B[k].start /\ EndOf(B[k]) <= EndOf(free[i])
      BY <2>8 DEF from, to
    <3>2. /\ Splice(free, i, i, B) \in Seq(FreeBlock) /\ Ordered(Splice(free, i, i, B))
          /\ SpareOf(Splice(free, i, i, B)) =
               (SpareOf(free) \ Span(free[i].start, EndOf(free[i]))) \union SpareOf(B)
      BY <1>1, <3>1, BlockCut
    <3> QED
      BY <2>2, <3>2 DEF from, to
  <2>10. Span(from, to) \subseteq SpareOf(free)
    <3>1. \A x \in Span(from, to) : x \in Int /\ Covers(free[i], x)
      BY <2>3 DEF Span, Covers, from, to
    <3> QED
      BY <1>1, <3>1, InSpare
  <2>11. /\ Span(from, to) = Span(from, start) \union Span(start, end) \union Span(end, to)
         /\ Span(start, end) \intersect Span(from, start) = {}
         /\ Span(start, end) \intersect Span(end, to) = {}
    BY <2>2, <2>3 DEF Span
  <2>12. Span(start, end) \subseteq SpareOf(free)
         /\ SpareOf(free') = SpareOf(free) \ Span(start, end)
    BY <2>8, <2>9, <2>10, <2>11
  <2> QED
    BY <2>2, <2>9, <2>12
<1> QED
  BY <1>2, <1>3

-----------------------------------------------------------------------------
(* The quarantine, and what a free and an iteration of the drain do. *)

RestsOf(Q) == UNION {RestOf(Q[i]) : i \in DOMAIN Q}
Apart(Q) == \A i, j \in DOMAIN Q : i # j => RestOf(Q[i]) \intersect RestOf(Q[j]) = {}

LEMMA RestingIsRestsOf == Resting = RestsOf(quarantine)
BY DEF Resting, RestsOf

LEMMA AppendRests ==
  ASSUME NEW Q \in Seq(QuarantinedBlock), NEW q \in QuarantinedBlock
  PROVE  /\ Append(Q, q) \in Seq(QuarantinedBlock)
         /\ DOMAIN Append(Q, q) = DOMAIN Q \union {Len(Q) + 1}
         /\ \A i \in DOMAIN Q : Append(Q, q)[i] = Q[i]
         /\ Append(Q, q)[Len(Q) + 1] = q
         /\ Len(Q) + 1 \notin DOMAIN Q
         /\ RestsOf(Append(Q, q)) = RestsOf(Q) \union RestOf(q)
<1> DEFINE A2 == Append(Q, q)
           n == Len(Q) + 1
<1>1. /\ A2 \in Seq(QuarantinedBlock)
      /\ DOMAIN A2 = DOMAIN Q \union {n}
      /\ \A i \in DOMAIN Q : A2[i] = Q[i]
      /\ A2[n] = q
      /\ n \notin DOMAIN Q
  <2>1. /\ A2 \in Seq(QuarantinedBlock) /\ Len(A2) = Len(Q) + 1
        /\ \A i \in 1..Len(Q) : A2[i] = Q[i]
        /\ A2[Len(Q) + 1] = q
    BY AppendProperties
  <2>2. DOMAIN Q = 1..Len(Q) /\ DOMAIN A2 = 1..Len(A2) /\ Len(Q) \in Nat
    BY <2>1, LenProperties
  <2> QED
    BY <2>1, <2>2
<1> HIDE DEF A2, n
<1>2. RestsOf(A2) = RestsOf(Q) \union RestOf(q)
  BY <1>1 DEF RestsOf
<1> QED
  BY <1>1, <1>2 DEF A2, n

LEMMA TailRests ==
  ASSUME NEW Q \in Seq(QuarantinedBlock), Q # <<>>, Apart(Q)
  PROVE  /\ Tail(Q) \in Seq(QuarantinedBlock)
         /\ 1 \in DOMAIN Q /\ Head(Q) = Q[1]
         /\ \A i \in DOMAIN Tail(Q) : i + 1 \in DOMAIN Q /\ Tail(Q)[i] = Q[i + 1]
         /\ Apart(Tail(Q))
         /\ RestOf(Head(Q)) \subseteq RestsOf(Q)
         /\ RestsOf(Tail(Q)) = RestsOf(Q) \ RestOf(Head(Q))
<1> DEFINE T == Tail(Q)
           h == Head(Q)
<1>1. /\ T \in Seq(QuarantinedBlock)
      /\ Len(T) = Len(Q) - 1 /\ Len(Q) \in Nat /\ Len(Q) > 0
      /\ h = Q[1]
      /\ \A i \in 1..Len(T) : T[i] = Q[i + 1]
      /\ DOMAIN Q = 1..Len(Q) /\ DOMAIN T = 1..Len(T)
  OBVIOUS
<1> HIDE DEF T, h
<1>2. 1 \in DOMAIN Q
  BY <1>1
<1>3. \A i \in DOMAIN T : i + 1 \in DOMAIN Q /\ i + 1 # 1 /\ T[i] = Q[i + 1]
  BY <1>1
<1>4. \A k \in DOMAIN Q : k = 1 \/ (k - 1 \in DOMAIN T /\ T[k - 1] = Q[k])
  <2> SUFFICES ASSUME NEW k \in DOMAIN Q, k # 1
               PROVE  k - 1 \in DOMAIN T /\ T[k - 1] = Q[k]
    OBVIOUS
  <2>1. k - 1 \in DOMAIN T /\ k - 1 + 1 = k
    BY <1>1
  <2> QED
    BY <1>3, <2>1
<1>5. Apart(T)
  <2> SUFFICES ASSUME NEW i \in DOMAIN T, NEW j \in DOMAIN T, i # j
               PROVE  RestOf(T[i]) \intersect RestOf(T[j]) = {}
    BY DEF Apart
  <2>1. i + 1 # j + 1
    BY <1>1
  <2> QED
    BY <1>3, <2>1 DEF Apart
<1>6. \A i \in DOMAIN T : RestOf(T[i]) \intersect RestOf(h) = {}
  BY <1>1, <1>2, <1>3 DEF Apart
<1>7. RestOf(h) \subseteq RestsOf(Q)
  BY <1>1, <1>2 DEF RestsOf
<1>8. RestsOf(Q) = RestsOf(T) \union RestOf(h)
  <2>1. \A x : x \in RestsOf(Q) <=> \E k \in DOMAIN Q : x \in RestOf(Q[k])
    BY DEF RestsOf
  <2>2. \A x : x \in RestsOf(T) <=> \E k \in DOMAIN T : x \in RestOf(T[k])
    BY DEF RestsOf
  <2> QED
    BY <1>1, <1>2, <1>3, <1>4, <2>1, <2>2
<1>9. RestsOf(T) \intersect RestOf(h) = {}
  BY <1>6 DEF RestsOf
<1> QED
  BY <1>1, <1>2, <1>3, <1>5, <1>7, <1>8, <1>9 DEF T, h

(* Sets of managed addresses are counted by words. *)
LEMMA Counting ==
  /\ \A S \in SUBSET Managed : IsFiniteSet(S) /\ Cardinality(S) \in Word
  /\ \A a, b \in Word : a < b => Cardinality(Span(a, b)) = b - a
<1>1. MaxWord \in Nat /\ Base \in 0..MaxWord /\ Limit \in 0..MaxWord
  BY Ends, WordAssumption DEF Word
<1>2. IsFiniteSet(Managed) /\ Cardinality(Managed) <= MaxWord
  <2>1. /\ IsFiniteSet(Base..(Limit - 1))
        /\ Cardinality(Base..(Limit - 1)) = IF Base > Limit - 1 THEN 0 ELSE (Limit - 1) - Base + 1
    BY <1>1, FS_Interval
  <2> QED
    BY <1>1, <2>1 DEF Managed, Span
<1>3. ASSUME NEW S \in SUBSET Managed
      PROVE  IsFiniteSet(S) /\ Cardinality(S) \in Word
  <2>1. IsFiniteSet(S) /\ Cardinality(S) <= Cardinality(Managed)
    BY <1>2, FS_Subset
  <2>2. Cardinality(S) \in Nat /\ Cardinality(Managed) \in Nat
    BY <1>2, <2>1, FS_CardinalityType
  <2> QED
    BY <1>1, <1>2, <2>1, <2>2 DEF Word
<1>4. ASSUME NEW a \in Word, NEW b \in Word, a < b
      PROVE  Cardinality(Span(a, b)) = b - a
  <2>1. a \in Int /\ b \in Int /\ b - 1 \in Int /\ ~(a > b - 1) /\ (b - 1) - a + 1 = b - a
    BY <1>1, <1>4 DEF Word
  <2>2. Cardinality(a..(b - 1)) = IF a > b - 1 THEN 0 ELSE (b - 1) - a + 1
    BY <2>1, FS_Interval
  <2> QED
    BY <2>1, <2>2 DEF Span
<1> QED
  BY <1>3, <1>4

(* The block of a live allocation is a proper interval, apart from what is
   spare, quarantined, reserved or held by others. *)
LEMMA LiveBlocks ==
  ASSUME Inv, NEW u \in DOMAIN live
  PROVE  /\ live[u] \in LiveAlloc
         /\ live[u].block_start \in Word /\ live[u].block_end \in Word
         /\ live[u].block_start < live[u].block_end
         /\ u \in BlockOf(u) /\ BlockOf(u) \subseteq Held
         /\ BlockOf(u) \intersect SpareOf(free) = {}
         /\ BlockOf(u) \intersect (Resting \union reserved) = {}
<1>1. /\ live[u] \in LiveAlloc /\ u \in Word
      /\ live[u].block_start <= u /\ u < live[u].block_end
  BY DEF Inv, HeapTypeOK
<1>2. live[u].block_start \in Word /\ live[u].block_end \in Word
  BY <1>1 DEF LiveAlloc
<1>3. live[u].block_start < live[u].block_end /\ u \in BlockOf(u)
  BY <1>1, <1>2, WordAssumption DEF BlockOf, Span, Word
<1>4. BlockOf(u) \subseteq Held
  BY DEF Held
<1> QED
  BY <1>1, <1>2, <1>3, <1>4, SpareIsSpareOf DEF Inv, Partition

(* Without a budget the quarantine is empty, once the drain has ended. *)
LEMMA NothingRests ==
  ASSUME Inv, ~Draining, ~(quarantine_budget > 0)
  PROVE  quarantine = <<>>
<1>1. SUFFICES ASSUME quarantine # <<>>
               PROVE  FALSE
  OBVIOUS
<1>2. /\ quarantine_budget = 0 /\ quarantine_bytes \in Nat
      /\ quarantine \in Seq(QuarantinedBlock)
      /\ quarantine_bytes = Cardinality(Resting)
  BY WordAssumption DEF Inv, HeapTypeOK, Word
<1>3. quarantine_bytes = 0
  BY <1>1, <1>2 DEF Draining
<1>4. Resting \in SUBSET Managed
  BY DEF Inv, Partition
<1>5. Resting = {}
  BY <1>2, <1>3, <1>4, Counting, FS_EmptySet
<1>6. 1 \in DOMAIN quarantine /\ quarantine[1] \in QuarantinedBlock
  BY <1>1, <1>2
<1>7. /\ quarantine[1].block_start \in Int /\ quarantine[1].block_end \in Int
      /\ quarantine[1].block_start < quarantine[1].block_end
  BY <1>6, WordAssumption DEF Inv, QuarantinedBlock, Word
<1>8. quarantine[1].block_start \in RestOf(quarantine[1])
  BY <1>7 DEF RestOf, Span
<1> QED
  BY <1>5, <1>6, <1>8 DEF Resting

(* A block is freed: it is queued, or returned if nothing can be waiting. *)
Quarantines(addr) ==
  /\ quarantine' = Append(quarantine, quarantined(addr))
  /\ quarantine_bytes' = quarantine_bytes + counted(addr)
  /\ free' = free
Returns(addr) ==
  /\ quarantine = <<>>
  /\ quarantine' = quarantine /\ quarantine_bytes' = quarantine_bytes
  /\ free' \in Seq(FreeBlock) /\ Ordered(free')
  /\ SpareOf(free') = SpareOf(free) \union BlockOf(addr)

LEMMA FreeMoves ==
  ASSUME Inv, ~Draining, NEW addr \in DOMAIN live, free_block(addr)
  PROVE  Quarantines(addr) \/ Returns(addr)
<1>1. CASE quarantine_budget > 0
  BY <1>1 DEF free_block, Quarantines
<1>2. CASE ~(quarantine_budget > 0)
  <2>1. /\ release_block(live[addr].block_start, live[addr].block_end)
        /\ quarantine' = quarantine /\ quarantine_bytes' = quarantine_bytes
    BY <1>2 DEF free_block
  <2>2. free \in Seq(FreeBlock) /\ Ordered(free)
    BY DEF Inv, HeapTypeOK
  <2>3. \A i \in 1..Len(free) : EndOf(free[i]) <= MaxWord
    BY BlocksInMemory
  <2>4. /\ live[addr].block_start \in Word /\ live[addr].block_end \in Word
        /\ live[addr].block_start < live[addr].block_end
        /\ Span(live[addr].block_start, live[addr].block_end) \intersect SpareOf(free) = {}
    BY LiveBlocks DEF BlockOf
  <2>5. /\ free' \in Seq(FreeBlock) /\ Ordered(free')
        /\ SpareOf(free') = SpareOf(free)
                              \union Span(live[addr].block_start, live[addr].block_end)
    BY <2>1, <2>2, <2>3, <2>4, Released
  <2>6. quarantine = <<>>
    BY <1>2, NothingRests
  <2> QED
    BY <2>1, <2>5, <2>6 DEF Returns, BlockOf
<1> QED
  BY <1>1, <1>2

LEMMA DrainReturns ==
  ASSUME Inv, Draining, drain_quarantine_over_budget
  PROVE  /\ quarantine' = Tail(quarantine)
         /\ RestOf(Head(quarantine)) \subseteq Resting
         /\ RestsOf(quarantine') = Resting \ RestOf(Head(quarantine))
         /\ quarantine_bytes' = Cardinality(RestsOf(quarantine'))
         /\ free' \in Seq(FreeBlock) /\ Ordered(free')
         /\ SpareOf(free') = SpareOf(free) \union RestOf(Head(quarantine))
<1> DEFINE h == Head(quarantine)
<1>1. /\ quarantine \in Seq(QuarantinedBlock) /\ quarantine # <<>> /\ Apart(quarantine)
      /\ free \in Seq(FreeBlock) /\ Ordered(free)
  BY DEF Inv, HeapTypeOK, Draining, Partition, Apart
<1>2. /\ 1 \in DOMAIN quarantine /\ h = quarantine[1]
      /\ RestOf(h) \subseteq Resting
      /\ RestsOf(Tail(quarantine)) = Resting \ RestOf(h)
  BY <1>1, TailRests, RestingIsRestsOf
<1>3. /\ quarantine' = Tail(quarantine)
      /\ quarantine_bytes' = quarantine_bytes - LengthOf(h)
      /\ release_block(h.block_start, h.block_end)
  BY DEF drain_quarantine_over_budget
<1>4. h \in QuarantinedBlock
  BY <1>1
<1> HIDE DEF h
<1>5. h.block_start \in Word /\ h.block_end \in Word /\ h.block_start < h.block_end
  BY <1>2, <1>4 DEF Inv, QuarantinedBlock
<1>6. RestOf(h) = Span(h.block_start, h.block_end)
  BY DEF RestOf
<1>7. Span(h.block_start, h.block_end) \intersect SpareOf(free) = {}
  BY <1>2, <1>6, SpareIsSpareOf DEF Inv, Partition
<1>8. \A i \in 1..Len(free) : EndOf(free[i]) <= MaxWord
  BY BlocksInMemory
<1>9. /\ free' \in Seq(FreeBlock) /\ Ordered(free')
      /\ SpareOf(free') = SpareOf(free) \union Span(h.block_start, h.block_end)
  BY <1>1, <1>3, <1>5, <1>7, <1>8, Released
<1>10. Resting \in SUBSET Managed /\ quarantine_bytes = Cardinality(Resting)
  BY DEF Inv, Partition
<1>11. IsFiniteSet(Resting)
  BY <1>10, Counting
<1>12. Cardinality(Resting \ RestOf(h)) = Cardinality(Resting) - Cardinality(RestOf(h))
  <2>1. Cardinality(Resting \ RestOf(h)) =
          Cardinality(Resting) - Cardinality(Resting \intersect RestOf(h))
    BY <1>11, FS_Difference
  <2>2. Resting \intersect RestOf(h) = RestOf(h)
    BY <1>2
  <2> QED
    BY <2>1, <2>2
<1>13. Cardinality(RestOf(h)) = LengthOf(h)
  BY <1>5, <1>6, Counting DEF LengthOf
<1>14. quarantine_bytes' = Cardinality(RestsOf(quarantine'))
  BY <1>2, <1>3, <1>10, <1>12, <1>13
<1> QED
  BY <1>2, <1>3, <1>6, <1>9, <1>14 DEF h

-----------------------------------------------------------------------------
(* Every action preserves the invariant. *)

LEMMA InvInit == HeapInit => Inv
<1> SUFFICES ASSUME HeapInit PROVE Inv
  OBVIOUS
<1>1. MaxWord \in Nat /\ Base \in 0..MaxWord /\ Limit \in 0..MaxWord
  BY Ends, WordAssumption DEF Word
<1>2. live = [v \in {} |-> [user_size |-> 0, requested |-> 0, block_start |-> 0, block_end |-> 0]]
      /\ DOMAIN live = {}
  BY DEF HeapInit
<1>3. quarantine = <<>> /\ DOMAIN quarantine = {} /\ quarantine_bytes = 0 /\ reserved = {}
  BY DEF HeapInit
<1>4. Held = {} /\ Resting = {}
  BY <1>2, <1>3 DEF Held, Resting
<1>5. free \in Seq(FreeBlock) /\ Ordered(free) /\ SpareOf(free) = Managed
  <2>1. CASE Limit > Base
    <3> DEFINE b == [start |-> Base, size |-> Limit - Base]
    <3>1. Limit - Base \in 0..MaxWord /\ Limit - Base > 0 /\ Base + (Limit - Base) = Limit
      BY <1>1, <2>1
    <3>2. b \in FreeBlock /\ b.size > 0 /\ b.start = Base /\ EndOf(b) = Limit
      BY <1>1, <3>1 DEF FreeBlock, EndOf, Word
    <3>3. free = <<b>>
      BY <2>1 DEF HeapInit
    <3> HIDE DEF b
    <3> QED
      BY <3>2, <3>3, SmallLists DEF Managed
  <2>2. CASE ~(Limit > Base)
    <3>1. free = <<>>
      BY <2>2 DEF HeapInit
    <3>2. Managed = {}
      BY <1>1, <2>2 DEF Managed, Span
    <3>3. <<>> \in Seq(FreeBlock) /\ Ordered(<<>>) /\ SpareOf(<<>>) = {}
      BY DEF Ordered, SpareOf
    <3> QED
      BY <3>1, <3>2, <3>3
  <2> QED
    BY <2>1, <2>2
<1>6. Partition
  BY <1>2, <1>3, <1>4, <1>5, SpareIsSpareOf DEF Partition
<1>7. HeapTypeOK
  <2>1. answer = <<"none", 0>> /\ recently_freed = <<>>
    BY DEF HeapInit
  <2>2. answer \in Replies \X Nat
    BY <2>1, ReplyWords
  <2>3. recently_freed \in Seq([addr : Word, size : Word])
    BY <2>1
  <2>4. 0 \in Word
    BY <1>1 DEF Word
  <2> QED
    BY <1>2, <1>3, <1>5, <2>2, <2>3, <2>4 DEF HeapTypeOK, HeapInit
<1>8. Cardinality(Resting) = 0
  BY <1>4, FS_EmptySet
<1> QED
  BY <1>2, <1>3, <1>5, <1>6, <1>7, <1>8 DEF Inv

LEMMA InvAlloc ==
  ASSUME Inv, Sized, NEW r \in Requests, alloc(r[1], r[2])
  PROVE  Inv'
<1>1. PICK from \in Word, to \in Word, u \in Word : Granted(from, to, u)
  BY AllocGrants
<1>2. /\ redzone_size' = redzone_size /\ quarantine_budget' = quarantine_budget
      /\ quarantine' = quarantine /\ quarantine_bytes' = quarantine_bytes
      /\ recently_freed' = recently_freed /\ reserved' = reserved
  BY DEF alloc, settings
<1>3. u \in Span(from, to)
  BY <1>1, WordAssumption DEF Granted, Span, Word
<1>4. u \notin DOMAIN live
  <2>1. ASSUME u \in DOMAIN live
        PROVE  FALSE
    BY <1>1, <1>3, <2>1, LiveBlocks, SpareIsSpareOf DEF Granted
  <2> QED
    BY <2>1
<1>5. /\ DOMAIN live' = DOMAIN live \union {u}
      /\ live'[u].block_start = from /\ live'[u].block_end = to
      /\ \A v \in DOMAIN live : live'[v] = live[v]
      /\ live'[u] \in LiveAlloc
  BY <1>1, <1>4 DEF Granted
<1>6. Held' = Held \union Span(from, to)
  BY <1>5 DEF Held, BlockOf
<1>7. Spare' = Spare \ Span(from, to) /\ Span(from, to) \subseteq Spare
  BY <1>1, SpareIsSpareOf DEF Granted, Spare, SpareOf
<1>8. Resting' = Resting
  BY <1>2 DEF Resting
<1>9. \A v \in DOMAIN live : BlockOf(v) \intersect Span(from, to) = {}
  BY <1>7, LiveBlocks, SpareIsSpareOf
<1>10. (\A v, w \in DOMAIN live : v # w => BlockOf(v) \intersect BlockOf(w) = {})'
  BY <1>5, <1>9 DEF BlockOf, Inv, Partition
<1>11. Partition'
  BY <1>2, <1>6, <1>7, <1>8, <1>10 DEF Inv, Partition
<1>12. HeapTypeOK'
  <2>1. answer' \in Replies \X Nat
    <3>1. answer' = <<"granted", u>> /\ u \in Nat
      BY <1>1, WordAssumption DEF Granted, Word
    <3> QED
      BY <3>1, ReplyWords
  <2> QED
    BY <1>1, <1>2, <1>5, <2>1 DEF Granted, Inv, HeapTypeOK
<1>13. (\A v \in DOMAIN live : live[v].block_start <= v /\ v < live[v].block_end)'
  BY <1>1, <1>5 DEF Granted, Inv
<1>14. Ordered(free)'
  BY <1>1 DEF Granted
<1> QED
  BY <1>2, <1>8, <1>11, <1>12, <1>13, <1>14 DEF Inv

LEMMA InvFree ==
  ASSUME Inv, ~Draining, NEW addr \in DOMAIN live, free_block(addr)
  PROVE  Inv'
<1> DEFINE from == live[addr].block_start
           to == live[addr].block_end
           q == quarantined(addr)
<1>1. /\ redzone_size' = redzone_size /\ quarantine_budget' = quarantine_budget
      /\ reserved' = reserved
      /\ live' = [u \in DOMAIN live \ {addr} |-> live[u]]
      /\ answer' = <<"freed", addr>>
  BY DEF free_block, settings
<1>2. /\ DOMAIN live' = DOMAIN live \ {addr}
      /\ \A u \in DOMAIN live' : u \in DOMAIN live /\ live'[u] = live[u]
  BY <1>1
<1>3. /\ from \in Word /\ to \in Word /\ from < to /\ live[addr] \in LiveAlloc
      /\ BlockOf(addr) = Span(from, to) /\ BlockOf(addr) \subseteq Held
      /\ BlockOf(addr) \intersect Spare = {}
      /\ BlockOf(addr) \intersect (Resting \union reserved) = {}
  BY LiveBlocks, SpareIsSpareOf DEF BlockOf
<1>4. Held' = Held \ BlockOf(addr)
  <2>1. \A u \in DOMAIN live : u # addr => BlockOf(u) \intersect BlockOf(addr) = {}
    BY DEF Inv, Partition
  <2>2. \A x : x \in Held <=> \E u \in DOMAIN live : x \in BlockOf(u)
    BY DEF Held
  <2>3. \A x : x \in Held' <=> \E u \in DOMAIN live' : x \in BlockOf(u)'
    BY DEF Held
  <2>4. \A u \in DOMAIN live' : BlockOf(u)' = BlockOf(u)
    BY <1>2 DEF BlockOf
  <2> QED
    BY <1>2, <2>1, <2>2, <2>3, <2>4
<1>5. (\A u, v \in DOMAIN live : u # v => BlockOf(u) \intersect BlockOf(v) = {})'
  BY <1>2 DEF BlockOf, Inv, Partition
<1>6. (\A u \in DOMAIN live : live[u].block_start <= u /\ u < live[u].block_end)'
  BY <1>2 DEF Inv
<1>7. /\ q \in QuarantinedBlock /\ q.block_start = from /\ q.block_end = to
      /\ RestOf(q) = BlockOf(addr) /\ counted(addr) = to - from
  BY <1>3 DEF quarantined, QuarantinedBlock, RestOf, counted, LengthOf
<1>8. recently_freed' \in Seq([addr : Word, size : Word])
  <2> DEFINE E == [addr : Word, size : Word]
             e == [addr |-> addr, size |-> live[addr].user_size]
             longer == Append(recently_freed, e)
  <2>1. addr \in Word /\ live[addr].user_size \in Word /\ recently_freed \in Seq(E)
    BY <1>3 DEF Inv, HeapTypeOK, LiveAlloc
  <2>2. e \in E
    BY <2>1
  <2>3. recently_freed' = IF Len(longer) > History THEN Tail(longer) ELSE longer
    BY DEF free_block, record_recently_freed
  <2> HIDE DEF E, e
  <2>4. longer \in Seq(E) /\ Tail(longer) \in Seq(E)
    BY <2>1, <2>2
  <2> QED
    BY <2>3, <2>4 DEF E
<1>9. addr \in Nat /\ quarantine \in Seq(QuarantinedBlock) /\ Apart(quarantine)
      /\ quarantine_bytes = Cardinality(Resting)
      /\ \A i \in DOMAIN quarantine : quarantine[i].block_start < quarantine[i].block_end
  BY WordAssumption DEF Inv, HeapTypeOK, Partition, Apart, Word
<1> HIDE DEF q, from, to
<1>10. CASE Quarantines(addr)
  <2>1. /\ quarantine' = Append(quarantine, q)
        /\ quarantine_bytes' = quarantine_bytes + (to - from)
        /\ free' = free
    BY <1>7, <1>10 DEF Quarantines, q
  <2>2. /\ quarantine' \in Seq(QuarantinedBlock)
        /\ DOMAIN quarantine' = DOMAIN quarantine \union {Len(quarantine) + 1}
        /\ \A i \in DOMAIN quarantine : quarantine'[i] = quarantine[i]
        /\ quarantine'[Len(quarantine) + 1] = q
        /\ Len(quarantine) + 1 \notin DOMAIN quarantine
        /\ RestsOf(quarantine') = RestsOf(quarantine) \union RestOf(q)
    BY <1>7, <1>9, <2>1, AppendRests
  <2>3. Resting' = Resting \union BlockOf(addr)
    BY <1>7, <2>2, RestingIsRestsOf DEF Resting, RestsOf
  <2>4. Spare' = Spare
    BY <2>1 DEF Spare
  <2>5. \A i \in DOMAIN quarantine : RestOf(quarantine[i]) \intersect BlockOf(addr) = {}
    <3>1. \A i \in DOMAIN quarantine : RestOf(quarantine[i]) \subseteq Resting
      BY DEF Resting
    <3> QED
      BY <1>3, <3>1
  <2>6. Apart(quarantine')
    BY <1>7, <1>9, <2>2, <2>5 DEF Apart
  <2>7. Partition'
    BY <1>1, <1>3, <1>4, <1>5, <2>3, <2>4, <2>6 DEF Inv, Partition, Apart
  <2>8. quarantine_bytes' = Cardinality(Resting')
    <3>1. Resting \in SUBSET Managed /\ BlockOf(addr) \in SUBSET Managed
      BY <1>3 DEF Inv, Partition
    <3>2. IsFiniteSet(Resting) /\ IsFiniteSet(BlockOf(addr))
      BY <3>1, Counting
    <3>3. Cardinality(Resting \union BlockOf(addr)) =
            Cardinality(Resting) + Cardinality(BlockOf(addr))
              - Cardinality(Resting \intersect BlockOf(addr))
      BY <3>2, FS_Union
    <3>4. Cardinality(Resting \intersect BlockOf(addr)) = 0
      <4>1. Resting \intersect BlockOf(addr) = {}
        BY <1>3
      <4> QED
        BY <4>1, FS_EmptySet
    <3>5. Cardinality(BlockOf(addr)) = to - from
      BY <1>3, Counting
    <3>6. from \in Int /\ to \in Int /\ Cardinality(Resting) \in Int
      BY <1>3, <3>2, FS_CardinalityType, WordAssumption DEF Word
    <3>7. Cardinality(Resting \union BlockOf(addr)) = quarantine_bytes + (to - from)
      BY <1>9, <3>3, <3>4, <3>5, <3>6
    <3> QED
      BY <2>1, <2>3, <3>7
  <2>9. HeapTypeOK'
    <3>1. Resting' \in SUBSET Managed
      BY <2>7 DEF Partition, Managed, Base, Limit
    <3>2. quarantine_bytes' \in Word
      BY <2>8, <3>1, Counting
    <3>3. answer' \in Replies \X Nat
      BY <1>1, <1>9, ReplyWords
    <3> QED
      BY <1>1, <1>2, <1>8, <2>1, <2>2, <3>2, <3>3 DEF Inv, HeapTypeOK
  <2>10. Ordered(free)'
    BY <2>1 DEF Inv
  <2>11. (\A i \in DOMAIN quarantine : quarantine[i].block_start < quarantine[i].block_end)'
    BY <1>3, <1>7, <1>9, <2>2
  <2> QED
    BY <1>6, <2>7, <2>8, <2>9, <2>10, <2>11 DEF Inv
<1>11. CASE Returns(addr)
  <2>1. /\ quarantine' = quarantine /\ quarantine_bytes' = quarantine_bytes
        /\ free' \in Seq(FreeBlock) /\ Ordered(free')
        /\ SpareOf(free') = SpareOf(free) \union BlockOf(addr)
    BY <1>11 DEF Returns
  <2>2. Resting' = Resting
    BY <2>1 DEF Resting
  <2>3. Spare' = Spare \union BlockOf(addr)
    BY <2>1, SpareIsSpareOf DEF Spare, SpareOf
  <2>4. Partition'
    BY <1>1, <1>3, <1>4, <1>5, <2>1, <2>2, <2>3 DEF Inv, Partition
  <2>5. HeapTypeOK'
    <3>1. answer' \in Replies \X Nat
      BY <1>1, <1>9, ReplyWords
    <3> QED
      BY <1>1, <1>2, <1>8, <2>1, <3>1 DEF Inv, HeapTypeOK
  <2> QED
    BY <1>6, <1>9, <2>1, <2>2, <2>4, <2>5 DEF Inv
<1> QED
  BY <1>10, <1>11, FreeMoves

LEMMA InvDrain ==
  ASSUME Inv, Draining, drain_quarantine_over_budget
  PROVE  Inv'
<1> DEFINE h == Head(quarantine)
<1>1. /\ quarantine' = Tail(quarantine)
      /\ RestOf(h) \subseteq Resting
      /\ RestsOf(quarantine') = Resting \ RestOf(h)
      /\ quarantine_bytes' = Cardinality(RestsOf(quarantine'))
      /\ free' \in Seq(FreeBlock) /\ Ordered(free')
      /\ SpareOf(free') = SpareOf(free) \union RestOf(h)
  BY DrainReturns
<1>2. /\ live' = live /\ redzone_size' = redzone_size
      /\ quarantine_budget' = quarantine_budget /\ recently_freed' = recently_freed
      /\ reserved' = reserved /\ answer' = answer
  BY DEF drain_quarantine_over_budget, settings
<1>3. /\ quarantine \in Seq(QuarantinedBlock) /\ quarantine # <<>> /\ Apart(quarantine)
  BY DEF Inv, HeapTypeOK, Draining, Partition, Apart
<1>4. /\ quarantine' \in Seq(QuarantinedBlock) /\ Apart(quarantine')
      /\ \A i \in DOMAIN quarantine' :
           i + 1 \in DOMAIN quarantine /\ quarantine'[i] = quarantine[i + 1]
  BY <1>1, <1>3, TailRests
<1>5. Resting' = Resting \ RestOf(h)
  BY <1>1 DEF Resting, RestsOf
<1>6. Spare' = Spare \union RestOf(h)
  BY <1>1, SpareIsSpareOf DEF Spare, SpareOf
<1>7. Held' = Held /\ \A u \in DOMAIN live : BlockOf(u)' = BlockOf(u)
  BY <1>2 DEF Held, BlockOf
<1>8. Partition'
  BY <1>1, <1>2, <1>4, <1>5, <1>6, <1>7 DEF Inv, Partition, Apart
<1>9. quarantine_bytes' = Cardinality(Resting')
  BY <1>1, <1>5
<1>10. HeapTypeOK'
  <2>1. Resting' \in SUBSET Managed
    BY <1>8 DEF Partition, Managed, Base, Limit
  <2>2. quarantine_bytes' \in Word
    BY <1>9, <2>1, Counting
  <2> QED
    BY <1>1, <1>2, <1>4, <2>2 DEF Inv, HeapTypeOK
<1>11. (\A i \in DOMAIN quarantine : quarantine[i].block_start < quarantine[i].block_end)'
  BY <1>4 DEF Inv
<1> QED
  BY <1>1, <1>2, <1>8, <1>9, <1>10, <1>11 DEF Inv

LEMMA InvReserve ==
  ASSUME Inv, NEW r \in Reservations, reserve_range(r[1], r[2])
  PROVE  Inv'
<1>1. PICK gone \in SUBSET SpareOf(free) :
        /\ free' \in Seq(FreeBlock) /\ Ordered(free')
        /\ SpareOf(free') = SpareOf(free) \ gone
        /\ reserved' = reserved \union gone
  BY ReserveTakes
<1>2. /\ live' = live /\ redzone_size' = redzone_size
      /\ quarantine_budget' = quarantine_budget /\ recently_freed' = recently_freed
      /\ quarantine' = quarantine /\ quarantine_bytes' = quarantine_bytes
      /\ answer' = <<"none", 0>>
  BY DEF reserve_range, settings
<1>3. Spare' = Spare \ gone /\ gone \subseteq Spare
  BY <1>1, SpareIsSpareOf DEF Spare, SpareOf
<1>4. Held' = Held /\ \A u \in DOMAIN live : BlockOf(u)' = BlockOf(u)
  BY <1>2 DEF Held, BlockOf
<1>5. Resting' = Resting
  BY <1>2 DEF Resting
<1>6. Partition'
  BY <1>1, <1>2, <1>3, <1>4, <1>5 DEF Inv, Partition
<1>7. HeapTypeOK'
  <2>1. gone \subseteq Word
    <3>1. gone \subseteq Managed
      BY <1>3 DEF Inv, Partition
    <3>2. MaxWord \in Nat /\ Base \in 0..MaxWord /\ Limit \in 0..MaxWord
      BY Ends, WordAssumption DEF Word
    <3>3. Managed \subseteq Word
      BY <3>2 DEF Managed, Span, Word
    <3> QED
      BY <3>1, <3>3
  <2>2. answer' \in Replies \X Nat
    BY <1>2, ReplyWords
  <2> QED
    BY <1>1, <1>2, <2>1, <2>2 DEF Inv, HeapTypeOK
<1> QED
  BY <1>1, <1>2, <1>5, <1>6, <1>7 DEF Inv

(* Nothing but settings and the answer changes. *)
LEMMA InvSame ==
  ASSUME Inv,
         UNCHANGED <<free, live, quarantine, quarantine_bytes, recently_freed, reserved>>,
         redzone_size' \in Word, quarantine_budget' \in Word, answer' \in Replies \X Nat
  PROVE  Inv'
<1>1. /\ Spare' = Spare /\ Held' = Held /\ Resting' = Resting
      /\ \A u \in DOMAIN live : BlockOf(u)' = BlockOf(u)
  BY DEF Spare, Held, Resting, BlockOf
<1>2. Partition'
  BY <1>1 DEF Inv, Partition
<1>3. HeapTypeOK'
  BY DEF Inv, HeapTypeOK
<1> QED
  BY <1>1, <1>2, <1>3 DEF Inv

LEMMA NeedIsNat ==
  ASSUME Inv, NEW r \in Requests
  PROVE  total_needed(r[1]) \in Nat
<1>1. r[1] \in Word /\ redzone_size \in Word
  BY InputsAssumption DEF Inv, HeapTypeOK
<1>2. align_up(r[1]) \in Word
  BY <1>1, AlignUp
<1> QED
  BY <1>1, <1>2, WordAssumption DEF total_needed, Word

LEMMA InvNext ==
  ASSUME Inv, Sized, [HeapNext]_heapVars
  PROVE  Inv'
<1>1. Inv /\ HeapTypeOK
  BY DEF Inv
<1>2. CASE Draining /\ drain_quarantine_over_budget
  BY <1>2, InvDrain
<1>3. ASSUME NEW r \in Requests, alloc(r[1], r[2])
      PROVE  Inv'
  BY <1>3, InvAlloc
<1>4. ASSUME NEW r \in Requests, OutOfMemory(r[1])
      PROVE  Inv'
  <2>1. answer' = <<"out of memory", total_needed(r[1])>>
    BY <1>4 DEF OutOfMemory
  <2>2. answer' \in Replies \X Nat
    BY <2>1, ReplyWords, NeedIsNat
  <2>3. redzone_size' \in Word /\ quarantine_budget' \in Word
        /\ UNCHANGED <<free, live, quarantine, quarantine_bytes, recently_freed, reserved>>
    BY <1>1, <1>4 DEF OutOfMemory, settings, HeapTypeOK
  <2> QED
    BY <2>2, <2>3, InvSame
<1>5. ASSUME ~Draining, NEW addr \in DOMAIN live, free_block(addr)
      PROVE  Inv'
  BY <1>5, InvFree
<1>6. ASSUME NEW addr \in Strays, DoubleOrInvalidFree(addr)
      PROVE  Inv'
  <2>1. answer' = <<"invalid", addr>> /\ addr \in Nat
    BY <1>6, InputsAssumption, WordAssumption DEF DoubleOrInvalidFree, Word
  <2>2. answer' \in Replies \X Nat
    BY <2>1, ReplyWords
  <2>3. redzone_size' \in Word /\ quarantine_budget' \in Word
        /\ UNCHANGED <<free, live, quarantine, quarantine_bytes, recently_freed, reserved>>
    BY <1>1, <1>6 DEF DoubleOrInvalidFree, settings, HeapTypeOK
  <2> QED
    BY <2>2, <2>3, InvSame
<1>7. ASSUME NEW r \in Reservations, reserve_range(r[1], r[2])
      PROVE  Inv'
  BY <1>7, InvReserve
<1>8. ASSUME NEW size \in RedzoneSizes, set_redzone_size(size)
      PROVE  Inv'
  <2>1. answer' = <<"none", 0>> /\ redzone_size' = align_up(size)
    BY <1>8 DEF set_redzone_size
  <2>2. answer' \in Replies \X Nat
    BY <2>1, ReplyWords
  <2>3. redzone_size' \in Word
    BY <2>1, AlignUp, InputsAssumption
  <2>4. quarantine_budget' \in Word
        /\ UNCHANGED <<free, live, quarantine, quarantine_bytes, recently_freed, reserved>>
    BY <1>1, <1>8 DEF set_redzone_size, HeapTypeOK
  <2> QED
    BY <2>2, <2>3, <2>4, InvSame
<1>9. ASSUME NEW budget \in Budgets, set_quarantine_budget(budget)
      PROVE  Inv'
  <2>1. answer' = <<"none", 0>> /\ quarantine_budget' = budget
    BY <1>9 DEF set_quarantine_budget
  <2>2. answer' \in Replies \X Nat
    BY <2>1, ReplyWords
  <2>3. redzone_size' \in Word /\ quarantine_budget' \in Word
        /\ UNCHANGED <<free, live, quarantine, quarantine_bytes, recently_freed, reserved>>
    BY <1>1, <1>9, <2>1, InputsAssumption DEF set_quarantine_budget, HeapTypeOK
  <2> QED
    BY <2>2, <2>3, InvSame
<1>10. CASE UNCHANGED heapVars
  <2>1. /\ redzone_size' \in Word /\ quarantine_budget' \in Word /\ answer' \in Replies \X Nat
        /\ UNCHANGED <<free, live, quarantine, quarantine_bytes, recently_freed, reserved>>
    BY <1>1, <1>10 DEF heapVars, settings, HeapTypeOK
  <2> QED
    BY <2>1, InvSame
<1> QED
  BY <1>2, <1>3, <1>4, <1>5, <1>6, <1>7, <1>8, <1>9, <1>10 DEF HeapNext, Calls

-----------------------------------------------------------------------------
(* The theorems about the invariant. *)

LEMMA InvAlways ==
  ASSUME Sized
  PROVE  HeapSpec => []Inv
<1>1. HeapInit => Inv
  BY InvInit
<1>2. Inv /\ [HeapNext]_heapVars => Inv'
  BY InvNext
<1> QED
  BY <1>1, <1>2, PTL DEF HeapSpec

(* Types: all addresses, sizes and byte counts fit in a word, in particular no
   start + size of a block and no sum of redzones does not. *)
THEOREM TypeCorrect ==
  ASSUME Sized
  PROVE  HeapSpec => []HeapTypeOK
<1>1. Inv => HeapTypeOK
  BY DEF Inv
<1> QED
  BY <1>1, InvAlways, PTL

(* alloc, free, the drain and reserve_range never lose an address and never
   give it two owners (Partition), for every memory size, every setting of the
   sanitizer and all requests of more than 0 bytes. *)
THEOREM NothingLostOrShared ==
  ASSUME Sized
  PROVE  HeapSpec => []Partition
<1>1. Inv => Partition
  BY DEF Inv
<1> QED
  BY <1>1, InvAlways, PTL

(* quarantine_bytes never drifts from what is in quarantine, so that the drain
   can always go on while it is over the budget. *)
THEOREM QuarantineCounted ==
  ASSUME Sized
  PROVE  HeapSpec => []QuarantineExact
<1>1. Inv => QuarantineExact
  <2> SUFFICES ASSUME Inv, quarantine_bytes > quarantine_budget, quarantine = <<>>
               PROVE  FALSE
    BY DEF Inv, QuarantineExact, Draining
  <2>1. DOMAIN quarantine = {}
    OBVIOUS
  <2>2. Resting = {}
    BY <2>1 DEF Resting
  <2>3. quarantine_bytes = 0
    BY <2>2, FS_EmptySet DEF Inv
  <2>4. quarantine_budget \in Nat
    BY WordAssumption DEF Inv, HeapTypeOK, Word
  <2> QED
    BY <2>3, <2>4
<1> QED
  BY <1>1, InvAlways, PTL

-----------------------------------------------------------------------------
(* The heap implements Arena. *)

Run(q) == <<q.block_start, q.block_end - 1>>
RunsOf(Q) == [i \in DOMAIN Q |-> Run(Q[i])]

LEMMA Runs ==
  ASSUME NEW Q \in Seq(QuarantinedBlock)
  PROVE  /\ RunsOf(Q) \in Seq(Int \X Int)
         /\ Len(RunsOf(Q)) = Len(Q)
         /\ \A i \in 1..Len(Q) : RunsOf(Q)[i] = Run(Q[i])
<1>1. DOMAIN Q = 1..Len(Q) /\ Len(Q) \in Nat
  BY LenProperties
<1>2. \A i \in 1..Len(Q) : Run(Q[i]) \in Int \X Int
  <2> SUFFICES ASSUME NEW i \in 1..Len(Q)
               PROVE  Run(Q[i]) \in Int \X Int
    OBVIOUS
  <2>1. Q[i] \in QuarantinedBlock
    BY ElementOfSeq
  <2>2. Q[i].block_start \in Int /\ Q[i].block_end - 1 \in Int
    BY <2>1, WordAssumption DEF QuarantinedBlock, Word
  <2> QED
    BY <2>2 DEF Run
<1>3. RunsOf(Q) \in [1..Len(Q) -> Int \X Int]
  BY <1>1, <1>2 DEF RunsOf
<1>4. RunsOf(Q) \in Seq(Int \X Int) /\ Len(RunsOf(Q)) = Len(Q)
  BY <1>1, <1>3
<1> QED
  BY <1>1, <1>4 DEF RunsOf

LEMMA RunsAppend ==
  ASSUME NEW Q \in Seq(QuarantinedBlock), NEW q \in QuarantinedBlock
  PROVE  RunsOf(Append(Q, q)) = Append(RunsOf(Q), Run(q))
<1> DEFINE L == RunsOf(Append(Q, q))
           R == Append(RunsOf(Q), Run(q))
           A2 == Append(Q, q)
           S == RunsOf(Q)
<1>1. /\ A2 \in Seq(QuarantinedBlock) /\ Len(A2) = Len(Q) + 1 /\ Len(Q) \in Nat
      /\ \A i \in 1..Len(Q) : A2[i] = Q[i]
      /\ A2[Len(Q) + 1] = q
  BY AppendProperties, LenProperties
<1>2. /\ S \in Seq(Int \X Int) /\ Len(S) = Len(Q)
      /\ \A i \in 1..Len(Q) : S[i] = Run(Q[i])
  BY Runs
<1>3. Run(q) \in Int \X Int
  <2>1. q.block_start \in Int /\ q.block_end - 1 \in Int
    BY WordAssumption DEF QuarantinedBlock, Word
  <2> QED
    BY <2>1 DEF Run
<1>4. /\ L \in Seq(Int \X Int) /\ Len(L) = Len(A2)
      /\ \A i \in 1..Len(A2) : L[i] = Run(A2[i])
  BY <1>1, Runs
<1>5. /\ R \in Seq(Int \X Int) /\ Len(R) = Len(S) + 1
      /\ \A i \in 1..Len(S) : R[i] = S[i]
      /\ R[Len(S) + 1] = Run(q)
  BY <1>2, <1>3, AppendProperties
<1> HIDE DEF L, R, A2, S
<1>6. Len(L) = Len(R)
  BY <1>1, <1>2, <1>4, <1>5
<1>7. \A i \in 1..Len(L) : L[i] = R[i]
  <2> SUFFICES ASSUME NEW i \in 1..Len(L)
               PROVE  L[i] = R[i]
    OBVIOUS
  <2>1. CASE i = Len(Q) + 1
    BY <1>1, <1>2, <1>4, <1>5, <2>1
  <2>2. CASE i # Len(Q) + 1
    <3>1. i \in 1..Len(Q) /\ i \in 1..Len(S) /\ i \in 1..Len(A2)
      BY <1>1, <1>2, <1>4, <2>2
    <3> QED
      BY <1>1, <1>2, <1>4, <1>5, <3>1
  <2> QED
    BY <2>1, <2>2
<1>8. L = R
  BY <1>4, <1>5, <1>6, <1>7, SeqEqual
<1> QED
  BY <1>8 DEF L, R

LEMMA RunsTail ==
  ASSUME NEW Q \in Seq(QuarantinedBlock), Q # <<>>
  PROVE  /\ RunsOf(Tail(Q)) = Tail(RunsOf(Q))
         /\ RunsOf(Q) # <<>> /\ Head(RunsOf(Q)) = Run(Head(Q))
<1> DEFINE T == Tail(Q)
           S == RunsOf(Q)
           L == RunsOf(T)
           R == Tail(S)
<1>1. /\ T \in Seq(QuarantinedBlock) /\ Len(T) = Len(Q) - 1
      /\ Len(Q) \in Nat /\ Len(Q) > 0
      /\ \A i \in 1..Len(T) : T[i] = Q[i + 1]
      /\ Head(Q) = Q[1]
  OBVIOUS
<1>2. /\ S \in Seq(Int \X Int) /\ Len(S) = Len(Q)
      /\ \A i \in 1..Len(Q) : S[i] = Run(Q[i])
  BY Runs
<1>3. /\ L \in Seq(Int \X Int) /\ Len(L) = Len(T)
      /\ \A i \in 1..Len(T) : L[i] = Run(T[i])
  BY <1>1, Runs
<1> HIDE DEF L, T, S
<1>4. S # <<>>
  BY <1>1, <1>2
<1>5. /\ R \in Seq(Int \X Int) /\ Len(R) = Len(S) - 1
      /\ \A i \in 1..Len(R) : R[i] = S[i + 1]
      /\ Head(S) = S[1]
  BY <1>2, <1>4
<1> HIDE DEF R
<1>6. Len(L) = Len(R)
  BY <1>1, <1>2, <1>3, <1>5
<1>7. \A i \in 1..Len(L) : L[i] = R[i]
  <2> SUFFICES ASSUME NEW i \in 1..Len(L)
               PROVE  L[i] = R[i]
    OBVIOUS
  <2>1. i \in 1..Len(T) /\ i \in 1..Len(R) /\ i + 1 \in 1..Len(Q)
    BY <1>1, <1>3, <1>6
  <2> QED
    BY <1>1, <1>2, <1>3, <1>5, <2>1
<1>8. L = R
  BY <1>3, <1>5, <1>6, <1>7, SeqEqual
<1>9. Head(S) = Run(Head(Q))
  <2>1. 1 \in 1..Len(Q)
    BY <1>1
  <2> QED
    BY <1>1, <1>2, <1>5, <2>1
<1> QED
  BY <1>4, <1>8, <1>9 DEF L, R, T, S

LEMMA RestingRunsAreRuns == RestingRuns = RunsOf(quarantine)
BY DEF RestingRuns, RunsOf, Run

LEMMA SpanRun ==
  ASSUME NEW from \in Word, NEW to \in Word
  PROVE  from..(to - 1) = Span(from, to)
BY DEF Span

LEMMA AllocTakes ==
  ASSUME Inv, Sized, NEW r \in Requests, alloc(r[1], r[2])
  PROVE  A!Next
<1>1. PICK from \in Word, to \in Word, u \in Word : Granted(from, to, u)
  BY AllocGrants
<1> DEFINE last == to - 1
<1>2. /\ from \in Int /\ to \in Int /\ u \in Int /\ from <= u /\ u < to
      /\ last \in Int /\ u \in from..last /\ from \in from..last /\ last \in from..last
  BY <1>1, WordAssumption DEF Granted, Word
<1>3. from..last = Span(from, to)
  BY SpanRun
<1>4. Spare' = Spare \ (from..last) /\ from..last \subseteq Spare
  BY <1>1, <1>3, SpareIsSpareOf DEF Granted, Spare, SpareOf
<1>5. u \notin DOMAIN live
  <2>1. ASSUME u \in DOMAIN live
        PROVE  FALSE
    BY <1>2, <1>4, <2>1, LiveBlocks, SpareIsSpareOf
  <2> QED
    BY <2>1
<1>6. /\ DOMAIN live' = DOMAIN live \union {u}
      /\ live'[u].block_start = from /\ live'[u].block_end = to
      /\ \A v \in DOMAIN live : live'[v] = live[v]
      /\ answer' = <<"granted", u>>
  BY <1>1, <1>5 DEF Granted
<1>7. Grants' = Grants \union {<<u, from, last>>}
  BY <1>6 DEF Grants
<1>8. RestingRuns' = RestingRuns
  BY DEF alloc, RestingRuns
<1>9. A!Take(u, from, last)
  BY <1>2, <1>4, <1>6, <1>7, <1>8 DEF A!Take
<1>10. <<u, from, last>> \in Grants' \ Grants
  BY <1>5, <1>7 DEF Grants
<1> QED
  BY <1>9, <1>10 DEF A!Next

LEMMA RefusesRightly ==
  ASSUME Inv, Sized, NEW r \in Requests, OutOfMemory(r[1])
  PROVE  A!Next
<1> DEFINE n == total_needed(r[1])
<1>1. n \in Nat /\ MaxWord \in Nat
  BY NeedIsNat, WordAssumption
<1>2. free \in Seq(FreeBlock) /\ Ordered(free)
  BY DEF Inv, HeapTypeOK
<1>3. /\ \A i \in 1..Len(free) : ~(n <= MaxWord /\ free[i].size >= n)
      /\ answer' = <<"out of memory", n>>
      /\ UNCHANGED <<free, live, quarantine>>
  BY DEF OutOfMemory, HasRoom
<1> HIDE DEF n
<1>4. \A i \in 1..Len(free) : free[i].size < n
  <2> SUFFICES ASSUME NEW i \in 1..Len(free)
               PROVE  free[i].size < n
    OBVIOUS
  <2>1. free[i].size \in 0..MaxWord
    <3>1. free[i] \in FreeBlock
      BY <1>2, BlockFields
    <3> QED
      BY <3>1 DEF FreeBlock, Word
  <2>2. ~(n <= MaxWord /\ free[i].size >= n)
    BY <1>3
  <2> QED
    BY <1>1, <2>1, <2>2
<1>5. \A x \in Spare : ~(x..(x + n - 1) \subseteq Spare)
  BY <1>1, <1>2, <1>4, RunsFit, SpareIsSpareOf
<1>6. Spare' = Spare /\ Grants' = Grants /\ RestingRuns' = RestingRuns
  BY <1>3 DEF Spare, Grants, RestingRuns
<1>7. answer'[2] = n /\ answer' \in Replies \X Nat
  BY <1>1, <1>3, ReplyWords
<1>8. A!Refuse(n)
  BY <1>3, <1>5, <1>6 DEF A!Refuse
<1> QED
  BY <1>7, <1>8 DEF A!Next, A!Replies, Replies

LEMMA FreeReleases ==
  ASSUME Inv, ~Draining, NEW addr \in DOMAIN live, free_block(addr)
  PROVE  A!Next
<1> DEFINE from == live[addr].block_start
           to == live[addr].block_end
           last == to - 1
           q == quarantined(addr)
<1>1. /\ DOMAIN live' = DOMAIN live \ {addr}
      /\ \A u \in DOMAIN live' : live'[u] = live[u]
      /\ answer' = <<"freed", addr>>
  BY DEF free_block
<1>2. /\ from \in Word /\ to \in Word /\ BlockOf(addr) = Span(from, to)
      /\ quarantine \in Seq(QuarantinedBlock)
  BY LiveBlocks DEF BlockOf, Inv, HeapTypeOK
<1>3. from..last = BlockOf(addr)
  BY <1>2, SpanRun
<1>4. <<addr, from, last>> \in Grants
  BY DEF Grants
<1>5. Grants' = Grants \ {<<addr, from, last>>}
  BY <1>1 DEF Grants
<1>6. q \in QuarantinedBlock /\ Run(q) = <<from, last>>
  BY <1>2 DEF quarantined, QuarantinedBlock, Run
<1>7. CASE Quarantines(addr)
  <2>1. quarantine' = Append(quarantine, q) /\ Spare' = Spare
    BY <1>7 DEF Quarantines, Spare
  <2>2. RunsOf(Append(quarantine, q)) = Append(RunsOf(quarantine), Run(q))
    BY <1>2, <1>6, RunsAppend
  <2>3. RestingRuns' = RunsOf(quarantine')
    BY DEF RestingRuns, RunsOf, Run
  <2>4. RestingRuns' = Append(RestingRuns, <<from, last>>)
    BY <1>6, <2>1, <2>2, <2>3, RestingRunsAreRuns
  <2> HIDE DEF from, last, q
  <2>5. A!Release(addr, from, last)
    BY <1>1, <1>5, <2>1, <2>4 DEF A!Release
  <2> QED
    BY <1>4, <2>5 DEF A!Next
<1>8. CASE Returns(addr)
  <2>1. /\ quarantine = <<>> /\ quarantine' = quarantine
        /\ SpareOf(free') = SpareOf(free) \union BlockOf(addr)
    BY <1>8 DEF Returns
  <2>2. RestingRuns = <<>> /\ RestingRuns' = RestingRuns
    BY <2>1 DEF RestingRuns
  <2>3. Spare' = Spare \union (from..last)
    BY <1>3, <2>1, SpareIsSpareOf DEF Spare, SpareOf
  <2> HIDE DEF from, last, q
  <2>4. A!Release(addr, from, last)
    BY <1>1, <1>5, <2>2, <2>3 DEF A!Release
  <2> QED
    BY <1>4, <2>4 DEF A!Next
<1> QED
  BY <1>7, <1>8, FreeMoves

LEMMA DrainRecycles ==
  ASSUME Inv, Draining, drain_quarantine_over_budget
  PROVE  A!Recycle
<1> DEFINE h == Head(quarantine)
<1>1. /\ quarantine' = Tail(quarantine)
      /\ SpareOf(free') = SpareOf(free) \union RestOf(h)
  BY DrainReturns
<1>2. quarantine \in Seq(QuarantinedBlock) /\ quarantine # <<>>
  BY DEF Inv, HeapTypeOK, Draining
<1>3. h \in QuarantinedBlock
  BY <1>2
<1>4. /\ RunsOf(Tail(quarantine)) = Tail(RunsOf(quarantine))
      /\ RunsOf(quarantine) # <<>> /\ Head(RunsOf(quarantine)) = Run(h)
  BY <1>2, RunsTail
<1>5. RestingRuns' = RunsOf(quarantine')
  BY DEF RestingRuns, RunsOf, Run
<1>6. /\ RestingRuns # <<>> /\ RestingRuns' = Tail(RestingRuns)
      /\ Head(RestingRuns) = Run(h)
  BY <1>1, <1>4, <1>5, RestingRunsAreRuns
<1> HIDE DEF h
<1>7. h.block_start \in Word /\ h.block_end \in Word
  BY <1>3 DEF QuarantinedBlock
<1>8. Run(h)[1]..Run(h)[2] = RestOf(h)
  BY <1>7, SpanRun DEF Run, RestOf
<1>9. Spare' = Spare \union RestOf(h)
  BY <1>1, SpareIsSpareOf DEF Spare, SpareOf
<1>10. Grants' = Grants /\ answer' = answer
  BY DEF drain_quarantine_over_budget, Grants
<1> QED
  BY <1>6, <1>8, <1>9, <1>10 DEF A!Recycle

LEMMA NextRefines ==
  ASSUME Inv, Sized, [HeapNext]_heapVars
  PROVE  [A!Next]_(A!vars)
<1>1. CASE Draining /\ drain_quarantine_over_budget
  BY <1>1, DrainRecycles DEF A!Next
<1>2. ASSUME NEW r \in Requests, alloc(r[1], r[2]) \/ OutOfMemory(r[1])
      PROVE  A!Next
  BY <1>2, AllocTakes, RefusesRightly
<1>3. ASSUME ~Draining, NEW addr \in DOMAIN live, free_block(addr)
      PROVE  A!Next
  BY <1>3, FreeReleases
<1>4. ASSUME NEW addr \in Strays, DoubleOrInvalidFree(addr)
      PROVE  A!Next
  <2>1. /\ answer' = <<"invalid", addr>> /\ addr \notin DOMAIN live /\ addr \in Nat
        /\ UNCHANGED <<free, live, quarantine>>
    BY <1>4, InputsAssumption, WordAssumption DEF DoubleOrInvalidFree, Word
  <2>2. Spare' = Spare /\ Grants' = Grants /\ RestingRuns' = RestingRuns
    BY <2>1 DEF Spare, Grants, RestingRuns
  <2>3. \A g \in Grants : g[1] # addr
    BY <2>1 DEF Grants
  <2>4. answer'[2] = addr /\ answer' \in Replies \X Nat
    BY <2>1, ReplyWords
  <2>5. A!Reject(addr)
    BY <2>1, <2>2, <2>3 DEF A!Reject
  <2> QED
    BY <2>4, <2>5 DEF A!Next, A!Replies, Replies
<1>5. ASSUME NEW r \in Reservations, reserve_range(r[1], r[2])
      PROVE  A!Withdraw
  <2>1. PICK gone \in SUBSET SpareOf(free) : SpareOf(free') = SpareOf(free) \ gone
    BY <1>5, ReserveTakes
  <2>2. Spare' \subseteq Spare
    BY <2>1, SpareIsSpareOf DEF Spare, SpareOf
  <2>3. /\ Grants' = Grants /\ RestingRuns' = RestingRuns /\ answer' = <<"none", 0>>
    BY <1>5 DEF reserve_range, Grants, RestingRuns
  <2> QED
    BY <2>2, <2>3 DEF A!Withdraw
<1>6. ASSUME \/ \E size \in RedzoneSizes : set_redzone_size(size)
             \/ \E budget \in Budgets : set_quarantine_budget(budget)
      PROVE  A!Withdraw
  <2>1. UNCHANGED <<free, live, quarantine>> /\ answer' = <<"none", 0>>
    BY <1>6 DEF set_redzone_size, set_quarantine_budget
  <2>2. Spare' = Spare /\ Grants' = Grants /\ RestingRuns' = RestingRuns
    BY <2>1 DEF Spare, Grants, RestingRuns
  <2> QED
    BY <2>1, <2>2 DEF A!Withdraw
<1>7. CASE UNCHANGED heapVars
  <2>1. Spare' = Spare /\ Grants' = Grants /\ RestingRuns' = RestingRuns /\ answer' = answer
    BY <1>7 DEF heapVars, Spare, Grants, RestingRuns
  <2> QED
    BY <2>1 DEF A!vars
<1>8. A!Withdraw => A!Next
  BY DEF A!Next
<1> QED
  BY <1>1, <1>2, <1>3, <1>4, <1>5, <1>6, <1>7, <1>8 DEF HeapNext, Calls

(* The heap implements Arena: what is granted nobody has; a refusal means that
   nowhere are that many spare addresses in a row; what is freed is what was
   granted; and the quarantine is first in, first out. *)
THEOREM ImplementsArena ==
  ASSUME Sized
  PROVE  HeapSpec => HeapIsArena
<1>1. HeapInit => A!Init
  <2> SUFFICES ASSUME HeapInit
               PROVE  A!Init
    OBVIOUS
  <2>1. Inv
    BY InvInit
  <2>2. DOMAIN live = {} /\ quarantine = <<>> /\ reserved = {} /\ answer = <<"none", 0>>
    BY DEF HeapInit
  <2>3. Grants = {} /\ RestingRuns = <<>> /\ Held = {} /\ Resting = {}
    BY <2>2 DEF Grants, RestingRuns, Held, Resting
  <2>4. Spare = Managed
    BY <2>1, <2>2, <2>3 DEF Inv, Partition
  <2> QED
    BY <2>2, <2>3, <2>4 DEF A!Init
<1>2. Inv /\ [HeapNext]_heapVars => [A!Next]_(A!vars)
  BY NextRefines
<1> QED
  BY <1>1, <1>2, InvAlways, PTL DEF HeapSpec, HeapIsArena, A!Spec

-----------------------------------------------------------------------------
(* What the heap remembers of blocks.  The two halves need each other: the
   history holds user addresses and sizes, the quarantine whole blocks, and
   that one lies in the other comes from the extents of the block while it
   was live. *)

(* A call that leaves the live table alone leaves the extents alone. *)
LEMMA ExtentsSame ==
  ASSUME ExtentsRight, live' = live
  PROVE  ExtentsRight'
BY DEF ExtentsRight

(* An allocation records its ranges by the redzone size of its own time. *)
LEMMA ExtentsAlloc ==
  ASSUME Inv, ExtentsRight, NEW r \in Requests, alloc(r[1], r[2])
  PROVE  ExtentsRight'
<1> DEFINE size == r[1]
           requested == r[2]
<1>1. /\ size \in Word /\ requested \in Word /\ redzone_size \in Nat
      /\ free \in Seq(FreeBlock)
  BY InputsAssumption, WordAssumption DEF Inv, HeapTypeOK, Word
<1>2. align_up(size) \in Nat /\ requested \in Nat
  BY <1>1, AlignUp, WordAssumption DEF Word
<1>3. PICK i \in 1..Len(free) :
        LET u == free[i].start + redzone_size
        IN  live' = [v \in DOMAIN live \union {u} |->
                       IF v = u THEN [user_size |-> align_up(size),
                                      requested |-> Recorded(size, requested),
                                      block_start |-> free[i].start,
                                      block_end |-> free[i].start + total_needed(size)]
                       ELSE live[v]]
  BY DEF alloc
<1> DEFINE from == free[i].start
           u == from + redzone_size
           entry == [user_size |-> align_up(size), requested |-> Recorded(size, requested),
                     block_start |-> from, block_end |-> from + total_needed(size)]
<1>4. from \in Nat
  BY <1>1, BlockFields
<1>5. /\ entry.block_start = from
      /\ entry.user_size = align_up(size)
      /\ entry.requested = Recorded(size, requested)
      /\ entry.block_end = from + (2 * redzone_size + align_up(size))
  BY DEF total_needed
<1>6. Recorded(size, requested) <= align_up(size)
  BY <1>2 DEF Recorded
<1>7. /\ entry.block_start <= u
      /\ u + entry.user_size <= entry.block_end
      /\ u - entry.block_start = entry.block_end - (u + entry.user_size)
  <2> HIDE DEF entry, from, size
  <2>1. u = from + redzone_size
    OBVIOUS
  <2> QED
    BY <1>1, <1>2, <1>4, <1>5, <2>1
<1>8. /\ DOMAIN live' = DOMAIN live \union {u}
      /\ live'[u] = entry
      /\ \A v \in DOMAIN live : v # u => live'[v] = live[v]
  BY <1>3
<1> HIDE DEF entry, u, from
<1>9. ASSUME NEW v \in DOMAIN live'
      PROVE  /\ live'[v].block_start <= v
             /\ live'[v].requested <= live'[v].user_size
             /\ v + live'[v].user_size <= live'[v].block_end
             /\ v - live'[v].block_start = live'[v].block_end - (v + live'[v].user_size)
  <2>1. CASE v = u
    BY <1>5, <1>6, <1>7, <1>8, <2>1
  <2>2. CASE v # u
    BY <1>8, <2>2 DEF ExtentsRight
  <2> QED
    BY <2>1, <2>2
<1> QED
  BY <1>9 DEF ExtentsRight

(* The history after a free: its newest entry is the freed block, the ones
   before are those that were there, as many as it has room for. *)
LEMMA Recording ==
  ASSUME NEW H \in Seq([addr : Word, size : Word]), recently_freed = H,
         NEW addr \in Word, NEW size \in Word, record_recently_freed(addr, size)
  PROVE  LET G == recently_freed'
         IN  /\ G \in Seq([addr : Word, size : Word])
             /\ Len(G) > 0 /\ G[Len(G)] = [addr |-> addr, size |-> size]
             /\ \A k \in 1..(History - 1) :
                  k <= Len(H) => /\ k + 1 <= Len(G)
                                 /\ G[Len(G) - k] = H[Len(H) + 1 - k]
<1> DEFINE e == [addr |-> addr, size |-> size]
           S == [addr : Word, size : Word]
           longer == Append(H, e)
           G == recently_freed'
<1>1. e \in S /\ History \in Nat /\ History > 0
  BY HistoryAssumption
<1> HIDE DEF e, S
<1>2. /\ longer \in Seq(S) /\ Len(longer) = Len(H) + 1 /\ Len(H) \in Nat
      /\ longer[Len(H) + 1] = e
      /\ \A i \in 1..Len(H) : longer[i] = H[i]
  BY <1>1 DEF S
<1>3. G = IF Len(longer) > History THEN Tail(longer) ELSE longer
  BY DEF record_recently_freed, e
<1> HIDE DEF longer
<1>4. CASE ~(Len(longer) > History)
  <2>1. G = longer /\ Len(G) = Len(H) + 1
    BY <1>2, <1>3, <1>4
  <2>2. ASSUME NEW k \in 1..(History - 1), k <= Len(H)
        PROVE  k + 1 <= Len(G) /\ G[Len(G) - k] = H[Len(H) + 1 - k]
    <3>1. Len(G) - k = Len(H) + 1 - k /\ Len(H) + 1 - k \in 1..Len(H) /\ k + 1 <= Len(G)
      BY <1>1, <1>2, <2>1, <2>2
    <3> QED
      BY <1>2, <2>1, <3>1
  <2> QED
    BY <1>2, <2>1, <2>2 DEF e, S
<1>5. CASE Len(longer) > History
  <2>1. G = Tail(longer) /\ longer # <<>>
    BY <1>1, <1>2, <1>3, <1>5
  <2>2. /\ G \in Seq(S) /\ Len(G) = Len(H)
        /\ \A i \in 1..Len(G) : G[i] = longer[i + 1]
    BY <1>2, <2>1, HeadTailProperties
  <2>3. Len(H) >= History
    BY <1>1, <1>2, <1>5
  <2>4. Len(G) > 0 /\ G[Len(G)] = e
    <3>1. Len(G) \in 1..Len(G)
      BY <1>1, <1>2, <2>2, <2>3
    <3> QED
      BY <1>2, <2>2, <3>1
  <2>5. ASSUME NEW k \in 1..(History - 1), k <= Len(H)
        PROVE  k + 1 <= Len(G) /\ G[Len(G) - k] = H[Len(H) + 1 - k]
    <3>1. /\ k + 1 <= Len(G) /\ Len(G) - k \in 1..Len(G) /\ Len(G) - k + 1 \in 1..Len(H)
          /\ Len(G) - k + 1 = Len(H) + 1 - k
      BY <1>1, <1>2, <2>2, <2>3, <2>5
    <3>2. G[Len(G) - k] = longer[Len(G) - k + 1]
      BY <2>2, <3>1
    <3> QED
      BY <1>2, <3>1, <3>2
  <2> QED
    BY <2>2, <2>4, <2>5 DEF e, S
<1> QED
  BY <1>4, <1>5

(* A free records the block it queues. *)
LEMMA RecordsFree ==
  ASSUME Inv, RecordsRight, ~Draining, NEW addr \in DOMAIN live, free_block(addr)
  PROVE  RecordsRight'
<1> DEFINE l == live[addr]
           H == recently_freed
           G == recently_freed'
           Q == quarantine
           e == [addr |-> addr, size |-> l.user_size]
<1>1. /\ l \in LiveAlloc /\ addr \in Word /\ l.user_size \in Word
      /\ l.block_start \in Word /\ l.block_end \in Word
  BY DEF Inv, HeapTypeOK, LiveAlloc
<1>2. ExtentsRight'
  <2>1. live' = [u \in DOMAIN live \ {addr} |-> live[u]]
    BY DEF free_block
  <2> QED
    BY <2>1 DEF RecordsRight, ExtentsRight
<1>3. HistoryMatches'
  <2>1. CASE Quarantines(addr)
    <3> DEFINE q == quarantined(addr)
    <3>1. q = [block_start |-> l.block_start, block_end |-> l.block_end]
      BY DEF quarantined
    <3>2. q \in QuarantinedBlock /\ Q \in Seq(QuarantinedBlock) /\ quarantine' = Append(Q, q)
      BY <1>1, <2>1, <3>1 DEF QuarantinedBlock, Quarantines, Inv, HeapTypeOK
    <3>3. /\ Len(quarantine') = Len(Q) + 1 /\ Len(Q) \in Nat
          /\ quarantine'[Len(Q) + 1] = q
          /\ \A i \in 1..Len(Q) : quarantine'[i] = Q[i]
      <4> HIDE DEF q, Q
      <4> QED
        BY <3>2
    <3>4. /\ G \in Seq([addr : Word, size : Word])
          /\ Len(G) > 0 /\ G[Len(G)] = e
          /\ \A k \in 1..(History - 1) :
               k <= Len(H) => k + 1 <= Len(G) /\ G[Len(G) - k] = H[Len(H) + 1 - k]
      <4>1. H \in Seq([addr : Word, size : Word]) /\ record_recently_freed(addr, l.user_size)
        BY DEF Inv, HeapTypeOK, free_block
      <4> QED
        BY <1>1, <4>1, Recording
    <3>5. Len(G) \in Nat /\ Len(H) \in Nat /\ History \in Nat
      BY <3>4, HistoryAssumption DEF Inv, HeapTypeOK
    <3>6. Span(e.addr, e.addr + e.size) \subseteq Span(q.block_start, q.block_end)
      <4>1. /\ l.block_start <= addr /\ addr + l.user_size <= l.block_end
        BY DEF RecordsRight, ExtentsRight
      <4>2. /\ e.addr = addr /\ e.size = l.user_size
            /\ q.block_start = l.block_start /\ q.block_end = l.block_end
        BY <3>1
      <4>3. /\ addr \in Nat /\ l.user_size \in Nat
            /\ l.block_start \in Nat /\ l.block_end \in Nat
        BY <1>1, WordAssumption DEF Word
      <4> HIDE DEF l, e, q
      <4> QED
        BY <4>1, <4>2, <4>3 DEF Span
    <3> HIDE DEF e, q, G, H, Q
    <3>7. ASSUME NEW k \in 1..History, k <= Len(quarantine')
          PROVE  /\ k <= Len(G)
                 /\ LET p == quarantine'[Len(quarantine') + 1 - k]
                        r == G[Len(G) + 1 - k]
                    IN  Span(r.addr, r.addr + r.size) \subseteq Span(p.block_start, p.block_end)
      <4>1. CASE k = 1
        <5>1. Len(quarantine') + 1 - k = Len(Q) + 1 /\ Len(G) + 1 - k = Len(G) /\ k <= Len(G)
          BY <3>3, <3>4, <3>5, <4>1
        <5> QED
          BY <3>3, <3>4, <3>6, <5>1
      <4>2. CASE k # 1
        <5> DEFINE j == k - 1
        <5>1. /\ j \in 1..(History - 1) /\ j \in 1..History /\ j <= Len(Q)
              /\ Len(quarantine') + 1 - k = Len(Q) + 1 - j
              /\ Len(Q) + 1 - j \in 1..Len(Q)
              /\ Len(G) + 1 - k = Len(G) - j /\ k = j + 1
          BY <3>3, <3>5, <3>7, <4>2
        <5> HIDE DEF j
        <5>2. /\ j <= Len(H)
              /\ LET p == Q[Len(Q) + 1 - j]
                     r == H[Len(H) + 1 - j]
                 IN  Span(r.addr, r.addr + r.size) \subseteq Span(p.block_start, p.block_end)
          BY <5>1 DEF RecordsRight, HistoryMatches, Q, H
        <5>3. j + 1 <= Len(G) /\ G[Len(G) - j] = H[Len(H) + 1 - j]
          BY <3>4, <5>1, <5>2
        <5>4. quarantine'[Len(Q) + 1 - j] = Q[Len(Q) + 1 - j]
          BY <3>3, <5>1
        <5> QED
          BY <5>1, <5>2, <5>3, <5>4
      <4> QED
        BY <4>1, <4>2
    <3> QED
      BY <3>7 DEF HistoryMatches, G
  <2>2. CASE Returns(addr)
    <3>1. Len(quarantine') = 0
      BY <2>2 DEF Returns
    <3>2. \A k \in 1..History : ~(k <= Len(quarantine'))
      BY <3>1, HistoryAssumption
    <3> QED
      BY <3>2 DEF HistoryMatches
  <2> QED
    BY <2>1, <2>2, FreeMoves
<1> QED
  BY <1>2, <1>3 DEF RecordsRight

(* The drain takes the oldest block and leaves the newest ones alone. *)
LEMMA RecordsDrain ==
  ASSUME Inv, RecordsRight, Draining, drain_quarantine_over_budget
  PROVE  RecordsRight'
<1> DEFINE Q == quarantine
           T == Tail(Q)
<1>1. /\ quarantine' = T /\ live' = live /\ recently_freed' = recently_freed
      /\ Q \in Seq(QuarantinedBlock) /\ Q # <<>>
  BY DEF drain_quarantine_over_budget, Draining, Inv, HeapTypeOK
<1>2. /\ Len(T) = Len(Q) - 1 /\ Len(Q) \in Nat
      /\ \A i \in 1..Len(T) : T[i] = Q[i + 1]
  <2> HIDE DEF Q
  <2> QED
    BY <1>1, HeadTailProperties
<1> HIDE DEF T, Q
<1>3. ASSUME NEW k \in 1..History, k <= Len(T)
      PROVE  k <= Len(Q) /\ T[Len(T) + 1 - k] = Q[Len(Q) + 1 - k]
  <2>1. /\ Len(T) + 1 - k \in 1..Len(T) /\ (Len(T) + 1 - k) + 1 = Len(Q) + 1 - k
        /\ k <= Len(Q)
    BY <1>2, <1>3, HistoryAssumption
  <2> QED
    BY <1>2, <2>1
<1>4. HistoryMatches'
  BY <1>1, <1>3 DEF RecordsRight, HistoryMatches, Q
<1> QED
  BY <1>1, <1>4, ExtentsSame DEF RecordsRight

(* The other calls touch neither the live table nor what was freed. *)
LEMMA RecordsSame ==
  ASSUME RecordsRight, UNCHANGED <<live, quarantine, recently_freed>>
  PROVE  RecordsRight'
BY DEF RecordsRight, ExtentsRight, HistoryMatches

LEMMA RecordsNext ==
  ASSUME Inv, RecordsRight, [HeapNext]_heapVars
  PROVE  RecordsRight'
<1>1. CASE Draining /\ drain_quarantine_over_budget
  BY <1>1, RecordsDrain
<1>2. ASSUME NEW r \in Requests, alloc(r[1], r[2])
      PROVE  RecordsRight'
  <2>1. quarantine' = quarantine /\ recently_freed' = recently_freed
    BY <1>2 DEF alloc
  <2>2. ExtentsRight'
    BY <1>2, ExtentsAlloc DEF RecordsRight
  <2> QED
    BY <2>1, <2>2 DEF RecordsRight, HistoryMatches
<1>3. ASSUME NEW r \in Requests, OutOfMemory(r[1])
      PROVE  RecordsRight'
  BY <1>3, RecordsSame DEF OutOfMemory
<1>4. ASSUME ~Draining, NEW addr \in DOMAIN live, free_block(addr)
      PROVE  RecordsRight'
  BY <1>4, RecordsFree
<1>5. ASSUME NEW addr \in Strays, DoubleOrInvalidFree(addr)
      PROVE  RecordsRight'
  BY <1>5, RecordsSame DEF DoubleOrInvalidFree
<1>6. ASSUME NEW r \in Reservations, reserve_range(r[1], r[2])
      PROVE  RecordsRight'
  BY <1>6, RecordsSame DEF reserve_range
<1>7. ASSUME NEW size \in RedzoneSizes, set_redzone_size(size)
      PROVE  RecordsRight'
  BY <1>7, RecordsSame DEF set_redzone_size
<1>8. ASSUME NEW budget \in Budgets, set_quarantine_budget(budget)
      PROVE  RecordsRight'
  BY <1>8, RecordsSame DEF set_quarantine_budget
<1>9. CASE UNCHANGED heapVars
  BY <1>9, RecordsSame DEF heapVars
<1> QED
  BY <1>1, <1>2, <1>3, <1>4, <1>5, <1>6, <1>7, <1>8, <1>9 DEF HeapNext, Calls

(* The records of blocks stay true of the blocks: the ranges of live ones, and
   the history of frees as far back as it and the quarantine both reach. *)
THEOREM RecordsStayRight ==
  ASSUME Sized
  PROVE  HeapSpec => []RecordsRight
<1>1. HeapInit => RecordsRight
  <2> SUFFICES ASSUME HeapInit PROVE RecordsRight
    OBVIOUS
  <2>1. DOMAIN live = {} /\ Len(quarantine) = 0
    BY DEF HeapInit
  <2>2. \A k \in 1..History : ~(k <= Len(quarantine))
    BY <2>1, HistoryAssumption
  <2> QED
    BY <2>1, <2>2 DEF RecordsRight, ExtentsRight, HistoryMatches
<1>2. Inv /\ RecordsRight /\ [HeapNext]_heapVars => RecordsRight'
  BY RecordsNext
<1> QED
  BY <1>1, <1>2, InvAlways, PTL DEF HeapSpec
=============================================================================
