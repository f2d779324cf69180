---------------------------- MODULE ExecMemProofs ----------------------------
(***************************************************************************)
(* Proofs about ExecMem: nothing leaks, the sanitizer accuses nothing that *)
(* is right, and it knows every byte that is not.                          *)
(*                                                                         *)
(* The invariant has two halves.  Books: the live blocks of the heap are   *)
(* exactly those the program holds, those a deleted pool left behind and   *)
(* those of an AllocEntry in progress, each in an extent of its own        *)
(* (HeapInv, what is proved of GuestHeap).  Marks: what the shadow map     *)
(* says of every byte of those extents and of the quarantine.  A handler   *)
(* marks only inside the extent it takes or frees, and the extents are     *)
(* disjoint: that is why it leaves the other blocks' marks alone.          *)
(***************************************************************************)
EXTENDS ExecMem, TLAPS

\* The heap under the program is that of GuestHeap, asked for anything but 0
\* bytes, and so what is proved of GuestHeap holds of it.
G == INSTANCE GuestHeapProofs WITH
       Requests <- (1..MaxWord) \X (0..MaxWord),
       RedzoneSizes <- {}, Budgets <- {}, Reservations <- {}, History <- 1

\* The heap lies above address 4, where the pointer to ExecBase is.
High == Start > 4

\* No request is within 15 bytes of the end of the word.  AllocVec would round
\* it up and add its header to 0.
Modest == \A size \in Sizes : size + 15 <= MaxWord

LEMMA HeapAssumptions ==
  /\ G!WordAssumption /\ G!RangeAssumption /\ G!InputsAssumption /\ G!HistoryAssumption
  /\ G!Sized
<1>1. G!WordAssumption /\ G!RangeAssumption /\ G!HistoryAssumption
  BY WordAssumption, RangeAssumption
     DEF G!WordAssumption, G!RangeAssumption, G!HistoryAssumption, G!Word
<1>2. G!InputsAssumption
  BY WordAssumption, ArgumentsAssumption DEF G!InputsAssumption, G!Word
<1>3. G!Sized
  BY DEF G!Sized
<1> QED BY <1>1, <1>2, <1>3

LEMMA SameState ==
  /\ H!HeapInit <=> G!HeapInit
  /\ H!Draining <=> G!Draining
  /\ H!Managed = G!Managed
  /\ H!Resting = G!Resting
<1>1. H!HeapInit <=> G!HeapInit
  BY DEF H!HeapInit, G!HeapInit, H!Limit, G!Limit, H!Base, G!Base, H!align_up, G!align_up,
         H!align_down, G!align_down
<1>2. H!Draining <=> G!Draining
  BY DEF H!Draining, G!Draining
<1>3. H!Managed = G!Managed
  BY DEF H!Managed, G!Managed, H!Limit, G!Limit, H!Base, G!Base, H!align_up, G!align_up,
         H!align_down, G!align_down, H!Span, G!Span
<1>4. H!Resting = G!Resting
  BY DEF H!Resting, G!Resting, H!RestOf, G!RestOf, H!Span, G!Span
<1> QED BY <1>1, <1>2, <1>3, <1>4

LEMMA SameAlloc ==
  ASSUME NEW n, NEW r, H!alloc(n, r)
  PROVE  G!alloc(n, r)
BY DEF H!alloc, G!alloc, H!total_needed, G!total_needed, H!align_up, G!align_up,
       H!HasRoom, G!HasRoom, H!Recorded, G!Recorded, H!Splice, G!Splice, H!settings, G!settings

LEMMA SameFree ==
  ASSUME NEW u, H!free_block(u)
  PROVE  G!free_block(u)
BY DEF H!free_block, G!free_block, H!record_recently_freed, G!record_recently_freed,
       H!release_block, G!release_block, H!quarantined, G!quarantined, H!counted, G!counted,
       H!settings, G!settings, H!Splice, G!Splice, H!EndOf, G!EndOf, H!LengthOf, G!LengthOf

LEMMA SameDrain ==
  ASSUME H!drain_quarantine_over_budget
  PROVE  G!drain_quarantine_over_budget
BY DEF H!drain_quarantine_over_budget, G!drain_quarantine_over_budget,
       H!release_block, G!release_block, H!settings, G!settings, H!Splice, G!Splice,
       H!EndOf, G!EndOf, H!LengthOf, G!LengthOf

-----------------------------------------------------------------------------
(* What the calls of the heap do, in terms of live blocks and addresses. *)

HeapInv == G!Inv /\ G!ExtentsRight

BlockAt(u) == H!Span(live[u].block_start, live[u].block_end)

LEMMA LiveBlock ==
  ASSUME HeapInv, NEW u \in DOMAIN live
  PROVE  /\ u \in Nat /\ live[u].user_size \in Nat /\ live[u].requested \in Nat
         /\ live[u].block_start \in Nat /\ live[u].block_end \in Nat
         /\ live[u].block_start <= u /\ u < live[u].block_end
         /\ live[u].requested <= live[u].user_size
         /\ u + live[u].user_size <= live[u].block_end
         /\ BlockAt(u) \subseteq H!Managed
         /\ BlockAt(u) \intersect H!Resting = {}
         /\ \A v \in DOMAIN live : v # u => BlockAt(u) \intersect BlockAt(v) = {}
<1>1. /\ live[u] \in G!LiveAlloc /\ u \in G!Word
      /\ live[u].block_start <= u /\ u < live[u].block_end
  BY DEF HeapInv, G!Inv, G!HeapTypeOK
<1>2. /\ u \in Nat /\ live[u].user_size \in Nat /\ live[u].requested \in Nat
      /\ live[u].block_start \in Nat /\ live[u].block_end \in Nat
  BY <1>1, WordAssumption DEF G!LiveAlloc, G!Word
<1>3. /\ live[u].requested <= live[u].user_size
      /\ u + live[u].user_size <= live[u].block_end
  BY DEF HeapInv, G!ExtentsRight
<1>4. \A v \in DOMAIN live : G!BlockOf(v) = BlockAt(v)
  BY DEF G!BlockOf, BlockAt, G!Span, H!Span
<1>5. /\ G!BlockOf(u) \subseteq G!Held
     /\ G!Held \subseteq G!Managed
     /\ G!Held \intersect G!Resting = {}
  BY DEF HeapInv, G!Inv, G!Partition, G!Held
<1>6. \A v \in DOMAIN live : v # u => G!BlockOf(u) \intersect G!BlockOf(v) = {}
  BY DEF HeapInv, G!Inv, G!Partition
<1> QED BY <1>1, <1>2, <1>3, <1>4, <1>5, <1>6, SameState

\* The heap's own rounding, of what a word holds.
LEMMA AlignedUp ==
  ASSUME NEW n \in 0..MaxWord
  PROVE  /\ G!align_up(n) \in 0..MaxWord
         /\ n % 4 = 0 => G!align_up(n) = n
         /\ n > 4 => G!align_up(n) = MaxWord - 3 \/ G!align_up(n) >= 8
         /\ n <= G!align_up(n) \/ G!align_up(n) = MaxWord - 3
<1>1. MaxWord \in Nat /\ MaxWord > 3 /\ MaxWord % 4 = 3
  BY WordAssumption
<1>2. CASE n + 3 > MaxWord
  <2>1. G!align_up(n) = MaxWord - 3
    BY <1>2 DEF G!align_up
  <2>2. n % 4 = 0 => n = MaxWord - 3
    BY <1>1, <1>2
  <2> QED BY <1>1, <2>1, <2>2
<1>3. CASE ~(n + 3 > MaxWord)
  <2>1. G!align_up(n) = ((n + 3) \div 4) * 4
    BY <1>3 DEF G!align_up
  <2>2. /\ ((n + 3) \div 4) * 4 \in Nat
        /\ ((n + 3) \div 4) * 4 <= n + 3 /\ n <= ((n + 3) \div 4) * 4
        /\ n % 4 = 0 => ((n + 3) \div 4) * 4 = n
        /\ n > 4 => ((n + 3) \div 4) * 4 >= 8
    OBVIOUS
  <2> QED BY <1>1, <1>3, <2>1, <2>2
<1> QED BY <1>2, <1>3

\* What the first fit found, as far as the callers need to know.
Found(n, r, u, l) ==
  /\ answer' = <<"granted", u>>
  /\ u \in Nat /\ u \notin DOMAIN live
  /\ DOMAIN live' = DOMAIN live \union {u}
  /\ live'[u] = l /\ l.user_size = n /\ l.requested = r
  /\ l.block_start \in Nat /\ l.block_end \in Nat
  /\ l.block_start <= u /\ u + n <= l.block_end
  /\ \A v \in DOMAIN live : live'[v] = live[v]
  /\ H!Span(l.block_start, l.block_end) \subseteq H!Managed
  /\ H!Span(l.block_start, l.block_end) \intersect H!Resting = {}
  /\ \A v \in DOMAIN live : H!Span(l.block_start, l.block_end) \intersect BlockAt(v) = {}
  /\ quarantine' = quarantine /\ UNCHANGED <<redzone_size, quarantine_budget>>

\* The heap's ends leave no room for a request that was not rounded but cut.
LEMMA Room ==
  ASSUME HeapInv, High, NEW n \in 1..MaxWord, NEW r, H!alloc(n, r)
  PROVE  n <= MaxWord - 11
<1>1. MaxWord \in Nat /\ MaxWord > 3 /\ MaxWord % 4 = 3
  BY WordAssumption
<1>2. PICK i \in 1..Len(free) : free[i].size >= G!total_needed(n)
  BY SameAlloc DEF G!alloc, G!HasRoom
<1>3. /\ free \in Seq(G!FreeBlock) /\ redzone_size \in 0..MaxWord
      /\ \A j \in 1..Len(free) : free[j].size > 0
  BY DEF HeapInv, G!Inv, G!HeapTypeOK, G!Ordered, G!Word
<1>4. free[i].start \in Nat /\ free[i].size \in Nat /\ free[i].size > 0
  BY <1>3, HeapAssumptions, G!BlockFields
<1>5. free[i].start + free[i].size <= G!Limit
  BY HeapAssumptions, G!BlocksInMemory DEF HeapInv, G!EndOf
<1>6. free[i].start \in G!Spare
  <2>1. free[i].start \in G!Span(free[i].start, G!EndOf(free[i]))
    BY <1>4 DEF G!Span, G!EndOf
  <2>2. i \in DOMAIN free
    BY <1>3
  <2> QED BY <2>1, <2>2 DEF G!Spare
<1>7. G!Base <= free[i].start
  <2>1. G!Spare \subseteq G!Managed
    BY DEF HeapInv, G!Inv, G!Partition
  <2>2. G!Base \in 0..MaxWord /\ G!Limit \in 0..MaxWord
    BY HeapAssumptions, G!Ends DEF G!Word
  <2>3. free[i].start \in G!Base..(G!Limit - 1)
    BY <1>6, <2>1 DEF G!Managed, G!Span
  <2> QED BY <1>1, <1>4, <2>2, <2>3
<1>8. G!Limit <= MaxWord - 3 /\ G!Limit \in Nat
  <2>1. End \in 0..MaxWord
    BY RangeAssumption
  <2> QED BY <1>1, <2>1 DEF G!Limit, G!align_down
<1>9. G!Base = MaxWord - 3 \/ G!Base >= 8
  BY AlignedUp, RangeAssumption DEF G!Base, High
<1>10. G!Base \in Nat
  BY AlignedUp, RangeAssumption DEF G!Base
<1>11. free[i].size <= MaxWord - 11
  BY <1>1, <1>4, <1>5, <1>7, <1>8, <1>9, <1>10
<1>12. G!align_up(n) \in 0..MaxWord /\ (n <= G!align_up(n) \/ G!align_up(n) = MaxWord - 3)
  BY AlignedUp
<1>13. G!total_needed(n) = 2 * redzone_size + G!align_up(n)
  BY DEF G!total_needed
<1> QED BY <1>1, <1>2, <1>3, <1>4, <1>11, <1>12, <1>13

LEMMA Takes ==
  ASSUME HeapInv, NEW n \in 1..MaxWord, n % 4 = 0, NEW r \in 0..n, H!alloc(n, r)
  PROVE  /\ HeapInv'
         /\ \E u, l : Found(n, r, u, l)
<1>1. MaxWord \in Nat
  BY WordAssumption
<1> DEFINE q == <<n, r>>
<1>2. q \in (1..MaxWord) \X (0..MaxWord) /\ q[1] = n /\ q[2] = r
  BY <1>1
<1>3. G!alloc(q[1], q[2]) /\ G!Inv /\ G!ExtentsRight /\ G!Sized
  BY <1>2, SameAlloc, HeapAssumptions DEF HeapInv
<1> HIDE DEF q
<1>4. HeapInv'
  <2>1. G!Inv'
    BY <1>2, <1>3, HeapAssumptions, G!InvAlloc
  <2>2. G!ExtentsRight'
    BY <1>2, <1>3, HeapAssumptions, G!ExtentsAlloc
  <2> QED BY <2>1, <2>2 DEF HeapInv
<1>5. PICK from, to, u \in G!Word : G!Granted(from, to, u)
  BY <1>2, <1>3, HeapAssumptions, G!AllocGrants
<1>6. PICK i \in 1..Len(free) :
        LET w == free[i].start + redzone_size
            e == [user_size |-> G!align_up(n), requested |-> G!Recorded(n, r),
                  block_start |-> free[i].start, block_end |-> free[i].start + G!total_needed(n)]
        IN  /\ live' = [v \in DOMAIN live \union {w} |-> IF v = w THEN e ELSE live[v]]
            /\ answer' = <<"granted", w>>
            /\ quarantine' = quarantine /\ UNCHANGED <<redzone_size, quarantine_budget>>
  BY SameAlloc DEF G!alloc, G!settings
<1> DEFINE w == free[i].start + redzone_size
           l == live'[w]
<1>7. u = w /\ answer' = <<"granted", u>>
  BY <1>5, <1>6 DEF G!Granted
<1>8. G!align_up(n) = n /\ G!Recorded(n, r) = r
  <2>1. G!align_up(n) = n
    BY AlignedUp, <1>1
  <2> QED BY <1>1, <2>1 DEF G!Recorded
<1>9. l.user_size = n /\ l.requested = r
  BY <1>6, <1>8
<1>10. l.block_start = from /\ l.block_end = to
  BY <1>5, <1>7 DEF G!Granted
<1>11. from \in Nat /\ to \in Nat /\ u \in Nat /\ from <= u /\ u < to
  BY <1>1, <1>5 DEF G!Granted, G!Word
<1>12. G!Span(from, to) \subseteq G!Spare /\ u \in G!Span(from, to)
  BY <1>5, <1>11 DEF G!Granted, G!Span
<1>13. G!Spare \subseteq G!Managed /\ G!Spare \intersect (G!Held \union G!Resting) = {}
  BY DEF HeapInv, G!Inv, G!Partition
<1>14. \A v \in DOMAIN live : BlockAt(v) \subseteq G!Held /\ v \in BlockAt(v)
  BY HeapAssumptions, <1>3, G!LiveBlocks DEF BlockAt, H!Span, G!BlockOf, G!Span
<1>15. u \notin DOMAIN live
  BY <1>12, <1>13, <1>14
<1>16. DOMAIN live' = DOMAIN live \union {u} /\ \A v \in DOMAIN live : live'[v] = live[v]
  BY <1>6, <1>7, <1>15
<1>17. H!Span(l.block_start, l.block_end) = G!Span(from, to)
  BY <1>10 DEF H!Span, G!Span
<1>18. Found(n, r, u, l)
  <2>2. l.block_start <= u /\ u + l.user_size <= l.block_end
    BY <1>4, <1>7, <1>16 DEF HeapInv, G!ExtentsRight
  <2> HIDE DEF l
  <2>1. live'[u] = l
    BY <1>7 DEF l
  <2> QED
    BY <2>1, <2>2, <1>6, <1>7, <1>9, <1>10, <1>11, <1>12, <1>13, <1>14, <1>15,
       <1>16, <1>17, SameState DEF Found
<1> QED BY <1>4, <1>18

LEMMA Frees ==
  ASSUME HeapInv, ~H!Draining, NEW u \in DOMAIN live, H!free_block(u)
  PROVE  /\ HeapInv'
         /\ DOMAIN live' = DOMAIN live \ {u}
         /\ \A v \in DOMAIN live \ {u} : live'[v] = live[v]
         /\ \/ quarantine' = quarantine
            \/ quarantine' = Append(quarantine, [block_start |-> live[u].block_start,
                                                 block_end |-> live[u].block_end])
         /\ UNCHANGED <<redzone_size, quarantine_budget>>
<1>1. G!free_block(u) /\ ~G!Draining /\ G!Inv
  BY SameFree, SameState DEF HeapInv
<1>2. G!Inv'
  BY <1>1, HeapAssumptions, G!InvFree
<1>3. live' = [v \in DOMAIN live \ {u} |-> live[v]]
  BY <1>1 DEF G!free_block
<1>4. G!ExtentsRight'
  BY <1>3 DEF HeapInv, G!ExtentsRight
<1>5. /\ \/ quarantine' = quarantine
         \/ quarantine' = Append(quarantine, [block_start |-> live[u].block_start,
                                              block_end |-> live[u].block_end])
      /\ UNCHANGED <<redzone_size, quarantine_budget>>
  BY <1>1 DEF G!free_block, G!quarantined, G!settings
<1> QED BY <1>2, <1>3, <1>4, <1>5 DEF HeapInv

LEMMA Drains ==
  ASSUME HeapInv, H!Draining, H!drain_quarantine_over_budget
  PROVE  /\ HeapInv'
         /\ live' = live
         /\ quarantine' = Tail(quarantine)
         /\ quarantine # <<>>
         /\ \A i \in 2..Len(quarantine) :
              quarantine[i].block_start # quarantine[1].block_start
         /\ UNCHANGED <<redzone_size, quarantine_budget>>
<1>1. G!drain_quarantine_over_budget /\ G!Draining /\ G!Inv
  BY SameDrain, SameState DEF HeapInv
<1>2. G!Inv'
  BY <1>1, HeapAssumptions, G!InvDrain
<1>3. /\ live' = live /\ quarantine' = Tail(quarantine) /\ quarantine # <<>>
      /\ UNCHANGED <<redzone_size, quarantine_budget>>
  BY <1>1 DEF G!drain_quarantine_over_budget, G!settings, G!Draining
<1>4. G!ExtentsRight'
  BY <1>3 DEF HeapInv, G!ExtentsRight
<1>5. ASSUME NEW i \in 2..Len(quarantine)
      PROVE  quarantine[i].block_start # quarantine[1].block_start
  <2>1. quarantine \in Seq(G!QuarantinedBlock)
    BY DEF HeapInv, G!Inv, G!HeapTypeOK
  <2>2. Len(quarantine) \in Nat /\ DOMAIN quarantine = 1..Len(quarantine)
    BY <2>1
  <2>3. i \in DOMAIN quarantine /\ 1 \in DOMAIN quarantine /\ i # 1
    BY <2>2
  <2>4. \A j \in DOMAIN quarantine : quarantine[j] \in G!QuarantinedBlock
    BY <2>1
  <2>5. \A j \in {1, i} : /\ quarantine[j].block_start \in Nat /\ quarantine[j].block_end \in Nat
                         /\ quarantine[j].block_start < quarantine[j].block_end
    BY <2>3, <2>4, WordAssumption DEF HeapInv, G!Inv, G!QuarantinedBlock, G!Word
  <2>6. \A j \in {1, i} : quarantine[j].block_start \in G!RestOf(quarantine[j])
    BY <2>5 DEF G!RestOf, G!Span
  <2>7. G!RestOf(quarantine[i]) \intersect G!RestOf(quarantine[1]) = {}
    BY <2>3 DEF HeapInv, G!Inv, G!Partition
  <2> QED BY <2>6, <2>7
<1> QED BY <1>2, <1>3, <1>4, <1>5 DEF HeapInv

\* A refusal and an invalid free change the answer alone.
LEMMA Answers ==
  ASSUME HeapInv,
         \/ \E n \in Nat : H!OutOfMemory(n)
         \/ \E a \in Nat : H!DoubleOrInvalidFree(a)
  PROVE  /\ HeapInv'
         /\ live' = live /\ quarantine' = quarantine
         /\ UNCHANGED <<redzone_size, quarantine_budget>>
<1>1. /\ UNCHANGED <<free, live, quarantine, quarantine_bytes, recently_freed, reserved>>
      /\ UNCHANGED <<redzone_size, quarantine_budget>>
  BY DEF H!OutOfMemory, H!DoubleOrInvalidFree, H!settings
<1>2. redzone_size \in Nat /\ redzone_size \in G!Word /\ quarantine_budget \in G!Word
  BY WordAssumption DEF HeapInv, G!Inv, G!HeapTypeOK, G!Word
<1>3. \A n \in Nat : H!total_needed(n) \in Nat
  BY <1>2, WordAssumption DEF H!total_needed, H!align_up
<1>4. answer' \in G!Replies \X Nat
  <2>1. CASE \E n \in Nat : H!OutOfMemory(n)
    <3>1. PICK n \in Nat : answer' = <<"out of memory", H!total_needed(n)>>
      BY <2>1 DEF H!OutOfMemory
    <3>2. "out of memory" \in G!Replies /\ H!total_needed(n) \in Nat
      BY <1>3 DEF G!Replies
    <3> QED BY <3>1, <3>2
  <2>2. CASE \E a \in Nat : H!DoubleOrInvalidFree(a)
    <3>1. PICK a \in Nat : answer' = <<"invalid", a>>
      BY <2>2 DEF H!DoubleOrInvalidFree
    <3> QED BY <3>1 DEF G!Replies
  <2> QED BY <2>1, <2>2
<1>5. G!Inv'
  BY <1>1, <1>2, <1>4, HeapAssumptions, G!InvSame DEF HeapInv
<1>6. G!ExtentsRight'
  BY <1>1 DEF HeapInv, G!ExtentsRight
<1> QED BY <1>1, <1>5, <1>6 DEF HeapInv

LEMMA Rounded ==
  ASSUME NEW v \in Nat
  PROVE  /\ round_up_8(v) \in 0..MaxWord
         /\ v + 7 <= MaxWord => /\ v <= round_up_8(v) /\ round_up_8(v) <= v + 7
                               /\ round_up_8(v) % 4 = 0
         /\ v + 7 > MaxWord => round_up_8(v) = MaxWord - 7
<1>1. MaxWord \in Nat /\ MaxWord > 7
  BY WordAssumption
<1>2. CASE v + 7 > MaxWord
  BY <1>1, <1>2 DEF round_up_8
<1>3. CASE ~(v + 7 > MaxWord)
  <2>1. round_up_8(v) = ((v + 7) \div 8) * 8
    BY <1>3 DEF round_up_8
  <2>2. /\ ((v + 7) \div 8) * 8 \in Nat
        /\ ((v + 7) \div 8) * 8 <= v + 7 /\ v <= ((v + 7) \div 8) * 8
        /\ (((v + 7) \div 8) * 8) % 4 = 0
    OBVIOUS
  <2> QED BY <1>1, <1>3, <2>1, <2>2
<1> QED BY <1>2, <1>3

\* What AllocMem's request is granted is at least what was asked for.
LEMMA Allocates ==
  ASSUME HeapInv, High, NEW size \in Nat, size > 0, H!alloc(round_up_8(size), size)
  PROVE  /\ HeapInv'
         /\ size <= round_up_8(size) /\ round_up_8(size) \in Nat
         /\ \E u, l : Found(round_up_8(size), size, u, l)
<1> DEFINE n == round_up_8(size)
<1>1. MaxWord \in Nat /\ MaxWord > 7
  BY WordAssumption
<1>2. n \in 1..MaxWord
  BY <1>1, Rounded
<1>3. n <= MaxWord - 11
  <2> HIDE DEF n
  <2> QED BY <1>2, Room DEF n
<1>4. size <= n /\ n % 4 = 0
  BY <1>1, <1>3, Rounded
<1>5. size \in 0..n /\ n \in Nat
  BY <1>2, <1>4
<1> HIDE DEF n
<1>6. HeapInv' /\ \E u, l : Found(n, size, u, l)
  BY <1>2, <1>4, <1>5, Takes DEF n
<1> QED BY <1>4, <1>5, <1>6 DEF n

\* And so is what AllocVec's is, with its header.
LEMMA AllocatesVec ==
  ASSUME HeapInv, NEW size \in Nat, size > 0, size + 15 <= MaxWord,
         LET total == (round_up_8(size) + ALLOCVEC_HEADER_SIZE) % (MaxWord + 1)
         IN  H!alloc(total, total)
  PROVE  /\ HeapInv'
         /\ round_up_8(size) \in Nat
         /\ (round_up_8(size) + ALLOCVEC_HEADER_SIZE) % (MaxWord + 1) = round_up_8(size) + 8
         /\ \E u, l : Found(round_up_8(size) + 8, round_up_8(size) + 8, u, l)
<1> DEFINE total == round_up_8(size) + 8
<1>1. MaxWord \in Nat /\ MaxWord > 7
  BY WordAssumption
<1>2. round_up_8(size) \in Nat /\ total \in 1..MaxWord /\ total % 4 = 0
  <2>1. round_up_8(size) % 4 = 0 /\ round_up_8(size) <= size + 7 /\ round_up_8(size) \in 0..MaxWord
    BY <1>1, Rounded
  <2> QED BY <1>1, <2>1
<1>3. (round_up_8(size) + ALLOCVEC_HEADER_SIZE) % (MaxWord + 1) = total
  BY <1>1, <1>2 DEF ALLOCVEC_HEADER_SIZE
<1>4. H!alloc(total, total) /\ total \in 0..total
  BY <1>2, <1>3
<1> HIDE DEF total
<1>5. HeapInv' /\ \E u, l : Found(total, total, u, l)
  BY <1>2, <1>4, Takes
<1> QED BY <1>2, <1>3, <1>5 DEF total

-----------------------------------------------------------------------------
(* The books.  M are the blocks the program holds or is about to get, L the
   ones it can no longer free, K the memory list that is being made. *)

BlocksOf(M) == {b.block : b \in M}

\* lv is a table of live blocks.
Shaped(lv, b) ==
  /\ b.block \in DOMAIN lv
  /\ b.ptr \in Nat /\ b.size \in Nat
  /\ IF b.kind = "vec" THEN b.ptr = b.block + 8 /\ b.size + 8 <= lv[b.block].user_size
                       ELSE b.ptr = b.block /\ b.size <= lv[b.block].user_size
  /\ b.kind = "vec" => b.size + 8 = lv[b.block].user_size
  /\ b.kind # "vec" => b.size = lv[b.block].requested

Ledger(lv, M, L, K) ==
  /\ DOMAIN lv = BlocksOf(M) \union L \union K
  /\ \A b \in M : Shaped(lv, b)
  /\ \A b, c \in M : b.block = c.block => b = c
  /\ L \intersect BlocksOf(M) = {} /\ K \intersect BlocksOf(M) = {} /\ K \intersect L = {}

LEMMA LedgerSame ==
  ASSUME NEW lv, NEW lw, NEW M, NEW L, NEW K, Ledger(lv, M, L, K), lw = lv
  PROVE  Ledger(lw, M, L, K)
OBVIOUS

LEMMA ShapedKept ==
  ASSUME NEW lv, NEW lw, NEW b, Shaped(lv, b), b.block \in DOMAIN lw, lw[b.block] = lv[b.block]
  PROVE  Shaped(lw, b)
BY DEF Shaped

\* A new block of the program's.
LEMMA LedgerTakes ==
  ASSUME NEW lv, NEW lw, NEW M, NEW L, NEW K, Ledger(lv, M, L, K),
         NEW b, b.block \notin DOMAIN lv, DOMAIN lw = DOMAIN lv \union {b.block},
         \A v \in DOMAIN lv : lw[v] = lv[v], Shaped(lw, b)
  PROVE  Ledger(lw, M \union {b}, L, K)
<1>1. BlocksOf(M \union {b}) = BlocksOf(M) \union {b.block}
  BY DEF BlocksOf
<1>2. \A c \in M : c.block \in DOMAIN lv /\ c.block # b.block
  BY DEF Ledger, BlocksOf
<1>3. \A c \in M : Shaped(lw, c)
  BY <1>2, ShapedKept DEF Ledger
<1> QED BY <1>1, <1>2, <1>3 DEF Ledger

\* A new memory list.
LEMMA LedgerLists ==
  ASSUME NEW lv, NEW lw, NEW M, NEW L, Ledger(lv, M, L, {}),
         NEW u, u \notin DOMAIN lv, DOMAIN lw = DOMAIN lv \union {u},
         \A v \in DOMAIN lv : lw[v] = lv[v]
  PROVE  Ledger(lw, M, L, {u})
<1>1. \A c \in M : c.block \in DOMAIN lv
  BY DEF Ledger, BlocksOf
<1>2. \A c \in M : Shaped(lw, c)
  BY <1>1, ShapedKept DEF Ledger
<1> QED BY <1>1, <1>2 DEF Ledger, BlocksOf

\* The memory list is finished.
LEMMA LedgerGives ==
  ASSUME NEW lv, NEW M, NEW L, NEW b, Ledger(lv, M, L, {b.block}), Shaped(lv, b)
  PROVE  Ledger(lv, M \union {b}, L, {})
<1>1. BlocksOf(M \union {b}) = BlocksOf(M) \union {b.block}
  BY DEF BlocksOf
<1>2. \A c \in M : c.block # b.block
  BY DEF Ledger, BlocksOf
<1> QED BY <1>1, <1>2 DEF Ledger

\* A block goes, whosever it is.
LEMMA LedgerFrees ==
  ASSUME NEW lv, NEW lw, NEW M, NEW L, NEW K, Ledger(lv, M, L, K),
         NEW u, DOMAIN lw = DOMAIN lv \ {u}, \A v \in DOMAIN lv \ {u} : lw[v] = lv[v]
  PROVE  Ledger(lw, {b \in M : b.block # u}, L \ {u}, K \ {u})
<1> DEFINE N == {b \in M : b.block # u}
<1>1. BlocksOf(N) = BlocksOf(M) \ {u}
  BY DEF BlocksOf
<1>2. \A c \in N : c.block \in DOMAIN lv
  BY DEF Ledger, BlocksOf
<1>3. \A c \in N : Shaped(lw, c)
  BY <1>2, ShapedKept DEF Ledger
<1>4. \A b, c \in N : b.block = c.block => b = c
  BY DEF Ledger
<1> HIDE DEF N
<1> QED BY <1>1, <1>3, <1>4 DEF Ledger, N

\* Some of the program's blocks can no longer be freed.
LEMMA LedgerLeaks ==
  ASSUME NEW lv, NEW M, NEW L, NEW K, Ledger(lv, M, L, K), NEW N \in SUBSET M
  PROVE  Ledger(lv, M \ N, L \union BlocksOf(N), K)
<1>1. BlocksOf(M) = BlocksOf(M \ N) \union BlocksOf(N)
  BY DEF BlocksOf
<1>2. BlocksOf(M \ N) \intersect BlocksOf(N) = {}
  BY DEF BlocksOf, Ledger
<1> QED BY <1>1, <1>2 DEF Ledger

-----------------------------------------------------------------------------
\* c is an AllocEntry in progress.
Named(c) == "name" \in DOMAIN c
IsEntry(c) == c.name \in {"AllocEntry", "backing out"}

Entries == [name : {"AllocEntry", "backing out"}, list : Nat, left : Seq((0..MaxWord) \X BOOLEAN),
            got : Seq(Nat \X Nat), size : Nat]

\* The blocks it has got so far, as the program will hold them.
Pending(e) == Holding(e[1], e[1], e[2], "mem")
Got(g) == {Pending(g[i]) : i \in DOMAIN g}
Distinct(g) == \A i, j \in DOMAIN g : g[i][1] = g[j][1] => i = j

Mine(h, c) == h \union (IF IsEntry(c) THEN Got(c.got) ELSE {})
Listed(c) == IF IsEntry(c) THEN {c.list} ELSE {}

EntryOK(lv, h, c) ==
  /\ c \in Entries
  /\ Distinct(c.got)
  /\ lv[c.list].requested = c.size
  /\ BlocksOf(h) \intersect BlocksOf(Got(c.got)) = {}

\* The inductive invariant behind NothingLeaks.
Books ==
  /\ HeapInv
  /\ Ledger(live, Mine(kept, call), leaked, Listed(call))
  /\ IsEntry(call) => EntryOK(live, kept, call)
  /\ Named(call)

LEMMA HoldingFields ==
  ASSUME NEW p, NEW u, NEW n, NEW k
  PROVE  /\ Holding(p, u, n, k).ptr = p /\ Holding(p, u, n, k).block = u
         /\ Holding(p, u, n, k).size = n /\ Holding(p, u, n, k).kind = k
         /\ Holding(p, u, n, k).of = 0 /\ Holding(p, u, n, k).entries = <<>>
BY DEF Holding

\* Lists of entries as functions on 1..n: what an Append and a Tail do to them.
LEMMA GotMore ==
  ASSUME NEW n \in Nat, NEW g, NEW h, NEW e, DOMAIN g = 1..n, DOMAIN h = 1..(n + 1),
         \A i \in 1..n : h[i] = g[i], h[n + 1] = e
  PROVE  /\ Got(h) = Got(g) \union {Pending(e)}
         /\ Distinct(g) /\ e[1] \notin BlocksOf(Got(g)) => Distinct(h)
<1>1. DOMAIN h = DOMAIN g \union {n + 1} /\ n + 1 \notin DOMAIN g
  OBVIOUS
<1>2. Got(h) = Got(g) \union {Pending(e)}
  BY <1>1 DEF Got
<1>3. ASSUME Distinct(g), e[1] \notin BlocksOf(Got(g))
      PROVE  Distinct(h)
  <2>1. ASSUME NEW i \in DOMAIN g
        PROVE  g[i][1] # e[1]
    <3>1. Pending(g[i]) \in Got(g)
      BY DEF Got
    <3>2. Pending(g[i]).block \in BlocksOf(Got(g))
      BY <3>1 DEF BlocksOf
    <3>3. Pending(g[i]).block = g[i][1]
      BY HoldingFields DEF Pending
    <3> QED BY <1>3, <3>2, <3>3
  <2> SUFFICES ASSUME NEW i \in DOMAIN h, NEW j \in DOMAIN h, h[i][1] = h[j][1]
               PROVE  i = j
    BY DEF Distinct
  <2>4. CASE i \in DOMAIN g /\ j \in DOMAIN g
    <3>1. g[i][1] = g[j][1]
      BY <2>4
    <3> QED BY <1>3, <2>4, <3>1 DEF Distinct
  <2>5. CASE i \in DOMAIN g /\ j = n + 1
    BY <2>1, <2>5
  <2>6. CASE i = n + 1 /\ j \in DOMAIN g
    BY <2>1, <2>6
  <2> QED BY <1>1, <2>4, <2>5, <2>6
<1> QED BY <1>2, <1>3

LEMMA GotLess ==
  ASSUME NEW n \in Nat, n > 0, NEW g, NEW t, DOMAIN g = 1..n, DOMAIN t = 1..(n - 1),
         \A i \in 1..(n - 1) : t[i] = g[i + 1], Distinct(g)
  PROVE  /\ Got(t) = {b \in Got(g) : b.block # g[1][1]}
         /\ Distinct(t)
         /\ g[1][1] \in BlocksOf(Got(g))
<1>1. \A i \in DOMAIN g : Pending(g[i]).block = g[i][1] /\ Pending(g[i]) \in Got(g)
  BY HoldingFields DEF Pending, Got
<1>2. \A i \in DOMAIN t : /\ i + 1 \in DOMAIN g /\ 1 \in DOMAIN g /\ i + 1 # 1
                          /\ t[i] = g[i + 1]
  OBVIOUS
<1>3. \A i \in DOMAIN g : i # 1 => i - 1 \in DOMAIN t /\ t[i - 1] = g[i]
  OBVIOUS
<1>4. \A b \in Got(t) : b \in Got(g) /\ b.block # g[1][1]
  <2> TAKE b \in Got(t)
  <2>1. PICK i \in DOMAIN t : b = Pending(t[i])
    BY DEF Got
  <2>2. b = Pending(g[i + 1]) /\ i + 1 \in DOMAIN g
    BY <1>2, <2>1
  <2>3. g[i + 1][1] # g[1][1]
    BY <1>2 DEF Distinct
  <2> QED BY <1>1, <2>2, <2>3
<1>5. \A b \in Got(g) : b.block # g[1][1] => b \in Got(t)
  <2> TAKE b \in Got(g)
  <2> HAVE b.block # g[1][1]
  <2>1. PICK i \in DOMAIN g : b = Pending(g[i])
    BY DEF Got
  <2>2. i # 1
    BY <1>1, <2>1
  <2> QED BY <1>3, <2>1, <2>2 DEF Got
<1>6. Distinct(t)
  <2> SUFFICES ASSUME NEW i \in DOMAIN t, NEW j \in DOMAIN t, t[i][1] = t[j][1]
               PROVE  i = j
    BY DEF Distinct
  <2>1. g[i + 1][1] = g[j + 1][1]
    BY <1>2
  <2>2. i + 1 = j + 1
    BY <1>2, <2>1 DEF Distinct
  <2> QED BY <2>2
<1>7. g[1][1] \in BlocksOf(Got(g))
  BY <1>1 DEF BlocksOf
<1> QED BY <1>4, <1>5, <1>6, <1>7

LEMMA GotAppend ==
  ASSUME NEW g \in Seq(Nat \X Nat), NEW e \in Nat \X Nat
  PROVE  /\ Got(Append(g, e)) = Got(g) \union {Pending(e)}
         /\ Append(g, e) \in Seq(Nat \X Nat)
         /\ Distinct(g) /\ e[1] \notin BlocksOf(Got(g)) => Distinct(Append(g, e))
<1>1. /\ DOMAIN g = 1..Len(g) /\ Len(g) \in Nat
      /\ DOMAIN Append(g, e) = 1..(Len(g) + 1)
      /\ \A i \in 1..Len(g) : Append(g, e)[i] = g[i]
      /\ Append(g, e)[Len(g) + 1] = e
      /\ Append(g, e) \in Seq(Nat \X Nat)
  OBVIOUS
<1> DEFINE h == Append(g, e)
           n == Len(g)
<1> HIDE DEF h, n
<1>2. /\ n \in Nat /\ DOMAIN g = 1..n /\ DOMAIN h = 1..(n + 1)
      /\ \A i \in 1..n : h[i] = g[i] /\ h[n + 1] = e
  BY <1>1 DEF h, n
<1>3. /\ Got(h) = Got(g) \union {Pending(e)}
      /\ Distinct(g) /\ e[1] \notin BlocksOf(Got(g)) => Distinct(h)
  BY <1>1, <1>2, GotMore DEF h, n
<1> QED BY <1>1, <1>3 DEF h

LEMMA GotTail ==
  ASSUME NEW g \in Seq(Nat \X Nat), g # <<>>, Distinct(g)
  PROVE  /\ Got(Tail(g)) = {b \in Got(g) : b.block # Head(g)[1]}
         /\ Tail(g) \in Seq(Nat \X Nat) /\ Distinct(Tail(g))
         /\ Head(g)[1] \in BlocksOf(Got(g))
<1>1. /\ DOMAIN g = 1..Len(g) /\ Len(g) \in Nat /\ Len(g) > 0
      /\ DOMAIN Tail(g) = 1..(Len(g) - 1) /\ Head(g) = g[1]
      /\ \A i \in 1..(Len(g) - 1) : Tail(g)[i] = g[i + 1]
      /\ Tail(g) \in Seq(Nat \X Nat)
  OBVIOUS
<1>2. /\ Got(Tail(g)) = {b \in Got(g) : b.block # g[1][1]}
      /\ Distinct(Tail(g)) /\ g[1][1] \in BlocksOf(Got(g))
  BY <1>1, GotLess
<1> QED BY <1>1, <1>2

-----------------------------------------------------------------------------
(* Each call keeps the books. *)

LEMMA BooksInit == MemInit => Books
<1> SUFFICES ASSUME MemInit PROVE Books
  OBVIOUS
<1>1. H!HeapInit /\ kept = {} /\ leaked = {} /\ call.name = "starting"
  BY DEF MemInit
<1>2. G!Inv
  BY <1>1, SameState, HeapAssumptions, G!InvInit
<1>3. DOMAIN live = {}
  BY <1>1 DEF H!HeapInit
<1>4. HeapInv
  BY <1>2, <1>3 DEF HeapInv, G!ExtentsRight
<1>5. ~IsEntry(call)
  BY <1>1 DEF IsEntry
<1>6. Named(call)
  BY DEF MemInit, Named
<1> QED BY <1>1, <1>3, <1>4, <1>5, <1>6 DEF Books, Ledger, Mine, Listed, BlocksOf

\* No step while no AllocEntry is in progress starts or ends one, but for its
\* own; what such a step must show.
LEMMA BooksOutside ==
  ASSUME HeapInv', ~IsEntry(call'), Ledger(live', kept', leaked', {}),
         (Books /\ call' = call) \/ Named(call')
  PROVE  Books'
BY DEF Books, Mine, Listed

LEMMA OutsideBooks ==
  ASSUME Books, ~IsEntry(call)
  PROVE  HeapInv /\ Ledger(live, kept, leaked, {})
BY DEF Books, Mine, Listed

LEMMA CallingOutside == MayCall => ~IsEntry(call) /\ ~H!Draining
BY DEF MayCall, IsEntry

\* A step that leaves all the books alone.
LEMMA BooksSame ==
  ASSUME Books, HeapInv', live' = live, kept' = kept, leaked' = leaked, call' = call
  PROVE  Books'
BY DEF Books

LEMMA HeapSame ==
  ASSUME HeapInv, UNCHANGED heap
  PROVE  HeapInv' /\ live' = live /\ quarantine' = quarantine
<1>1. /\ UNCHANGED <<free, live, quarantine, quarantine_bytes, recently_freed, reserved>>
      /\ redzone_size' = redzone_size /\ quarantine_budget' = quarantine_budget
      /\ answer' = answer
  BY DEF heap
<1>2. redzone_size \in G!Word /\ quarantine_budget \in G!Word /\ answer \in G!Replies \X Nat
  BY DEF HeapInv, G!Inv, G!HeapTypeOK
<1>3. G!Inv'
  BY <1>1, <1>2, HeapAssumptions, G!InvSame DEF HeapInv
<1>4. G!ExtentsRight'
  BY <1>1 DEF HeapInv, G!ExtentsRight
<1> QED BY <1>1, <1>3, <1>4 DEF HeapInv

LEMMA AsksTheHeap ==
  ASSUME NEW size, NEW clear, allocated(size, clear)
  PROVE  H!alloc(round_up_8(size), size)
BY DEF allocated

\* A block that was asked for as AllocMem asks.
LEMMA BooksAllocated ==
  ASSUME Books, High, NEW size \in Nat, size > 0, H!alloc(round_up_8(size), size),
         ~IsEntry(call), call' = call, leaked' = leaked,
         NEW k, k # "vec", NEW b, b.ptr = answer'[2], b.block = answer'[2], b.size = size,
         b.kind = k, kept' = kept \union {b}
  PROVE  Books'
<1>1. HeapInv /\ Ledger(live, kept, leaked, {})
  BY OutsideBooks
<1>2. HeapInv' /\ size <= round_up_8(size) /\ \E u, l : Found(round_up_8(size), size, u, l)
  BY <1>1, Allocates
<1>3. PICK u, l : Found(round_up_8(size), size, u, l)
  BY <1>2
<1>4. /\ u \notin DOMAIN live /\ DOMAIN live' = DOMAIN live \union {u}
      /\ \A v \in DOMAIN live : live'[v] = live[v]
      /\ live'[u].user_size = round_up_8(size) /\ live'[u].requested = size
      /\ answer'[2] = u
  BY <1>3 DEF Found
<1>5. u \in Nat
  BY <1>3 DEF Found
<1>6. Shaped(live', b)
  BY <1>2, <1>4, <1>5 DEF Shaped
<1>7. Ledger(live', kept \union {b}, leaked, {})
  BY <1>1, <1>4, <1>6, LedgerTakes
<1> QED BY <1>2, <1>7, BooksOutside

LEMMA BooksAllocMem ==
  ASSUME Books, High, NEW size \in Sizes, NEW clear \in BOOLEAN, alloc_mem_handler(size, clear)
  PROVE  Books'
<1>1. size \in Nat /\ size > 0 /\ H!alloc(round_up_8(size), size)
  BY ArgumentsAssumption DEF alloc_mem_handler, allocated
<1>2. ~IsEntry(call) /\ call' = call /\ leaked' = leaked
  BY CallingOutside DEF alloc_mem_handler
<1> DEFINE b == Holding(answer'[2], answer'[2], size, "mem")
<1>3. kept' = kept \union {b}
  BY DEF alloc_mem_handler
<1>4. b.ptr = answer'[2] /\ b.block = answer'[2] /\ b.size = size /\ b.kind = "mem"
  BY HoldingFields
<1> HIDE DEF b
<1> QED BY <1>1, <1>2, <1>3, <1>4, BooksAllocated

LEMMA PooledFields ==
  ASSUME NEW p, NEW u, NEW n, NEW q
  PROVE  LET b == [Holding(p, u, n, "pooled") EXCEPT !.of = q]
         IN  b.ptr = p /\ b.block = u /\ b.size = n /\ b.kind = "pooled" /\ b.of = q
BY DEF Holding

LEMMA BooksAllocPooled ==
  ASSUME Books, High, NEW p, NEW size \in Sizes, alloc_pooled_handler(p, size)
  PROVE  Books'
<1> DEFINE clear == p.kind = "clearing pool"
<1>0. size > 0 /\ allocated(size, clear)
  BY DEF alloc_pooled_handler
<1> HIDE DEF clear
<1>1. size \in Nat /\ size > 0 /\ H!alloc(round_up_8(size), size)
  BY <1>0, AsksTheHeap, ArgumentsAssumption
<1>2. ~IsEntry(call) /\ call' = call /\ leaked' = leaked
  BY CallingOutside DEF alloc_pooled_handler
<1> DEFINE v == answer'[2]
           q == p.ptr
           b == [Holding(v, v, size, "pooled") EXCEPT !.of = q]
<1>3. kept' = kept \union {b}
  BY DEF alloc_pooled_handler
<1> HIDE DEF v, q
<1>4. b.ptr = v /\ b.block = v /\ b.size = size /\ b.kind = "pooled"
  BY PooledFields
<1> HIDE DEF b
<1> QED BY <1>1, <1>2, <1>3, <1>4, BooksAllocated DEF v

LEMMA BooksAllocVec ==
  ASSUME Books, Modest, NEW size \in Sizes, NEW clear \in BOOLEAN, alloc_vec_handler(size, clear)
  PROVE  Books'
<1> DEFINE n == round_up_8(size)
           total == (round_up_8(size) + ALLOCVEC_HEADER_SIZE) % (MaxWord + 1)
<1>1. size \in Nat /\ size > 0 /\ size + 15 <= MaxWord
  BY ArgumentsAssumption DEF alloc_vec_handler, Modest
<1>2. ~IsEntry(call) /\ call' = call /\ leaked' = leaked
  BY CallingOutside DEF alloc_vec_handler
<1>3. HeapInv /\ Ledger(live, kept, leaked, {})
  BY <1>2, OutsideBooks
<1>4. H!alloc(total, total)
  BY DEF alloc_vec_handler
<1>5. HeapInv' /\ n \in Nat /\ \E u, l : Found(n + 8, n + 8, u, l)
  BY <1>1, <1>3, <1>4, AllocatesVec
<1>6. PICK u, l : Found(n + 8, n + 8, u, l)
  BY <1>5
<1>7. /\ u \notin DOMAIN live /\ DOMAIN live' = DOMAIN live \union {u}
      /\ \A v \in DOMAIN live : live'[v] = live[v]
      /\ live'[u].user_size = n + 8
      /\ answer'[2] = u
  BY <1>6 DEF Found
<1>8. u \in Nat
  BY <1>6 DEF Found
<1> DEFINE b == Holding(u + 8, u, n, "vec")
<1>9. kept' = kept \union {b}
  BY <1>7 DEF alloc_vec_handler, ALLOCVEC_HEADER_SIZE
<1>10. b.ptr = u + 8 /\ b.block = u /\ b.size = n /\ b.kind = "vec"
  BY HoldingFields
<1> HIDE DEF b, n
<1>11. Shaped(live', b)
  BY <1>5, <1>7, <1>8, <1>10 DEF Shaped
<1>12. Ledger(live', kept \union {b}, leaked, {})
  BY <1>3, <1>7, <1>10, <1>11, LedgerTakes
<1> QED BY <1>2, <1>5, <1>9, <1>12, BooksOutside

LEMMA BooksCreatePool ==
  ASSUME Books, NEW clear \in BOOLEAN, create_pool_handler(clear)
  PROVE  Books'
<1>1. ~IsEntry(call) /\ call' = call /\ leaked' = leaked
  BY CallingOutside DEF create_pool_handler
<1>2. HeapInv /\ Ledger(live, kept, leaked, {})
  BY <1>1, OutsideBooks
<1>3. H!alloc(8, 8)
  BY DEF create_pool_handler, POOL_HEADER_SIZE
<1>4. 8 \in 1..MaxWord /\ 8 % 4 = 0 /\ 8 \in 0..8
  BY WordAssumption
<1>5. HeapInv' /\ \E u, l : Found(8, 8, u, l)
  BY <1>2, <1>3, <1>4, Takes
<1>6. PICK u, l : Found(8, 8, u, l)
  BY <1>5
<1>7. /\ u \notin DOMAIN live /\ DOMAIN live' = DOMAIN live \union {u}
      /\ \A v \in DOMAIN live : live'[v] = live[v]
      /\ live'[u].user_size = 8 /\ live'[u].requested = 8
      /\ answer'[2] = u
  BY <1>6 DEF Found
<1>8. u \in Nat
  BY <1>6 DEF Found
<1> DEFINE k == IF clear THEN "clearing pool" ELSE "pool"
           b == Holding(u, u, 8, k)
<1>9. kept' = kept \union {b}
  BY <1>7 DEF create_pool_handler, POOL_HEADER_SIZE
<1> HIDE DEF k
<1>10. b.ptr = u /\ b.block = u /\ b.size = 8 /\ b.kind = k
  BY HoldingFields
<1>13. k # "vec"
  BY DEF k
<1> HIDE DEF b
<1>11. Shaped(live', b)
  BY <1>7, <1>8, <1>10, <1>13 DEF Shaped
<1>12. Ledger(live', kept \union {b}, leaked, {})
  BY <1>2, <1>7, <1>10, <1>11, LedgerTakes
<1> QED BY <1>1, <1>5, <1>9, <1>12, BooksOutside

-----------------------------------------------------------------------------
(* AllocEntry keeps the books, an entry per step. *)

EntryCall(name, list, left, got, size) ==
  [name |-> name, list |-> list, left |-> left, got |-> got, size |-> size]

EntryArgs(name, list, left, got, size) ==
  /\ name \in {"AllocEntry", "backing out"} /\ list \in Nat
  /\ left \in Seq((0..MaxWord) \X BOOLEAN) /\ got \in Seq(Nat \X Nat) /\ size \in Nat

LEMMA EntryCalls ==
  ASSUME NEW name, NEW list, NEW left, NEW got, NEW size, EntryArgs(name, list, left, got, size),
         NEW c, c = EntryCall(name, list, left, got, size)
  PROVE  /\ c \in Entries /\ IsEntry(c)
         /\ c.name = name /\ c.list = list /\ c.left = left /\ c.got = got /\ c.size = size
BY DEF EntryCall, EntryArgs, Entries, IsEntry

LEMMA EntryIs ==
  ASSUME NEW c \in Entries
  PROVE  /\ c = EntryCall(c.name, c.list, c.left, c.got, c.size) /\ IsEntry(c)
         /\ c.name \in {"AllocEntry", "backing out"} /\ c.list \in Nat
         /\ c.left \in Seq((0..MaxWord) \X BOOLEAN) /\ c.got \in Seq(Nat \X Nat) /\ c.size \in Nat
BY DEF EntryCall, Entries, IsEntry

\* What is known while an AllocEntry is in progress, and what is to show for it
\* to go on.
LEMMA InsideBooks ==
  ASSUME Books, IsEntry(call)
  PROVE  /\ HeapInv /\ call \in Entries /\ Distinct(call.got)
         /\ Ledger(live, kept \union Got(call.got), leaked, {call.list})
         /\ live[call.list].requested = call.size
         /\ BlocksOf(kept) \intersect BlocksOf(Got(call.got)) = {}
BY DEF Books, EntryOK, Mine, Listed

LEMMA BooksInside ==
  ASSUME HeapInv', NEW c \in Entries, call' = c, Distinct(c.got),
         Ledger(live', kept' \union Got(c.got), leaked', {c.list}),
         live'[c.list].requested = c.size,
         BlocksOf(kept') \intersect BlocksOf(Got(c.got)) = {}
  PROVE  Books'
<1>1. IsEntry(c)
  BY EntryIs
<1>2. EntryOK(live', kept', c)
  BY DEF EntryOK
<1>3. Mine(kept', c) = kept' \union Got(c.got) /\ Listed(c) = {c.list}
  BY <1>1 DEF Mine, Listed
<1>4. Named(c)
  BY DEF Entries, Named
<1> QED BY <1>1, <1>2, <1>3, <1>4 DEF Books

LEMMA EmptyGot ==
  /\ Got(<<>>) = {} /\ Distinct(<<>>) /\ <<>> \in Seq(Nat \X Nat) /\ BlocksOf({}) = {}
BY DEF Got, Distinct, BlocksOf

LEMMA BooksAllocEntry ==
  ASSUME Books, High, NEW template \in Templates, alloc_entry_handler(template)
  PROVE  Books'
<1> DEFINE s == list_size(Len(template))
<1>1. template \in Seq((0..MaxWord) \X BOOLEAN) /\ Len(template) \in Nat
  BY ArgumentsAssumption
<1>2. s \in Nat /\ s > 0
  BY <1>1 DEF list_size, ML_FIRST_ENTRY_OFFSET, MEMENTRY_SIZE
<1>3. /\ ~IsEntry(call) /\ kept' = kept /\ leaked' = leaked
      /\ H!alloc(round_up_8(s), s)
  BY CallingOutside DEF alloc_entry_handler, program
<1> DEFINE c == EntryCall("AllocEntry", answer'[2], template, <<>>, s)
<1>4. call' = c
  BY DEF alloc_entry_handler, EntryCall
<1> HIDE DEF s
<1>5. HeapInv /\ Ledger(live, kept, leaked, {})
  BY <1>3, OutsideBooks
<1>6. HeapInv' /\ \E u, l : Found(round_up_8(s), s, u, l)
  BY <1>2, <1>3, <1>5, Allocates
<1>7. PICK u, l : Found(round_up_8(s), s, u, l)
  BY <1>6
<1>8. /\ u \in Nat /\ u \notin DOMAIN live /\ DOMAIN live' = DOMAIN live \union {u}
      /\ \A v \in DOMAIN live : live'[v] = live[v]
      /\ live'[u].requested = s /\ answer'[2] = u
  BY <1>7 DEF Found
<1>9. Ledger(live', kept, leaked, {u})
  BY <1>5, <1>8, LedgerLists
<1>12. c = EntryCall("AllocEntry", u, template, <<>>, s)
  BY <1>8
<1> HIDE DEF c
<1>13. EntryArgs("AllocEntry", u, template, <<>>, s)
  BY <1>1, <1>2, <1>8, EmptyGot DEF EntryArgs
<1>10. c \in Entries /\ c.list = u /\ c.got = <<>> /\ c.size = s
  BY <1>12, <1>13, EntryCalls
<1>11. kept' \union Got(c.got) = kept
  BY <1>3, <1>10, EmptyGot
<1> QED BY <1>3, <1>4, <1>6, <1>8, <1>9, <1>10, <1>11, EmptyGot, BooksInside

LEMMA WorkingEntry ==
  ASSUME Books, Working("AllocEntry") \/ Working("backing out")
  PROVE  IsEntry(call) /\ ~H!Draining /\ call \in Entries
BY InsideBooks DEF Working, IsEntry

LEMMA NextEntry ==
  ASSUME NEW left \in Seq((0..MaxWord) \X BOOLEAN), left # <<>>
  PROVE  Head(left)[1] \in 0..MaxWord /\ Tail(left) \in Seq((0..MaxWord) \X BOOLEAN)
<1>1. Head(left) \in (0..MaxWord) \X BOOLEAN
  OBVIOUS
<1> QED BY <1>1

LEMMA BooksEntryNext ==
  ASSUME Books, High, alloc_entry_next
  PROVE  Books'
<1> DEFINE size == Head(call.left)[1]
           g == call.got
<1>1. IsEntry(call) /\ ~H!Draining /\ call \in Entries
  BY WorkingEntry DEF alloc_entry_next
<1>2. /\ HeapInv /\ Distinct(g) /\ Ledger(live, kept \union Got(g), leaked, {call.list})
      /\ live[call.list].requested = call.size
      /\ BlocksOf(kept) \intersect BlocksOf(Got(g)) = {}
  BY <1>1, InsideBooks
<1>3. /\ call = EntryCall(call.name, call.list, call.left, g, call.size)
      /\ call.list \in Nat /\ call.size \in Nat /\ g \in Seq(Nat \X Nat)
      /\ call.left \in Seq((0..MaxWord) \X BOOLEAN)
      /\ call.name \in {"AllocEntry", "backing out"}
  BY <1>1, EntryIs
<1>4. /\ call.left # <<>> /\ size > 0 /\ allocated(size, Head(call.left)[2])
      /\ kept' = kept /\ leaked' = leaked
  BY DEF alloc_entry_next
<1>5. /\ H!alloc(round_up_8(size), size) /\ size \in Nat
      /\ Tail(call.left) \in Seq((0..MaxWord) \X BOOLEAN)
  <2>1. H!alloc(round_up_8(size), size)
    BY <1>4, AsksTheHeap
  <2>2. size \in 0..MaxWord /\ Tail(call.left) \in Seq((0..MaxWord) \X BOOLEAN)
    BY <1>3, <1>4, NextEntry
  <2> QED BY <2>1, <2>2
<1> DEFINE e == <<answer'[2], size>>
           c == EntryCall(call.name, call.list, Tail(call.left), Append(g, e), call.size)
<1>6. call' = c
  <2>1. call' = [call EXCEPT !.left = Tail(@), !.got = Append(@, <<answer'[2], size>>)]
    BY DEF alloc_entry_next
  <2> QED BY <1>3, <2>1 DEF EntryCall
<1> HIDE DEF size, g
<1>7. HeapInv' /\ size <= round_up_8(size) /\ \E u, l : Found(round_up_8(size), size, u, l)
  BY <1>2, <1>4, <1>5, Allocates
<1>8. PICK u, l : Found(round_up_8(size), size, u, l)
  BY <1>7
<1>9. /\ u \in Nat /\ u \notin DOMAIN live /\ DOMAIN live' = DOMAIN live \union {u}
      /\ \A v \in DOMAIN live : live'[v] = live[v]
      /\ live'[u].requested = size /\ live'[u].user_size = round_up_8(size) /\ answer'[2] = u
  BY <1>8 DEF Found
<1>10. e \in Nat \X Nat /\ e[1] = u /\ e[2] = size
  BY <1>5, <1>9
<1> HIDE DEF e
<1> DEFINE b == Pending(e)
<1>11. b.ptr = u /\ b.block = u /\ b.size = size /\ b.kind = "mem"
  BY <1>10, HoldingFields DEF Pending
<1> HIDE DEF b
<1>12. Shaped(live', b)
  BY <1>5, <1>7, <1>9, <1>11 DEF Shaped
<1>13. Ledger(live', (kept \union Got(g)) \union {b}, leaked, {call.list})
  BY <1>2, <1>9, <1>11, <1>12, LedgerTakes
<1>14. DOMAIN live = BlocksOf(kept \union Got(g)) \union leaked \union {call.list}
  BY <1>2 DEF Ledger
<1>15. u \notin BlocksOf(kept) /\ u \notin BlocksOf(Got(g)) /\ call.list \in DOMAIN live
  BY <1>9, <1>14 DEF BlocksOf
<1>16. /\ Got(Append(g, e)) = Got(g) \union {b}
       /\ Append(g, e) \in Seq(Nat \X Nat) /\ Distinct(Append(g, e))
  BY <1>2, <1>3, <1>10, <1>15, GotAppend DEF b
<1>17. BlocksOf(Got(g) \union {b}) = BlocksOf(Got(g)) \union {u}
  BY <1>11 DEF BlocksOf
<1>18. c \in Entries /\ c.list = call.list /\ c.got = Append(g, e) /\ c.size = call.size
  <2> DEFINE t == Tail(call.left)
             h == Append(g, e)
  <2>1. EntryArgs(call.name, call.list, t, h, call.size)
    BY <1>3, <1>5, <1>16 DEF EntryArgs
  <2> HIDE DEF t, h
  <2>2. c = EntryCall(call.name, call.list, t, h, call.size)
    BY DEF t, h
  <2> HIDE DEF c
  <2>3. c \in Entries /\ c.list = call.list /\ c.got = h /\ c.size = call.size
    BY <2>1, <2>2, EntryCalls
  <2> QED BY <2>3 DEF h
<1> HIDE DEF c
<1>19. live'[c.list].requested = c.size
  BY <1>2, <1>9, <1>15, <1>18
<1>20. kept' \union Got(c.got) = (kept \union Got(g)) \union {b}
  BY <1>4, <1>16, <1>18
<1>21. BlocksOf(kept') \intersect BlocksOf(Got(c.got)) = {}
  <2>1. BlocksOf(kept) \intersect (BlocksOf(Got(g)) \union {u}) = {}
    BY <1>2, <1>15
  <2>2. Got(c.got) = Got(g) \union {b}
    BY <1>16, <1>18
  <2> QED BY <2>1, <2>2, <1>4, <1>17
<1> QED BY <1>4, <1>6, <1>7, <1>13, <1>16, <1>18, <1>19, <1>20, <1>21, BooksInside

LEMMA BooksEntryFails ==
  ASSUME Books, alloc_entry_fails
  PROVE  Books'
<1> DEFINE g == call.got
           size == Head(call.left)[1]
           k == "backing out"
           c == EntryCall(k, call.list, call.left, g, call.size)
<1>1. IsEntry(call) /\ ~H!Draining /\ call \in Entries
  BY WorkingEntry DEF alloc_entry_fails
<1>2. /\ HeapInv /\ Distinct(g) /\ Ledger(live, kept \union Got(g), leaked, {call.list})
      /\ live[call.list].requested = call.size
      /\ BlocksOf(kept) \intersect BlocksOf(Got(g)) = {}
  BY <1>1, InsideBooks
<1>3. /\ call = EntryCall(call.name, call.list, call.left, g, call.size)
      /\ call.list \in Nat /\ call.size \in Nat /\ g \in Seq(Nat \X Nat)
      /\ call.left \in Seq((0..MaxWord) \X BOOLEAN)
  BY <1>1, EntryIs
<1>4. /\ call.left # <<>> /\ kept' = kept /\ leaked' = leaked
      /\ UNCHANGED heap \/ (size # 0 /\ H!OutOfMemory(round_up_8(size)))
      /\ call' = [call EXCEPT !.name = "backing out"]
  BY DEF alloc_entry_fails, program
<1>5. size \in 0..MaxWord
  BY <1>3, <1>4, NextEntry
<1>6. call' = c
  BY <1>3, <1>4 DEF EntryCall
<1> HIDE DEF size, g
<1>7. round_up_8(size) \in Nat
  BY <1>5, Rounded
<1>8. HeapInv' /\ live' = live
  BY <1>2, <1>4, <1>7, HeapSame, Answers
<1>9. EntryArgs(k, call.list, call.left, g, call.size)
  BY <1>3 DEF EntryArgs
<1>10. c = EntryCall(k, call.list, call.left, g, call.size)
  OBVIOUS
<1> HIDE DEF c, k
<1>11. c \in Entries /\ c.list = call.list /\ c.got = g /\ c.size = call.size
  BY <1>9, <1>10, EntryCalls
<1>12. /\ Distinct(c.got) /\ Ledger(live', kept' \union Got(c.got), leaked', {c.list})
       /\ live'[c.list].requested = c.size
       /\ BlocksOf(kept') \intersect BlocksOf(Got(c.got)) = {}
  <2>1. Distinct(c.got) /\ live'[c.list].requested = c.size
    BY <1>2, <1>8, <1>11
  <2>2. Ledger(live', kept' \union Got(c.got), leaked', {c.list})
    BY <1>2, <1>4, <1>8, <1>11
  <2>3. BlocksOf(kept') \intersect BlocksOf(Got(c.got)) = {}
    BY <1>2, <1>4, <1>11
  <2> QED BY <2>1, <2>2, <2>3
<1> QED BY <1>6, <1>8, <1>11, <1>12, BooksInside

LEMMA ListFields ==
  ASSUME NEW u, NEW n, NEW g
  PROVE  LET b == [Holding(u, u, n, "list") EXCEPT !.entries = g]
         IN  b.ptr = u /\ b.block = u /\ b.size = n /\ b.kind = "list" /\ b.entries = g
BY DEF Holding

LEMMA GotBlocks ==
  ASSUME NEW g
  PROVE  {Holding(e[1], e[1], e[2], "mem") : e \in Range(g)} = Got(g)
BY DEF Got, Pending, Range

LEMMA NoCallFields == NoCall.name = "none" /\ ~IsEntry(NoCall) /\ Named(NoCall)
BY DEF NoCall, IsEntry, Named

LEMMA BooksEntryDone ==
  ASSUME Books, alloc_entry_done
  PROVE  Books'
<1> DEFINE g == call.got
           u == call.list
           n == call.size
           b == [Holding(u, u, n, "list") EXCEPT !.entries = g]
<1>1. IsEntry(call) /\ ~H!Draining /\ call \in Entries
  BY WorkingEntry DEF alloc_entry_done
<1>2. /\ HeapInv /\ Ledger(live, kept \union Got(g), leaked, {u})
      /\ live[u].requested = n
  BY <1>1, InsideBooks
<1>3. /\ UNCHANGED heap /\ leaked' = leaked /\ call' = NoCall
      /\ kept' = kept \union {b} \union {Holding(e[1], e[1], e[2], "mem") : e \in Range(g)}
  BY DEF alloc_entry_done
<1> HIDE DEF u, n, g
<1>4. b.ptr = u /\ b.block = u /\ b.size = n /\ b.kind = "list"
  BY ListFields
<1> HIDE DEF b
<1>5. HeapInv' /\ live' = live
  BY <1>2, <1>3, HeapSame
<1>6. u \in DOMAIN live
  BY <1>2 DEF Ledger
<1>7. Shaped(live, b)
  BY <1>2, <1>4, <1>6, LiveBlock DEF Shaped
<1>8. Ledger(live, (kept \union Got(g)) \union {b}, leaked, {})
  BY <1>2, <1>4, <1>7, LedgerGives
<1>9. kept' = (kept \union Got(g)) \union {b}
  BY <1>3, GotBlocks
<1> QED BY <1>3, <1>5, <1>8, <1>9, NoCallFields, BooksOutside

LEMMA BooksBackOut ==
  ASSUME Books, alloc_entry_back_out
  PROVE  Books'
<1> DEFINE g == call.got
           list == call.list
<1>1. IsEntry(call) /\ ~H!Draining /\ call \in Entries
  BY WorkingEntry DEF alloc_entry_back_out
<1>2. /\ HeapInv /\ Distinct(g) /\ Ledger(live, kept \union Got(g), leaked, {list})
      /\ live[list].requested = call.size
      /\ BlocksOf(kept) \intersect BlocksOf(Got(g)) = {}
  BY <1>1, InsideBooks
<1>3. /\ call = EntryCall(call.name, list, call.left, g, call.size)
      /\ list \in Nat /\ call.size \in Nat /\ g \in Seq(Nat \X Nat)
      /\ call.left \in Seq((0..MaxWord) \X BOOLEAN)
      /\ call.name \in {"AllocEntry", "backing out"}
  BY <1>1, EntryIs
<1>4. kept' = kept /\ leaked' = leaked
  BY DEF alloc_entry_back_out, program
<1>5. CASE g # <<>>
  <2> DEFINE u == Head(g)[1]
             t == Tail(g)
             c == EntryCall(call.name, list, call.left, t, call.size)
  <2>1. H!free_block(u) /\ call' = [call EXCEPT !.got = Tail(@)]
    BY <1>5 DEF alloc_entry_back_out, poisoned_and_freed
  <2>2. call' = c
    BY <1>3, <2>1 DEF EntryCall
  <2> HIDE DEF g, list
  <2>3. /\ Got(t) = {b \in Got(g) : b.block # u}
        /\ t \in Seq(Nat \X Nat) /\ Distinct(t) /\ u \in BlocksOf(Got(g))
    BY <1>2, <1>3, <1>5, GotTail
  <2>4. EntryArgs(call.name, list, call.left, t, call.size)
    BY <1>3, <2>3 DEF EntryArgs
  <2>5. c = EntryCall(call.name, list, call.left, t, call.size)
    OBVIOUS
  <2> HIDE DEF u, t, c
  <2>6. u \in BlocksOf(kept \union Got(g)) /\ u \notin BlocksOf(kept)
    BY <1>2, <2>3 DEF BlocksOf
  <2>7. u \in DOMAIN live /\ u # list /\ u \notin leaked /\ list \in DOMAIN live
    BY <1>2, <2>6 DEF Ledger
  <2>8. /\ HeapInv' /\ DOMAIN live' = DOMAIN live \ {u}
        /\ \A v \in DOMAIN live \ {u} : live'[v] = live[v]
    BY <1>1, <1>2, <2>1, <2>7, Frees
  <2>9. Ledger(live', {b \in kept \union Got(g) : b.block # u}, leaked \ {u}, {list} \ {u})
    BY <1>2, <2>8, LedgerFrees
  <2>10. {b \in kept \union Got(g) : b.block # u} = kept \union Got(t)
    BY <2>3, <2>6 DEF BlocksOf
  <2>11. leaked \ {u} = leaked /\ {list} \ {u} = {list}
    BY <2>7
  <2>12. c \in Entries /\ c.list = list /\ c.got = t /\ c.size = call.size
    BY <2>4, <2>5, EntryCalls
  <2>13. Ledger(live', kept' \union Got(c.got), leaked', {c.list})
    BY <1>4, <2>9, <2>10, <2>11, <2>12
  <2>14. live'[c.list].requested = c.size
    BY <1>2, <2>7, <2>8, <2>12
  <2>15. BlocksOf(kept') \intersect BlocksOf(Got(c.got)) = {}
    BY <1>2, <1>4, <2>3, <2>12 DEF BlocksOf
  <2>16. Distinct(c.got)
    BY <2>3, <2>12
  <2> QED BY <2>2, <2>8, <2>12, <2>13, <2>14, <2>15, <2>16, BooksInside
<1>6. CASE g = <<>>
  <2>1. H!free_block(list) /\ call' = NoCall
    BY <1>6 DEF alloc_entry_back_out, backed_out, poisoned_and_freed
  <2> HIDE DEF g, list
  <2>2. kept \union Got(g) = kept
    BY <1>6, EmptyGot
  <2>3. Ledger(live, kept, leaked, {list})
    BY <1>2, <2>2
  <2>4. list \in DOMAIN live /\ list \notin leaked /\ list \notin BlocksOf(kept)
    BY <2>3 DEF Ledger
  <2>5. /\ HeapInv' /\ DOMAIN live' = DOMAIN live \ {list}
        /\ \A v \in DOMAIN live \ {list} : live'[v] = live[v]
    BY <1>1, <1>2, <2>1, <2>4, Frees
  <2>6. Ledger(live', {b \in kept : b.block # list}, leaked \ {list}, {list} \ {list})
    BY <2>3, <2>5, LedgerFrees
  <2>7. {b \in kept : b.block # list} = kept /\ leaked \ {list} = leaked /\ {list} \ {list} = {}
    BY <2>4 DEF BlocksOf
  <2> QED BY <1>4, <2>1, <2>5, <2>6, <2>7, NoCallFields, BooksOutside
<1> QED BY <1>5, <1>6

LEMMA BooksFree ==
  ASSUME Books, NEW b \in kept, free_handler(b)
  PROVE  Books'
<1> DEFINE u == b.block
<1>1. /\ ~IsEntry(call) /\ ~H!Draining /\ call' = call /\ leaked' = leaked
      /\ kept' = kept \ {b} /\ H!free_block(u)
  BY CallingOutside DEF free_handler, poisoned_and_freed
<1>2. HeapInv /\ Ledger(live, kept, leaked, {})
  BY <1>1, OutsideBooks
<1> HIDE DEF u
<1>3. u \in BlocksOf(kept)
  BY DEF BlocksOf, u
<1>4. u \in DOMAIN live /\ u \notin leaked
  BY <1>2, <1>3 DEF Ledger
<1>5. /\ HeapInv' /\ DOMAIN live' = DOMAIN live \ {u}
      /\ \A v \in DOMAIN live \ {u} : live'[v] = live[v]
  BY <1>1, <1>2, <1>4, Frees
<1>6. Ledger(live', {c \in kept : c.block # u}, leaked \ {u}, {} \ {u})
  BY <1>2, <1>5, LedgerFrees
<1>7. {c \in kept : c.block # u} = kept \ {b} /\ leaked \ {u} = leaked /\ {} \ {u} = {}
  BY <1>2, <1>4 DEF Ledger, u
<1> QED BY <1>1, <1>5, <1>6, <1>7, BooksOutside

LEMMA BooksDeletePool ==
  ASSUME Books, NEW p \in kept, delete_pool_handler(p)
  PROVE  Books'
<1> DEFINE u == p.ptr
           gone == {b \in kept : b.kind = "pooled" /\ b.of = u}
<1>1. /\ ~IsEntry(call) /\ ~H!Draining /\ call' = call
      /\ kept' = kept \ (gone \union {p}) /\ leaked' = leaked \union BlocksOf(gone)
      /\ H!free_block(u)
  BY CallingOutside DEF delete_pool_handler, BlocksOf
<1>2. HeapInv /\ Ledger(live, kept, leaked, {})
  BY <1>1, OutsideBooks
<1>3. p.kind # "vec" /\ p.kind # "pooled"
  BY DEF delete_pool_handler, Pools
<1>4. Shaped(live, p)
  BY <1>2 DEF Ledger
<1>5. u = p.block
  BY <1>3, <1>4 DEF Shaped
<1>6. gone \in SUBSET kept /\ p \notin gone
  BY <1>3
<1> HIDE DEF u, gone
<1>7. u \in BlocksOf(kept)
  BY <1>5 DEF BlocksOf
<1>8. u \in DOMAIN live /\ u \notin leaked /\ u \notin BlocksOf(gone)
  BY <1>2, <1>5, <1>6, <1>7 DEF Ledger, BlocksOf
<1>9. /\ HeapInv' /\ DOMAIN live' = DOMAIN live \ {u}
      /\ \A v \in DOMAIN live \ {u} : live'[v] = live[v]
  BY <1>1, <1>2, <1>8, Frees
<1>10. Ledger(live, kept \ gone, leaked \union BlocksOf(gone), {})
  BY <1>2, <1>6, LedgerLeaks
<1>11. Ledger(live', {c \in kept \ gone : c.block # u},
              (leaked \union BlocksOf(gone)) \ {u}, {} \ {u})
  BY <1>9, <1>10, LedgerFrees
<1>12. {c \in kept \ gone : c.block # u} = kept'
  BY <1>1, <1>2, <1>5 DEF Ledger
<1>13. (leaked \union BlocksOf(gone)) \ {u} = leaked' /\ {} \ {u} = {}
  BY <1>1, <1>8
<1> QED BY <1>1, <1>9, <1>11, <1>12, <1>13, BooksOutside

LEMMA BooksFreeEntry ==
  ASSUME Books, NEW b \in kept, free_entry_handler(b)
  PROVE  Books'
<1>1. /\ ~IsEntry(call) /\ kept' = kept /\ leaked' = leaked /\ UNCHANGED heap
      /\ call' = [name |-> "FreeEntry", left |-> Append(b.entries, <<b.ptr, b.size>>)]
  BY CallingOutside DEF free_entry_handler, program
<1>2. HeapInv /\ Ledger(live, kept, leaked, {})
  BY <1>1, OutsideBooks
<1>3. HeapInv' /\ live' = live
  BY <1>1, <1>2, HeapSame
<1>4. ~IsEntry(call') /\ Named(call')
  BY <1>1 DEF IsEntry, Named
<1> QED BY <1>1, <1>2, <1>3, <1>4, BooksOutside

LEMMA BooksFreeNext ==
  ASSUME Books, free_entry_next
  PROVE  Books'
<1> DEFINE u == Head(call.left)[1]
<1>1. ~IsEntry(call) /\ ~H!Draining
  BY DEF free_entry_next, Working, IsEntry
<1>2. /\ u \in DOMAIN live /\ H!free_block(u) /\ kept' = kept \ {b \in kept : b.block = u}
      /\ leaked' = leaked \ {u}
  BY DEF free_entry_next, poisoned_and_freed
<1>3. ~IsEntry(call') /\ Named(call')
  <2>1. CASE call' = NoCall
    BY <2>1, NoCallFields
  <2>2. CASE call' = [call EXCEPT !.left = Tail(@)]
    <3>1. call.name = "FreeEntry" /\ Named(call)
      BY DEF free_entry_next, Working, Books
    <3>2. call'.name = "FreeEntry" /\ Named(call')
      BY <2>2, <3>1 DEF Named
    <3> QED BY <3>2 DEF IsEntry
  <2> QED BY <2>1, <2>2 DEF free_entry_next
<1> HIDE DEF u
<1>4. HeapInv /\ Ledger(live, kept, leaked, {})
  BY <1>1, OutsideBooks
<1>5. /\ HeapInv' /\ DOMAIN live' = DOMAIN live \ {u}
      /\ \A v \in DOMAIN live \ {u} : live'[v] = live[v]
  BY <1>1, <1>2, <1>4, Frees
<1>6. Ledger(live', {b \in kept : b.block # u}, leaked \ {u}, {} \ {u})
  BY <1>4, <1>5, LedgerFrees
<1>7. {b \in kept : b.block # u} = kept' /\ {} \ {u} = {}
  BY <1>2
<1> QED BY <1>2, <1>3, <1>5, <1>6, <1>7, BooksOutside

\* The handlers that leave the books alone.
LEMMA BooksEnable ==
  ASSUME Books, enable_heap_sanitizer
  PROVE  Books'
<1>1. /\ UNCHANGED <<free, live, quarantine, quarantine_bytes, recently_freed, reserved>>
      /\ redzone_size' = H!align_up(Redzone) /\ quarantine_budget' = Quarantine
      /\ answer' = answer /\ call' = NoCall /\ kept' = kept /\ leaked' = leaked
      /\ call.name = "starting"
  BY DEF enable_heap_sanitizer, program
<1>2. H!align_up(Redzone) \in G!Word /\ Quarantine \in G!Word
  BY AlignedUp, ArgumentsAssumption DEF G!align_up, H!align_up, G!Word
<1>3. ~IsEntry(call)
  BY <1>1 DEF IsEntry
<1>4. HeapInv /\ Ledger(live, kept, leaked, {})
  BY <1>3, OutsideBooks
<1>5. answer \in G!Replies \X Nat
  BY <1>4 DEF HeapInv, G!Inv, G!HeapTypeOK
<1>6. G!Inv'
  BY <1>1, <1>2, <1>4, <1>5, HeapAssumptions, G!InvSame DEF HeapInv
<1>7. HeapInv'
  BY <1>1, <1>4, <1>6 DEF HeapInv, G!ExtentsRight
<1> QED BY <1>1, <1>4, <1>7, NoCallFields, BooksOutside

LEMMA BooksAnswer ==
  ASSUME Books, UNCHANGED <<call, program>>,
         \/ UNCHANGED heap
         \/ \E n \in Nat : H!OutOfMemory(n)
         \/ \E a \in Nat : H!DoubleOrInvalidFree(a)
         \/ H!Draining /\ H!drain_quarantine_over_budget
  PROVE  Books' /\ live' = live
<1>1. HeapInv
  BY DEF Books
<1>2. HeapInv' /\ live' = live
  BY <1>1, HeapSame, Answers, Drains
<1> QED BY <1>2, BooksSame DEF program

LEMMA BooksDrain ==
  ASSUME Books, drain_quarantine_over_budget
  PROVE  Books'
BY BooksAnswer DEF drain_quarantine_over_budget

LEMMA RefusedAnswers ==
  ASSUME NEW n \in Nat, ReturnsNull(n)
  PROVE  /\ H!OutOfMemory(n)
         /\ UNCHANGED <<call, program>> /\ UNCHANGED <<shadow, bare, accused>>
BY DEF ReturnsNull

LEMMA RefusedSizes ==
  ASSUME Refused
  PROVE  \E n \in Nat : ReturnsNull(n)
<1>1. CASE \E size \in Sizes \ {0} : ReturnsNull(round_up_8(size))
  <2>1. \A size \in Sizes : round_up_8(size) \in Nat
    BY ArgumentsAssumption, Rounded
  <2> QED BY <1>1, <2>1
<1>2. CASE \E size \in Sizes \ {0} :
             ReturnsNull((round_up_8(size) + ALLOCVEC_HEADER_SIZE) % (MaxWord + 1))
  <2>1. MaxWord \in Nat
    BY WordAssumption
  <2>2. \A size \in Sizes : round_up_8(size) \in 0..MaxWord
    BY ArgumentsAssumption, Rounded
  <2>3. \A size \in Sizes : (round_up_8(size) + ALLOCVEC_HEADER_SIZE) % (MaxWord + 1) \in Nat
    BY <2>1, <2>2 DEF ALLOCVEC_HEADER_SIZE
  <2> QED BY <1>2, <2>3
<1>3. CASE ReturnsNull(POOL_HEADER_SIZE)
  BY <1>3 DEF POOL_HEADER_SIZE
<1> QED BY <1>1, <1>2, <1>3 DEF Refused

LEMMA EntryRefusedSizes ==
  ASSUME NEW template \in Templates, alloc_entry_refused(template)
  PROVE  \E n \in Nat : ReturnsNull(n)
<1>1. Len(template) \in Nat
  BY ArgumentsAssumption
<1>2. list_size(Len(template)) \in Nat
  BY <1>1 DEF list_size, ML_FIRST_ENTRY_OFFSET, MEMENTRY_SIZE
<1>3. round_up_8(list_size(Len(template))) \in Nat
  BY <1>2, Rounded
<1> QED BY <1>3 DEF alloc_entry_refused

\* The books are kept by every step.
LEMMA BooksNext ==
  ASSUME Books, High, Modest, [MemNext]_memVars
  PROVE  Books'
<1>1. CASE enable_heap_sanitizer
  BY <1>1, BooksEnable
<1>2. CASE drain_quarantine_over_budget
  BY <1>2, BooksDrain
<1>3. CASE Allocate
  <2>1. ASSUME NEW size \in Sizes, NEW clear \in BOOLEAN,
               alloc_mem_handler(size, clear) \/ alloc_vec_handler(size, clear)
        PROVE  Books'
    BY <2>1, BooksAllocMem, BooksAllocVec
  <2>2. ASSUME NEW clear \in BOOLEAN, create_pool_handler(clear)
        PROVE  Books'
    BY <2>2, BooksCreatePool
  <2>3. ASSUME NEW p \in Pools, NEW size \in Sizes, alloc_pooled_handler(p, size)
        PROVE  Books'
    BY <2>3, BooksAllocPooled
  <2>4. CASE Refused
    <3>1. PICK n \in Nat : ReturnsNull(n)
      BY <2>4, RefusedSizes
    <3> QED BY <3>1, RefusedAnswers, BooksAnswer
  <2> QED BY <1>3, <2>1, <2>2, <2>3, <2>4 DEF Allocate
<1>4. CASE Release
  <2>1. ASSUME NEW b \in kept, free_handler(b) \/ delete_pool_handler(b)
        PROVE  Books'
    BY <2>1, BooksFree, BooksDeletePool
  <2>2. ASSUME NEW addr \in Strays, delete_no_pool_handler(addr)
        PROVE  Books'
    <3>1. addr \in Nat
      BY ArgumentsAssumption
    <3>2. H!DoubleOrInvalidFree(addr) /\ UNCHANGED <<call, program>>
      BY <2>2 DEF delete_no_pool_handler
    <3> QED BY <3>1, <3>2, BooksAnswer
  <2>3. CASE bad_free_handler
    BY <2>3, BooksAnswer DEF bad_free_handler, Fails
  <2> QED BY <1>4, <2>1, <2>2, <2>3 DEF Release
<1>5. CASE Entry
  <2>1. ASSUME NEW template \in Templates, alloc_entry_handler(template)
        PROVE  Books'
    BY <2>1, BooksAllocEntry
  <2>2. ASSUME NEW template \in Templates, alloc_entry_refused(template)
        PROVE  Books'
    <3>1. PICK n \in Nat : ReturnsNull(n)
      BY <2>2, EntryRefusedSizes
    <3> QED BY <3>1, RefusedAnswers, BooksAnswer
  <2>3. CASE alloc_entry_next \/ alloc_entry_fails \/ alloc_entry_done \/ alloc_entry_back_out
    BY <2>3, BooksEntryNext, BooksEntryFails, BooksEntryDone, BooksBackOut
  <2>4. ASSUME NEW b \in kept, free_entry_handler(b)
        PROVE  Books'
    BY <2>4, BooksFreeEntry
  <2>5. CASE free_entry_next
    BY <2>5, BooksFreeNext
  <2>6. CASE free_entry_fails
    BY <2>6, BooksAnswer DEF free_entry_fails, Fails
  <2> QED BY <1>5, <2>1, <2>2, <2>3, <2>4, <2>5, <2>6 DEF Entry
<1>6. CASE Access
  <2>1. ASSUME NEW a, write_u8(a)
        PROVE  Books'
    <3>1. UNCHANGED <<heap, call, kept, leaked>>
      BY <2>1 DEF write_u8
    <3> QED BY <3>1, HeapSame, BooksSame DEF Books
  <2>2. ASSUME NEW src, NEW dest, NEW len, copy_mem_handler(src, dest, len)
        PROVE  Books'
    <3>1. UNCHANGED <<heap, call, kept, leaked>>
      BY <2>2 DEF copy_mem_handler
    <3> QED BY <3>1, HeapSame, BooksSame DEF Books
  <2> QED BY <1>6, <2>1, <2>2 DEF Access
<1>7. CASE UNCHANGED memVars
  BY <1>7, BooksAnswer DEF memVars
<1> QED BY <1>1, <1>2, <1>3, <1>4, <1>5, <1>6, <1>7 DEF MemNext

LEMMA BooksClose ==
  ASSUME Books
  PROVE  NothingLeaks
<1> SUFFICES ASSUME call = NoCall
             PROVE  /\ DOMAIN live = {b.block : b \in kept} \union leaked
                    /\ \A b \in kept : Backed(b)
                    /\ \A b, c \in kept : b.block = c.block => b = c
  BY DEF NothingLeaks
<1>1. HeapInv /\ Ledger(live, kept, leaked, {})
  BY NoCallFields, OutsideBooks
<1>2. ASSUME NEW b \in kept
      PROVE  Backed(b)
  <2>1. Shaped(live, b)
    BY <1>1 DEF Ledger
  <2>2. b.block \in DOMAIN live /\ b.block \in Nat /\ live[b.block].user_size \in Nat
    BY <1>1, <2>1, LiveBlock DEF Shaped
  <2>3. /\ b.ptr \in Nat /\ b.size \in Nat /\ b.block <= b.ptr
        /\ b.ptr + b.size <= b.block + live[b.block].user_size
    BY <2>1, <2>2 DEF Shaped
  <2> DEFINE n == live[b.block].user_size
  <2> HIDE DEF n
  <2>4. (b.ptr)..(b.ptr + b.size - 1) \subseteq (b.block)..(b.block + n - 1)
    BY <2>2, <2>3 DEF n
  <2> QED BY <2>2, <2>4 DEF Backed, BytesOf, Bytes, n
<1> QED BY <1>1, <1>2 DEF Ledger, BlocksOf

\* NothingLeaks holds of ExecMem, if the heap lies above address 4 and no
\* request is so large that AllocVec would wrap.
THEOREM NothingIsLeaked ==
  ASSUME High, Modest
  PROVE  MemSpec => []NothingLeaks
<1>1. MemInit => Books
  BY BooksInit
<1>2. Books /\ [MemNext]_memVars => Books'
  BY BooksNext
<1>3. Books => NothingLeaks
  BY BooksClose
<1> QED BY <1>1, <1>2, <1>3, PTL DEF MemSpec

-----------------------------------------------------------------------------
(* The marks.  sh is a shadow map, wr the bytes that have a value, and M, L
   and K are as in the ledger. *)

PoolKinds == {"pool", "clearing pool"}

Reg(l) == H!Span(l.block_start, l.block_end)

Known(sh, wr, A) == \A a \in A : IF a \in wr THEN sh[a] = "valid" ELSE sh[a] = "uninit"

Edged(sh, l, u, end) ==
  /\ \A a \in H!Span(l.block_start, u) \union H!Span(u + l.user_size, l.block_end) :
       sh[a] = "redzone"
  /\ \A a \in H!Span(end, u + l.user_size) : sh[a] = "slack"

RightBlock(lv, sh, wr, b) ==
  /\ Known(sh, wr, BytesOf(b))
  /\ b.kind \in PoolKinds => BytesOf(b) \subseteq wr
  /\ b.kind \notin PoolKinds => Edged(sh, lv[b.block], b.block, b.ptr + b.size)

RightLeft(lv, sh, wr, u) == Known(sh, wr, Bytes(u, lv[u].requested))
RightList(lv, sh, u) == \A a \in Bytes(u, lv[u].user_size) : sh[a] = "valid"

DataOf(lv, M, L) ==
  (UNION {BytesOf(b) : b \in M}) \union (UNION {Bytes(u, lv[u].requested) : u \in L})

Rights(lv, sh, wr, M, L, K) ==
  /\ \A b \in M : RightBlock(lv, sh, wr, b)
  /\ \A u \in L : RightLeft(lv, sh, wr, u)
  /\ \A u \in K : RightList(lv, sh, u)

Shadows(lv, sh, wr, M, L, K) ==
  /\ Rights(lv, sh, wr, M, L, K)
  /\ \A a \in DOMAIN sh : sh[a] = "uninit" => a \in DataOf(lv, M, L)

\* What is marked of a block lies in its extent.
Placed(lv, b) ==
  LET l == lv[b.block]
  IN  /\ BytesOf(b) \subseteq Reg(l)
      /\ H!Span(l.block_start, b.block) \subseteq Reg(l)
      /\ H!Span(b.block + l.user_size, l.block_end) \subseteq Reg(l)
      /\ H!Span(b.ptr + b.size, b.block + l.user_size) \subseteq Reg(l)

PlacedAt(lv, u) ==
  /\ Bytes(u, lv[u].requested) \subseteq Reg(lv[u])
  /\ Bytes(u, lv[u].user_size) \subseteq Reg(lv[u])

\* Outside N nothing is marked anew.
Confined(sh, sg, wr, ws, N) ==
  /\ DOMAIN sg = DOMAIN sh
  /\ \A a \in DOMAIN sh : a \notin N => sg[a] = sh[a]
  /\ \A a : a \notin N => (a \in ws <=> a \in wr)

LEMMA KnownKept ==
  ASSUME NEW sh, NEW sg, NEW wr, NEW ws, NEW A, NEW N, Confined(sh, sg, wr, ws, N),
         A \subseteq DOMAIN sh, A \intersect N = {}, Known(sh, wr, A)
  PROVE  Known(sg, ws, A)
BY DEF Known, Confined

LEMMA RightKept ==
  ASSUME NEW lv, NEW lw, NEW sh, NEW sg, NEW wr, NEW ws, NEW N, NEW b,
         Confined(sh, sg, wr, ws, N), Placed(lv, b), lw[b.block] = lv[b.block],
         Reg(lv[b.block]) \subseteq DOMAIN sh, Reg(lv[b.block]) \intersect N = {},
         RightBlock(lv, sh, wr, b)
  PROVE  RightBlock(lw, sg, ws, b)
<1> DEFINE l == lv[b.block]
           R == Reg(l)
           u == b.block
           end == b.ptr + b.size
<1>1. /\ BytesOf(b) \subseteq R /\ H!Span(l.block_start, u) \subseteq R
      /\ H!Span(u + l.user_size, l.block_end) \subseteq R
      /\ H!Span(end, u + l.user_size) \subseteq R
  BY DEF Placed
<1>2. R \subseteq DOMAIN sh /\ R \intersect N = {}
  OBVIOUS
<1>3. /\ Known(sh, wr, BytesOf(b)) /\ (b.kind \in PoolKinds => BytesOf(b) \subseteq wr)
      /\ (b.kind \notin PoolKinds => Edged(sh, l, u, end))
  BY DEF RightBlock
<1>7. lw[u] = l
  OBVIOUS
<1> HIDE DEF l, R, u, end
<1>4. Known(sg, ws, BytesOf(b))
  BY <1>1, <1>2, <1>3, KnownKept
<1>5. b.kind \in PoolKinds => BytesOf(b) \subseteq ws
  BY <1>1, <1>2, <1>3 DEF Confined
<1>6. Edged(sh, l, u, end) => Edged(sg, l, u, end)
  BY <1>1, <1>2 DEF Edged, Confined
<1> QED BY <1>3, <1>4, <1>5, <1>6, <1>7 DEF RightBlock, l, u, end

LEMMA LeftKept ==
  ASSUME NEW lv, NEW lw, NEW sh, NEW sg, NEW wr, NEW ws, NEW N, NEW u,
         Confined(sh, sg, wr, ws, N), PlacedAt(lv, u), lw[u] = lv[u],
         Reg(lv[u]) \subseteq DOMAIN sh, Reg(lv[u]) \intersect N = {}
  PROVE  /\ RightLeft(lv, sh, wr, u) => RightLeft(lw, sg, ws, u)
         /\ RightList(lv, sh, u) => RightList(lw, sg, u)
<1>1. ASSUME RightLeft(lv, sh, wr, u)
      PROVE  RightLeft(lw, sg, ws, u)
  BY <1>1, KnownKept DEF RightLeft, PlacedAt
<1>2. ASSUME RightList(lv, sh, u)
      PROVE  RightList(lw, sg, u)
  BY <1>2 DEF RightList, PlacedAt, Confined
<1> QED BY <1>1, <1>2

\* The extents of the blocks at U are in the map and away from N, and their
\* entries stay.
Away(lv, lw, sh, U, N) ==
  \A u \in U : /\ Reg(lv[u]) \subseteq DOMAIN sh /\ Reg(lv[u]) \intersect N = {}
               /\ lw[u] = lv[u] /\ PlacedAt(lv, u)

LEMMA RightsKept ==
  ASSUME NEW lv, NEW lw, NEW sh, NEW sg, NEW wr, NEW ws, NEW N, NEW M, NEW L, NEW K,
         Confined(sh, sg, wr, ws, N), Rights(lv, sh, wr, M, L, K),
         Away(lv, lw, sh, BlocksOf(M) \union L \union K, N),
         \A b \in M : Placed(lv, b)
  PROVE  Rights(lw, sg, ws, M, L, K)
<1>1. ASSUME NEW b \in M
      PROVE  RightBlock(lw, sg, ws, b)
  <2>1. b.block \in BlocksOf(M)
    BY DEF BlocksOf
  <2> QED BY <2>1, RightKept DEF Rights, Away
<1>2. ASSUME NEW u \in L
      PROVE  RightLeft(lw, sg, ws, u)
  BY LeftKept DEF Rights, Away
<1>3. ASSUME NEW u \in K
      PROVE  RightList(lw, sg, u)
  BY LeftKept DEF Rights, Away
<1> QED BY <1>1, <1>2, <1>3 DEF Rights

LEMMA InData ==
  ASSUME NEW lv, NEW M, NEW L, NEW a
  PROVE  a \in DataOf(lv, M, L) <=> \/ \E b \in M : a \in BytesOf(b)
                                  \/ \E u \in L : a \in Bytes(u, lv[u].requested)
<1> DEFINE A == UNION {BytesOf(b) : b \in M}
           B == UNION {Bytes(u, lv[u].requested) : u \in L}
           inA == \E b \in M : a \in BytesOf(b)
           inB == \E u \in L : a \in Bytes(u, lv[u].requested)
<1>1. a \in A <=> inA
  OBVIOUS
<1>2. a \in B <=> inB
  OBVIOUS
<1>3. DataOf(lv, M, L) = A \union B
  BY DEF DataOf
<1> HIDE DEF A, B
<1>4. a \in DataOf(lv, M, L) <=> inA \/ inB
  BY <1>1, <1>2, <1>3
<1> QED BY <1>4

\* An uninit byte outside N is in a block that is still there.
LEMMA UninitKept ==
  ASSUME NEW lv, NEW lw, NEW sh, NEW sg, NEW wr, NEW ws, NEW N, NEW M, NEW L, NEW K,
         Confined(sh, sg, wr, ws, N), Shadows(lv, sh, wr, M, L, K),
         NEW T \in SUBSET M, NEW J \in SUBSET L,
         \A b \in M \ T : BytesOf(b) \subseteq N,
         \A u \in L \ J : Bytes(u, lv[u].requested) \subseteq N,
         \A u \in J : lw[u] = lv[u],
         NEW a \in DOMAIN sg, a \notin N, sg[a] = "uninit"
  PROVE  a \in DataOf(lw, T, J)
<1>1. a \in DataOf(lv, M, L)
  BY DEF Confined, Shadows
<1>2. ASSUME NEW b \in M, a \in BytesOf(b)
      PROVE  b \in T
  BY <1>2
<1>3. ASSUME NEW u \in L, a \in Bytes(u, lv[u].requested)
      PROVE  u \in J /\ a \in Bytes(u, lw[u].requested)
  BY <1>3
<1> QED BY <1>1, <1>2, <1>3, InData

LEMMA BlockIsReg == \A u : BlockAt(u) = Reg(live[u])
BY DEF BlockAt, Reg

\* Where the marks of a block are, for a block in the ledger.
LEMMA PlacedLive ==
  ASSUME HeapInv, NEW u \in DOMAIN live
  PROVE  PlacedAt(live, u)
<1> DEFINE l == live[u]
           n == l.user_size
           r == l.requested
           s == l.block_start
           e == l.block_end
<1>1. /\ u \in Nat /\ n \in Nat /\ r \in Nat /\ s \in Nat /\ e \in Nat
      /\ s <= u /\ r <= n /\ u + n <= e
  BY LiveBlock
<1> HIDE DEF n, r, s, e
<1>2. u..(u + r - 1) \subseteq s..(e - 1) /\ u..(u + n - 1) \subseteq s..(e - 1)
  BY <1>1
<1>3. Reg(l) = s..(e - 1)
  BY DEF Reg, H!Span, s, e
<1> QED BY <1>2, <1>3 DEF PlacedAt, Bytes, n, r

LEMMA PlacedHeld ==
  ASSUME HeapInv, NEW b, Shaped(live, b)
  PROVE  Placed(live, b)
<1> DEFINE u == b.block
           p == b.ptr
           z == b.size
           l == live[u]
           n == l.user_size
           s == l.block_start
           e == l.block_end
<1>1. u \in DOMAIN live /\ p \in Nat /\ z \in Nat
  BY DEF Shaped
<1>2. u \in Nat /\ n \in Nat /\ s \in Nat /\ e \in Nat /\ s <= u /\ u + n <= e
  BY <1>1, LiveBlock
<1>3. u <= p /\ p + z <= u + n
  BY <1>1, <1>2 DEF Shaped
<1> HIDE DEF u, p, z, n, s, e
<1>4. /\ p..(p + z - 1) \subseteq s..(e - 1)
      /\ s..(u - 1) \subseteq s..(e - 1)
      /\ (u + n)..(e - 1) \subseteq s..(e - 1)
      /\ (p + z)..(u + n - 1) \subseteq s..(e - 1)
  BY <1>1, <1>2, <1>3
<1>5. Reg(l) = s..(e - 1)
  BY DEF Reg, H!Span, s, e
<1>6. /\ BytesOf(b) = p..(p + z - 1)
      /\ H!Span(l.block_start, u) = s..(u - 1)
      /\ H!Span(u + l.user_size, l.block_end) = (u + n)..(e - 1)
      /\ H!Span(p + z, u + l.user_size) = (p + z)..(u + n - 1)
  <2>1. BytesOf(b) = p..(p + z - 1)
    BY DEF BytesOf, Bytes, p, z
  <2>2. H!Span(l.block_start, u) = s..(u - 1)
    BY DEF H!Span, s
  <2>3. H!Span(u + l.user_size, l.block_end) = (u + n)..(e - 1)
    BY DEF H!Span, n, e
  <2>4. H!Span(p + z, u + l.user_size) = (p + z)..(u + n - 1)
    <3>1. l.user_size = n
      BY DEF n
    <3> QED BY <3>1, <1>1, <1>2 DEF H!Span
  <2> QED BY <2>1, <2>2, <2>3, <2>4
<1> HIDE DEF l
<1>7. /\ BytesOf(b) \subseteq Reg(l) /\ H!Span(l.block_start, u) \subseteq Reg(l)
      /\ H!Span(u + l.user_size, l.block_end) \subseteq Reg(l)
      /\ H!Span(p + z, u + l.user_size) \subseteq Reg(l)
  BY <1>4, <1>5, <1>6
<1> QED BY <1>7 DEF Placed, l, p, z, u

\* The extents of all blocks but the one at u are away from it, and from where
\* there is no block at all.
LEMMA AllAway ==
  ASSUME HeapInv, NEW sh, DOMAIN sh = H!Managed, NEW lw, NEW N, NEW U \in SUBSET DOMAIN live,
         \A v \in U : lw[v] = live[v],
         \/ \E u \in DOMAIN live : N = BlockAt(u) /\ u \notin U
         \/ \A v \in DOMAIN live : N \intersect BlockAt(v) = {}
         \/ N = {}
  PROVE  Away(live, lw, sh, U, N)
<1> SUFFICES ASSUME NEW v \in U
             PROVE  /\ Reg(live[v]) \subseteq DOMAIN sh /\ Reg(live[v]) \intersect N = {}
                    /\ lw[v] = live[v] /\ PlacedAt(live, v)
  BY DEF Away
<1>1. v \in DOMAIN live /\ BlockAt(v) = Reg(live[v])
  BY BlockIsReg
<1>2. BlockAt(v) \subseteq DOMAIN sh /\ PlacedAt(live, v)
  BY <1>1, LiveBlock, PlacedLive
<1>3. BlockAt(v) \intersect N = {}
  BY <1>1, LiveBlock
<1> QED BY <1>1, <1>2, <1>3

LEMMA AfterAlloc ==
  ASSUME HeapInv, DOMAIN shadow = H!Managed,
         NEW M, NEW L, NEW K, Ledger(live, M, L, K), Shadows(live, shadow, written, M, L, K),
         NEW n, NEW r, NEW u, NEW l, Found(n, r, u, l),
         NEW sg, NEW ws, Confined(shadow, sg, written, ws, Reg(l))
  PROVE  /\ Rights(live', sg, ws, M, L, K)
         /\ \A a \in DOMAIN sg : sg[a] = "uninit" /\ a \notin Reg(l) => a \in DataOf(live', M, L)
<1>1. /\ \A v \in DOMAIN live : live'[v] = live[v]
      /\ \A v \in DOMAIN live : Reg(l) \intersect BlockAt(v) = {}
  BY DEF Found, Reg
<1>2. BlocksOf(M) \union L \union K \in SUBSET DOMAIN live /\ \A b \in M : Shaped(live, b)
  BY DEF Ledger
<1>3. Away(live, live', shadow, BlocksOf(M) \union L \union K, Reg(l))
  BY <1>1, <1>2, AllAway
<1>4. Rights(live', sg, ws, M, L, K)
  BY <1>2, <1>3, PlacedHeld, RightsKept DEF Shadows
<1>5. ASSUME NEW a \in DOMAIN sg, sg[a] = "uninit", a \notin Reg(l)
      PROVE  a \in DataOf(live', M, L)
  <2>1. M \in SUBSET M /\ L \in SUBSET L /\ M \ M = {} /\ L \ L = {}
    OBVIOUS
  <2>2. \A v \in L : live'[v] = live[v]
    BY <1>1, <1>2
  <2> QED BY <1>5, <2>1, <2>2, UninitKept
<1> QED BY <1>4, <1>5

LEMMA AfterFree ==
  ASSUME HeapInv, DOMAIN shadow = H!Managed,
         NEW M, NEW L, NEW K, Ledger(live, M, L, K), Shadows(live, shadow, written, M, L, K),
         NEW u \in DOMAIN live, \A v \in DOMAIN live \ {u} : live'[v] = live[v],
         NEW sg, NEW ws, Confined(shadow, sg, written, ws, BlockAt(u)),
         \A a \in BlockAt(u) : sg[a] # "uninit"
  PROVE  Shadows(live', sg, ws, {b \in M : b.block # u}, L \ {u}, K \ {u})
<1> DEFINE T == {b \in M : b.block # u}
           J == L \ {u}
           Z == K \ {u}
<1>1. BlocksOf(M) \union L \union K \subseteq DOMAIN live /\ \A b \in M : Shaped(live, b)
  BY DEF Ledger
<1>2. BlocksOf(T) \union J \union Z \in SUBSET DOMAIN live /\ u \notin BlocksOf(T) \union J \union Z
  BY <1>1 DEF BlocksOf
<1>3. Away(live, live', shadow, BlocksOf(T) \union J \union Z, BlockAt(u))
  <2> DEFINE U == BlocksOf(T) \union J \union Z
  <2> HIDE DEF U
  <2>1. U \in SUBSET DOMAIN live /\ u \notin U
    BY <1>2 DEF U
  <2>2. Away(live, live', shadow, U, BlockAt(u))
    BY <2>1, AllAway
  <2> QED BY <2>2 DEF U
<1>4. Rights(live, shadow, written, T, J, Z)
  BY DEF Shadows, Rights
<1>5. \A b \in T : Placed(live, b)
  BY <1>1, PlacedHeld
<1>6. T \in SUBSET M /\ J \in SUBSET L
  OBVIOUS
<1>7. \A b \in M \ T : BytesOf(b) \subseteq BlockAt(u)
  BY <1>1, PlacedHeld, BlockIsReg DEF Placed
<1>8. \A v \in L \ J : Bytes(v, live[v].requested) \subseteq BlockAt(u)
  BY <1>1, PlacedLive, BlockIsReg DEF PlacedAt
<1>9. \A v \in J : live'[v] = live[v]
  BY <1>1
<1> HIDE DEF T, J, Z
<1>10. Rights(live', sg, ws, T, J, Z)
  BY <1>3, <1>4, <1>5, RightsKept
<1>11. ASSUME NEW a \in DOMAIN sg, sg[a] = "uninit"
       PROVE  a \in DataOf(live', T, J)
  <2>1. a \notin BlockAt(u)
    BY <1>11
  <2> QED BY <1>6, <1>7, <1>8, <1>9, <1>11, <2>1, UninitKept
<1>12. Shadows(live', sg, ws, T, J, Z)
  BY <1>10, <1>11 DEF Shadows
<1> QED BY <1>12 DEF T, J, Z

-----------------------------------------------------------------------------
(* The quarantine. *)

Guarded(q, sh, ba) ==
  \A i \in DOMAIN q : q[i].block_start \notin ba => \A a \in H!RestOf(q[i]) : sh[a] = "freed"

LEMMA RestsInside ==
  ASSUME HeapInv, NEW i \in DOMAIN quarantine
  PROVE  /\ H!RestOf(quarantine[i]) \subseteq H!Resting
         /\ H!RestOf(quarantine[i]) \subseteq H!Managed
<1>1. G!RestOf(quarantine[i]) \subseteq G!Resting /\ G!Resting \subseteq G!Managed
  BY DEF HeapInv, G!Inv, G!Partition, G!Resting
<1>2. H!RestOf(quarantine[i]) = G!RestOf(quarantine[i])
  BY DEF H!RestOf, G!RestOf, H!Span, G!Span
<1> QED BY <1>1, <1>2, SameState

LEMMA GuardKept ==
  ASSUME HeapInv, DOMAIN shadow = H!Managed, Guarded(quarantine, shadow, bare),
         NEW N, N \intersect H!Resting = {}, NEW sg, NEW ws,
         Confined(shadow, sg, written, ws, N), NEW ba, bare \subseteq ba
  PROVE  Guarded(quarantine, sg, ba)
<1> SUFFICES ASSUME NEW i \in DOMAIN quarantine, quarantine[i].block_start \notin ba,
                    NEW a \in H!RestOf(quarantine[i])
             PROVE  sg[a] = "freed"
  BY DEF Guarded
<1>1. shadow[a] = "freed"
  BY DEF Guarded
<1>2. a \in DOMAIN shadow /\ a \notin N
  BY RestsInside
<1> QED BY <1>1, <1>2 DEF Confined

LEMMA GuardMore ==
  ASSUME HeapInv, NEW sh, NEW ba, Guarded(quarantine, sh, ba),
         NEW q, q.block_start \in ba \/ \A a \in H!RestOf(q) : sh[a] = "freed"
  PROVE  Guarded(Append(quarantine, q), sh, ba)
<1>1. quarantine \in Seq(G!QuarantinedBlock)
  BY DEF HeapInv, G!Inv, G!HeapTypeOK
<1>2. \A i \in DOMAIN Append(quarantine, q) :
        \/ i \in DOMAIN quarantine /\ Append(quarantine, q)[i] = quarantine[i]
        \/ Append(quarantine, q)[i] = q
  BY <1>1
<1> DEFINE Q == Append(quarantine, q)
<1> HIDE DEF Q
<1>3. \A i \in DOMAIN Q : (i \in DOMAIN quarantine /\ Q[i] = quarantine[i]) \/ Q[i] = q
  BY <1>2 DEF Q
<1>4. Guarded(Q, sh, ba)
  BY <1>3 DEF Guarded
<1> QED BY <1>4 DEF Q

LEMMA GuardLess ==
  ASSUME HeapInv, Guarded(quarantine, shadow, bare), quarantine # <<>>,
         \A i \in 2..Len(quarantine) : quarantine[i].block_start # quarantine[1].block_start
  PROVE  Guarded(Tail(quarantine), shadow, bare \ {Head(quarantine).block_start})
<1>1. quarantine \in Seq(G!QuarantinedBlock)
  BY DEF HeapInv, G!Inv, G!HeapTypeOK
<1> DEFINE T == Tail(quarantine)
           h == Head(quarantine)
<1>2. /\ h = quarantine[1]
      /\ \A i \in DOMAIN T : i + 1 \in DOMAIN quarantine /\ i + 1 \in 2..Len(quarantine)
                             /\ T[i] = quarantine[i + 1]
  BY <1>1
<1> HIDE DEF T, h
<1>3. Guarded(T, shadow, bare \ {h.block_start})
  <2> SUFFICES ASSUME NEW i \in DOMAIN T, T[i].block_start \notin bare \ {h.block_start},
                      NEW a \in H!RestOf(T[i])
               PROVE  shadow[a] = "freed"
    BY DEF Guarded
  <2>1. T[i] = quarantine[i + 1] /\ i + 1 \in DOMAIN quarantine
    BY <1>2
  <2>2. quarantine[i + 1].block_start # h.block_start
    BY <1>2
  <2> QED BY <2>1, <2>2 DEF Guarded
<1> QED BY <1>3 DEF T, h

-----------------------------------------------------------------------------
(* What the handlers mark of a block they take from the heap. *)

\* The extent of a block at u, in order.
Extent(l, u) ==
  /\ u \in Nat /\ l.user_size \in Nat /\ l.requested \in Nat
  /\ l.block_start \in Nat /\ l.block_end \in Nat
  /\ l.block_start <= u /\ l.requested <= l.user_size /\ u + l.user_size <= l.block_end

LEMMA ExtentParts ==
  ASSUME NEW l, NEW u, Extent(l, u)
  PROVE  /\ Bytes(u, l.user_size) \subseteq Reg(l)
         /\ Bytes(u, l.requested) \subseteq Bytes(u, l.user_size)
         /\ H!Span(l.block_start, u) \subseteq Reg(l) \ Bytes(u, l.user_size)
         /\ H!Span(u + l.user_size, l.block_end) \subseteq Reg(l) \ Bytes(u, l.user_size)
         /\ H!Span(u + l.requested, u + l.user_size)
              \subseteq Bytes(u, l.user_size) \ Bytes(u, l.requested)
<1> DEFINE n == l.user_size
           r == l.requested
           s == l.block_start
           e == l.block_end
<1>1. /\ u \in Nat /\ n \in Nat /\ r \in Nat /\ s \in Nat /\ e \in Nat
      /\ s <= u /\ r <= n /\ u + n <= e
  BY DEF Extent
<1> HIDE DEF n, r, s, e
<1>2. /\ u..(u + n - 1) \subseteq s..(e - 1)
      /\ u..(u + r - 1) \subseteq u..(u + n - 1)
      /\ s..(u - 1) \subseteq (s..(e - 1)) \ (u..(u + n - 1))
      /\ (u + n)..(e - 1) \subseteq (s..(e - 1)) \ (u..(u + n - 1))
      /\ (u + r)..(u + n - 1) \subseteq (u..(u + n - 1)) \ (u..(u + r - 1))
  BY <1>1
<1>3. Reg(l) = s..(e - 1)
  BY DEF Reg, H!Span, s, e
<1>4. Bytes(u, n) = u..(u + n - 1) /\ Bytes(u, r) = u..(u + r - 1)
  BY DEF Bytes
<1>5. H!Span(s, u) = s..(u - 1) /\ H!Span(u + n, e) = (u + n)..(e - 1)
  BY <1>1 DEF H!Span
<1>6. H!Span(u + r, u + n) = (u + r)..(u + n - 1)
  BY <1>1 DEF H!Span
<1> QED BY <1>2, <1>3, <1>4, <1>5, <1>6 DEF n, r, s, e

LEMMA FilledMarks ==
  ASSUME NEW l, NEW u, Extent(l, u), Reg(l) \subseteq DOMAIN shadow, NEW f, f = Filled(l, u)
  PROVE  /\ DOMAIN f = DOMAIN shadow
         /\ \A a \in Reg(l) : f[a] = "valid"
         /\ \A a \in DOMAIN shadow : a \notin Reg(l) => f[a] = shadow[a]
         /\ FillReports(l, u) = {}
<1> DEFINE B == Bytes(u, l.user_size)
           c == clear_fresh_block(shadow, l)
<1>1. B \subseteq Reg(l)
  BY ExtentParts
<1> HIDE DEF B
<1>2. c = [a \in DOMAIN shadow |-> IF a \in Reg(l) THEN "valid" ELSE shadow[a]]
  BY DEF clear_fresh_block, Marked, Reg
<1>3. f = [a \in DOMAIN c |-> IF a \in B /\ c[a] = "uninit" THEN "valid" ELSE c[a]]
  BY DEF Filled, Healed, B
<1>4. FillReports(l, u) = {a \in B \intersect DOMAIN c : c[a] \in {"redzone", "slack", "freed"}}
  BY DEF FillReports, Reported, Unaddressable, Reasons, B
<1> HIDE DEF c
<1>5. DOMAIN c = DOMAIN shadow /\ \A a \in Reg(l) : c[a] = "valid"
  BY <1>2
<1>6. \A a \in DOMAIN shadow : a \notin Reg(l) => c[a] = shadow[a]
  BY <1>2
<1>7. DOMAIN f = DOMAIN shadow
  BY <1>3, <1>5
<1>8. \A a \in Reg(l) : f[a] = "valid"
  BY <1>3, <1>5
<1>9. \A a \in DOMAIN shadow : a \notin Reg(l) => f[a] = shadow[a]
  BY <1>1, <1>3, <1>5, <1>6
<1>10. \A a \in B : c[a] \notin {"redzone", "slack", "freed"}
  BY <1>1, <1>5
<1> QED BY <1>4, <1>7, <1>8, <1>9, <1>10

\* What poison_allocation_edges leaves of a map f.
Edging(f, g, l, u) ==
  /\ DOMAIN g = DOMAIN f
  /\ \A a \in DOMAIN f : a \notin Reg(l) => g[a] = f[a]
  /\ Edged(g, l, u, u + l.requested)
  /\ \A a \in Reg(l) \ Bytes(u, l.requested) : g[a] = "uninit" => f[a] = "uninit"

\* The edges alone, and the edges and the bytes asked for.
EdgesMarked(f, l, u) == poison_allocation_edges(f, l, u, FALSE)
AllMarked(f, l, u) == poison_allocation_edges(f, l, u, TRUE)

LEMMA EdgedMarks ==
  ASSUME NEW l, NEW u, Extent(l, u), NEW f, Reg(l) \subseteq DOMAIN f
  PROVE  /\ Edging(f, AllMarked(f, l, u), l, u)
         /\ \A a \in Bytes(u, l.requested) : AllMarked(f, l, u)[a] = "uninit"
         /\ Edging(f, EdgesMarked(f, l, u), l, u)
         /\ \A a \in Bytes(u, l.requested) : EdgesMarked(f, l, u)[a] = f[a]
<1> DEFINE data  == Bytes(u, l.requested)
           slack == H!Span(u + l.requested, u + l.user_size)
           edges == H!Span(l.block_start, u) \union H!Span(u + l.user_size, l.block_end)
           g == AllMarked(f, l, u)
           h == EdgesMarked(f, l, u)
<1>1. /\ data \subseteq Reg(l) /\ slack \subseteq Reg(l) /\ edges \subseteq Reg(l)
      /\ data \intersect slack = {} /\ data \intersect edges = {} /\ slack \intersect edges = {}
  BY ExtentParts
<1>2. g = [a \in DOMAIN f |-> CASE a \in edges -> "redzone"
                               [] a \in slack -> "slack"
                               [] a \in data /\ TRUE -> "uninit"
                               [] OTHER -> f[a]]
  BY DEF AllMarked, poison_allocation_edges
<1>3. h = [a \in DOMAIN f |-> CASE a \in edges -> "redzone"
                               [] a \in slack -> "slack"
                               [] a \in data /\ FALSE -> "uninit"
                               [] OTHER -> f[a]]
  BY DEF EdgesMarked, poison_allocation_edges
<1>4. \A k : Edged(k, l, u, u + l.requested) <=> /\ \A a \in edges : k[a] = "redzone"
                                                /\ \A a \in slack : k[a] = "slack"
  BY DEF Edged
<1> HIDE DEF data, slack, edges, g, h
<1>5. DOMAIN g = DOMAIN f /\ DOMAIN h = DOMAIN f
  BY <1>2, <1>3
<1>6. \A a \in edges : g[a] = "redzone" /\ h[a] = "redzone"
  BY <1>1, <1>2, <1>3
<1>7. \A a \in slack : g[a] = "slack" /\ h[a] = "slack"
  BY <1>1, <1>2, <1>3
<1>8. \A a \in data : g[a] = "uninit" /\ h[a] = f[a]
  BY <1>1, <1>2, <1>3
<1>9. \A a \in DOMAIN f :
        a \notin edges /\ a \notin slack /\ a \notin data => g[a] = f[a] /\ h[a] = f[a]
  BY <1>2, <1>3
<1>10. Edging(f, g, l, u) /\ Edging(f, h, l, u)
  BY <1>1, <1>4, <1>5, <1>6, <1>7, <1>9 DEF Edging, data
<1> QED BY <1>8, <1>10 DEF g, h, data

Marks ==
  /\ DOMAIN shadow = H!Managed
  /\ Shadows(live, shadow, written, Mine(kept, call), leaked, Listed(call))
  /\ Guarded(quarantine, shadow, bare)
  /\ accused = {}

LEMMA FoundExtent ==
  ASSUME NEW n \in Nat, NEW r \in Nat, r <= n, NEW u, NEW l, Found(n, r, u, l)
  PROVE  /\ Extent(l, u) /\ l.user_size = n /\ l.requested = r /\ live'[u] = l
         /\ Reg(l) \subseteq H!Managed /\ Reg(l) \intersect H!Resting = {}
         /\ quarantine' = quarantine /\ answer'[2] = u
BY DEF Found, Extent, Reg

LEMMA MarkedBlock ==
  ASSUME HeapInv, DOMAIN shadow = H!Managed,
         NEW M, NEW L, NEW K, Ledger(live, M, L, K), Shadows(live, shadow, written, M, L, K),
         NEW n, NEW r, NEW u, NEW l, Found(n, r, u, l),
         NEW sg, NEW ws, Confined(shadow, sg, written, ws, Reg(l)),
         NEW b, RightBlock(live', sg, ws, b),
         \A a \in Reg(l) : sg[a] = "uninit" => a \in BytesOf(b)
  PROVE  Shadows(live', sg, ws, M \union {b}, L, K)
<1>1. /\ Rights(live', sg, ws, M, L, K)
      /\ \A a \in DOMAIN sg : sg[a] = "uninit" /\ a \notin Reg(l) => a \in DataOf(live', M, L)
  BY AfterAlloc
<1>2. Rights(live', sg, ws, M \union {b}, L, K)
  BY <1>1 DEF Rights
<1>3. ASSUME NEW a \in DOMAIN sg, sg[a] = "uninit"
      PROVE  a \in DataOf(live', M \union {b}, L)
  <2>1. CASE a \in Reg(l)
    BY <1>3, <2>1, InData
  <2>2. CASE a \notin Reg(l)
    <3>1. a \in DataOf(live', M, L)
      BY <1>1, <1>3, <2>2
    <3> QED BY <3>1, InData
  <2> QED BY <2>1, <2>2
<1> QED BY <1>2, <1>3 DEF Shadows

LEMMA MarkedList ==
  ASSUME HeapInv, DOMAIN shadow = H!Managed,
         NEW M, NEW L, Ledger(live, M, L, {}), Shadows(live, shadow, written, M, L, {}),
         NEW n, NEW r, NEW u, NEW l, Found(n, r, u, l),
         NEW sg, NEW ws, Confined(shadow, sg, written, ws, Reg(l)),
         RightList(live', sg, u), \A a \in Reg(l) : sg[a] # "uninit"
  PROVE  Shadows(live', sg, ws, M, L, {u})
<1>1. /\ Rights(live', sg, ws, M, L, {})
      /\ \A a \in DOMAIN sg : sg[a] = "uninit" /\ a \notin Reg(l) => a \in DataOf(live', M, L)
  BY AfterAlloc
<1>2. Rights(live', sg, ws, M, L, {u})
  BY <1>1 DEF Rights
<1> QED BY <1>1, <1>2 DEF Shadows

\* The block AllocMem, AllocPooled and AllocEntry hand out.
Asked(sg, ws, l, u, n) ==
  \/ sg = EdgesMarked(Filled(l, u), l, u) /\ ws = written \union Bytes(u, n)
  \/ sg = AllMarked(Filled(l, u), l, u) /\ ws = written \ Bytes(u, n)

LEMMA AskedMarks ==
  ASSUME NEW l, NEW u, NEW n, Extent(l, u), l.requested = n, Reg(l) \subseteq DOMAIN shadow,
         NEW sg, NEW ws, Asked(sg, ws, l, u, n)
  PROVE  /\ Confined(shadow, sg, written, ws, Reg(l))
         /\ Known(sg, ws, Bytes(u, n))
         /\ Edged(sg, l, u, u + n)
         /\ \A a \in Reg(l) : sg[a] = "uninit" => a \in Bytes(u, n)
         /\ FillReports(l, u) = {}
<1> DEFINE f == Filled(l, u)
           B == Bytes(u, n)
<1>1. f = Filled(l, u) /\ B = Bytes(u, l.requested)
  OBVIOUS
<1>2. B \subseteq Reg(l)
  BY ExtentParts
<1> HIDE DEF f
<1>3. /\ DOMAIN f = DOMAIN shadow /\ \A a \in Reg(l) : f[a] = "valid"
      /\ \A a \in DOMAIN shadow : a \notin Reg(l) => f[a] = shadow[a]
      /\ FillReports(l, u) = {}
  BY <1>1, FilledMarks
<1>4. Edging(f, sg, l, u) /\ Known(sg, ws, B) /\ \A a : a \notin B => (a \in ws <=> a \in written)
  <2>1. CASE sg = EdgesMarked(f, l, u) /\ ws = written \union B
    <3>1. Edging(f, sg, l, u) /\ \A a \in B : sg[a] = f[a]
      BY <1>1, <1>3, <2>1, EdgedMarks
    <3> QED BY <1>2, <1>3, <2>1, <3>1 DEF Known
  <2>2. CASE sg = AllMarked(f, l, u) /\ ws = written \ B
    <3>1. Edging(f, sg, l, u) /\ \A a \in B : sg[a] = "uninit"
      BY <1>1, <1>3, <2>2, EdgedMarks
    <3> QED BY <2>2, <3>1 DEF Known
  <2> QED BY <1>1, <2>1, <2>2 DEF Asked
<1> HIDE DEF B
<1>5. Confined(shadow, sg, written, ws, Reg(l))
  BY <1>2, <1>3, <1>4 DEF Confined, Edging
<1>6. Edged(sg, l, u, u + n) /\ \A a \in Reg(l) : sg[a] = "uninit" => a \in B
  BY <1>3, <1>4 DEF Edging, B
<1> QED BY <1>3, <1>4, <1>5, <1>6 DEF B

LEMMA AllocatedMarks ==
  ASSUME HeapInv, DOMAIN shadow = H!Managed,
         NEW M, NEW L, NEW K, Ledger(live, M, L, K), Shadows(live, shadow, written, M, L, K),
         Guarded(quarantine, shadow, bare),
         NEW n \in Nat, NEW size \in Nat, size <= n, NEW u, NEW l, Found(n, size, u, l),
         NEW clear \in BOOLEAN, allocated(size, clear), NEW b, b.ptr = u, b.block = u,
         b.size = size, b.kind \notin PoolKinds
  PROVE  /\ DOMAIN shadow' = H!Managed
         /\ Shadows(live', shadow', written', M \union {b}, L, K)
         /\ Guarded(quarantine', shadow', bare)
         /\ accused' = {}
<1>1. /\ Extent(l, u) /\ l.user_size = n /\ l.requested = size /\ live'[u] = l
      /\ Reg(l) \subseteq H!Managed /\ Reg(l) \intersect H!Resting = {}
      /\ quarantine' = quarantine /\ answer'[2] = u
  BY FoundExtent
<1>2. Asked(shadow', written', l, u, size) /\ accused' = FillReports(l, u)
  <2> DEFINE v == answer'[2]
             m == live'[v]
  <2>1. /\ shadow' = poison_allocation_edges(Filled(m, v), m, v, ~clear)
        /\ accused' = FillReports(m, v)
        /\ written' = IF clear THEN written \union Bytes(v, size) ELSE written \ Bytes(v, size)
    BY DEF allocated
  <2>2. v = u /\ m = l
    BY <1>1
  <2> HIDE DEF v, m
  <2>3. CASE clear = TRUE
    BY <2>1, <2>2, <2>3 DEF Asked, EdgesMarked
  <2>4. CASE clear = FALSE
    BY <2>1, <2>2, <2>4 DEF Asked, AllMarked
  <2> QED BY <2>3, <2>4, <2>1, <2>2
<1>3. /\ Confined(shadow, shadow', written, written', Reg(l))
      /\ Known(shadow', written', Bytes(u, size))
      /\ Edged(shadow', l, u, u + size)
      /\ \A a \in Reg(l) : shadow'[a] = "uninit" => a \in Bytes(u, size)
      /\ FillReports(l, u) = {}
  BY <1>1, <1>2, AskedMarks
<1>4. BytesOf(b) = Bytes(u, size)
  BY DEF BytesOf
<1>5. RightBlock(live', shadow', written', b)
  BY <1>1, <1>3, <1>4 DEF RightBlock
<1>6. Shadows(live', shadow', written', M \union {b}, L, K)
  BY <1>3, <1>4, <1>5, MarkedBlock
<1>7. Guarded(quarantine', shadow', bare)
  BY <1>1, <1>3, GuardKept
<1> QED BY <1>2, <1>3, <1>6, <1>7 DEF Confined

-----------------------------------------------------------------------------
(* Each call keeps the marks. *)

LEMMA MarksInit == MemInit => Marks
<1> SUFFICES ASSUME MemInit PROVE Marks
  OBVIOUS
<1>1. /\ kept = {} /\ leaked = {} /\ ~IsEntry(call) /\ accused = {}
      /\ shadow = [a \in H!Managed |-> "valid"]
  BY DEF MemInit, IsEntry
<1>2. quarantine = <<>>
  BY DEF MemInit, H!HeapInit
<1>3. Mine(kept, call) = {} /\ Listed(call) = {}
  BY <1>1 DEF Mine, Listed
<1>4. DOMAIN shadow = H!Managed /\ \A a \in DOMAIN shadow : shadow[a] # "uninit"
  BY <1>1
<1>5. Shadows(live, shadow, written, {}, {}, {})
  BY <1>4 DEF Shadows, Rights
<1>6. Guarded(quarantine, shadow, bare)
  BY <1>2 DEF Guarded
<1> QED BY <1>1, <1>3, <1>4, <1>5, <1>6 DEF Marks

LEMMA OutsideMarks ==
  ASSUME Marks, ~IsEntry(call)
  PROVE  /\ DOMAIN shadow = H!Managed
         /\ Shadows(live, shadow, written, kept, leaked, {})
         /\ Guarded(quarantine, shadow, bare)
         /\ accused = {}
BY DEF Marks, Mine, Listed

LEMMA MarksOutside ==
  ASSUME ~IsEntry(call'), DOMAIN shadow' = H!Managed,
         Shadows(live', shadow', written', kept', leaked', {}),
         Guarded(quarantine', shadow', bare'), accused' = {}
  PROVE  Marks'
<1>1. Mine(kept', call') = kept' /\ Listed(call') = {}
  BY DEF Mine, Listed
<1>2. (H!Managed)' = H!Managed
  BY DEF H!Managed
<1> QED BY <1>1, <1>2 DEF Marks

LEMMA InsideMarks ==
  ASSUME Marks, IsEntry(call)
  PROVE  /\ DOMAIN shadow = H!Managed
         /\ Shadows(live, shadow, written, kept \union Got(call.got), leaked, {call.list})
         /\ Guarded(quarantine, shadow, bare)
         /\ accused = {}
BY DEF Marks, Mine, Listed

LEMMA MarksInside ==
  ASSUME NEW c, IsEntry(c), call' = c, DOMAIN shadow' = H!Managed,
         Shadows(live', shadow', written', kept' \union Got(c.got), leaked', {c.list}),
         Guarded(quarantine', shadow', bare'), accused' = {}
  PROVE  Marks'
<1>1. Mine(kept', c) = kept' \union Got(c.got) /\ Listed(c) = {c.list}
  BY DEF Mine, Listed
<1>2. (H!Managed)' = H!Managed
  BY DEF H!Managed
<1> QED BY <1>1, <1>2 DEF Marks

\* A step that touches neither blocks nor marks.
LEMMA MarksSame ==
  ASSUME Marks, live' = live, quarantine' = quarantine, shadow' = shadow, bare' = bare,
         UNCHANGED program, accused' = accused, call' = call \/ (~IsEntry(call) /\ ~IsEntry(call'))
  PROVE  Marks'
<1>1. kept' = kept /\ leaked' = leaked /\ written' = written
  BY DEF program
<1>2. Mine(kept', call') = Mine(kept, call) /\ Listed(call') = Listed(call)
  BY <1>1 DEF Mine, Listed
<1>3. (H!Managed)' = H!Managed
  BY DEF H!Managed
<1> QED BY <1>1, <1>2, <1>3 DEF Marks

\* A block that was asked for as AllocMem asks.
LEMMA MarksAllocated ==
  ASSUME Books, Marks, High, NEW size \in Nat, size > 0, NEW clear \in BOOLEAN,
         allocated(size, clear), ~IsEntry(call), call' = call, leaked' = leaked, bare' = bare,
         NEW b, b.ptr = answer'[2], b.block = answer'[2], b.size = size,
         b.kind \notin PoolKinds, kept' = kept \union {b}
  PROVE  Marks'
<1> DEFINE n == round_up_8(size)
<1>1. /\ HeapInv /\ Ledger(live, kept, leaked, {})
      /\ DOMAIN shadow = H!Managed
      /\ Shadows(live, shadow, written, kept, leaked, {})
      /\ Guarded(quarantine, shadow, bare)
  BY OutsideBooks, OutsideMarks
<1>2. H!alloc(n, size)
  BY AsksTheHeap
<1>3. size <= n /\ n \in Nat /\ \E u, l : Found(n, size, u, l)
  BY <1>1, <1>2, Allocates
<1> HIDE DEF n
<1>4. PICK u, l : Found(n, size, u, l)
  BY <1>3
<1>5. b.ptr = u /\ b.block = u
  BY <1>4 DEF Found
<1>6. /\ DOMAIN shadow' = H!Managed
      /\ Shadows(live', shadow', written', kept \union {b}, leaked, {})
      /\ Guarded(quarantine', shadow', bare)
      /\ accused' = {}
  BY <1>1, <1>3, <1>4, <1>5, AllocatedMarks
<1> QED BY <1>6, MarksOutside

LEMMA MarksAllocMem ==
  ASSUME Books, Marks, High, NEW size \in Sizes, NEW clear \in BOOLEAN,
         alloc_mem_handler(size, clear)
  PROVE  Marks'
<1>1. size \in Nat /\ size > 0 /\ allocated(size, clear)
  BY ArgumentsAssumption DEF alloc_mem_handler
<1>2. ~IsEntry(call) /\ call' = call /\ leaked' = leaked /\ bare' = bare
  BY CallingOutside DEF alloc_mem_handler
<1> DEFINE k == "mem"
           b == Holding(answer'[2], answer'[2], size, k)
<1>3. kept' = kept \union {b}
  BY DEF alloc_mem_handler
<1>5. k \notin PoolKinds
  BY DEF PoolKinds
<1> HIDE DEF k
<1>4. b.ptr = answer'[2] /\ b.block = answer'[2] /\ b.size = size /\ b.kind \notin PoolKinds
  BY <1>5, HoldingFields
<1> HIDE DEF b
<1> QED BY <1>1, <1>2, <1>3, <1>4, MarksAllocated

LEMMA MarksAllocPooled ==
  ASSUME Books, Marks, High, NEW p, NEW size \in Sizes, alloc_pooled_handler(p, size)
  PROVE  Marks'
<1> DEFINE clear == p.kind = "clearing pool"
<1>0. size > 0 /\ allocated(size, clear) /\ clear \in BOOLEAN
  BY DEF alloc_pooled_handler
<1> HIDE DEF clear
<1>1. size \in Nat
  BY ArgumentsAssumption
<1>2. ~IsEntry(call) /\ call' = call /\ leaked' = leaked /\ bare' = bare
  BY CallingOutside DEF alloc_pooled_handler
<1> DEFINE v == answer'[2]
           q == p.ptr
           b == [Holding(v, v, size, "pooled") EXCEPT !.of = q]
<1>3. kept' = kept \union {b}
  BY DEF alloc_pooled_handler
<1> HIDE DEF v, q
<1>4. b.ptr = v /\ b.block = v /\ b.size = size /\ b.kind = "pooled"
  BY PooledFields
<1> HIDE DEF b
<1>5. b.kind \notin PoolKinds
  BY <1>4 DEF PoolKinds
<1> QED BY <1>0, <1>1, <1>2, <1>3, <1>4, <1>5, MarksAllocated DEF v

\* The program's part of AllocVec's block, behind the header.
VecAsked(sg, ws, l, u, n, D) ==
  /\ Extent(l, u) /\ n \in Nat /\ l.requested = n + 8 /\ l.user_size = n + 8
  /\ Reg(l) \subseteq DOMAIN shadow
  /\ D = Bytes(u + 8, n)
  /\ LET g == EdgesMarked(Filled(l, u), l, u)
     IN  \/ sg = g /\ ws = written \union D
         \/ sg = Marked(g, D, "uninit") /\ ws = written \ D

LEMMA VecMarks ==
  ASSUME NEW l, NEW u, NEW n, NEW D, NEW sg, NEW ws, VecAsked(sg, ws, l, u, n, D)
  PROVE  /\ Confined(shadow, sg, written, ws, Reg(l))
         /\ Known(sg, ws, D)
         /\ Edged(sg, l, u, (u + 8) + n)
         /\ \A a \in Reg(l) : sg[a] = "uninit" => a \in D
         /\ FillReports(l, u) = {}
<1> DEFINE f == Filled(l, u)
           R == Reg(l)
           B == Bytes(u, l.user_size)
           redzones == H!Span(l.block_start, u) \union H!Span(u + l.user_size, l.block_end)
           slack == H!Span(u + l.requested, u + l.user_size)
           g == EdgesMarked(f, l, u)
<1>0. /\ Extent(l, u) /\ n \in Nat /\ l.requested = n + 8 /\ l.user_size = n + 8
      /\ Reg(l) \subseteq DOMAIN shadow /\ D = Bytes(u + 8, n)
      /\ \/ sg = g /\ ws = written \union D
         \/ sg = Marked(g, D, "uninit") /\ ws = written \ D
  BY DEF VecAsked
<1>1. u \in Nat /\ n \in Nat
  BY <1>0 DEF Extent
<1>12. R \subseteq DOMAIN shadow
  BY <1>0
<1>2. D \subseteq B
  <2>1. (u + 8)..(u + 8 + n - 1) \subseteq u..(u + (n + 8) - 1)
    BY <1>1
  <2> QED BY <1>0, <2>1 DEF Bytes
<1>3. /\ B \subseteq R /\ redzones \intersect B = {} /\ redzones \subseteq R
      /\ slack \intersect D = {} /\ slack \subseteq R
  <2>1. /\ B \subseteq R /\ redzones \intersect B = {} /\ redzones \subseteq R /\ slack \subseteq B
    BY <1>0, ExtentParts
  <2>2. slack \intersect Bytes(u, l.requested) = {} /\ B = Bytes(u, l.requested)
    BY <1>0, ExtentParts
  <2> QED BY <1>2, <2>1, <2>2
<1>4. f = Filled(l, u)
  OBVIOUS
<1> HIDE DEF f
<1>5. /\ DOMAIN f = DOMAIN shadow /\ \A a \in R : f[a] = "valid"
      /\ \A a \in DOMAIN shadow : a \notin R => f[a] = shadow[a]
      /\ FillReports(l, u) = {}
  BY <1>0, <1>4, FilledMarks
<1>6. Edging(f, g, l, u) /\ \A a \in B : g[a] = f[a]
  BY <1>0, <1>5, EdgedMarks
<1>7. u + l.requested = (u + 8) + n
  BY <1>0, <1>1
<1>8. /\ \A k : Edged(k, l, u, (u + 8) + n) <=> /\ \A a \in redzones : k[a] = "redzone"
                                               /\ \A a \in slack : k[a] = "slack"
  BY <1>7 DEF Edged
<1> HIDE DEF R, B, redzones, slack, g
<1>9. /\ DOMAIN g = DOMAIN shadow /\ \A a \in DOMAIN shadow : a \notin R => g[a] = shadow[a]
      /\ Edged(g, l, u, (u + 8) + n) /\ \A a \in B : g[a] = "valid"
      /\ \A a \in R : g[a] # "uninit"
  <2>1. \A a \in B : g[a] = "valid"
    BY <1>3, <1>5, <1>6
  <2>2. /\ DOMAIN g = DOMAIN f /\ \A a \in DOMAIN f : a \notin R => g[a] = f[a]
        /\ Edged(g, l, u, u + l.requested)
        /\ \A a \in R \ Bytes(u, l.requested) : g[a] = "uninit" => f[a] = "uninit"
    BY <1>6 DEF Edging, R
  <2>3. Edged(g, l, u, (u + 8) + n)
    BY <1>7, <2>2
  <2>4. B = Bytes(u, l.requested)
    BY <1>0 DEF B
  <2> QED BY <1>5, <2>1, <2>2, <2>3, <2>4
<1>10. CASE sg = g /\ ws = written \union D
  <2>1. Confined(shadow, sg, written, ws, R) /\ Known(sg, ws, D)
    BY <1>12, <1>2, <1>3, <1>9, <1>10 DEF Confined, Known
  <2> QED BY <1>5, <1>9, <1>10, <2>1 DEF R
<1>11. CASE sg = Marked(g, D, "uninit") /\ ws = written \ D
  <2>1. sg = [a \in DOMAIN g |-> IF a \in D THEN "uninit" ELSE g[a]]
    BY <1>11 DEF Marked
  <2>2. D \subseteq DOMAIN g
    BY <1>2, <1>3, <1>9, <1>12
  <2>3. \A a \in D : sg[a] = "uninit"
    BY <2>1, <2>2
  <2>4. DOMAIN sg = DOMAIN g /\ \A a \in DOMAIN g : a \notin D => sg[a] = g[a]
    BY <2>1
  <2>5. Confined(shadow, sg, written, ws, R) /\ Known(sg, ws, D)
    BY <1>12, <1>2, <1>3, <1>9, <1>11, <2>3, <2>4 DEF Confined, Known
  <2>6. redzones \subseteq DOMAIN g /\ slack \subseteq DOMAIN g
    BY <1>3, <1>9, <1>12
  <2>7. Edged(sg, l, u, (u + 8) + n)
    BY <1>2, <1>3, <1>8, <1>9, <2>4, <2>6
  <2>8. \A a \in R : sg[a] = "uninit" => a \in D
    BY <1>9, <1>12, <2>4
  <2> QED BY <1>5, <2>5, <2>7, <2>8 DEF R
<1> QED BY <1>0, <1>10, <1>11

LEMMA MarksAllocVec ==
  ASSUME Books, Marks, Modest, NEW size \in Sizes, NEW clear \in BOOLEAN,
         alloc_vec_handler(size, clear)
  PROVE  Marks'
<1> DEFINE n == round_up_8(size)
           total == (round_up_8(size) + ALLOCVEC_HEADER_SIZE) % (MaxWord + 1)
<1>1. size \in Nat /\ size > 0 /\ size + 15 <= MaxWord
  BY ArgumentsAssumption DEF alloc_vec_handler, Modest
<1>2. ~IsEntry(call) /\ call' = call /\ leaked' = leaked /\ bare' = bare
  BY CallingOutside DEF alloc_vec_handler
<1>3. /\ HeapInv /\ Ledger(live, kept, leaked, {})
      /\ DOMAIN shadow = H!Managed
      /\ Shadows(live, shadow, written, kept, leaked, {})
      /\ Guarded(quarantine, shadow, bare)
  BY <1>2, OutsideBooks, OutsideMarks
<1>4. H!alloc(total, total)
  BY DEF alloc_vec_handler
<1>5. n \in Nat /\ \E u, l : Found(n + 8, n + 8, u, l)
  BY <1>1, <1>3, <1>4, AllocatesVec
<1>6. PICK u, l : Found(n + 8, n + 8, u, l)
  BY <1>5
<1> DEFINE D == Bytes(u + 8, n)
           g == EdgesMarked(Filled(l, u), l, u)
           k == "vec"
           b == Holding(u + 8, u, n, k)
<1>7. live'[u] = l /\ answer'[2] = u
  BY <1>6 DEF Found
<1>8. /\ kept' = kept \union {b} /\ accused' = FillReports(l, u)
      /\ \/ shadow' = g /\ written' = written \union D
         \/ shadow' = Marked(g, D, "uninit") /\ written' = written \ D
  <2> DEFINE v == answer'[2]
             m == live'[v]
             p == v + 8
             e == poison_allocation_edges(Filled(m, v), m, v, FALSE)
  <2>1. /\ shadow' = IF clear THEN e ELSE Marked(e, Bytes(p, n), "uninit")
        /\ accused' = FillReports(m, v)
        /\ kept' = kept \union {Holding(p, v, n, k)}
        /\ written' = IF clear THEN written \union Bytes(p, n) ELSE written \ Bytes(p, n)
    BY DEF alloc_vec_handler, ALLOCVEC_HEADER_SIZE
  <2>2. v = u /\ m = l
    BY <1>7
  <2>3. e = EdgesMarked(Filled(m, v), m, v)
    BY DEF EdgesMarked
  <2> HIDE DEF v, m, n, e, k
  <2> QED BY <2>1, <2>2, <2>3
<1>9. k \notin PoolKinds
  BY DEF PoolKinds
<1> HIDE DEF k, n
<1>10. b.ptr = u + 8 /\ b.block = u /\ b.size = n /\ b.kind = k
  BY HoldingFields
<1>11. BytesOf(b) = D
  BY <1>10 DEF BytesOf
<1> HIDE DEF b, D, g
<1>12. n + 8 \in Nat /\ n + 8 <= n + 8
  BY <1>5
<1>13. /\ Extent(l, u) /\ l.user_size = n + 8 /\ l.requested = n + 8
       /\ Reg(l) \subseteq H!Managed /\ Reg(l) \intersect H!Resting = {}
       /\ quarantine' = quarantine
  BY <1>6, <1>12, FoundExtent
<1>14. D = Bytes(u + 8, n) /\ g = EdgesMarked(Filled(l, u), l, u)
  BY DEF D, g
<1>15. /\ Confined(shadow, shadow', written, written', Reg(l))
       /\ Known(shadow', written', D)
       /\ Edged(shadow', l, u, (u + 8) + n)
       /\ \A a \in Reg(l) : shadow'[a] = "uninit" => a \in D
       /\ FillReports(l, u) = {}
  <2>1. VecAsked(shadow', written', l, u, n, D)
    BY <1>3, <1>5, <1>8, <1>13, <1>14 DEF VecAsked
  <2> QED BY <2>1, VecMarks
<1>16. RightBlock(live', shadow', written', b)
  BY <1>7, <1>9, <1>10, <1>11, <1>15 DEF RightBlock
<1>17. Shadows(live', shadow', written', kept \union {b}, leaked, {})
  BY <1>3, <1>6, <1>11, <1>15, <1>16, MarkedBlock
<1>18. Guarded(quarantine', shadow', bare)
  BY <1>3, <1>13, <1>15, GuardKept
<1>19. DOMAIN shadow' = H!Managed /\ accused' = {}
  BY <1>3, <1>8, <1>15 DEF Confined
<1> QED BY <1>2, <1>8, <1>17, <1>18, <1>19, MarksOutside

LEMMA MarksCreatePool ==
  ASSUME Books, Marks, NEW clear \in BOOLEAN, create_pool_handler(clear)
  PROVE  Marks'
<1>1. ~IsEntry(call) /\ call' = call /\ leaked' = leaked /\ bare' = bare
  BY CallingOutside DEF create_pool_handler
<1>2. /\ HeapInv /\ Ledger(live, kept, leaked, {})
      /\ DOMAIN shadow = H!Managed
      /\ Shadows(live, shadow, written, kept, leaked, {})
      /\ Guarded(quarantine, shadow, bare)
  BY <1>1, OutsideBooks, OutsideMarks
<1>3. H!alloc(8, 8)
  BY DEF create_pool_handler, POOL_HEADER_SIZE
<1>4. 8 \in 1..MaxWord /\ 8 % 4 = 0 /\ 8 \in 0..8 /\ 8 \in Nat /\ 8 <= 8
  BY WordAssumption
<1>5. \E u, l : Found(8, 8, u, l)
  BY <1>2, <1>3, <1>4, Takes
<1>6. PICK u, l : Found(8, 8, u, l)
  BY <1>5
<1>7. /\ Extent(l, u) /\ l.user_size = 8 /\ l.requested = 8 /\ live'[u] = l
      /\ Reg(l) \subseteq H!Managed /\ Reg(l) \intersect H!Resting = {}
      /\ quarantine' = quarantine /\ answer'[2] = u
  BY <1>4, <1>6, FoundExtent
<1> DEFINE k == IF clear THEN "clearing pool" ELSE "pool"
           b == Holding(u, u, 8, k)
           B == Bytes(u, 8)
<1>8. /\ kept' = kept \union {b} /\ accused' = FillReports(l, u)
      /\ shadow' = Filled(l, u) /\ written' = written \union B
  <2> DEFINE v == answer'[2]
             m == live'[v]
  <2>1. /\ shadow' = Filled(m, v) /\ accused' = FillReports(m, v)
        /\ kept' = kept \union {Holding(v, v, 8, k)} /\ written' = written \union Bytes(v, 8)
    BY DEF create_pool_handler, POOL_HEADER_SIZE
  <2>2. v = u /\ m = l
    BY <1>7
  <2> HIDE DEF v, m, k
  <2> QED BY <2>1, <2>2
<1>9. k \in PoolKinds
  BY DEF PoolKinds
<1> HIDE DEF k
<1>10. b.ptr = u /\ b.block = u /\ b.size = 8 /\ b.kind = k
  BY HoldingFields
<1>11. BytesOf(b) = B
  BY <1>10 DEF BytesOf
<1>12. B \subseteq Reg(l)
  BY <1>7, ExtentParts
<1> HIDE DEF b, B
<1>13. /\ DOMAIN shadow' = DOMAIN shadow /\ \A a \in Reg(l) : shadow'[a] = "valid"
       /\ \A a \in DOMAIN shadow : a \notin Reg(l) => shadow'[a] = shadow[a]
       /\ FillReports(l, u) = {}
  BY <1>2, <1>7, <1>8, FilledMarks
<1>14. Confined(shadow, shadow', written, written', Reg(l))
  BY <1>8, <1>12, <1>13 DEF Confined
<1>15. RightBlock(live', shadow', written', b)
  BY <1>8, <1>9, <1>10, <1>11, <1>12, <1>13 DEF RightBlock, Known
<1>16. Shadows(live', shadow', written', kept \union {b}, leaked, {})
  BY <1>2, <1>6, <1>13, <1>14, <1>15, MarkedBlock
<1>17. Guarded(quarantine', shadow', bare)
  BY <1>2, <1>7, <1>14, GuardKept
<1> QED BY <1>1, <1>2, <1>8, <1>13, <1>16, <1>17, MarksOutside

LEMMA MarksAllocEntry ==
  ASSUME Books, Marks, High, NEW template \in Templates, alloc_entry_handler(template)
  PROVE  Marks'
<1> DEFINE s == list_size(Len(template))
           n == round_up_8(s)
<1>1. template \in Seq((0..MaxWord) \X BOOLEAN) /\ Len(template) \in Nat
  BY ArgumentsAssumption
<1>2. s \in Nat /\ s > 0
  BY <1>1 DEF list_size, ML_FIRST_ENTRY_OFFSET, MEMENTRY_SIZE
<1>3. /\ ~IsEntry(call) /\ kept' = kept /\ leaked' = leaked /\ written' = written /\ bare' = bare
      /\ H!alloc(n, s)
  BY CallingOutside DEF alloc_entry_handler, program
<1> DEFINE c == EntryCall("AllocEntry", answer'[2], template, <<>>, s)
<1>4. call' = c
  BY DEF alloc_entry_handler, EntryCall
<1> HIDE DEF s
<1>5. /\ HeapInv /\ Ledger(live, kept, leaked, {})
      /\ DOMAIN shadow = H!Managed
      /\ Shadows(live, shadow, written, kept, leaked, {})
      /\ Guarded(quarantine, shadow, bare)
  BY <1>3, OutsideBooks, OutsideMarks
<1>6. s <= n /\ n \in Nat /\ \E u, l : Found(n, s, u, l)
  BY <1>2, <1>3, <1>5, Allocates
<1> HIDE DEF n
<1>7. PICK u, l : Found(n, s, u, l)
  BY <1>6
<1>8. /\ Extent(l, u) /\ l.user_size = n /\ l.requested = s /\ live'[u] = l
      /\ Reg(l) \subseteq H!Managed /\ Reg(l) \intersect H!Resting = {}
      /\ quarantine' = quarantine /\ answer'[2] = u
  BY <1>2, <1>6, <1>7, FoundExtent
<1>9. shadow' = Filled(l, u) /\ accused' = FillReports(l, u)
  <2> DEFINE v == answer'[2]
             m == live'[v]
  <2>1. shadow' = Filled(m, v) /\ accused' = FillReports(m, v)
    BY DEF alloc_entry_handler
  <2>2. v = u /\ m = l
    BY <1>8
  <2> HIDE DEF v, m
  <2> QED BY <2>1, <2>2
<1>10. c = EntryCall("AllocEntry", u, template, <<>>, s)
  BY <1>8
<1> HIDE DEF c
<1>11. EntryArgs("AllocEntry", u, template, <<>>, s)
  BY <1>1, <1>2, <1>7, EmptyGot DEF EntryArgs, Found
<1>12. IsEntry(c) /\ c.list = u /\ c.got = <<>>
  BY <1>10, <1>11, EntryCalls
<1>13. /\ DOMAIN shadow' = DOMAIN shadow /\ \A a \in Reg(l) : shadow'[a] = "valid"
       /\ \A a \in DOMAIN shadow : a \notin Reg(l) => shadow'[a] = shadow[a]
       /\ FillReports(l, u) = {}
  BY <1>5, <1>8, <1>9, FilledMarks
<1>14. Confined(shadow, shadow', written, written', Reg(l))
  BY <1>3, <1>13 DEF Confined
<1>15. RightList(live', shadow', u)
  <2>1. Bytes(u, l.user_size) \subseteq Reg(l)
    BY <1>8, ExtentParts
  <2> QED BY <1>8, <1>13, <2>1 DEF RightList
<1>16. \A a \in Reg(l) : shadow'[a] # "uninit"
  BY <1>13
<1>17. Shadows(live', shadow', written', kept, leaked, {u})
  BY <1>5, <1>7, <1>14, <1>15, <1>16, MarkedList
<1>18. Guarded(quarantine', shadow', bare')
  BY <1>3, <1>5, <1>8, <1>14, GuardKept
<1>19. kept' \union Got(c.got) = kept /\ leaked' = leaked
  BY <1>3, <1>12, EmptyGot
<1>20. DOMAIN shadow' = H!Managed /\ accused' = {}
  BY <1>5, <1>9, <1>13
<1> QED BY <1>4, <1>12, <1>17, <1>18, <1>19, <1>20, MarksInside

LEMMA PairParts ==
  ASSUME NEW A, NEW B, NEW e \in A \X B
  PROVE  e[1] \in A /\ e[2] \in B
OBVIOUS

LEMMA HeadKept ==
  ASSUME NEW S, NEW s \in Seq(S), s # <<>>
  PROVE  Head(s) \in S
OBVIOUS

LEMMA MarksEntryNext ==
  ASSUME Books, Marks, High, alloc_entry_next
  PROVE  Marks'
<1> DEFINE size == Head(call.left)[1]
           clear == Head(call.left)[2]
           n == round_up_8(size)
           g == call.got
           list == call.list
<1>1. IsEntry(call) /\ ~H!Draining /\ call \in Entries
  BY WorkingEntry DEF alloc_entry_next
<1>2. /\ HeapInv /\ Distinct(g) /\ Ledger(live, kept \union Got(g), leaked, {list})
      /\ DOMAIN shadow = H!Managed
      /\ Shadows(live, shadow, written, kept \union Got(g), leaked, {list})
      /\ Guarded(quarantine, shadow, bare)
  BY <1>1, InsideBooks, InsideMarks
<1>3. /\ call = EntryCall(call.name, list, call.left, g, call.size)
      /\ list \in Nat /\ call.size \in Nat /\ g \in Seq(Nat \X Nat)
      /\ call.left \in Seq((0..MaxWord) \X BOOLEAN)
      /\ call.name \in {"AllocEntry", "backing out"}
  BY <1>1, EntryIs
<1>4. /\ call.left # <<>> /\ size > 0 /\ allocated(size, clear)
      /\ kept' = kept /\ leaked' = leaked /\ bare' = bare
  BY DEF alloc_entry_next
<1>5. /\ H!alloc(n, size) /\ size \in Nat /\ clear \in BOOLEAN
      /\ Tail(call.left) \in Seq((0..MaxWord) \X BOOLEAN)
  <2>1. H!alloc(n, size)
    BY <1>4, AsksTheHeap
  <2>2. size \in 0..MaxWord /\ Tail(call.left) \in Seq((0..MaxWord) \X BOOLEAN)
    BY <1>3, <1>4, NextEntry
  <2>3. Head(call.left) \in (0..MaxWord) \X BOOLEAN
    BY <1>3, <1>4, HeadKept
  <2>4. clear \in BOOLEAN
    BY <2>3, PairParts
  <2> QED BY <2>1, <2>2, <2>4
<1> DEFINE e == <<answer'[2], size>>
           t == Tail(call.left)
           h == Append(g, e)
           c == EntryCall(call.name, list, t, h, call.size)
<1>6. call' = c
  <2>1. call' = [call EXCEPT !.left = Tail(@), !.got = Append(@, <<answer'[2], size>>)]
    BY DEF alloc_entry_next
  <2> QED BY <1>3, <2>1 DEF EntryCall
<1> HIDE DEF size, clear, g, list
<1>7. size <= n /\ n \in Nat /\ \E u, l : Found(n, size, u, l)
  BY <1>2, <1>4, <1>5, Allocates
<1> HIDE DEF n
<1>8. PICK u, l : Found(n, size, u, l)
  BY <1>7
<1>9. u \in Nat /\ answer'[2] = u /\ u \notin DOMAIN live
  BY <1>8 DEF Found
<1>10. e \in Nat \X Nat /\ e[1] = u /\ e[2] = size
  BY <1>5, <1>9
<1> HIDE DEF e
<1>11. Got(h) = Got(g) \union {Pending(e)} /\ h \in Seq(Nat \X Nat)
  BY <1>3, <1>10, GotAppend
<1>12. EntryArgs(call.name, list, t, h, call.size)
  BY <1>3, <1>5, <1>11 DEF EntryArgs
<1> HIDE DEF t, h
<1>13. c = EntryCall(call.name, list, t, h, call.size)
  OBVIOUS
<1> HIDE DEF c
<1>14. IsEntry(c) /\ c.list = list /\ c.got = h
  BY <1>12, <1>13, EntryCalls
<1> DEFINE b == Pending(e)
<1>15. b.ptr = u /\ b.block = u /\ b.size = size /\ b.kind = "mem"
  BY <1>10, HoldingFields DEF Pending
<1> HIDE DEF b
<1>16. b.kind \notin PoolKinds
  BY <1>15 DEF PoolKinds
<1>17. /\ DOMAIN shadow' = H!Managed
       /\ Shadows(live', shadow', written', (kept \union Got(g)) \union {b}, leaked, {list})
       /\ Guarded(quarantine', shadow', bare)
       /\ accused' = {}
  BY <1>2, <1>4, <1>5, <1>7, <1>8, <1>15, <1>16, AllocatedMarks
<1>18. kept' \union Got(c.got) = (kept \union Got(g)) \union {b}
  BY <1>4, <1>11, <1>14 DEF b
<1> QED BY <1>4, <1>6, <1>14, <1>17, <1>18, MarksInside

LEMMA MarksEntryFails ==
  ASSUME Books, Marks, alloc_entry_fails
  PROVE  Marks'
<1> DEFINE g == call.got
           list == call.list
           k == "backing out"
           c == EntryCall(k, list, call.left, g, call.size)
<1>1. IsEntry(call) /\ ~H!Draining /\ call \in Entries
  BY WorkingEntry DEF alloc_entry_fails
<1>2. /\ call = EntryCall(call.name, list, call.left, g, call.size)
      /\ list \in Nat /\ call.size \in Nat /\ g \in Seq(Nat \X Nat)
      /\ call.left \in Seq((0..MaxWord) \X BOOLEAN)
  BY <1>1, EntryIs
<1>3. /\ kept' = kept /\ leaked' = leaked /\ written' = written /\ shadow' = shadow
      /\ bare' = bare /\ accused' = accused
      /\ live' = live /\ quarantine' = quarantine
      /\ call' = [call EXCEPT !.name = "backing out"]
  BY DEF alloc_entry_fails, program, heap, H!OutOfMemory
<1>4. call' = c
  BY <1>2, <1>3 DEF EntryCall
<1>5. EntryArgs(k, list, call.left, g, call.size)
  BY <1>2 DEF EntryArgs
<1>6. c = EntryCall(k, list, call.left, g, call.size)
  OBVIOUS
<1>7. /\ DOMAIN shadow = H!Managed
      /\ Shadows(live, shadow, written, kept \union Got(g), leaked, {list})
      /\ Guarded(quarantine, shadow, bare) /\ accused = {}
  BY <1>1, InsideMarks
<1> HIDE DEF c, k, g, list
<1>8. IsEntry(c) /\ c.list = list /\ c.got = g
  BY <1>5, <1>6, EntryCalls
<1>9. Shadows(live', shadow', written', kept' \union Got(c.got), leaked', {c.list})
  BY <1>3, <1>7, <1>8
<1>10. Guarded(quarantine', shadow', bare')
  BY <1>3, <1>7
<1> QED BY <1>3, <1>4, <1>7, <1>8, <1>9, <1>10, MarksInside

-----------------------------------------------------------------------------
(* The list is done: its edges are marked last. *)

LEMMA LiveExtent ==
  ASSUME HeapInv, NEW u \in DOMAIN live
  PROVE  Extent(live[u], u)
BY LiveBlock DEF Extent

LEMMA MarksEntryDone ==
  ASSUME Books, Marks, alloc_entry_done
  PROVE  Marks'
<1> DEFINE g == call.got
           u == call.list
           n == call.size
           b == [Holding(u, u, n, "list") EXCEPT !.entries = g]
           M == kept \union Got(g)
           N == BlockAt(u)
           l == live[u]
           B == Bytes(u, n)
<1>1. IsEntry(call) /\ ~H!Draining /\ call \in Entries
  BY WorkingEntry DEF alloc_entry_done
<1>2. /\ HeapInv /\ Ledger(live, M, leaked, {u})
      /\ live[u].requested = n
      /\ DOMAIN shadow = H!Managed
      /\ Shadows(live, shadow, written, M, leaked, {u})
      /\ Guarded(quarantine, shadow, bare) /\ accused = {}
  BY <1>1, InsideBooks, InsideMarks
<1>3. /\ UNCHANGED heap /\ leaked' = leaked /\ call' = NoCall /\ bare' = bare
      /\ accused' = accused
      /\ kept' = kept \union {b} \union {Holding(e[1], e[1], e[2], "mem") : e \in Range(g)}
      /\ shadow' = EdgesMarked(shadow, live[u], u)
      /\ written' = written \union B
  BY DEF alloc_entry_done, EdgesMarked
<1> HIDE DEF u, n, g
<1>4. b.ptr = u /\ b.block = u /\ b.size = n /\ b.kind = "list"
  BY ListFields
<1>5. b.kind \notin PoolKinds /\ BytesOf(b) = B
  BY <1>4 DEF PoolKinds, BytesOf
<1> HIDE DEF b
<1>6. live' = live /\ quarantine' = quarantine
  BY <1>3 DEF heap
<1>7. u \in DOMAIN live /\ BlocksOf(M) \union leaked \subseteq DOMAIN live
      /\ u \notin BlocksOf(M) \union leaked /\ \A d \in M : Shaped(live, d)
  BY <1>2 DEF Ledger
<1>8. Extent(l, u) /\ N = Reg(l) /\ N \subseteq DOMAIN shadow /\ N \intersect H!Resting = {}
  BY <1>2, <1>7, LiveExtent, LiveBlock, BlockIsReg
<1>9. /\ Edging(shadow, shadow', l, u) /\ \A a \in B : shadow'[a] = shadow[a]
  <2>1. Edging(shadow, EdgesMarked(shadow, l, u), l, u)
        /\ \A a \in Bytes(u, l.requested) : EdgesMarked(shadow, l, u)[a] = shadow[a]
    BY <1>8, EdgedMarks
  <2> QED BY <1>2, <1>3, <2>1
<1>10. \A a \in B : shadow[a] = "valid"
  <2>1. RightList(live, shadow, u)
    BY <1>2 DEF Shadows, Rights
  <2>2. B \subseteq Bytes(u, l.user_size)
    BY <1>2, <1>8, ExtentParts
  <2> QED BY <2>1, <2>2 DEF RightList
<1>11. B \subseteq N
  BY <1>2, <1>8, ExtentParts
<1>12. Confined(shadow, shadow', written, written', N)
  BY <1>3, <1>8, <1>9, <1>11 DEF Confined, Edging
<1>13. Rights(live, shadow', written', M, leaked, {})
  <2> DEFINE U == BlocksOf(M) \union leaked \union {}
  <2>1. U \in SUBSET DOMAIN live /\ u \notin U
    BY <1>7
  <2> HIDE DEF U
  <2>2. Away(live, live, shadow, U, N)
    BY <1>2, <1>7, <2>1, AllAway
  <2>3. \A d \in M : Placed(live, d)
    BY <1>2, <1>7, PlacedHeld
  <2>4. Rights(live, shadow, written, M, leaked, {})
    BY <1>2 DEF Shadows, Rights
  <2> HIDE DEF M, N
  <2> QED BY <1>12, <2>2, <2>3, <2>4, RightsKept DEF U
<1>14. RightBlock(live, shadow', written', b)
  <2>1. Known(shadow', written', B)
    BY <1>3, <1>9, <1>10 DEF Known
  <2>2. Edged(shadow', l, u, u + n)
    BY <1>2, <1>9 DEF Edging
  <2> QED BY <1>4, <1>5, <2>1, <2>2 DEF RightBlock
<1>15. ASSUME NEW a \in DOMAIN shadow', shadow'[a] = "uninit"
       PROVE  a \in DataOf(live, M \union {b}, leaked)
  <2>1. shadow[a] = "uninit"
    <3>1. CASE a \in B
      BY <1>9, <1>15, <3>1
    <3>2. CASE a \in N \ B
      BY <1>2, <1>8, <1>9, <1>15, <3>2 DEF Edging
    <3>3. CASE a \notin N
      BY <1>12, <1>15, <3>3 DEF Confined
    <3> QED BY <3>1, <3>2, <3>3
  <2>2. a \in DataOf(live, M, leaked)
    BY <1>2, <1>12, <1>15, <2>1 DEF Shadows, Confined
  <2> HIDE DEF M
  <2> QED BY <2>2, InData
<1>16. Shadows(live', shadow', written', M \union {b}, leaked, {})
  BY <1>6, <1>13, <1>14, <1>15 DEF Shadows, Rights
<1>17. kept' = M \union {b}
  BY <1>3, GotBlocks
<1>18. Guarded(quarantine', shadow', bare')
  BY <1>2, <1>3, <1>6, <1>8, <1>12, GuardKept
<1>19. DOMAIN shadow' = H!Managed /\ accused' = {}
  BY <1>2, <1>3, <1>12 DEF Confined
<1> QED BY <1>3, <1>16, <1>17, <1>18, <1>19, NoCallFields, MarksOutside

-----------------------------------------------------------------------------
(* What is freed. *)

LEMMA FreedMarks ==
  ASSUME HeapInv, ~H!Draining, DOMAIN shadow = H!Managed,
         NEW M, NEW L, NEW K, Ledger(live, M, L, K), Shadows(live, shadow, written, M, L, K),
         Guarded(quarantine, shadow, bare),
         NEW u \in DOMAIN live, H!free_block(u), shadow' = poison_freed_block(shadow, u),
         NEW ws, \A a : a \notin BlockAt(u) => (a \in ws <=> a \in written)
  PROVE  /\ DOMAIN shadow' = H!Managed
         /\ Shadows(live', shadow', ws, {b \in M : b.block # u}, L \ {u}, K \ {u})
         /\ Guarded(quarantine', shadow', bare)
<1> DEFINE N == BlockAt(u)
           q == [block_start |-> live[u].block_start, block_end |-> live[u].block_end]
<1>1. shadow' = [a \in DOMAIN shadow |-> IF a \in N THEN "freed" ELSE shadow[a]]
  BY DEF poison_freed_block, Marked, BlockAt
<1>2. N \subseteq DOMAIN shadow /\ N \intersect H!Resting = {}
  BY LiveBlock
<1>3. /\ \A v \in DOMAIN live \ {u} : live'[v] = live[v]
      /\ quarantine' = quarantine \/ quarantine' = Append(quarantine, q)
  BY Frees
<1>4. H!RestOf(q) = N
  BY DEF H!RestOf, BlockAt
<1> HIDE DEF N, q
<1>5. DOMAIN shadow' = DOMAIN shadow /\ \A a \in N : shadow'[a] = "freed"
  BY <1>1, <1>2
<1>6. \A a \in DOMAIN shadow : a \notin N => shadow'[a] = shadow[a]
  BY <1>1
<1>7. Confined(shadow, shadow', written, ws, N)
  BY <1>5, <1>6 DEF Confined, N
<1>8. Shadows(live', shadow', ws, {b \in M : b.block # u}, L \ {u}, K \ {u})
  BY <1>3, <1>5, <1>7, AfterFree DEF N
<1>9. Guarded(quarantine, shadow', bare)
  BY <1>2, <1>7, GuardKept
<1>10. Guarded(Append(quarantine, q), shadow', bare)
  BY <1>4, <1>5, <1>9, GuardMore
<1> QED BY <1>3, <1>5, <1>8, <1>9, <1>10

LEMMA MarksBackOut ==
  ASSUME Books, Marks, alloc_entry_back_out
  PROVE  Marks'
<1> DEFINE g == call.got
           list == call.list
<1>1. IsEntry(call) /\ ~H!Draining /\ call \in Entries
  BY WorkingEntry DEF alloc_entry_back_out
<1>2. /\ HeapInv /\ Distinct(g) /\ Ledger(live, kept \union Got(g), leaked, {list})
      /\ BlocksOf(kept) \intersect BlocksOf(Got(g)) = {}
      /\ DOMAIN shadow = H!Managed
      /\ Shadows(live, shadow, written, kept \union Got(g), leaked, {list})
      /\ Guarded(quarantine, shadow, bare) /\ accused = {}
  BY <1>1, InsideBooks, InsideMarks
<1>3. /\ call = EntryCall(call.name, list, call.left, g, call.size)
      /\ list \in Nat /\ call.size \in Nat /\ g \in Seq(Nat \X Nat)
      /\ call.left \in Seq((0..MaxWord) \X BOOLEAN)
      /\ call.name \in {"AllocEntry", "backing out"}
  BY <1>1, EntryIs
<1>4. /\ kept' = kept /\ leaked' = leaked /\ written' = written /\ bare' = bare
      /\ accused' = accused
  BY DEF alloc_entry_back_out, program
<1>5. CASE g # <<>>
  <2> DEFINE u == Head(g)[1]
             t == Tail(g)
             c == EntryCall(call.name, list, call.left, t, call.size)
  <2>1. /\ H!free_block(u) /\ shadow' = poison_freed_block(shadow, u)
        /\ call' = [call EXCEPT !.got = Tail(@)]
    BY <1>5 DEF alloc_entry_back_out, poisoned_and_freed
  <2>2. call' = c
    BY <1>3, <2>1 DEF EntryCall
  <2> HIDE DEF g, list
  <2>3. /\ Got(t) = {b \in Got(g) : b.block # u}
        /\ t \in Seq(Nat \X Nat) /\ Distinct(t) /\ u \in BlocksOf(Got(g))
    BY <1>2, <1>3, <1>5, GotTail
  <2>4. EntryArgs(call.name, list, call.left, t, call.size)
    BY <1>3, <2>3 DEF EntryArgs
  <2>5. c = EntryCall(call.name, list, call.left, t, call.size)
    OBVIOUS
  <2> HIDE DEF u, t, c
  <2>6. u \in BlocksOf(kept \union Got(g)) /\ u \notin BlocksOf(kept)
    BY <1>2, <2>3 DEF BlocksOf
  <2>7. u \in DOMAIN live /\ u # list /\ u \notin leaked
    BY <1>2, <2>6 DEF Ledger
  <2>8. /\ DOMAIN shadow' = H!Managed
        /\ Shadows(live', shadow', written, {b \in kept \union Got(g) : b.block # u},
                   leaked \ {u}, {list} \ {u})
        /\ Guarded(quarantine', shadow', bare)
    BY <1>1, <1>2, <2>1, <2>7, FreedMarks
  <2>10. {b \in kept \union Got(g) : b.block # u} = kept \union Got(t)
    BY <2>3, <2>6 DEF BlocksOf
  <2>11. leaked \ {u} = leaked /\ {list} \ {u} = {list}
    BY <2>7
  <2>12. IsEntry(c) /\ c.list = list /\ c.got = t
    BY <2>4, <2>5, EntryCalls
  <2>13. Shadows(live', shadow', written', kept' \union Got(c.got), leaked', {c.list})
    BY <1>4, <2>8, <2>10, <2>11, <2>12
  <2> QED BY <1>2, <1>4, <2>2, <2>8, <2>12, <2>13, MarksInside
<1>6. CASE g = <<>>
  <2>1. H!free_block(list) /\ shadow' = poison_freed_block(shadow, list) /\ call' = NoCall
    BY <1>6 DEF alloc_entry_back_out, backed_out, poisoned_and_freed
  <2> HIDE DEF g, list
  <2>2. kept \union Got(g) = kept
    BY <1>6, EmptyGot
  <2>3. Ledger(live, kept, leaked, {list}) /\ Shadows(live, shadow, written, kept, leaked, {list})
    BY <1>2, <2>2
  <2>4. list \in DOMAIN live /\ list \notin leaked /\ list \notin BlocksOf(kept)
    BY <2>3 DEF Ledger
  <2>5. /\ DOMAIN shadow' = H!Managed
        /\ Shadows(live', shadow', written, {b \in kept : b.block # list},
                   leaked \ {list}, {list} \ {list})
        /\ Guarded(quarantine', shadow', bare)
    BY <1>1, <1>2, <2>1, <2>3, <2>4, FreedMarks
  <2>7. {b \in kept : b.block # list} = kept /\ leaked \ {list} = leaked /\ {list} \ {list} = {}
    BY <2>4 DEF BlocksOf
  <2>8. Shadows(live', shadow', written', kept', leaked', {})
    BY <1>4, <2>5, <2>7
  <2> QED BY <1>2, <1>4, <2>1, <2>5, <2>8, NoCallFields, MarksOutside
<1> QED BY <1>5, <1>6

LEMMA MarksFree ==
  ASSUME Books, Marks, NEW b \in kept, free_handler(b)
  PROVE  Marks'
<1> DEFINE u == b.block
<1>1. /\ ~IsEntry(call) /\ ~H!Draining /\ call' = call /\ leaked' = leaked
      /\ kept' = kept \ {b} /\ H!free_block(u) /\ shadow' = poison_freed_block(shadow, u)
      /\ written' = written \ BytesOf(b) /\ bare' = bare /\ accused' = accused
  BY CallingOutside DEF free_handler, poisoned_and_freed
<1>2. /\ HeapInv /\ Ledger(live, kept, leaked, {})
      /\ DOMAIN shadow = H!Managed
      /\ Shadows(live, shadow, written, kept, leaked, {})
      /\ Guarded(quarantine, shadow, bare) /\ accused = {}
  BY <1>1, OutsideBooks, OutsideMarks
<1> HIDE DEF u
<1>3. u \in BlocksOf(kept)
  BY DEF BlocksOf, u
<1>4. u \in DOMAIN live /\ u \notin leaked
  BY <1>2, <1>3 DEF Ledger
<1>5. BytesOf(b) \subseteq BlockAt(u)
  <2>1. Shaped(live, b)
    BY <1>2 DEF Ledger
  <2> QED BY <1>2, <2>1, PlacedHeld, BlockIsReg DEF Placed, u
<1>6. \A a : a \notin BlockAt(u) => (a \in written' <=> a \in written)
  BY <1>1, <1>5
<1>7. /\ DOMAIN shadow' = H!Managed
      /\ Shadows(live', shadow', written', {c \in kept : c.block # u}, leaked \ {u}, {} \ {u})
      /\ Guarded(quarantine', shadow', bare)
  BY <1>1, <1>2, <1>4, <1>6, FreedMarks
<1>8. {c \in kept : c.block # u} = kept \ {b} /\ leaked \ {u} = leaked /\ {} \ {u} = {}
  BY <1>2, <1>4 DEF Ledger, u
<1>9. Shadows(live', shadow', written', kept', leaked', {})
  BY <1>1, <1>7, <1>8
<1> QED BY <1>1, <1>2, <1>7, <1>9, MarksOutside

LEMMA MarksFreeNext ==
  ASSUME Books, Marks, free_entry_next
  PROVE  Marks'
<1> DEFINE u == Head(call.left)[1]
<1>1. ~IsEntry(call) /\ ~H!Draining
  BY DEF free_entry_next, Working, IsEntry
<1>2. /\ u \in DOMAIN live /\ H!free_block(u) /\ shadow' = poison_freed_block(shadow, u)
      /\ kept' = kept \ {b \in kept : b.block = u} /\ leaked' = leaked \ {u}
      /\ written' = written \ Bytes(u, live[u].user_size) /\ bare' = bare /\ accused' = accused
  BY DEF free_entry_next, poisoned_and_freed
<1>3. ~IsEntry(call')
  <2>1. CASE call' = NoCall
    BY <2>1, NoCallFields
  <2>2. CASE call' = [call EXCEPT !.left = Tail(@)]
    <3>1. call.name = "FreeEntry" /\ Named(call)
      BY DEF free_entry_next, Working, Books
    <3>2. call'.name = "FreeEntry"
      BY <2>2, <3>1 DEF Named
    <3> QED BY <3>2 DEF IsEntry
  <2> QED BY <2>1, <2>2 DEF free_entry_next
<1> HIDE DEF u
<1>4. /\ HeapInv /\ Ledger(live, kept, leaked, {})
      /\ DOMAIN shadow = H!Managed
      /\ Shadows(live, shadow, written, kept, leaked, {})
      /\ Guarded(quarantine, shadow, bare) /\ accused = {}
  BY <1>1, OutsideBooks, OutsideMarks
<1>5. Bytes(u, live[u].user_size) \subseteq BlockAt(u)
  BY <1>2, <1>4, PlacedLive, BlockIsReg DEF PlacedAt
<1>6. \A a : a \notin BlockAt(u) => (a \in written' <=> a \in written)
  BY <1>2, <1>5
<1>7. /\ DOMAIN shadow' = H!Managed
      /\ Shadows(live', shadow', written', {b \in kept : b.block # u}, leaked \ {u}, {} \ {u})
      /\ Guarded(quarantine', shadow', bare)
  BY <1>1, <1>2, <1>4, <1>6, FreedMarks
<1>8. {b \in kept : b.block # u} = kept' /\ {} \ {u} = {}
  BY <1>2
<1>9. Shadows(live', shadow', written', kept', leaked', {})
  BY <1>2, <1>7, <1>8
<1> QED BY <1>2, <1>3, <1>4, <1>7, <1>9, MarksOutside

-----------------------------------------------------------------------------
(* What leaves the marks alone. *)

LEMMA MarksEnable ==
  ASSUME Books, Marks, enable_heap_sanitizer
  PROVE  Marks'
<1>1. ~IsEntry(call) /\ call' = NoCall
  BY DEF enable_heap_sanitizer, IsEntry
<1> QED BY <1>1, NoCallFields, MarksSame DEF enable_heap_sanitizer

LEMMA MarksFreeEntry ==
  ASSUME Books, Marks, NEW b \in kept, free_entry_handler(b)
  PROVE  Marks'
<1>1. /\ ~IsEntry(call) /\ UNCHANGED heap /\ UNCHANGED <<shadow, program, bare, accused>>
      /\ call' = [name |-> "FreeEntry", left |-> Append(b.entries, <<b.ptr, b.size>>)]
  BY CallingOutside DEF free_entry_handler
<1>2. ~IsEntry(call')
  BY <1>1 DEF IsEntry
<1> QED BY <1>1, <1>2, MarksSame DEF heap

LEMMA MarksAnswer ==
  ASSUME Books, Marks, UNCHANGED <<call, program, shadow, bare, accused>>,
         \/ UNCHANGED heap
         \/ \E n \in Nat : H!OutOfMemory(n)
         \/ \E a \in Nat : H!DoubleOrInvalidFree(a)
  PROVE  Marks'
<1>1. HeapInv
  BY DEF Books
<1>2. live' = live /\ quarantine' = quarantine
  BY <1>1, HeapSame, Answers
<1> QED BY <1>2, MarksSame

LEMMA MarksDrain ==
  ASSUME Books, Marks, drain_quarantine_over_budget
  PROVE  Marks'
<1>1. /\ H!Draining /\ H!drain_quarantine_over_budget
      /\ bare' = bare \ {Head(quarantine).block_start}
      /\ shadow' = shadow /\ call' = call /\ UNCHANGED program /\ accused' = accused
  BY DEF drain_quarantine_over_budget
<1>2. HeapInv
  BY DEF Books
<1>3. /\ live' = live /\ quarantine' = Tail(quarantine) /\ quarantine # <<>>
      /\ \A i \in 2..Len(quarantine) : quarantine[i].block_start # quarantine[1].block_start
  BY <1>1, <1>2, Drains
<1>4. Guarded(quarantine', shadow, bare')
  BY <1>1, <1>2, <1>3, GuardLess DEF Marks
<1>5. kept' = kept /\ leaked' = leaked /\ written' = written
  BY <1>1 DEF program
<1>6. Mine(kept', call') = Mine(kept, call) /\ Listed(call') = Listed(call)
  BY <1>1, <1>5
<1>7. (H!Managed)' = H!Managed
  BY DEF H!Managed
<1> QED BY <1>1, <1>3, <1>4, <1>5, <1>6, <1>7 DEF Marks

-----------------------------------------------------------------------------
(* A pool is deleted: its blocks stay as they are, and its header goes.  *)

LEMMA LeakedMarks ==
  ASSUME NEW lv, NEW sh, NEW wr, NEW M, NEW L, NEW K, Shadows(lv, sh, wr, M, L, K),
         NEW N \in SUBSET M,
         \A b \in N : b.ptr = b.block /\ b.size = lv[b.block].requested
  PROVE  Shadows(lv, sh, wr, M \ N, L \union BlocksOf(N), K)
<1>1. \A b \in N : BytesOf(b) = Bytes(b.block, lv[b.block].requested)
  BY DEF BytesOf
<1>2. \A v \in BlocksOf(N) : \E b \in N : v = b.block
  BY DEF BlocksOf
<1>3. \A b \in N : b.block \in BlocksOf(N)
  BY DEF BlocksOf
<1>4. /\ \A b \in M : RightBlock(lv, sh, wr, b)
      /\ \A u \in L : RightLeft(lv, sh, wr, u)
      /\ \A u \in K : RightList(lv, sh, u)
  BY DEF Shadows, Rights
<1>5. \A v \in BlocksOf(N) : RightLeft(lv, sh, wr, v)
  <2> SUFFICES ASSUME NEW v \in BlocksOf(N)
               PROVE  RightLeft(lv, sh, wr, v)
    OBVIOUS
  <2>1. PICK b \in N : v = b.block
    BY <1>2
  <2>2. Known(sh, wr, BytesOf(b))
    BY <1>4 DEF RightBlock
  <2> QED BY <1>1, <2>1, <2>2 DEF RightLeft
<1>6. Rights(lv, sh, wr, M \ N, L \union BlocksOf(N), K)
  BY <1>4, <1>5 DEF Rights
<1>7. ASSUME NEW a \in DOMAIN sh, sh[a] = "uninit"
      PROVE  a \in DataOf(lv, M \ N, L \union BlocksOf(N))
  <2>1. a \in DataOf(lv, M, L)
    BY <1>7 DEF Shadows
  <2>2. \/ \E b \in M : a \in BytesOf(b)
        \/ \E u \in L : a \in Bytes(u, lv[u].requested)
    BY <2>1, InData
  <2>3. \/ \E b \in M \ N : a \in BytesOf(b)
        \/ \E u \in L \union BlocksOf(N) : a \in Bytes(u, lv[u].requested)
    BY <1>1, <1>3, <2>2
  <2> QED BY <2>3, InData
<1> QED BY <1>6, <1>7 DEF Shadows

\* No byte of a pool's extent is uninit.
LEMMA PoolMarks ==
  ASSUME HeapInv, DOMAIN shadow = H!Managed,
         NEW M, NEW L, Ledger(live, M, L, {}), Shadows(live, shadow, written, M, L, {}),
         NEW p \in M, p.kind \in PoolKinds, NEW a \in BlockAt(p.block)
  PROVE  shadow[a] # "uninit"
<1> SUFFICES ASSUME shadow[a] = "uninit"
             PROVE  FALSE
  OBVIOUS
<1> DEFINE u == p.block
<1>1. u \in DOMAIN live /\ u \notin L /\ L \subseteq DOMAIN live
      /\ \A b \in M : Shaped(live, b) /\ b.block \in DOMAIN live /\ (b.block = u => b = p)
  BY DEF Ledger, BlocksOf
<1>2. a \in DOMAIN shadow
  BY <1>1, LiveBlock
<1>3. a \in DataOf(live, M, L)
  BY <1>2 DEF Shadows
<1>4. CASE \E b \in M : a \in BytesOf(b)
  <2>1. PICK b \in M : a \in BytesOf(b)
    BY <1>4
  <2>2. a \in BlockAt(b.block)
    BY <1>1, <2>1, PlacedHeld, BlockIsReg DEF Placed
  <2>3. b.block = u
    BY <1>1, <2>2, LiveBlock
  <2>4. b = p
    BY <1>1, <2>3
  <2>5. Known(shadow, written, BytesOf(p)) /\ BytesOf(p) \subseteq written
    BY DEF Shadows, Rights, RightBlock
  <2>6. shadow[a] = "valid"
    BY <2>1, <2>4, <2>5 DEF Known
  <2> QED BY <2>6
<1>5. CASE \E v \in L : a \in Bytes(v, live[v].requested)
  <2>1. PICK v \in L : a \in Bytes(v, live[v].requested)
    BY <1>5
  <2>2. a \in BlockAt(v)
    BY <1>1, <2>1, PlacedLive, BlockIsReg DEF PlacedAt
  <2> QED BY <1>1, <2>2, LiveBlock
<1> QED BY <1>3, <1>4, <1>5, InData

LEMMA MarksDeletePool ==
  ASSUME Books, Marks, NEW p \in kept, delete_pool_handler(p)
  PROVE  Marks'
<1> DEFINE u == p.ptr
           gone == {b \in kept : b.kind = "pooled" /\ b.of = u}
           L == leaked \union BlocksOf(gone)
           q == [block_start |-> live[u].block_start, block_end |-> live[u].block_end]
<1>1. /\ ~IsEntry(call) /\ ~H!Draining /\ call' = call
      /\ kept' = kept \ (gone \union {p}) /\ leaked' = leaked \union BlocksOf(gone)
      /\ H!free_block(u) /\ written' = written \ BytesOf(p) /\ shadow' = shadow
      /\ bare' = bare \union {live[u].block_start} /\ accused' = accused
  BY CallingOutside DEF delete_pool_handler, BlocksOf
<1>2. /\ HeapInv /\ Ledger(live, kept, leaked, {})
      /\ DOMAIN shadow = H!Managed
      /\ Shadows(live, shadow, written, kept, leaked, {})
      /\ Guarded(quarantine, shadow, bare) /\ accused = {}
  BY <1>1, OutsideBooks, OutsideMarks
<1>3. p.kind \in PoolKinds /\ p.kind # "vec" /\ p.kind # "pooled"
  BY DEF delete_pool_handler, Pools, PoolKinds
<1>4. Shaped(live, p)
  BY <1>2 DEF Ledger
<1>5. u = p.block
  BY <1>3, <1>4 DEF Shaped
<1>6. gone \in SUBSET kept /\ p \notin gone
  BY <1>3
<1>7. \A b \in gone : b.ptr = b.block /\ b.size = live[b.block].requested
  <2>1. \A b \in gone : Shaped(live, b) /\ b.kind # "vec"
    BY <1>2 DEF Ledger
  <2> QED BY <2>1 DEF Shaped
<1>14. q.block_start \in bare'
  BY <1>1
<1> HIDE DEF u, gone, q
<1>8. u \in DOMAIN live /\ u \notin leaked /\ u \notin BlocksOf(gone)
  BY <1>2, <1>5, <1>6 DEF Ledger, BlocksOf
<1>9. Ledger(live, kept \ gone, L, {}) /\ Shadows(live, shadow, written, kept \ gone, L, {})
  BY <1>2, <1>6, <1>7, LedgerLeaks, LeakedMarks
<1>10. \A a \in BlockAt(u) : shadow[a] # "uninit"
  BY <1>2, <1>3, <1>5, PoolMarks
<1>11. Confined(shadow, shadow, written, written', BlockAt(u))
  <2>1. BytesOf(p) \subseteq BlockAt(u)
    BY <1>2, <1>4, <1>5, PlacedHeld, BlockIsReg DEF Placed
  <2> QED BY <1>1, <2>1 DEF Confined
<1>12. /\ \A v \in DOMAIN live \ {u} : live'[v] = live[v]
       /\ quarantine' = quarantine \/ quarantine' = Append(quarantine, q)
  BY <1>1, <1>2, <1>8, Frees DEF q
<1>13. Shadows(live', shadow, written', {c \in kept \ gone : c.block # u}, L \ {u}, {} \ {u})
  <2> HIDE DEF L
  <2> DEFINE M == kept \ gone
             ws == written'
  <2>1. Ledger(live, M, L, {}) /\ Shadows(live, shadow, written, M, L, {})
    BY <1>9
  <2>2. Confined(shadow, shadow, written, ws, BlockAt(u))
    BY <1>11
  <2> HIDE DEF M, ws
  <2>3. Shadows(live', shadow, ws, {c \in M : c.block # u}, L \ {u}, {} \ {u})
    BY <1>2, <1>8, <1>10, <1>12, <2>1, <2>2, AfterFree
  <2> QED BY <2>3 DEF M, ws
<1>15. {c \in kept \ gone : c.block # u} = kept'
  BY <1>1, <1>2, <1>5 DEF Ledger
<1>16. L \ {u} = leaked' /\ {} \ {u} = {}
  BY <1>1, <1>8
<1>17. Shadows(live', shadow', written', kept', leaked', {})
  BY <1>1, <1>13, <1>15, <1>16
<1>18. Guarded(quarantine, shadow, bare')
  BY <1>1, <1>2 DEF Guarded
<1>19. Guarded(Append(quarantine, q), shadow, bare')
  BY <1>2, <1>14, <1>18, GuardMore
<1>20. Guarded(quarantine', shadow', bare')
  BY <1>1, <1>12, <1>18, <1>19
<1> QED BY <1>1, <1>2, <1>17, <1>20, MarksOutside

-----------------------------------------------------------------------------
(* The program writes and copies. *)

\* The marks of the bytes the history follows say whether they have a value.
LEMMA DataKnown ==
  ASSUME HeapInv, DOMAIN shadow = H!Managed,
         NEW M, NEW L, Ledger(live, M, L, {}), Shadows(live, shadow, written, M, L, {})
  PROVE  /\ DataOf(live, M, L) \subseteq DOMAIN shadow
         /\ Known(shadow, written, DataOf(live, M, L))
<1> SUFFICES ASSUME NEW a \in DataOf(live, M, L)
             PROVE  /\ a \in DOMAIN shadow
                    /\ IF a \in written THEN shadow[a] = "valid" ELSE shadow[a] = "uninit"
  BY DEF Known
<1>1. /\ L \subseteq DOMAIN live
      /\ \A b \in M : Shaped(live, b) /\ b.block \in DOMAIN live
  BY DEF Ledger, BlocksOf
<1>2. CASE \E b \in M : a \in BytesOf(b)
  <2>1. PICK b \in M : a \in BytesOf(b)
    BY <1>2
  <2>2. a \in BlockAt(b.block)
    BY <1>1, <2>1, PlacedHeld, BlockIsReg DEF Placed
  <2>3. a \in DOMAIN shadow
    BY <1>1, <2>2, LiveBlock
  <2>4. Known(shadow, written, BytesOf(b))
    BY DEF Shadows, Rights, RightBlock
  <2> QED BY <2>1, <2>3, <2>4 DEF Known
<1>3. CASE \E v \in L : a \in Bytes(v, live[v].requested)
  <2>1. PICK v \in L : a \in Bytes(v, live[v].requested)
    BY <1>3
  <2>2. a \in BlockAt(v)
    BY <1>1, <2>1, PlacedLive, BlockIsReg DEF PlacedAt
  <2>3. a \in DOMAIN shadow
    BY <1>1, <2>2, LiveBlock
  <2>4. Known(shadow, written, Bytes(v, live[v].requested))
    BY DEF Shadows, Rights, RightLeft
  <2> QED BY <2>1, <2>3, <2>4 DEF Known
<1> QED BY <1>2, <1>3, InData

\* A handler that touches the bytes C and nothing else.
Touches(C) ==
  /\ DOMAIN shadow' = DOMAIN shadow
  /\ \A a \in DOMAIN shadow : a \notin C \/ shadow[a] \in Reasons => shadow'[a] = shadow[a]
  /\ \A a : a \notin C => (a \in written' <=> a \in written)
  /\ \A a \in C \intersect Data :
       IF a \in written' THEN shadow'[a] = "valid" ELSE shadow'[a] = "uninit"
  /\ \A a \in C \intersect DOMAIN shadow : shadow'[a] = "uninit" => a \in Data
  /\ \A p \in kept : p.kind \in PoolKinds => BytesOf(p) \intersect C \subseteq written'

LEMMA KnownTouched ==
  ASSUME NEW C, Touches(C), NEW A, A \subseteq DOMAIN shadow, A \subseteq Data,
         Known(shadow, written, A)
  PROVE  Known(shadow', written', A)
BY DEF Touches, Known

LEMMA MarksTouched ==
  ASSUME Books, Marks, ~IsEntry(call),
         UNCHANGED heap, UNCHANGED <<call, kept, leaked, bare, accused>>,
         NEW C, Touches(C)
  PROVE  Marks'
<1>1. /\ HeapInv /\ Ledger(live, kept, leaked, {})
      /\ DOMAIN shadow = H!Managed
      /\ Shadows(live, shadow, written, kept, leaked, {})
      /\ Guarded(quarantine, shadow, bare) /\ accused = {}
  BY OutsideBooks, OutsideMarks
<1>2. live' = live /\ quarantine' = quarantine
  BY DEF heap
<1>3. Data = DataOf(live, kept, leaked)
  BY DEF Data, DataOf
<1>4. /\ leaked \subseteq DOMAIN live
      /\ \A b \in kept : Placed(live, b) /\ b.block \in DOMAIN live
  BY <1>1, PlacedHeld DEF Ledger, BlocksOf
<1>5. \A u \in DOMAIN live : Reg(live[u]) \subseteq DOMAIN shadow
  BY <1>1, LiveBlock, BlockIsReg
<1>6. DOMAIN shadow' = DOMAIN shadow
  BY DEF Touches
<1>7. ASSUME NEW b \in kept
      PROVE  RightBlock(live, shadow', written', b)
  <2> DEFINE l == live[b.block]
             u == b.block
             end == b.ptr + b.size
  <2>1. /\ Known(shadow, written, BytesOf(b))
        /\ b.kind \in PoolKinds => BytesOf(b) \subseteq written
        /\ b.kind \notin PoolKinds => Edged(shadow, l, u, end)
    BY <1>1 DEF Shadows, Rights, RightBlock
  <2>2. Placed(live, b) /\ Reg(l) \subseteq DOMAIN shadow
    BY <1>4, <1>5
  <2>3. /\ BytesOf(b) \subseteq DOMAIN shadow
        /\ H!Span(l.block_start, u) \subseteq DOMAIN shadow
        /\ H!Span(u + l.user_size, l.block_end) \subseteq DOMAIN shadow
        /\ H!Span(end, u + l.user_size) \subseteq DOMAIN shadow
    BY <2>2 DEF Placed
  <2>4. BytesOf(b) \subseteq Data
    BY DEF Data
  <2>5. Known(shadow', written', BytesOf(b))
    BY <2>1, <2>3, <2>4, KnownTouched
  <2>6. b.kind \in PoolKinds => BytesOf(b) \subseteq written'
    BY <2>1 DEF Touches
  <2>7. \A a \in DOMAIN shadow : shadow[a] \in {"redzone", "slack"} => shadow'[a] = shadow[a]
    BY DEF Touches, Reasons
  <2> HIDE DEF l, u, end
  <2>8. Edged(shadow, l, u, end) => Edged(shadow', l, u, end)
    BY <2>3, <2>7 DEF Edged
  <2> QED BY <2>1, <2>5, <2>6, <2>8 DEF RightBlock, l, u, end
<1>8. ASSUME NEW v \in leaked
      PROVE  RightLeft(live, shadow', written', v)
  <2> DEFINE A == Bytes(v, live[v].requested)
  <2>1. Known(shadow, written, A)
    BY <1>1 DEF Shadows, Rights, RightLeft
  <2>2. A \subseteq DOMAIN shadow
    BY <1>1, <1>4, <1>5, PlacedLive DEF PlacedAt
  <2>3. A \subseteq Data
    BY DEF Data
  <2> HIDE DEF A
  <2>4. Known(shadow', written', A)
    BY <2>1, <2>2, <2>3, KnownTouched
  <2> QED BY <2>4 DEF RightLeft, A
<1>9. ASSUME NEW a \in DOMAIN shadow', shadow'[a] = "uninit"
      PROVE  a \in DataOf(live, kept, leaked)
  <2>1. CASE a \in C
    BY <1>3, <1>6, <1>9, <2>1 DEF Touches
  <2>2. CASE a \notin C
    <3>1. shadow[a] = "uninit"
      BY <1>6, <1>9, <2>2 DEF Touches
    <3> QED BY <1>1, <1>6, <3>1 DEF Shadows
  <2> QED BY <2>1, <2>2
<1>10. Shadows(live', shadow', written', kept', leaked', {})
  BY <1>2, <1>7, <1>8, <1>9 DEF Shadows, Rights
<1>11. Guarded(quarantine, shadow', bare)
  <2> SUFFICES ASSUME NEW i \in DOMAIN quarantine, quarantine[i].block_start \notin bare,
                      NEW a \in H!RestOf(quarantine[i])
               PROVE  shadow'[a] = "freed"
    BY DEF Guarded
  <2>1. shadow[a] = "freed" /\ a \in DOMAIN shadow
    BY <1>1, RestsInside DEF Guarded
  <2> QED BY <2>1 DEF Touches, Reasons
<1> QED BY <1>1, <1>2, <1>6, <1>10, <1>11, MarksOutside

LEMMA MarksWrite ==
  ASSUME Books, Marks, NEW a, write_u8(a)
  PROVE  Marks'
<1>1. /\ ~IsEntry(call) /\ UNCHANGED heap /\ UNCHANGED <<call, kept, leaked, bare, accused>>
      /\ a \in DOMAIN shadow /\ written' = written \union ({a} \intersect Data)
      /\ shadow' = [x \in DOMAIN shadow |->
                      IF x \in {a} /\ shadow[x] = "uninit" THEN "valid" ELSE shadow[x]]
  BY CallingOutside DEF write_u8, Healed
<1>2. /\ HeapInv /\ Ledger(live, kept, leaked, {})
      /\ DOMAIN shadow = H!Managed
      /\ Shadows(live, shadow, written, kept, leaked, {})
  BY <1>1, OutsideBooks, OutsideMarks
<1>3. Data \subseteq DOMAIN shadow /\ Known(shadow, written, Data)
  BY <1>2, DataKnown DEF Data, DataOf
<1>4. \A p \in kept : p.kind \in PoolKinds => BytesOf(p) \subseteq written
  BY <1>2 DEF Shadows, Rights, RightBlock
<1>5. a \in Data => shadow[a] \in {"valid", "uninit"} /\ a \in written'
  BY <1>1, <1>3 DEF Known
<1>6. /\ DOMAIN shadow' = DOMAIN shadow
      /\ \A x \in DOMAIN shadow : x \notin {a} \/ shadow[x] \in Reasons => shadow'[x] = shadow[x]
      /\ shadow[a] \in {"valid", "uninit"} => shadow'[a] = "valid"
      /\ shadow'[a] # "uninit"
  BY <1>1 DEF Reasons
<1>7. \A x : x \notin {a} => (x \in written' <=> x \in written)
  BY <1>1
<1>8. \A p \in kept : p.kind \in PoolKinds => BytesOf(p) \intersect {a} \subseteq written'
  BY <1>1, <1>4
<1>9. Touches({a})
  BY <1>5, <1>6, <1>7, <1>8 DEF Touches
<1> QED BY <1>1, <1>9, MarksTouched

LEMMA MarksCopy ==
  ASSUME Books, Marks, Careful, NEW src, NEW dest, NEW len, copy_mem_handler(src, dest, len)
  PROVE  Marks'
<1> DEFINE C == Bytes(dest, len)
           from(a) == src + (a - dest)
<1>1. /\ ~IsEntry(call) /\ UNCHANGED heap /\ UNCHANGED <<call, kept, leaked, bare, accused>>
      /\ shadow' = [a \in DOMAIN shadow |->
                      IF a \notin C THEN shadow[a]
                      ELSE IF from(a) \in DOMAIN shadow /\ shadow[from(a)] = "uninit"
                           THEN "uninit" ELSE "valid"]
      /\ Owned(C)
  BY CallingOutside DEF copy_mem_handler, copied
<1>2. written' = (written \ C) \union ({a \in C : from(a) \notin Data \ written} \intersect Data)
  BY DEF copy_mem_handler
<1>3. PICK d \in kept \ Pools : C \subseteq BytesOf(d)
  BY <1>1 DEF Owned
<1>4. /\ HeapInv /\ Ledger(live, kept, leaked, {})
      /\ DOMAIN shadow = H!Managed
      /\ Shadows(live, shadow, written, kept, leaked, {})
  BY <1>1, OutsideBooks, OutsideMarks
<1>5. /\ Data \subseteq DOMAIN shadow /\ Known(shadow, written, Data)
      /\ \A a \in DOMAIN shadow : shadow[a] = "uninit" => a \in Data
  BY <1>4, DataKnown DEF Data, DataOf, Shadows
<1>6. C \subseteq Data
  BY <1>3 DEF Data
<1>7. \A x : x \in DOMAIN shadow /\ shadow[x] = "uninit" <=> x \in Data \ written
  BY <1>5 DEF Known
<1>8. \A a \in C : shadow[a] \notin Reasons
  BY <1>5, <1>6 DEF Known, Reasons
<1>9. ASSUME NEW p \in kept, p.kind \in PoolKinds, NEW a \in BytesOf(p), a \in C
      PROVE  FALSE
  <2>1. Shaped(live, p) /\ Shaped(live, d) /\ p # d
    BY <1>3, <1>4, <1>9 DEF Ledger, Pools, PoolKinds
  <2>2. p.block \in DOMAIN live /\ d.block \in DOMAIN live /\ p.block # d.block
    BY <1>3, <1>4, <2>1 DEF Ledger, Shaped
  <2>3. a \in BlockAt(p.block) /\ a \in BlockAt(d.block)
    BY <1>3, <1>4, <1>9, <2>1, PlacedHeld, BlockIsReg DEF Placed
  <2> QED BY <1>4, <2>2, <2>3, LiveBlock
<1> HIDE DEF C
<1>10. ASSUME NEW a \in C
       PROVE  IF a \in written' THEN shadow'[a] = "valid" ELSE shadow'[a] = "uninit"
  <2> DEFINE x == from(a)
  <2>1. a \in DOMAIN shadow /\ a \in Data
    BY <1>5, <1>6
  <2>2. a \in written' <=> x \notin Data \ written
    BY <1>2, <2>1
  <2>3. shadow'[a] = IF x \in DOMAIN shadow /\ shadow[x] = "uninit" THEN "uninit" ELSE "valid"
    BY <1>1, <2>1
  <2> HIDE DEF x
  <2> QED BY <1>7, <2>2, <2>3
<1>11. DOMAIN shadow' = DOMAIN shadow
       /\ \A a \in DOMAIN shadow : a \notin C => shadow'[a] = shadow[a]
  BY <1>1
<1>12. \A a : a \notin C => (a \in written' <=> a \in written)
  BY <1>2
<1>13. \A p \in kept : p.kind \in PoolKinds => BytesOf(p) \intersect C \subseteq written'
  BY <1>9
<1>14. Touches(C)
  BY <1>6, <1>8, <1>10, <1>11, <1>12, <1>13 DEF Touches
<1> QED BY <1>1, <1>14, MarksTouched

\* The marks are kept by every step.
LEMMA MarksNext ==
  ASSUME Books, Marks, High, Modest, Careful, [MemNext]_memVars
  PROVE  Marks'
<1>1. CASE enable_heap_sanitizer
  BY <1>1, MarksEnable
<1>2. CASE drain_quarantine_over_budget
  BY <1>2, MarksDrain
<1>3. CASE Allocate
  <2>1. ASSUME NEW size \in Sizes, NEW clear \in BOOLEAN,
               alloc_mem_handler(size, clear) \/ alloc_vec_handler(size, clear)
        PROVE  Marks'
    BY <2>1, MarksAllocMem, MarksAllocVec
  <2>2. ASSUME NEW clear \in BOOLEAN, create_pool_handler(clear)
        PROVE  Marks'
    BY <2>2, MarksCreatePool
  <2>3. ASSUME NEW p \in Pools, NEW size \in Sizes, alloc_pooled_handler(p, size)
        PROVE  Marks'
    BY <2>3, MarksAllocPooled
  <2>4. CASE Refused
    <3>1. PICK n \in Nat : ReturnsNull(n)
      BY <2>4, RefusedSizes
    <3> QED BY <3>1, RefusedAnswers, MarksAnswer
  <2> QED BY <1>3, <2>1, <2>2, <2>3, <2>4 DEF Allocate
<1>4. CASE Release
  <2>1. ASSUME NEW b \in kept, free_handler(b) \/ delete_pool_handler(b)
        PROVE  Marks'
    BY <2>1, MarksFree, MarksDeletePool
  <2>2. ASSUME NEW addr \in Strays, delete_no_pool_handler(addr)
        PROVE  Marks'
    <3>1. addr \in Nat
      BY ArgumentsAssumption
    <3>2. H!DoubleOrInvalidFree(addr) /\ UNCHANGED <<call, program, shadow, bare, accused>>
      BY <2>2 DEF delete_no_pool_handler
    <3> QED BY <3>1, <3>2, MarksAnswer
  <2>3. CASE bad_free_handler
    BY <2>3, MarksAnswer DEF bad_free_handler, Fails
  <2> QED BY <1>4, <2>1, <2>2, <2>3 DEF Release
<1>5. CASE Entry
  <2>1. ASSUME NEW template \in Templates, alloc_entry_handler(template)
        PROVE  Marks'
    BY <2>1, MarksAllocEntry
  <2>2. ASSUME NEW template \in Templates, alloc_entry_refused(template)
        PROVE  Marks'
    <3>1. PICK n \in Nat : ReturnsNull(n)
      BY <2>2, EntryRefusedSizes
    <3> QED BY <3>1, RefusedAnswers, MarksAnswer
  <2>3. CASE alloc_entry_next \/ alloc_entry_fails \/ alloc_entry_done \/ alloc_entry_back_out
    BY <2>3, MarksEntryNext, MarksEntryFails, MarksEntryDone, MarksBackOut
  <2>4. ASSUME NEW b \in kept, free_entry_handler(b)
        PROVE  Marks'
    BY <2>4, MarksFreeEntry
  <2>5. CASE free_entry_next
    BY <2>5, MarksFreeNext
  <2>6. CASE free_entry_fails
    BY <2>6, MarksAnswer DEF free_entry_fails, Fails
  <2> QED BY <1>5, <2>1, <2>2, <2>3, <2>4, <2>5, <2>6 DEF Entry
<1>6. CASE Access
  BY <1>6, MarksWrite, MarksCopy DEF Access
<1>7. CASE UNCHANGED memVars
  BY <1>7, MarksAnswer DEF memVars
<1> QED BY <1>1, <1>2, <1>3, <1>4, <1>5, <1>6, <1>7 DEF MemNext

LEMMA MarksClose ==
  ASSUME Marks
  PROVE  NoFalseAlarms /\ MarksKnown
<1>1. ASSUME NEW b \in kept
      PROVE  RightBlock(live, shadow, written, b)
  BY DEF Marks, Shadows, Rights, Mine
<1>2. ASSUME NEW b \in kept, NEW a \in BytesOf(b)
      PROVE  /\ ~Unaddressable(shadow, a)
             /\ a \in written => shadow[a] = "valid"
             /\ a \notin written => shadow[a] = "uninit"
  BY <1>1 DEF RightBlock, Known, Unaddressable, Reasons
<1>3. NoFalseAlarms
  BY <1>2 DEF NoFalseAlarms, Marks
<1>4. UninitKnown
  BY <1>2 DEF UninitKnown
<1>5. EdgesGuarded
  <2> SUFFICES ASSUME NEW b \in kept \ Pools
               PROVE  Edged(shadow, live[b.block], b.block, b.ptr + b.size)
    BY DEF EdgesGuarded, Edged
  <2>1. b.kind \notin PoolKinds
    BY DEF Pools, PoolKinds
  <2> QED BY <1>1, <2>1 DEF RightBlock
<1>6. FreedGuarded
  BY DEF FreedGuarded, Guarded, Marks
<1> QED BY <1>3, <1>4, <1>5, <1>6 DEF MarksKnown

\* NoFalseAlarms holds of ExecMem, if moreover CopyMem stays within blocks.
THEOREM NoAlarmIsFalse ==
  ASSUME High, Modest, Careful
  PROVE  MemSpec => []NoFalseAlarms
<1>1. MemInit => Books /\ Marks
  BY BooksInit, MarksInit
<1>2. Books /\ Marks /\ [MemNext]_memVars => Books' /\ Marks'
  BY BooksNext, MarksNext
<1>3. Books /\ Marks => NoFalseAlarms
  BY MarksClose
<1> QED BY <1>1, <1>2, <1>3, PTL DEF MemSpec

\* MarksKnown holds of ExecMem under the same assumptions.
THEOREM MarksAreKnown ==
  ASSUME High, Modest, Careful
  PROVE  MemSpec => []MarksKnown
<1>1. MemInit => Books /\ Marks
  BY BooksInit, MarksInit
<1>2. Books /\ Marks /\ [MemNext]_memVars => Books' /\ Marks'
  BY BooksNext, MarksNext
<1>3. Books /\ Marks => MarksKnown
  BY MarksClose
<1> QED BY <1>1, <1>2, <1>3, PTL DEF MemSpec
=============================================================================
