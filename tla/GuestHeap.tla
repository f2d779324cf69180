----------------------------- MODULE GuestHeap ------------------------------
(***************************************************************************)
(* The allocator of guest memory (guestmem.rs, GuestHeap): a first-fit     *)
(* free list, the table of live allocations, and the sanitizer's redzones  *)
(* and free quarantine.  Every structure a handler hands to the program    *)
(* comes from it.  It is single-threaded host bookkeeping: a call runs to  *)
(* its end.  The one loop whose length depends on the state, the drain of  *)
(* the quarantine, is modelled an iteration per step, and no call starts   *)
(* while it is going on.                                                   *)
(*                                                                         *)
(* Addresses and sizes are u32; MaxWord is the largest (2^32 - 1 in the    *)
(* code), beyond which checked arithmetic fails.                           *)
(***************************************************************************)
EXTENDS Integers, FiniteSets, Sequences

CONSTANTS
  MaxWord,        \* u32::MAX
  Start, End,     \* the arguments of GuestHeap::new
  Requests,       \* <<size, requested>> of the allocations callers ask for
  Strays,         \* addresses that callers pass to free, live or not
  RedzoneSizes,   \* arguments of set_redzone_size
  Budgets,        \* arguments of set_quarantine_budget
  Reservations,   \* <<start, len>> of reserve_range
  History         \* RECENTLY_FREED_HISTORY_CAPACITY

Word == 0..MaxWord

ASSUME WordAssumption == MaxWord \in Nat /\ MaxWord > 3 /\ MaxWord % 4 = 3
ASSUME RangeAssumption == Start \in Word /\ End \in Word
ASSUME InputsAssumption ==
  /\ Requests \subseteq Word \X Word
  /\ Reservations \subseteq Word \X Word
  /\ Strays \subseteq Word
  /\ RedzoneSizes \subseteq Word
  /\ Budgets \subseteq Word
ASSUME HistoryAssumption == History \in Nat \ {0}

VARIABLES
  free,               \* Vec<FreeBlock>, by start, no two adjacent
  live,               \* user address -> LiveAlloc
  redzone_size,
  quarantine_budget,
  quarantine,         \* blocks freed and not yet released, oldest first
  quarantine_bytes,   \* their total size
  recently_freed,     \* the last frees, oldest first (the serial is the order)
  reserved,           \* history: the addresses reserve_range took out
  answer              \* what the last call returned

settings == <<redzone_size, quarantine_budget>>
heapVars == <<free, live, settings, quarantine, quarantine_bytes, recently_freed,
          reserved, answer>>

\* Rounds up to a multiple of 4; what does not fit in a word saturates.
align_up(v) == IF v + 3 > MaxWord THEN MaxWord - 3 ELSE ((v + 3) \div 4) * 4
align_down(v) == (v \div 4) * 4

FreeBlock == [start : Word, size : Word]
LiveAlloc == [user_size : Word, requested : Word, block_start : Word, block_end : Word]
Replies == {"none", "granted", "out of memory", "freed", "invalid"}
QuarantinedBlock == [block_start : Word, block_end : Word]

Span(from, to) == from..(to - 1)
EndOf(b) == b.start + b.size

\* F with its entries from i to j replaced by those of B.
Splice(F, i, j, B) == SubSeq(F, 1, i - 1) \o B \o SubSeq(F, j + 1, Len(F))

-----------------------------------------------------------------------------
Base == align_up(Start)
Limit == align_down(End)

HeapInit ==
  /\ free = IF Limit > Base THEN <<[start |-> Base, size |-> Limit - Base]>> ELSE <<>>
  /\ live = [u \in {} |-> [user_size |-> 0, requested |-> 0, block_start |-> 0, block_end |-> 0]]
  /\ redzone_size = 0
  /\ quarantine_budget = 0
  /\ quarantine = <<>>
  /\ quarantine_bytes = 0
  /\ recently_freed = <<>>
  /\ reserved = {}
  /\ answer = <<"none", 0>>

\* The loop condition of drain_quarantine_over_budget.
Draining == quarantine_bytes > quarantine_budget /\ quarantine # <<>>

\* Only neighbours on the left are merged.
bug_release_block(from, to) ==
  \E at \in 1..(Len(free) + 1) :
    LET left  == at > 1 /\ EndOf(free[at - 1]) = from
        start == IF left THEN free[at - 1].start ELSE from
    IN  /\ \A i \in 1..(at - 1) : free[i].start <= from
        /\ at <= Len(free) => free[at].start > from
        /\ free' = Splice(free, IF left THEN at - 1 ELSE at, at - 1,
                          <<[start |-> start, size |-> to - start]>>)

\* [from, to) goes back between its neighbours, merged with those it touches.
release_block(from, to) ==
  \E at \in 1..(Len(free) + 1) :
    LET left  == at > 1 /\ EndOf(free[at - 1]) = from
        right == at <= Len(free) /\ free[at].start = to
        start == IF left THEN free[at - 1].start ELSE from
        end   == IF right THEN EndOf(free[at]) ELSE to
    IN  /\ \A i \in 1..(at - 1) : free[i].start <= from
        /\ at <= Len(free) => free[at].start > from
        /\ free' = Splice(free, IF left THEN at - 1 ELSE at,
                                IF right THEN at ELSE at - 1,
                          <<[start |-> start, size |-> end - start]>>)

total_needed(size) == 2 * redzone_size + align_up(size)

HasRoom(b, size) == total_needed(size) <= MaxWord /\ b.size >= total_needed(size)

\* The caller's size is recorded as it was given.
bug_Recorded(size, requested) == requested

\* The size the caller asked for, clamped to what is reserved for it.
Recorded(size, requested) ==
  IF requested < align_up(size) THEN requested ELSE align_up(size)

\* alloc, alloc_with_requested: the first block that is large enough.
alloc(size, requested) ==
  \E i \in 1..Len(free) :
    LET block       == free[i]
        block_end   == block.start + total_needed(size)
        user_start  == block.start + redzone_size
        entry       == [user_size |-> align_up(size),
                        requested |-> Recorded(size, requested),
                        block_start |-> block.start, block_end |-> block_end]
    IN  /\ HasRoom(block, size)
        /\ \A j \in 1..(i - 1) : ~HasRoom(free[j], size)
        /\ free' = Splice(free, i, i,
                          IF block.size = total_needed(size) THEN <<>>
                          ELSE <<[start |-> block_end,
                                  size |-> block.size - total_needed(size)]>>)
        /\ live' = [u \in DOMAIN live \union {user_start} |->
                      IF u = user_start THEN entry ELSE live[u]]
        /\ answer' = <<"granted", user_start>>
        /\ UNCHANGED <<settings, quarantine, quarantine_bytes, recently_freed, reserved>>

OutOfMemory(size) ==
  /\ \A i \in 1..Len(free) : ~HasRoom(free[i], size)
  /\ answer' = <<"out of memory", total_needed(size)>>
  /\ UNCHANGED <<free, live, settings, quarantine, quarantine_bytes,
                 recently_freed, reserved>>

\* The range must lie in one free block, which is split around it.
reserve_range(start, len) ==
  LET end == start + len
      Around(b) == b.start <= start /\ end <= EndOf(b)
  IN  /\ IF len > 0 /\ end <= MaxWord /\ \E i \in 1..Len(free) : Around(free[i])
         THEN \E i \in 1..Len(free) :
                LET block == free[i]
                    head == IF block.start < start
                            THEN <<[start |-> block.start, size |-> start - block.start]>>
                            ELSE <<>>
                    tail == IF end < EndOf(block)
                            THEN <<[start |-> end, size |-> EndOf(block) - end]>>
                            ELSE <<>>
                IN  /\ Around(block)
                    /\ free' = Splice(free, i, i, head \o tail)
                    /\ reserved' = reserved \union Span(start, end)
         ELSE UNCHANGED <<free, reserved>>
      /\ answer' = <<"none", 0>>
      /\ UNCHANGED <<live, settings, quarantine, quarantine_bytes, recently_freed>>

\* The history forgets its newest entry when it is full.
bug_record_recently_freed(addr, size) ==
  LET longer == Append(recently_freed, [addr |-> addr, size |-> size])
  IN  recently_freed' = SubSeq(longer, 1, IF Len(longer) > History THEN History ELSE Len(longer))

record_recently_freed(addr, size) ==
  LET longer == Append(recently_freed, [addr |-> addr, size |-> size])
  IN  recently_freed' = IF Len(longer) > History THEN Tail(longer) ELSE longer

\* The block is queued without its redzones.
bug_quarantined(addr) ==
  [block_start |-> addr, block_end |-> addr + live[addr].user_size]

quarantined(addr) ==
  [block_start |-> live[addr].block_start, block_end |-> live[addr].block_end]

LengthOf(q) == q.block_end - q.block_start

\* Only the user's bytes are counted.
bug_counted(addr) == live[addr].user_size

counted(addr) == LengthOf(quarantined(addr))

free_block(addr) ==
  /\ addr \in DOMAIN live
  /\ live' = [u \in DOMAIN live \ {addr} |-> live[u]]
  /\ record_recently_freed(addr, live[addr].user_size)
  /\ IF quarantine_budget > 0
     THEN /\ quarantine' = Append(quarantine, quarantined(addr))
          /\ quarantine_bytes' = quarantine_bytes + counted(addr)
          /\ UNCHANGED free
     ELSE /\ release_block(live[addr].block_start, live[addr].block_end)
          /\ UNCHANGED <<quarantine, quarantine_bytes>>
  /\ answer' = <<"freed", addr>>
  /\ UNCHANGED <<settings, reserved>>

DoubleOrInvalidFree(addr) ==
  /\ addr \notin DOMAIN live
  /\ answer' = <<"invalid", addr>>
  /\ UNCHANGED <<free, live, settings, quarantine, quarantine_bytes,
                 recently_freed, reserved>>

\* One iteration of the loop: the oldest block is released.
drain_quarantine_over_budget ==
  /\ release_block(Head(quarantine).block_start, Head(quarantine).block_end)
  /\ quarantine_bytes' = quarantine_bytes - LengthOf(Head(quarantine))
  /\ quarantine' = Tail(quarantine)
  /\ UNCHANGED <<live, settings, recently_freed, reserved, answer>>

set_redzone_size(size) ==
  /\ redzone_size' = align_up(size)
  /\ answer' = <<"none", 0>>
  /\ UNCHANGED <<free, live, quarantine_budget, quarantine, quarantine_bytes,
                 recently_freed, reserved>>

\* The drain that follows is the loop above.
set_quarantine_budget(budget) ==
  /\ quarantine_budget' = budget
  /\ answer' = <<"none", 0>>
  /\ UNCHANGED <<free, live, redzone_size, quarantine, quarantine_bytes,
                 recently_freed, reserved>>

Calls ==
  \/ \E r \in Requests : alloc(r[1], r[2]) \/ OutOfMemory(r[1])
  \/ \E addr \in DOMAIN live : free_block(addr)
  \/ \E addr \in Strays : DoubleOrInvalidFree(addr)
  \/ \E r \in Reservations : reserve_range(r[1], r[2])
  \/ \E size \in RedzoneSizes : set_redzone_size(size)
  \/ \E budget \in Budgets : set_quarantine_budget(budget)

HeapNext ==
  \/ Draining /\ drain_quarantine_over_budget
  \/ ~Draining /\ Calls

HeapSpec == HeapInit /\ [][HeapNext]_heapVars

-----------------------------------------------------------------------------
Managed == Span(Base, Limit)
BlockOf(u) == Span(live[u].block_start, live[u].block_end)
Spare == UNION {Span(free[i].start, EndOf(free[i])) : i \in DOMAIN free}
Held == UNION {BlockOf(u) : u \in DOMAIN live}
RestOf(q) == Span(q.block_start, q.block_end)
Resting == UNION {RestOf(quarantine[i]) : i \in DOMAIN quarantine}

HeapTypeOK ==
  /\ free \in Seq(FreeBlock)
  /\ DOMAIN live \subseteq Word /\ \A u \in DOMAIN live : live[u] \in LiveAlloc
  /\ redzone_size \in Word /\ quarantine_budget \in Word
  /\ quarantine \in Seq(QuarantinedBlock)
  /\ quarantine_bytes \in Word
  /\ recently_freed \in Seq([addr : Word, size : Word])
  /\ reserved \subseteq Word
  /\ answer \in Replies \X Nat

(* No address is lost and none has two owners: the managed range is exactly
   the free blocks, the blocks of live allocations with their redzones, the
   quarantined blocks and the reserved ranges, and all of these are disjoint.
   alloc, free, the drain and reserve_range each move blocks between two of
   them by arithmetic on starts and ends. *)
Partition ==
  /\ Spare \union Held \union Resting \union reserved = Managed
  /\ Spare \intersect (Held \union Resting \union reserved) = {}
  /\ Held \intersect (Resting \union reserved) = {}
  /\ Resting \intersect reserved = {}
  /\ \A u, v \in DOMAIN live : u # v => BlockOf(u) \intersect BlockOf(v) = {}
  /\ \A i, j \in DOMAIN quarantine : i # j =>
       RestOf(quarantine[i]) \intersect RestOf(quarantine[j]) = {}

(* The running total quarantine_bytes is the number of addresses in quarantine
   (it is kept by additions and subtractions, and a drift would either stop
   the quarantine from releasing or empty it too soon), and between calls it is
   within the budget. *)
QuarantineExact ==
  /\ quarantine_bytes = Cardinality(Resting)
  /\ quarantine_bytes > quarantine_budget => Draining

(* Of every live allocation the four ranges of AllocExtent lie in order in its
   block and the two redzones are alike, whatever the redzone size is now and
   whatever the caller said it requested: the sanitizer derives lengths by
   subtracting these fields. *)
ExtentsRight ==
  \A u \in DOMAIN live :
    LET l == live[u]
    IN  /\ l.block_start <= u
        /\ l.requested <= l.user_size
        /\ u + l.user_size <= l.block_end
        /\ u - l.block_start = l.block_end - (u + l.user_size)

(* The newest entries of the history of frees are those of the newest blocks of
   the quarantine, in order, as far as the history reaches: a use after free of
   a quarantined block can be told by recently_freed_info. *)
HistoryMatches ==
  \A k \in 1..History :
    k <= Len(quarantine) =>
      /\ k <= Len(recently_freed)
      /\ LET q == quarantine[Len(quarantine) + 1 - k]
             r == recently_freed[Len(recently_freed) + 1 - k]
         IN  Span(r.addr, r.addr + r.size) \subseteq Span(q.block_start, q.block_end)

(* What the heap remembers of blocks, live or freed, is the blocks: the
   sanitizer and the use-after-free report derive addresses and lengths from
   these records long after the redzone size that made them has changed. *)
RecordsRight == ExtentsRight /\ HistoryMatches

\* The heap as an arena: runs by their first and last address.
Grants == {<<u, live[u].block_start, live[u].block_end - 1>> : u \in DOMAIN live}
RestingRuns == [i \in DOMAIN quarantine |->
                  <<quarantine[i].block_start, quarantine[i].block_end - 1>>]

A == INSTANCE Arena WITH
       Space <- Managed, spare <- Spare, held <- Grants, resting <- RestingRuns,
       answer <- answer

(* The heap is an arena: a grant is a run of addresses nobody has, a refusal
   means that nowhere are that many spare addresses in a row (so free blocks
   that touch are always merged), a block freed is exactly the block granted,
   an address that is not live is rejected, and freed blocks become available
   in the order of their frees even if the budget changes in between. *)
HeapIsArena == A!Spec
=============================================================================
