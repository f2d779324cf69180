------------------------------ MODULE ExecMem -------------------------------
(***************************************************************************)
(* exec.library's allocators on the guest heap, with the sanitizer         *)
(* (execmem.rs over guestmem.rs, sanitize.rs and memory.rs): AllocMem,     *)
(* AllocVec, memory lists and pools, CopyMem, and what the shadow map says *)
(* of every byte meanwhile.  The heap is the module GuestHeap, whose       *)
(* actions the handlers here call.                                         *)
(*                                                                         *)
(* One handler is one step, but for AllocEntry and FreeEntry, which        *)
(* allocate and free several blocks: each of those is a step (the heap     *)
(* drains its quarantine in between) and no other call is made meanwhile.  *)
(*                                                                         *)
(* The program may call anything with any block it holds, and with stray   *)
(* addresses; what it may do with CopyMem is the constant Careful.         *)
(***************************************************************************)
EXTENDS Integers, FiniteSets, Sequences, Functions

CONSTANTS
  MaxWord, Start, End,  \* as in GuestHeap
  Redzone,              \* DEFAULT_REDZONE_SIZE
  Quarantine,           \* DEFAULT_QUARANTINE_BUDGET
  Sizes,                \* byteSize arguments
  Templates,            \* memory lists for AllocEntry, a <<me_Length, MEMF_CLEAR>> for each entry
  Touched,              \* addresses the program writes to
  Strays,               \* addresses it passes to the freeing calls by mistake
  CopySizes,            \* lengths it passes to CopyMem
  Careful               \* whether CopyMem stays within blocks and does not overlap

ASSUME WordAssumption == MaxWord \in Nat /\ MaxWord > 7 /\ MaxWord % 4 = 3
ASSUME RangeAssumption == Start \in 0..MaxWord /\ End \in 0..MaxWord
ASSUME ArgumentsAssumption ==
  /\ Redzone \in 0..MaxWord /\ Quarantine \in 0..MaxWord
  /\ Sizes \subseteq 0..MaxWord /\ CopySizes \subseteq 0..MaxWord
  /\ Templates \subseteq Seq((0..MaxWord) \X BOOLEAN)
  /\ Touched \subseteq 0..MaxWord /\ Strays \subseteq 1..MaxWord
  /\ Careful \in BOOLEAN

VARIABLES
  free, live, redzone_size, quarantine_budget, quarantine, quarantine_bytes,
  recently_freed, reserved, answer,    \* the heap
  shadow,    \* ShadowMap.bytes: what the sanitizer knows of each address
  call,      \* the AllocEntry or FreeEntry in progress
  phase,    \* running, or the program ended by a refused call
  kept,      \* history: the blocks the program was given and has not freed
  leaked,    \* history: the heap blocks it can no longer free
  written,   \* history: the bytes of its blocks that have a value
  bare,      \* history: the blocks in quarantine that DeletePool freed
  accused    \* history: the bytes of the last handler's own writes that were reported

heap == <<free, live, redzone_size, quarantine_budget, quarantine, quarantine_bytes,
          recently_freed, reserved, answer>>
program == <<kept, leaked, written>>
memVars == <<heap, shadow, call, phase, program, bare, accused>>

H == INSTANCE GuestHeap WITH
       Requests <- {}, RedzoneSizes <- {}, Budgets <- {}, Reservations <- {}, History <- 1

MEMBLOCKSIZE == 8
ALLOCVEC_HEADER_SIZE == 8
POOL_HEADER_SIZE == 8
ML_FIRST_ENTRY_OFFSET == 16
MEMENTRY_SIZE == 8

round_up_8(v) == IF v + 7 > MaxWord THEN MaxWord - 7 ELSE ((v + 7) \div 8) * 8

Bytes(from, len) == from..(from + len - 1)

-----------------------------------------------------------------------------
(* The shadow map.  A byte is valid, uninit, or unaddressable for a reason. *)

Reasons == {"redzone", "slack", "freed"}
Unaddressable(s, a) == s[a] \in Reasons

Marked(s, addrs, state) == [a \in DOMAIN s |-> IF a \in addrs THEN state ELSE s[a]]

\* check_write over a range: every uninit byte becomes valid, and the
\* unaddressable ones are reported and stay what they are.
Healed(s, addrs) ==
  [a \in DOMAIN s |-> IF a \in addrs /\ s[a] = "uninit" THEN "valid" ELSE s[a]]
Reported(s, addrs) == {a \in addrs \intersect DOMAIN s : Unaddressable(s, a)}

\* What alloc_with_requested does to the whole block before anyone sees it.
bug_clear_fresh_block(s, l) == s
clear_fresh_block(s, l) == Marked(s, H!Span(l.block_start, l.block_end), "valid")

\* The redzones and the slack of block l at u; its bytes, if asked, as uninit.
bug_poison_allocation_edges(s, l, u, mark_data_uninit) ==
  LET data  == Bytes(u, l.requested)
      slack == H!Span(u + l.requested, u + l.user_size)
      edges == H!Span(l.block_start, u) \union H!Span(u + l.user_size, l.block_end)
  IN  [a \in DOMAIN s |-> CASE a \in edges -> "redzone"
                            [] a \in slack -> "slack"
                            [] a \in data /\ ~mark_data_uninit -> "uninit"
                            [] OTHER -> s[a]]

bug_no_edges(s, l, u, mark_data_uninit) ==
  IF mark_data_uninit THEN Marked(s, Bytes(u, l.requested), "uninit") ELSE s

poison_allocation_edges(s, l, u, mark_data_uninit) ==
  LET data  == Bytes(u, l.requested)
      slack == H!Span(u + l.requested, u + l.user_size)
      edges == H!Span(l.block_start, u) \union H!Span(u + l.user_size, l.block_end)
  IN  [a \in DOMAIN s |-> CASE a \in edges -> "redzone"
                            [] a \in slack -> "slack"
                            [] a \in data /\ mark_data_uninit -> "uninit"
                            [] OTHER -> s[a]]

\* After the free the extent is gone and nothing is poisoned.
bug_poison_freed_block(s, u) == s

\* The whole block of u, redzones included, before it is freed.
poison_freed_block(s, u) ==
  Marked(s, H!Span(live[u].block_start, live[u].block_end), "freed")

\* ShadowMap::copy_range, when source and destination do not overlap: each
\* byte takes over the state of its source, an unaddressable one as valid.
copied(s, src, dest, len) ==
  [a \in DOMAIN s |->
     IF a \notin Bytes(dest, len) THEN s[a]
     ELSE LET from == src + (a - dest)
          IN  IF from \in DOMAIN s /\ s[from] = "uninit" THEN "uninit" ELSE "valid"]

-----------------------------------------------------------------------------
NoCall == [name |-> "none"]

MemInit ==
  /\ H!HeapInit
  /\ shadow = [a \in H!Managed |-> "valid"]
  /\ call = [name |-> "starting"]
  /\ phase = "running"
  /\ kept = {} /\ leaked = {} /\ written = {} /\ bare = {} /\ accused = {}

\* Runtime::enable_heap_sanitizer, before the program runs.
enable_heap_sanitizer ==
  /\ call.name = "starting"
  /\ redzone_size' = H!align_up(Redzone)
  /\ quarantine_budget' = Quarantine
  /\ call' = NoCall
  /\ UNCHANGED <<free, live, quarantine, quarantine_bytes, recently_freed, reserved,
                 answer, shadow, phase, program, bare, accused>>

\* The free quarantine of the heap is over its budget: the call that freed
\* the block has not returned yet.
drain_quarantine_over_budget ==
  /\ H!Draining
  /\ H!drain_quarantine_over_budget
  /\ bare' = bare \ {Head(quarantine).block_start}
  /\ UNCHANGED <<shadow, call, phase, program, accused>>

MayCall == phase = "running" /\ call.name = "none" /\ ~H!Draining
Working(name) == phase = "running" /\ call.name = name /\ ~H!Draining

\* A block the program holds: ptr is what it was given, block the heap's
\* address of it, size what it asked for, of its pool, and entries what a
\* memory list says of the blocks it came with.
Holding(ptr, block, size, kind) ==
  [ptr |-> ptr, block |-> block, size |-> size, kind |-> kind, of |-> 0, entries |-> <<>>]
BytesOf(b) == Bytes(b.ptr, b.size)

\* The bytes whose values the history follows: of blocks the program holds, and
\* of those that a deleted pool left behind.
Data ==
  (UNION {BytesOf(b) : b \in kept}) \union (UNION {Bytes(u, live[u].requested) : u \in leaked})

\* A handler that ends the program.
Fails ==
  /\ phase' = "failed"
  /\ UNCHANGED <<heap, shadow, call, program, bare, accused>>

\* NULL is returned: no memory, or a request for no bytes.
ReturnsNull(rounded) ==
  /\ H!OutOfMemory(rounded)
  /\ UNCHANGED <<shadow, call, phase, program, bare, accused>>

\* The shadow of a block just taken from the heap whose user bytes are then
\* zeroed or filled with the dirty pattern, through checked writes.
Filled(l, u) == Healed(clear_fresh_block(shadow, l), Bytes(u, l.user_size))
FillReports(l, u) == Reported(clear_fresh_block(shadow, l), Bytes(u, l.user_size))

\* AllocMem's treatment of a block; AllocPooled's and that of an entry of a
\* memory list is the same.  The program may read what is cleared.
allocated(size, clear) ==
  /\ H!alloc(round_up_8(size), size)
  /\ LET u == answer'[2]
     IN  /\ shadow' = poison_allocation_edges(Filled(live'[u], u), live'[u], u, ~clear)
         /\ accused' = FillReports(live'[u], u)
         /\ written' = IF clear THEN written \union Bytes(u, size) ELSE written \ Bytes(u, size)

alloc_mem_handler(size, clear) ==
  /\ MayCall /\ size > 0
  /\ allocated(size, clear)
  /\ kept' = kept \union {Holding(answer'[2], answer'[2], size, "mem")}
  /\ UNCHANGED <<call, phase, leaked, bare>>

\* The header is written, then the program's part is zeroed or filled; only
\* that part is then marked uninit.  The slack behind it is not told apart
\* from it: the heap is asked for the rounded size.
alloc_vec_handler(size, clear) ==
  /\ MayCall /\ size > 0
  /\ LET user_rounded == round_up_8(size)
         total == (user_rounded + ALLOCVEC_HEADER_SIZE) % (MaxWord + 1)
     IN  /\ H!alloc(total, total)
         /\ LET u == answer'[2]
                user_ptr == u + ALLOCVEC_HEADER_SIZE
                edged == poison_allocation_edges(Filled(live'[u], u), live'[u], u, FALSE)
            IN  /\ shadow' = IF clear THEN edged ELSE Marked(edged, Bytes(user_ptr, user_rounded), "uninit")
                /\ accused' = FillReports(live'[u], u)
                /\ kept' = kept \union {Holding(user_ptr, u, user_rounded, "vec")}
                /\ written' = IF clear THEN written \union Bytes(user_ptr, user_rounded)
                                       ELSE written \ Bytes(user_ptr, user_rounded)
  /\ UNCHANGED <<call, phase, leaked, bare>>

\* The pool is a header with its requirements; its edges are not poisoned.
create_pool_handler(clear) ==
  /\ MayCall
  /\ H!alloc(POOL_HEADER_SIZE, POOL_HEADER_SIZE)
  /\ LET u == answer'[2]
     IN  /\ shadow' = Filled(live'[u], u)
         /\ accused' = FillReports(live'[u], u)
         /\ kept' = kept \union {Holding(u, u, POOL_HEADER_SIZE,
                                         IF clear THEN "clearing pool" ELSE "pool")}
         /\ written' = written \union Bytes(u, POOL_HEADER_SIZE)
  /\ UNCHANGED <<call, phase, leaked, bare>>

Pools == {b \in kept : b.kind \in {"pool", "clearing pool"}}

alloc_pooled_handler(p, size) ==
  /\ MayCall /\ size > 0
  /\ p \in Pools
  /\ allocated(size, p.kind = "clearing pool")
  /\ kept' = kept \union {[Holding(answer'[2], answer'[2], size, "pooled") EXCEPT !.of = p.ptr]}
  /\ UNCHANGED <<call, phase, leaked, bare>>

Refused ==
  /\ MayCall
  /\ \/ \E size \in Sizes \ {0} : ReturnsNull(round_up_8(size))
     \/ \E size \in Sizes \ {0} :
          ReturnsNull((round_up_8(size) + ALLOCVEC_HEADER_SIZE) % (MaxWord + 1))
     \/ ReturnsNull(POOL_HEADER_SIZE)

\* The heap block at u is poisoned and then freed.
poisoned_and_freed(u) ==
  /\ shadow' = poison_freed_block(shadow, u)
  /\ H!free_block(u)

\* FreeMem, FreeVec, FreePooled of a block with its right size.  (FreeMem also
\* forgets a timer request there: that is abort_io_handler of ExecTasks.)
free_handler(b) ==
  /\ MayCall
  /\ b \in kept \ Pools /\ b.kind # "list"
  /\ poisoned_and_freed(b.block)
  /\ kept' = kept \ {b}
  /\ written' = written \ BytesOf(b)
  /\ UNCHANGED <<call, phase, leaked, bare, accused>>

\* FreeMem, FreePooled with a wrong size, or any of the three with an address
\* at which nothing is live.
bad_free_handler ==
  /\ MayCall
  /\ \/ \E b \in kept, size \in Sizes :
          b.kind \in {"mem", "pooled"} /\ round_up_8(size) # live[b.block].user_size
     \/ \E addr \in Strays : addr \notin DOMAIN live
     \/ \E addr \in Strays :
          addr >= ALLOCVEC_HEADER_SIZE /\ addr - ALLOCVEC_HEADER_SIZE \notin DOMAIN live
  /\ Fails

\* The header is freed without being poisoned; the pool's blocks stay live.
delete_pool_handler(p) ==
  /\ MayCall
  /\ p \in Pools
  /\ H!free_block(p.ptr)
  /\ LET gone == {b \in kept : b.kind = "pooled" /\ b.of = p.ptr}
     IN  /\ kept' = kept \ (gone \union {p})
         /\ leaked' = leaked \union {b.block : b \in gone}
         /\ written' = written \ BytesOf(p)
  /\ bare' = bare \union {live[p.ptr].block_start}
  /\ UNCHANGED <<shadow, call, phase, accused>>

\* DeletePool of anything else that is not live does nothing.
delete_no_pool_handler(addr) ==
  /\ MayCall
  /\ H!DoubleOrInvalidFree(addr)
  /\ UNCHANGED <<shadow, call, phase, program, bare, accused>>

-----------------------------------------------------------------------------
(* AllocEntry: the new memory list, then a block for each entry; when one    *)
(* fails, all of them are given back.                                        *)

list_size(n) == ML_FIRST_ENTRY_OFFSET + n * MEMENTRY_SIZE

alloc_entry_handler(template) ==
  /\ MayCall
  /\ H!alloc(round_up_8(list_size(Len(template))), list_size(Len(template)))
  /\ LET u == answer'[2]
     IN  /\ shadow' = Filled(live'[u], u)
         /\ accused' = FillReports(live'[u], u)
         /\ call' = [name |-> "AllocEntry", list |-> u, left |-> template,
                     got |-> <<>>, size |-> list_size(Len(template))]
  /\ UNCHANGED <<phase, program, bare>>

alloc_entry_refused(template) ==
  /\ MayCall
  /\ ReturnsNull(round_up_8(list_size(Len(template))))

alloc_entry_next ==
  /\ Working("AllocEntry") /\ call.left # <<>>
  /\ Head(call.left)[1] > 0
  /\ allocated(Head(call.left)[1], Head(call.left)[2])
  /\ call' = [call EXCEPT !.left = Tail(@),
                          !.got = Append(@, <<answer'[2], Head(call.left)[1]>>)]
  /\ UNCHANGED <<phase, kept, leaked, bare>>

\* An entry of no bytes, or no memory for it.
alloc_entry_fails ==
  /\ Working("AllocEntry") /\ call.left # <<>>
  /\ IF Head(call.left)[1] = 0 THEN UNCHANGED heap
                               ELSE H!OutOfMemory(round_up_8(Head(call.left)[1]))
  /\ call' = [call EXCEPT !.name = "backing out"]
  /\ UNCHANGED <<shadow, phase, program, bare, accused>>

\* The list's own edges come last, after all that was written into it.
alloc_entry_done ==
  /\ Working("AllocEntry") /\ call.left = <<>>
  /\ shadow' = poison_allocation_edges(shadow, live[call.list], call.list, FALSE)
  /\ LET list == [Holding(call.list, call.list, call.size, "list") EXCEPT !.entries = call.got]
         blocks == {Holding(e[1], e[1], e[2], "mem") : e \in Range(call.got)}
     IN  kept' = kept \union {list} \union blocks
  /\ written' = written \union Bytes(call.list, call.size)
  /\ call' = NoCall
  /\ UNCHANGED <<heap, phase, leaked, bare, accused>>

\* The list is forgotten.
bug_backed_out ==
  /\ shadow' = shadow
  /\ UNCHANGED heap
  /\ call' = NoCall

\* The memory list is freed last and the call returns.
backed_out ==
  /\ poisoned_and_freed(call.list)
  /\ call' = NoCall

alloc_entry_back_out ==
  /\ Working("backing out")
  /\ IF call.got # <<>>
     THEN /\ poisoned_and_freed(Head(call.got)[1])
          /\ call' = [call EXCEPT !.got = Tail(@)]
     ELSE backed_out
  /\ UNCHANGED <<phase, program, bare, accused>>

\* FreeEntry frees what the list says, and then the list.
free_entry_handler(b) ==
  /\ MayCall
  /\ b \in kept /\ b.kind = "list"
  /\ call' = [name |-> "FreeEntry", left |-> Append(b.entries, <<b.ptr, b.size>>)]
  /\ UNCHANGED <<heap, shadow, phase, program, bare, accused>>

\* The block the list names next is live, with that size: perhaps no longer
\* the one it came with.
free_entry_next ==
  /\ Working("FreeEntry")
  /\ LET addr == Head(call.left)[1]
         gone == {b \in kept : b.block = addr}
     IN  /\ addr \in DOMAIN live
         /\ live[addr].user_size = round_up_8(Head(call.left)[2])
         /\ poisoned_and_freed(addr)
         /\ kept' = kept \ gone
         /\ leaked' = leaked \ {addr}
         /\ written' = written \ Bytes(addr, live[addr].user_size)
  /\ call' = IF Len(call.left) = 1 THEN NoCall ELSE [call EXCEPT !.left = Tail(@)]
  /\ UNCHANGED <<phase, bare, accused>>

\* An entry that is not live, or not with that size: the blocks before it are
\* freed, the rest are not.
free_entry_fails ==
  /\ Working("FreeEntry")
  /\ LET addr == Head(call.left)[1]
     IN  addr \in DOMAIN live => live[addr].user_size # round_up_8(Head(call.left)[2])
  /\ Fails

-----------------------------------------------------------------------------
\* The program, or a handler that fills its buffer, writes a byte.
write_u8(a) ==
  /\ MayCall
  /\ a \in DOMAIN shadow
  /\ shadow' = Healed(shadow, {a})
  /\ written' = written \union ({a} \intersect Data)
  /\ UNCHANGED <<heap, call, phase, kept, leaked, bare, accused>>

Owned(addrs) == \E b \in kept \ Pools : addrs \subseteq BytesOf(b)

copy_mem_handler(src, dest, len) ==
  /\ MayCall
  /\ Bytes(src, len) \intersect Bytes(dest, len) = {}
  /\ Careful => Owned(Bytes(dest, len))
  /\ shadow' = copied(shadow, src, dest, len)
  /\ LET filled == {a \in Bytes(dest, len) : src + (a - dest) \notin Data \ written}
     IN  written' = (written \ Bytes(dest, len)) \union (filled \intersect Data)
  /\ UNCHANGED <<heap, call, phase, kept, leaked, bare, accused>>

Allocate ==
  \/ \E size \in Sizes, clear \in BOOLEAN :
       alloc_mem_handler(size, clear) \/ alloc_vec_handler(size, clear)
  \/ \E clear \in BOOLEAN : create_pool_handler(clear)
  \/ \E p \in Pools, size \in Sizes : alloc_pooled_handler(p, size)
  \/ Refused

Release ==
  \/ \E b \in kept : free_handler(b) \/ delete_pool_handler(b)
  \/ \E addr \in Strays : delete_no_pool_handler(addr)
  \/ bad_free_handler

Entry ==
  \/ \E template \in Templates : alloc_entry_handler(template) \/ alloc_entry_refused(template)
  \/ alloc_entry_next \/ alloc_entry_fails \/ alloc_entry_done \/ alloc_entry_back_out
  \/ \E b \in kept : free_entry_handler(b)
  \/ free_entry_next \/ free_entry_fails

Access ==
  \/ \E a \in Touched : write_u8(a)
  \/ \E src, dest \in {b.ptr : b \in kept}, len \in CopySizes : copy_mem_handler(src, dest, len)

MemNext == enable_heap_sanitizer \/ drain_quarantine_over_budget \/ Allocate \/ Release \/ Entry \/ Access

MemSpec == MemInit /\ [][MemNext]_memVars

-----------------------------------------------------------------------------
Backed(b) == /\ b.block \in DOMAIN live
             /\ BytesOf(b) \subseteq Bytes(b.block, live[b.block].user_size)

(* Between calls every live heap block is one the program holds or one that a
   deleted pool left behind, and every block the program holds lies in a live
   heap block of its own: AllocEntry that fails half way gives everything back,
   and no handler frees a block twice or forgets one. *)
NothingLeaks ==
  call = NoCall =>
    /\ DOMAIN live = {b.block : b \in kept} \union leaked
    /\ \A b \in kept : Backed(b)
    /\ \A b, c \in kept : b.block = c.block => b = c

(* The sanitizer never reports what is right: the bytes of a block the program
   holds are addressable, those that have a value are valid, and no handler is
   reported for zeroing or filling a block it hands out (the order that
   poison_allocation_edges' comment asks for). *)
NoFalseAlarms ==
  /\ accused = {}
  /\ \A b \in kept : \A a \in BytesOf(b) :
       /\ ~Unaddressable(shadow, a)
       /\ a \in written => shadow[a] = "valid"

(* Bytes of a block that never got a value stay uninit, whatever was copied
   or written around them: a read of one can be reported. *)
UninitKnown ==
  \A b \in kept \ Pools : \A a \in BytesOf(b) \ written : shadow[a] = "uninit"

(* As long as a block is held, its redzones and its slack are unaddressable:
   an access that runs off either end is recorded. *)
EdgesGuarded ==
  \A b \in kept \ Pools :
    LET l == live[b.block]
        user_end == b.block + l.user_size
    IN  /\ \A a \in H!Span(l.block_start, b.block) \union H!Span(user_end, l.block_end) :
             shadow[a] = "redzone"
        /\ \A a \in H!Span(b.ptr + b.size, user_end) : shadow[a] = "slack"

(* As long as a block is in quarantine all of it is unaddressable, so that its
   use after the free is recorded (headers of deleted pools excepted). *)
FreedGuarded ==
  \A i \in DOMAIN quarantine :
    quarantine[i].block_start \notin bare =>
      \A a \in H!RestOf(quarantine[i]) : shadow[a] = "freed"

(* Every access that is wrong is seen for as long as it is wrong: to what never
   got a value, off either end of a kept block, or anywhere in a freed one
   (poison_allocation_edges, poison_freed_block, copy_range and the order of
   the handlers' steps). *)
MarksKnown == UninitKnown /\ EdgesGuarded /\ FreedGuarded
=============================================================================
