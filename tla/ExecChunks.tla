----------------------------- MODULE ExecChunks -----------------------------
(***************************************************************************)
(* Allocate and Deallocate of exec.library (execchunk.rs) on one pool that *)
(* the guest made: a MemHeader and a chain of free MemChunks that lie in   *)
(* the free memory itself.  A unit of the pool is the MEMCHUNK_SIZE bytes  *)
(* of a chunk's header.  The guest frees what it was given, once, with the *)
(* size it asked for.                                                      *)
(*                                                                         *)
(* The sanitizer's shadow of the pool is part of the model: the allocator  *)
(* reads and writes its chain through the checks that watch the guest.     *)
(***************************************************************************)
EXTENDS Integers, Sequences

CONSTANTS
  MEMCHUNK_SIZE, \* bytes of a unit
  Pool,          \* the chain the guest set up: a sequence of [at, bytes]
  MaxRequest     \* bound: bytes of a request

ASSUME UnitAssumption == MEMCHUNK_SIZE \in Nat \ {0} /\ MaxRequest \in Nat
ASSUME ChainAssumption ==
  /\ Pool \in Seq([at : Nat \ {0}, bytes : Nat \ {0}])
  /\ \A i, j \in DOMAIN Pool : i < j => Pool[i].at + Pool[i].bytes < Pool[j].at

VARIABLES
  chain,    \* mh_First and the chunks after it, their sizes in units
  mh_Free,  \* units free
  shadow,   \* what the sanitizer knows of each unit
  owned,    \* the guest's blocks, [at, asked]
  alarms,   \* units the allocator itself touched while they were poisoned
  reply     \* what the last call got

chunksVars == <<chain, mh_Free, shadow, owned, alarms, reply>>

Run(c) == c.at .. c.at + c.bytes - 1
Free(ch) == UNION {Run(ch[i]) : i \in DOMAIN ch}
Space == Free(Pool)
Sum(ch) == LET s[i \in 0 .. Len(ch)] == IF i = 0 THEN 0 ELSE s[i - 1] + ch[i].bytes
           IN  s[Len(ch)]

ChunksInit ==
  /\ chain = Pool
  /\ mh_Free = Sum(Pool)
  /\ shadow = [u \in Space |-> "Valid"]
  /\ owned = {}
  /\ alarms = {}
  /\ reply = <<"none", 0>>

round_up_to_memchunk(n) == (n + MEMCHUNK_SIZE - 1) \div MEMCHUNK_SIZE

\* The units of a block of the guest.
Block(b) == b.at .. b.at + round_up_to_memchunk(b.asked) - 1

\* The headers from mh_First to chunk i are read on the way.
Walked(ch, i) == {ch[j].at : j \in {k \in DOMAIN ch : k <= i}}
Poisoned(sh, units) == {u \in units : sh[u] = "Freed"}
Mark(sh, units, state) == [u \in DOMAIN sh |-> IF u \in units THEN state ELSE sh[u]]

\* The first chunk that is large enough.
Fits(size) == {i \in DOMAIN chain : chain[i].bytes >= size}
FirstFit(size) == CHOOSE i \in Fits(size) : \A j \in Fits(size) : i <= j

Cut(ch, i, size) ==
  LET left == [at |-> ch[i].at + size, bytes |-> ch[i].bytes - size] IN
  SubSeq(ch, 1, i - 1) \o (IF left.bytes = 0 THEN <<>> ELSE <<left>>)
                       \o SubSeq(ch, i + 1, Len(ch))

\* The leftover's header is exempted before it is written.
Exempted(sh, ch, i, size) ==
  IF ch[i].bytes = size THEN sh ELSE Mark(sh, {ch[i].at + size}, "Valid")
Leftover(ch, i, size) == IF ch[i].bytes = size THEN {} ELSE {ch[i].at + size}

Grant(requested) ==
  LET size == round_up_to_memchunk(requested)
      i    == FirstFit(size)
      at   == chain[i].at
      sh   == Exempted(shadow, chain, i, size)
  IN
  /\ size <= mh_Free /\ Fits(size) # {}
  /\ chain' = Cut(chain, i, size)
  /\ mh_Free' = mh_Free - size
  /\ alarms' = alarms \union Poisoned(shadow, Walked(chain, i))
                      \union Poisoned(sh, Leftover(chain, i, size))
  /\ shadow' = Mark(sh, at .. at + size - 1, "Uninit")
  /\ owned' = owned \union {[at |-> at, asked |-> requested]}
  /\ reply' = <<"granted", at>>

\* Nothing was asked for, too little is free, or it is in too small pieces.
NoChunk(requested) ==
  LET size == round_up_to_memchunk(requested) IN
  /\ requested = 0 \/ size > mh_Free \/ Fits(size) = {}
  /\ alarms' = IF requested = 0 \/ size > mh_Free THEN alarms
               ELSE alarms \union Poisoned(shadow, Walked(chain, Len(chain)))
  /\ reply' = IF requested = 0 THEN <<"none", 0>> ELSE <<"out of memory", size>>
  /\ UNCHANGED <<chain, mh_Free, shadow, owned>>

Allocate(requested) == (requested > 0 /\ Grant(requested)) \/ NoChunk(requested)

\* The insertion point: the first chunk that is not below the block.
Above(ch, at) == {i \in DOMAIN ch : ch[i].at >= at}
Place(ch, at) == IF Above(ch, at) = {} THEN Len(ch) + 1
                 ELSE CHOOSE i \in Above(ch, at) : \A j \in Above(ch, at) : i <= j

\* Chunks c and d are next to each other: one chunk, or both.
Coalesce(c, d) == IF c.at + c.bytes = d.at THEN <<[at |-> c.at, bytes |-> c.bytes + d.bytes]>>
                  ELSE <<c, d>>

\* The chain when a block is put back before chunk p.
bug_Merged(ch, p, block) ==
  LET joined == IF p = 1 THEN <<block>> ELSE Coalesce(ch[p - 1], block) IN
  SubSeq(ch, 1, p - 2) \o joined \o SubSeq(ch, p, Len(ch))
Merged(ch, p, block) ==
  LET below  == IF p = 1 THEN <<block>> ELSE Coalesce(ch[p - 1], block)
      joined == IF p > Len(ch) THEN below
                ELSE SubSeq(below, 1, Len(below) - 1) \o Coalesce(below[Len(below)], ch[p])
  IN  SubSeq(ch, 1, p - 2) \o joined \o SubSeq(ch, p + 1, Len(ch))

\* The block has become a part of the chunk below it.
Joins(ch, p, at) == p > 1 /\ ch[p - 1].at + ch[p - 1].bytes = at

\* The freed units are poisoned, the header of a block that is now a chunk of
\* the chain is not.
bug_FreedShadow(sh, at, size, joins) == Mark(sh, at .. at + size - 1, "Freed")
FreedShadow(sh, at, size, joins) ==
  Mark(sh, IF joins THEN at .. at + size - 1 ELSE at + 1 .. at + size - 1, "Freed")

Deallocate(b) ==
  LET size  == round_up_to_memchunk(b.asked)
      p     == Place(chain, b.at)
      joins == Joins(chain, p, b.at)
      sh    == IF joins THEN shadow ELSE Mark(shadow, {b.at}, "Valid")
  IN
  /\ b \in owned
  /\ chain' = Merged(chain, p, [at |-> b.at, bytes |-> size])
  /\ mh_Free' = mh_Free + size
  /\ alarms' = alarms \union Poisoned(shadow, Walked(chain, p))
                      \union (IF joins THEN {} ELSE Poisoned(shadow, {b.at}))
  /\ shadow' = FreedShadow(sh, b.at, size, joins)
  /\ owned' = owned \ {b}
  /\ reply' = <<"freed", b.at>>

\* Deallocate of NULL or of no bytes.
DeallocateNothing ==
  /\ reply' = <<"none", 0>>
  /\ UNCHANGED <<chain, mh_Free, shadow, owned, alarms>>

ChunksNext ==
  \/ \E n \in 0 .. MaxRequest : Allocate(n)
  \/ \E b \in owned : Deallocate(b)
  \/ DeallocateNothing

ChunksSpec == ChunksInit /\ [][ChunksNext]_chunksVars

-----------------------------------------------------------------------------
(* Properties *)

\* The pool is an arena: a block that is given was free, all of it, and is
\* nobody else's; a request is refused only when no run of free units is long
\* enough wherever it lies, which takes a chain that is coalesced on both
\* sides of every freed block; what is freed is free at once.
arena == INSTANCE Arena WITH
           spare <- Free(chain),
           held <- {<<b.at, b.at, b.at + round_up_to_memchunk(b.asked) - 1>> : b \in owned},
           resting <- <<>>,
           answer <- reply
ChunksAreArena == arena!Spec

\* The allocator never sets off the sanitizer itself: no header it reads or
\* writes is poisoned, and neither is a unit the guest owns.  Meanwhile the
\* chain stays in the order of addresses, no two of its chunks touch, and
\* mh_Free is what they add up to.
ChainSound ==
  /\ alarms = {}
  /\ \A b \in owned : Poisoned(shadow, Block(b)) = {}
  /\ \A i \in 1 .. Len(chain) - 1 : chain[i].at + chain[i].bytes < chain[i + 1].at
  /\ mh_Free = Sum(chain)
=============================================================================
