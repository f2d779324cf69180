------------------------------ MODULE DosSegs -------------------------------
(***************************************************************************)
(* LoadSeg and UnLoadSeg (dosseg.rs): the hunks of a program, linked and   *)
(* relocated in memory, and the nodes of an overlay program, which its     *)
(* overlay manager loads one by one and displaces with FreeMem.            *)
(*                                                                         *)
(* A hunk is the list of hunks that its relocations name, numbered from 1; *)
(* its bytes, sizes and offsets are left out.  An allocation takes the     *)
(* lowest block, or fails.                                                 *)
(***************************************************************************)
EXTENDS Naturals, SequencesExt

CONSTANTS
  MaxBlock,     \* bound: heap blocks
  Plain,        \* programs without overlays
  Overlaid,     \* and with them
  Nodes,        \* the nodes of those
  Hunks,        \* program or node -> what each of its hunks names, a set of numbers
  first_hunk,   \* program or node -> the number of its first hunk
  Parent,       \* node -> the program or node that is resident when it is loaded
  total_hunks,  \* the hunks of a tree; siblings have the same numbers
  NoBlock

Programs == Plain \union Overlaid
Blocks == 1 .. MaxBlock

\* The numbers of the hunks of p, those that they name, and the next number.
Numbers(p) == first_hunk[p] .. first_hunk[p] + Len(Hunks[p]) - 1
Named(p) == UNION Range(Hunks[p])
Follow(p) == first_hunk[p] + Len(Hunks[p])

\* A file has a hunk, and a program is numbered from the first and names hunks
\* of its own (parse_node, parse).  Down a tree the numbers go on (loader.rs:188);
\* a node may name any hunk (parse_overlay_node does not look at its targets).
ASSUME SegsAssumption ==
  /\ MaxBlock \in Nat /\ total_hunks \in Nat /\ NoBlock \notin Blocks
  /\ \A p \in Programs \union Nodes :
       /\ Hunks[p] \in Seq(SUBSET (Nat \ {0})) /\ Hunks[p] # <<>>
       /\ first_hunk[p] \in Nat \ {0}
  /\ \A p \in Programs :
       first_hunk[p] = 1 /\ Named(p) \subseteq Numbers(p) /\ Numbers(p) \subseteq 1 .. total_hunks
  /\ \A node \in Nodes : first_hunk[node] = Follow(Parent[node])

VARIABLES
  memory,        \* block -> what it holds
  seglists,      \* DosState.seglists: the blocks of each seglist
  overlay_roots, \* block of oh_Segments -> OverlayRootState
  resident       \* the overlay manager: what is loaded of each tree, node and blocks

segsVars == <<memory, seglists, overlay_roots, resident>>

Unused == [kind |-> "unused"]
Handle == [kind |-> "FileHandle"]
Table == [kind |-> "table"]
Hunk(tree, i, points) == [kind |-> "hunk", tree |-> tree, index |-> i, points |-> points]

\* A tree is named by its oh_Segments, which is never freed, and a program
\* without overlays by its first hunk.  It is live until UnLoadSeg.
Live(tree) == \E s \in seglists : memory[s[1]].tree = tree

Free == {b \in Blocks : memory[b] = Unused}
Fits(n) == Cardinality(Free) >= n
Fresh(n) == [k \in 1 .. n |-> CHOOSE b \in Free : Cardinality({c \in Free : c <= b}) = k]
Trees == DOMAIN overlay_roots

-----------------------------------------------------------------------------
(* Linking. *)

\* The blocks of the hunks by number, with those of p.
Registered(at, p, bs) ==
  [i \in DOMAIN at |-> IF i \in Numbers(p) THEN bs[i - first_hunk[p] + 1] ELSE at[i]]
Nothing == [i \in 1 .. total_hunks |-> NoBlock]

\* Mutants: a node is relocated by the blocks that were registered before it;
\* hunks stay allocated when one does not fit; UnLoadSeg frees all but the last.
bug_Targets(at, p, bs) ==
  [i \in DOMAIN at |-> IF at[i] = NoBlock THEN Registered(at, p, bs)[i] ELSE at[i]]
bug_Unwound(taken) == [b \in Blocks |-> IF b \in taken THEN Table ELSE memory[b]]
bug_Released(bs) == Range(bs) \ {Last(bs)}

Targets(at, p, bs) == Registered(at, p, bs)

Linked(m, p, bs, tree, at) ==
  [b \in Blocks |->
     IF b \in Range(bs)
     THEN LET k == CHOOSE k \in DOMAIN bs : bs[k] = b
          IN Hunk(tree, first_hunk[p] + k - 1, {<<i, at[i]>> : i \in Hunks[p][k]})
     ELSE m[b]]

\* Some of n allocations succeed, and are freed again.
Unwound(taken) == memory
OutOfMemory(n) ==
  \E k \in 0 .. n - 1 :
    /\ Fits(k)
    /\ memory' = Unwound(Range(Fresh(k)))
    /\ UNCHANGED <<seglists, overlay_roots, resident>>

-----------------------------------------------------------------------------
(* Programs. *)

load_seg(p) ==
  LET n == Len(Hunks[p])
      bs == Fresh(n)
  IN \/ /\ Fits(n)
        /\ memory' = Linked(memory, p, bs, bs[1], Targets(Nothing, p, bs))
        /\ seglists' = seglists \union {bs}
        /\ UNCHANGED <<overlay_roots, resident>>
     \/ OutOfMemory(n)

\* The FileHandle that the manager reads from is opened first, then come the
\* hunks, oh_OVTab and oh_Segments.  It stays when one of those does not fit.
load_overlay_root(p) ==
  LET n == Len(Hunks[p])
      bs == Fresh(n + 3)
      hunks == SubSeq(bs, 2, n + 1)
      ovtab == bs[n + 2]
      table == bs[n + 3]
      at == Targets(Nothing, p, hunks)
      tables == [b \in Blocks |-> IF b \in {ovtab, table} THEN Table ELSE memory[b]]
  IN /\ Fits(n + 3)
     /\ memory' = [Linked(tables, p, hunks, table, at) EXCEPT ![bs[1]] = Handle]
     /\ seglists' = seglists \union {hunks}
     /\ overlay_roots' = [t \in Trees \union {table} |->
          IF t \in Trees THEN overlay_roots[t]
          ELSE [program |-> p, ovtab |-> ovtab, payload_addrs |-> at]]
     /\ resident' = [t \in Trees \union {table} |-> IF t \in Trees THEN resident[t] ELSE <<>>]

OverlayOutOfMemory(p) ==
  \E k \in 1 .. Len(Hunks[p]) + 2 :
    /\ Fits(k)
    /\ memory' = [Unwound(Range(Fresh(k))) EXCEPT ![Fresh(1)[1]] = Handle]
    /\ UNCHANGED <<seglists, overlay_roots, resident>>

\* UnLoadSeg frees what LoadSeg returned; of an overlay program the nodes,
\* the tables and the handle stay.
Released(bs) == Range(bs)
unload_seg(bs) ==
  /\ memory' = [b \in Blocks |-> IF b \in Released(bs) THEN Unused ELSE memory[b]]
  /\ seglists' = seglists \ {bs}
  /\ UNCHANGED <<overlay_roots, resident>>

-----------------------------------------------------------------------------
(* Overlay nodes. *)

\* The manager loads a node below the one loaded last, whose level is empty.
Deepest(t) == IF resident[t] = <<>> THEN overlay_roots[t].program ELSE Last(resident[t]).node

\* The blocks are registered before the relocations are looked up; when there
\* is no place for one, or a relocation names a hunk that was never loaded, the
\* hunks are freed again and stay registered.  So does what the manager has
\* displaced: a relocation that names it gets the block it once had.
load_overlay_node(t, node) ==
  LET root == overlay_roots[t]
      n == Len(Hunks[node])
      bs == Fresh(n)
      at == Targets(root.payload_addrs, node, bs)
      complete == /\ Numbers(node) \subseteq DOMAIN at
                  /\ \A i \in Named(node) : i \in DOMAIN at /\ at[i] # NoBlock
  IN \/ /\ Fits(n)
        /\ overlay_roots' = [overlay_roots EXCEPT ![t].payload_addrs = Registered(@, node, bs)]
        /\ IF complete
           THEN /\ memory' = Linked(memory, node, bs, t, at)
                /\ resident' = [resident EXCEPT ![t] = Append(@, [node |-> node, blocks |-> bs])]
           ELSE UNCHANGED <<memory, resident>>
        /\ UNCHANGED seglists
     \/ OutOfMemory(n)

\* The manager frees the node loaded last.
Displace(t) ==
  /\ resident[t] # <<>>
  /\ LET node == Last(resident[t])
     IN memory' = [b \in Blocks |-> IF b \in Range(node.blocks) THEN Unused ELSE memory[b]]
  /\ resident' = [resident EXCEPT ![t] = Front(@)]
  /\ UNCHANGED <<seglists, overlay_roots>>

-----------------------------------------------------------------------------

SegsInit ==
  /\ memory = [b \in Blocks |-> Unused]
  /\ seglists = {}
  /\ overlay_roots = <<>>
  /\ resident = <<>>

SegsNext ==
  \/ \E p \in Plain : load_seg(p)
  \/ \E p \in Overlaid : load_overlay_root(p) \/ OverlayOutOfMemory(p)
  \/ \E s \in seglists : unload_seg(s)
  \/ \E t \in Trees :
       /\ Live(t)
       /\ \/ \E node \in Nodes : Parent[node] = Deepest(t) /\ load_overlay_node(t, node)
          \/ Displace(t)

SegsSpec == SegsInit /\ [][SegsNext]_segsVars

-----------------------------------------------------------------------------
(* Properties. *)

\* A pointer leads to the block that holds the hunk it names, of its program.
Right(b, p) ==
  /\ memory[p[2]].kind = "hunk"
  /\ memory[p[2]].tree = memory[b].tree /\ memory[p[2]].index = p[1]

\* b is a block of the node, which is resident in a live tree.
OfNode(b, node) ==
  \E t \in Trees :
    Live(t) /\ \E k \in DOMAIN resident[t] :
                 resident[t][k].node = node /\ b \in Range(resident[t][k].blocks)

\* Whatever was loaded, displaced or unloaded before, and at whatever blocks,
\* each relocated pointer of a loaded program leads to the block that now
\* holds the hunk it names, of the same program (build_seglist and
\* load_overlay_node); of a node, each that names a hunk of its own or of what
\* is resident above it.
PointersRight ==
  /\ \A s \in seglists : \A b \in Range(s) : \A p \in memory[b].points : Right(b, p)
  /\ \A node \in Nodes, b \in Blocks : OfNode(b, node) =>
       \A p \in memory[b].points : p[1] < Follow(node) => Right(b, p)

\* A node that names a hunk that is not loaded is refused, so all its pointers
\* lead right: what the comment of load_overlay_node says (dosseg.rs:728-731),
\* and the code does not do for a hunk that was displaced, or whose node
\* failed to load.
UnloadedRefused ==
  \A node \in Nodes, b \in Blocks : OfNode(b, node) =>
    \A p \in memory[b].points : Right(b, p)

\* A block that holds a hunk or a table is that of one seglist, of one node
\* that is resident, or of one tree: a load that fails at whatever allocation
\* leaves none behind, and UnLoadSeg frees all hunks of a seglist.
BlocksOwned ==
  \A b \in Blocks : memory[b].kind \in {"hunk", "table"} =>
    Cardinality({s \in seglists : b \in Range(s)})
    + Cardinality({t \in Trees : b \in {t, overlay_roots[t].ovtab}})
    + Cardinality({t \in Trees :
                     \E k \in DOMAIN resident[t] : b \in Range(resident[t][k].blocks)}) = 1

\* Loading and unloading, in whatever order and wherever it fails, leaves
\* each program linked with itself and no block without an owner.
SegmentsSound == PointersRight /\ BlocksOwned
=============================================================================
