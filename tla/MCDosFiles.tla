----------------------------- MODULE MCDosFiles -----------------------------
(* Small instances for TLC of what a program opens and loads: the handles   *)
(* of DosFiles, the segments of DosSegs and the hunk files of Loader, one   *)
(* at a time.                                                               *)
(*                                                                          *)
(* The handles are two parts: calls that move positions and lengths, and    *)
(* calls that read a byte at a time from one file as it is, each with all   *)
(* the opening and closing.  So their states add up instead of multiplying. *)
EXTENDS DosFiles, DosSegs, Loader, TLC

CONSTANTS a1, a2, f1, f2, plain, overlaid, n1, n2, n3, n4, bad
VARIABLE part
filesVars == <<part, vars, segsVars, loaderVars>>

\* Two hunks that name each other; a tree with n1, n2 or n4 below the root and n3
\* below n1; a node below n2 that names a hunk that is in no node; and n4 names
\* one that is n3's or that node's, which is never resident then.
MCHunks ==
  plain :> <<{2}, {1}>> @@ overlaid :> <<{1}>>
  @@ n1 :> <<{1, 2}>> @@ n2 :> <<{2}>> @@ n3 :> <<{1, 2, 3}>> @@ n4 :> <<{2, 3}>> @@ bad :> <<{4}>>
MCFirst == plain :> 1 @@ overlaid :> 1 @@ n1 :> 2 @@ n2 :> 2 @@ n3 :> 3 @@ n4 :> 2 @@ bad :> 3
MCParent == n1 :> overlaid @@ n2 :> overlaid @@ n3 :> n1 @@ n4 :> overlaid @@ bad :> n2

-----------------------------------------------------------------------------
\* What a linker means.
Ho(kind, size, words) ==
  [kind |-> kind, size |-> size, words |-> words, fix |-> {}, lines |-> <<>>, symbols |-> <<>>]
To(offset, target, kind) == [offset |-> offset, target |-> target, kind |-> kind]
Name(n) == <<0, n>>
Ln(offset, line) == [offset |-> offset, name |-> Name(7), line |-> line]
Sy(offset, n) == [offset |-> offset, name |-> Name(n)]
Prog(first, hunks) == [ok |-> TRUE, first |-> first, hunks |-> hunks, overlay |-> <<>>]
Wrong == [Prog(0, <<>>) EXCEPT !.ok = FALSE]

CodeHunk ==
  [Ho("Code", 12, <<1, 2, 0, 4, 0, 0>>) EXCEPT
     !.fix = {To(4, 1, "Absolute"), To(8, 2, "Absolute")},
     !.lines = <<Ln(6, 33), Ln(0, 36), Ln(8, 37), Ln(6, 38)>>, !.symbols = <<Sy(0, 1)>>]
DataHunk ==
  [Ho("Data", 8, <<3, 0, 2>>) EXCEPT !.fix = {To(2, 0, "Absolute")},
                               !.symbols = <<Sy(4, 2), Sy(2, 3)>>]
Three == Prog(0, <<CodeHunk, DataHunk, Ho("Bss", 8, <<>>)>>)
Pair ==
  Prog(0, <<[Ho("Code", 8, <<0, 8, 0, 2>>) EXCEPT
               !.fix = {To(0, 1, "Absolute"), To(4, 1, "PcRelative")}, !.lines = <<Ln(2, 9)>>],
            [Ho("Data", 4, <<0, 0>>) EXCEPT !.fix = {To(0, 0, "PcRelative")},
                                         !.symbols = <<Sy(0, 4)>>]>>)
Root == [Prog(0, <<[Ho("Code", 4, <<0, 0>>) EXCEPT !.fix = {To(0, 0, "Absolute")}]>>)
           EXCEPT !.overlay = <<0, 2, 0, 5>>]
Below ==
  Prog(1, <<[Ho("Code", 4, <<0, 1>>) EXCEPT !.fix = {To(0, 2, "Absolute")}],
            [Ho("Data", 4, <<0, 3>>) EXCEPT !.fix = {To(0, 0, "Absolute")}]>>)

\* How it writes that down: lists in shorts; HUNK_END only where it must be;
\* memory flags; where debug blocks go; and names.
Style ==
  [short : BOOLEAN, ends : BOOLEAN, mem : {0, 2, 3}, debug : {"lead", "trail"}, names : BOOLEAN]
Styles == {o \in Style : o.ends \/ o.debug = "trail"}
Plainest == [short |-> FALSE, ends |-> TRUE, mem |-> 0, debug |-> "trail", names |-> FALSE]

L(n) == <<n \div 65536, n % 65536>>
Ls(numbers) == FlattenSeq([i \in DOMAIN numbers |-> L(numbers[i])])
Listed(words) == L(Len(words) \div 2) \o words
Padded(words) == IF Len(words) % 2 = 0 THEN words ELSE words \o <<0>>
LineBlock(h) ==
  IF h.lines = <<>> THEN <<>>
  ELSE LET offsets == {l.offset : l \in Range(h.lines)}
           base == CHOOSE n \in offsets : \A x \in offsets : n <= x
       IN L(HUNK_DEBUG) \o Listed(L(base) \o LINE \o L(1) \o Name(7)
            \o FlattenSeq([i \in DOMAIN h.lines |->
                 Ls(<<h.lines[i].line, h.lines[i].offset - base>>)]))
SymbolBlock(h) ==
  IF h.symbols = <<>> THEN <<>>
  ELSE L(HUNK_SYMBOL) \o FlattenSeq([i \in DOMAIN h.symbols |->
    L(1) \o h.symbols[i].name \o L(h.symbols[i].offset)]) \o L(0)
Notes(h, o) ==
  (IF o.names THEN L(HUNK_NAME) \o Listed(Name(5)) ELSE <<>>)
  \o LineBlock(h) \o L(HUNK_DEBUG) \o Listed(L(0) \o Name(8)) \o SymbolBlock(h)

Entry(f, brief) == IF brief THEN <<1, f.target, f.offset>> ELSE Ls(<<1, f.target, f.offset>>)
FixList(fix, brief) ==
  LET fs == SetToSeq(fix)
      words == FlattenSeq([i \in DOMAIN fs |-> Entry(fs[i], brief)])
  IN IF fs = <<>> THEN <<>> ELSE IF brief THEN Padded(words \o <<0>>) ELSE words \o L(0)
Fixes(h, o) ==
  LET list(kind, type, brief) ==
        LET fix == {f \in h.fix : f.kind = kind}
        IN IF fix = {} THEN <<>> ELSE L(type) \o FixList(fix, brief)
  IN list("Absolute", IF o.short THEN HUNK_RELOC32SHORT ELSE HUNK_RELOC32, o.short)
     \o list("PcRelative", HUNK_RELRELOC32, FALSE)

TypeOf(kind) ==
  CASE kind = "Code" -> HUNK_CODE [] kind = "Data" -> HUNK_DATA [] kind = "Bss" -> HUNK_BSS
Section(h, o, last) ==
  (IF o.debug = "lead" THEN Notes(h, o) ELSE <<>>)
  \o <<o.mem, TypeOf(h.kind)>> \o (IF o.mem = 3 THEN L(4) ELSE <<>>)
  \o (IF h.kind = "Bss" THEN L(h.size \div 4) ELSE Listed(Padded(h.words)))
  \o Fixes(h, o) \o (IF o.debug = "trail" THEN Notes(h, o) ELSE <<>>)
  \o (IF o.ends \/ last THEN L(HUNK_END) ELSE <<>>)

Head1(p, o, table) ==
  L(HUNK_HEADER) \o (IF o.names THEN Listed(Name(6)) ELSE <<>>)
  \o Ls(<<0, table, p.first, p.first + Len(p.hunks) - 1>>)
  \o FlattenSeq([k \in DOMAIN p.hunks |-> <<o.mem % 3, p.hunks[k].size \div 4>>])
Written1(p, o, table) ==
  Head1(p, o, table)
  \o FlattenSeq([k \in DOMAIN p.hunks |-> Section(p.hunks[k], o, k = Len(p.hunks))])
Whole(p, o) == Written1(p, o, Len(p.hunks))
Tree(o) == Written1(Root, o, 3) \o L(HUNK_OVERLAY) \o L(1) \o Root.overlay
Nodes1(o) == Tree(o) \o Written1(Below, o, 3) \o L(HUNK_BREAK)

Image(bytes, offset, means) == [bytes |-> bytes, offset |-> offset, means |-> means]
Good ==
  {Image(Whole(p, o), 0, p) : p \in {Three, Pair}, o \in Styles}
  \union UNION {{Image(Nodes1(o), 0, Root), Image(Nodes1(o), Len(Tree(o)), Below)} : o \in Styles}

\* Cut off, or with one word changed: not a header, no hunks, hunks that are
\* not in the table, a body that is no body or does not fit, a block that is
\* none; and relocations at no longword of the hunk or by no hunk.
CutOff ==
  LET shorter(b, offset, n) == {Image(SubSeq(b, 1, k), offset, Wrong) : k \in 0..(n - 1)}
      brief == [Plainest EXCEPT !.short = TRUE]
      b(o) == Whole(Three, o)
  IN shorter(b(Plainest), 0, Len(b(Plainest))) \union shorter(b(brief), 0, Len(b(brief)))
     \union shorter(Nodes1(brief), 0, Len(Tree(brief)))
     \union shorter(Nodes1(brief), Len(Tree(brief)), Len(Nodes1(brief)) - 2)
Spoilt ==
  LET w == Whole(Pair, Plainest)
      t == Tree(Plainest)
      but(b, i, x) == Image([b EXCEPT ![i] = x], 0, Wrong)
      fixed(f) == [Pair EXCEPT !.hunks[1].fix = {f}]
  IN {but(w, 2, 7), but(w, 6, 0), but(w, 8, 2), but(w, 10, 2), but(w, 14, 0), but(w, 16, 7),
      but(w, 18, 9), but(t, Len(t) - 6, 7), Image(Written1(Below, Plainest, 3), 0, Wrong)}
     \union {Image(Whole(fixed(f), Plainest), 0, Wrong) : f \in
               {To(6, 1, "Absolute"), To(5, 0, "PcRelative"), To(0, 2, "Absolute")}}
MCLayouts == {<<0, 24, 48>>, <<72, 8, 40>>}
MCImages == Good \union CutOff \union Spoilt

-----------------------------------------------------------------------------
OneFile == disk = (f1 :> 1 @@ f2 :> NULL)

FilesInit ==
  /\ part \in {"positions", "buffered", "segments", "hunks"}
  /\ Init /\ SegsInit
  /\ part = "buffered" => OneFile
  /\ part \in {"segments", "hunks"} => disk = [f \in Files |-> NULL]
  /\ IF part = "hunks" THEN LoaderInit
     ELSE image = 0 /\ hunk_file = NotRead /\ ram = <<>> /\ result = NotLoaded

HandlesNext ==
  /\ ~failed
  /\ \/ Handles
     \/ part = "positions" /\ Positions
     \/ part = "buffered" /\ Buffered
  /\ part = "buffered" => disk' = disk

FilesNext ==
  \/ part \in {"positions", "buffered"} /\ HandlesNext /\ UNCHANGED <<part, segsVars, loaderVars>>
  \/ part = "segments" /\ SegsNext /\ UNCHANGED <<part, vars, loaderVars>>
  \/ part = "hunks" /\ LoaderNext /\ UNCHANGED <<part, vars, segsVars>>

FilesSpec == FilesInit /\ [][FilesNext]_filesVars

\* Programs come into memory as they were meant and stay linked with themselves:
\* all their pointers, but for the displacements of Misplaced and a node's
\* pointers to what is not resident, for which see UnloadedRefused.
ProgramsSound == SegmentsSound /\ LoadedExact

Symmetry == Permutations(Addrs \ {stdin, stdout})
=============================================================================
