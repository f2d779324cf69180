------------------------------- MODULE Loader -------------------------------
(***************************************************************************)
(* Hunk files (loader.rs): their blocks read into hunks, the hunks laid    *)
(* out in memory and relocated, at the start of a run in one piece (load)  *)
(* and for LoadSeg in heap blocks of their own (build_seglist of           *)
(* dosseg.rs), and the way back from an address to a source line.          *)
(*                                                                         *)
(* A file is a sequence of 16-bit words.  A number in a file is below      *)
(* 2^16; bits 30 and 31 of a longword, the memory flags, are the two low   *)
(* bits of its first word here.  A name is its longwords.  Which LoadError *)
(* it was is left out.                                                     *)
(***************************************************************************)
EXTENDS Integers, Sequences, FiniteSets
LOCAL INSTANCE SequencesExt
LOCAL INSTANCE Functions

CONSTANTS
  Images,    \* files [bytes, offset, means]: at which longword to read, and what is there
  Starts,    \* where load may put hunk 0, as TRAP_TABLE_END
  Layouts,   \* the heap blocks that hunks may get, in order
  Dirt,      \* what is in memory that was used before
  MemWords   \* memory: so many words

VARIABLES
  image,     \* the file
  hunk_file, \* what was read of it
  ram,       \* the memory, by words
  result     \* LoadResult or SegList
loaderVars == <<image, hunk_file, ram, result>>

Word == 65536
HUNK_NAME == 1000
HUNK_CODE == 1001
HUNK_DATA == 1002
HUNK_BSS == 1003
HUNK_RELOC32 == 1004
HUNK_SYMBOL == 1008
HUNK_DEBUG == 1009
HUNK_END == 1010
HUNK_HEADER == 1011
HUNK_OVERLAY == 1013
HUNK_BREAK == 1014
HUNK_DREL32 == 1015
HUNK_RELOC32SHORT == 1020
HUNK_RELRELOC32 == 1021
Bodies == {HUNK_CODE, HUNK_DATA, HUNK_BSS}

-----------------------------------------------------------------------------
\* The reader.  A position is a number of words, or Bad after a short read.
Bad == -1
Has(b, p, n) == p # Bad /\ p + n <= Len(b)
Past(b, p, n) == IF Has(b, p, n) THEN p + n ELSE Bad
read_u32(b, p) == b[p + 1] * Word + b[p + 2]
Flags(b, p) == b[p + 1]
Unflagged(b, p) == b[p + 2]
Number(b, p, width) == IF width = 1 THEN b[p + 1] ELSE read_u32(b, p)

\* Mutants: no word is passed over; what ends a hunk is not read again.
bug_align_to_longword(p) == p
bug_unread_u32(p) == p

align_to_longword(p) == IF p = Bad THEN Bad ELSE p + (p % 2)
unread_u32(p) == p - 2

\* A count of longwords and so many of them.
Payload(b, p) ==
  LET n == 2 * read_u32(b, p)
  IN IF Has(b, p, 2) /\ Has(b, p + 2, n)
     THEN [pos |-> p + 2 + n, raw |-> SubSeq(b, p + 3, p + 2 + n)]
     ELSE [pos |-> Bad, raw |-> <<>>]

\* Entries of a name and a value up to a name of no longwords.
RECURSIVE SymbolsEnd(_, _)
SymbolsEnd(b, p) ==
  IF ~Has(b, p, 2) THEN Bad
  ELSE IF read_u32(b, p) = 0 THEN p + 2
  ELSE SymbolsEnd(b, Past(b, p, 2 + 2 * read_u32(b, p) + 2))

-----------------------------------------------------------------------------
\* The blocks of a hunk.  h is the hunk so far, and h.pos where it is read on.
At(h, p) == [h EXCEPT !.pos = p]

\* A list of relocations, its numbers of one word or two.
RECURSIVE Relocations(_, _, _, _)
Relocations(b, h, width, kind) ==
  LET count == Number(b, h.pos, width)
      target == Number(b, h.pos + width, width)
      after == Past(b, h.pos, width * (2 + count))
      offset(k) == Number(b, h.pos + width * (1 + k), width)
      more == [k \in 1..count |-> [offset |-> offset(k), target |-> target, kind |-> kind]]
  IN IF ~Has(b, h.pos, width) THEN At(h, Bad)
     ELSE IF count = 0 THEN At(h, h.pos + width)
     ELSE IF after = Bad THEN At(h, Bad)
     ELSE Relocations(b, [h EXCEPT !.pos = after, !.relocs = @ \o more], width, kind)

Loose == {HUNK_NAME, HUNK_DEBUG, HUNK_SYMBOL}
Captured(b, h, type, p) ==
  CASE type = HUNK_NAME -> At(h, Payload(b, p).pos)
    [] type = HUNK_DEBUG ->
         [h EXCEPT !.pos = Payload(b, p).pos, !.debug_blocks = Append(@, Payload(b, p).raw)]
    [] type = HUNK_SYMBOL ->
         LET end == SymbolsEnd(b, p)
         IN [h EXCEPT !.pos = end, !.symbol_blocks = Append(@, SubSeq(b, p + 1, end))]

RECURSIVE Leading(_, _)
Leading(b, h) ==
  IF Has(b, h.pos, 2) /\ read_u32(b, h.pos) \in Loose
  THEN Leading(b, Captured(b, h, read_u32(b, h.pos), h.pos + 2)) ELSE h

\* With both flags a longword more stands before the size.
Body(b, h) ==
  LET p == h.pos + 2 + (IF Flags(b, h.pos) = 3 THEN 2 ELSE 0)
      type == Unflagged(b, h.pos)
      content == Payload(b, p)
  IN CASE ~Has(b, h.pos, 2) \/ type \notin Bodies -> At(h, Bad)
       [] Has(b, h.pos, 2) /\ type = HUNK_BSS -> [h EXCEPT !.kind = "Bss", !.pos = Past(b, p, 2)]
       [] OTHER ->
            IF 2 * Len(content.raw) > h.reserved_size THEN At(h, Bad)
            ELSE [h EXCEPT !.kind = IF type = HUNK_CODE THEN "Code" ELSE "Data",
                           !.data = content.raw, !.pos = content.pos]

RECURSIVE Trailing(_, _)
Trailing(b, h) ==
  LET type == Unflagged(b, h.pos)
      in == At(h, h.pos + 2)
  IN IF ~Has(b, h.pos, 2) THEN At(h, Bad)
     ELSE CASE type = HUNK_END -> in
            [] type \in Bodies \union {HUNK_OVERLAY, HUNK_BREAK} -> At(in, unread_u32(in.pos))
            [] type = HUNK_RELOC32 -> Trailing(b, Relocations(b, in, 2, "Absolute"))
            [] type = HUNK_RELRELOC32 -> Trailing(b, Relocations(b, in, 2, "PcRelative"))
            [] type \in {HUNK_DREL32, HUNK_RELOC32SHORT} ->
                 LET list == Relocations(b, in, 1, "Absolute")
                 IN Trailing(b, At(list, align_to_longword(list.pos)))
            [] type \in Loose -> Trailing(b, Captured(b, h, type, in.pos))
            [] OTHER -> At(h, Bad)

Checked(h) ==
  IF \A r \in Range(h.relocs) : r.offset + 4 <= h.reserved_size THEN h ELSE At(h, Bad)

OneHunk(b, p, size) ==
  Checked(Trailing(b, Body(b, Leading(b,
    [pos |-> p, kind |-> "none", data |-> <<>>, reserved_size |-> size, relocs |-> <<>>,
     debug_blocks |-> <<>>, symbol_blocks |-> <<>>]))))

-----------------------------------------------------------------------------
\* Nodes and files.
RECURSIVE AfterNames(_, _)
AfterNames(b, p) ==
  IF ~Has(b, p, 2) THEN Bad
  ELSE IF read_u32(b, p) = 0 THEN p + 2
  ELSE AfterNames(b, Past(b, p + 2, 2 * read_u32(b, p)))

Refused == [ok |-> FALSE, first_hunk |-> 0, hunks |-> <<>>, overlay |-> <<>>]

\* The hunks first to last, whose sizes stand at p.
Bodied(b, p, first, last) ==
  LET n == last - first + 1
      Next1(st, k) ==
        LET h == OneHunk(b, st.pos, 4 * Unflagged(b, p + 2 * (k - 1)))
        IN IF st.pos = Bad THEN st ELSE [pos |-> h.pos, hunks |-> Append(st.hunks, h)]
  IN FoldLeft(Next1, [pos |-> Past(b, p, 2 * n), hunks |-> <<>>], [k \in 1..n |-> k])

Node(b, table, first, last, node) ==
  [ok |-> node.pos # Bad, table_size |-> table, first_hunk |-> first, last_hunk |-> last,
   hunks |-> node.hunks, pos |-> node.pos]

parse_node(b, start) ==
  LET p == IF Has(b, start, 2) /\ read_u32(b, start) = HUNK_HEADER
           THEN AfterNames(b, start + 2) ELSE Bad
      table == read_u32(b, p)
      first == read_u32(b, p + 2)
      last == read_u32(b, p + 4)
  IN IF ~Has(b, p, 6) \/ table = 0 \/ first > last \/ last >= table
     THEN Node(b, 0, 0, 0, [pos |-> Bad, hunks |-> <<>>])
     ELSE Node(b, table, first, last, Bodied(b, p + 6, first, last))

\* The table of a root: one longword more than it says.
Overlay(b, p) ==
  IF Has(b, p, 4) /\ read_u32(b, p) = HUNK_OVERLAY
  THEN LET n == 2 * (read_u32(b, p + 2) + 1)
       IN [ok |-> Has(b, p + 4, n),
           raw |-> IF Has(b, p + 4, n) THEN SubSeq(b, p + 5, p + 4 + n) ELSE <<>>]
  ELSE [ok |-> FALSE, raw |-> <<>>]

Rooted(node, overlay) ==
  LET targets == UNION {{r.target : r \in Range(h.relocs)} : h \in Range(node.hunks)}
  IN IF /\ node.ok /\ node.first_hunk = 0 /\ overlay.ok
        /\ \A t \in targets : t < Len(node.hunks)
     THEN [ok |-> TRUE, first_hunk |-> 0, hunks |-> node.hunks, overlay |-> overlay.raw]
     ELSE Refused

RootOf(b, node) ==
  Rooted(node, IF node.ok /\ node.last_hunk + 1 # node.table_size THEN Overlay(b, node.pos)
               ELSE [ok |-> TRUE, raw |-> <<>>])
parse(b) == RootOf(b, parse_node(b, 0))

OverlayNode(node) ==
  IF node.ok
  THEN [ok |-> TRUE, first_hunk |-> node.first_hunk, hunks |-> node.hunks, overlay |-> <<>>]
  ELSE Refused
parse_overlay_node(b, offset) == OverlayNode(parse_node(b, offset))

-----------------------------------------------------------------------------
\* Memory.
get_u32(m, a) == <<m[a \div 2], m[a \div 2 + 1]>>
set_u32(m, a, u) == [m EXCEPT ![a \div 2] = u[1], ![a \div 2 + 1] = u[2]]
wrapping_add(u, n) ==
  LET low == u[2] + n IN <<(u[1] + low \div Word) % Word, low % Word>>

\* Mutants: what the file does not give stays; a displacement is taken from
\* the start of the hunk.
bug_Content(h, i, old) == IF h.kind # "Bss" /\ i < Len(h.data) THEN h.data[i + 1] ELSE old
bug_Addend(kind, target, hunk, loc) == IF kind = "Absolute" THEN target ELSE target - hunk

Content(h, i, old) == IF h.kind # "Bss" /\ i < Len(h.data) THEN h.data[i + 1] ELSE 0
Addend(kind, target, hunk, loc) == IF kind = "Absolute" THEN target ELSE target - loc

Holds(at, h, w) == at \div 2 <= w /\ 2 * w < at + h.reserved_size
Written(m, hunks, at) ==
  [w \in DOMAIN m |->
     LET in == {k \in DOMAIN hunks : Holds(at[k], hunks[k], w)}
     IN IF in = {} THEN m[w]
        ELSE LET k == CHOOSE k \in in : TRUE IN Content(hunks[k], w - at[k] \div 2, m[w])]

\* The longwords to fix, each with what it is for.
Sites(hunks, at) ==
  LET of(k, r) == [loc |-> at[k] + r.offset, kind |-> r.kind, target |-> at[r.target + 1],
                   hunk |-> at[k]]
  IN FlattenSeq([k \in DOMAIN hunks |->
       [i \in DOMAIN hunks[k].relocs |-> of(k, hunks[k].relocs[i])]])
Fixed(m, loc, amount) == set_u32(m, loc, wrapping_add(get_u32(m, loc), amount))

\* Hunk after hunk.
Packed(hunks, base) ==
  LET at[k \in 1..(Len(hunks) + 1)] ==
        IF k = 1 THEN base ELSE at[k - 1] + hunks[k - 1].reserved_size
  IN at

\* Each hunk in its block, after the length of the block and the BPTR of the
\* next one's BPTR.
SEG_HEADER_SIZE == 8
NEXT_SEG_OFFSET == 4
bptr_from_addr(a) == a \div 4
Chained(m, hunks, allocs) ==
  LET next(k) == IF k = Len(hunks) THEN 0 ELSE bptr_from_addr(allocs[k + 1] + NEXT_SEG_OFFSET)
      Header(n, k) ==
        set_u32(set_u32(n, allocs[k], <<0, SEG_HEADER_SIZE + hunks[k].reserved_size>>),
                allocs[k] + NEXT_SEG_OFFSET, <<0, next(k)>>)
  IN FoldLeft(Header, m, [k \in DOMAIN hunks |-> k])

-----------------------------------------------------------------------------
\* Where an address is in the source.
u32_at(raw, p) == <<raw[p + 1], raw[p + 2]>>
LINE == <<19529, 20037>>

\* The entries of the LINE blocks of a hunk, those of a block that is cut off
\* as far as they go, and of its symbols.
LineEntries(raw) ==
  LET name == 2 * raw[6]
      n == IF Has(raw, 6, name) THEN (Len(raw) - 6 - name) \div 4 ELSE 0
      pair(k) == 6 + name + 4 * (k - 1)
  IN IF ~Has(raw, 0, 6) \/ u32_at(raw, 2) # LINE THEN <<>>
     ELSE [k \in 1..n |-> [name |-> SubSeq(raw, 7, 6 + name), line |-> raw[pair(k) + 2],
                           offset |-> raw[2] + raw[pair(k) + 4]]]

RECURSIVE SymbolEntries(_, _)
SymbolEntries(raw, p) ==
  LET name == 2 * raw[p + 2]
  IN IF ~Has(raw, p, 2) \/ name = 0 \/ ~Has(raw, p + 2, name + 2) THEN <<>>
     ELSE <<[name |-> SubSeq(raw, p + 3, p + 2 + name), offset |-> raw[p + 4 + name]]>>
          \o SymbolEntries(raw, p + 4 + name)

\* Sorted by offset, those of the same offset as they come in the file.
Sorted(entries) ==
  LET Insert(s, e) ==
        LET n == Cardinality({i \in DOMAIN s : s[i].offset <= e.offset})
        IN InsertAt(s, n + 1, e)
  IN FoldLeft(Insert, <<>>, entries)

line_info(h) == Sorted(FlattenSeq([i \in DOMAIN h.debug_blocks |-> LineEntries(h.debug_blocks[i])]))
symbol_table(h) ==
  Sorted(FlattenSeq([i \in DOMAIN h.symbol_blocks |-> SymbolEntries(h.symbol_blocks[i], 0)]))
\* Below the size of the hunk, which bounds the last symbol.
lookup(entries, offset) == SelectLastInSeq(entries, LAMBDA e : e.offset <= offset)

Unknown == [by |-> "none", name |-> <<>>, at |-> 0]
locate(h, offset) ==
  LET lines == line_info(h)
      symbols == symbol_table(h)
      l == lookup(lines, offset)
      s == lookup(symbols, offset)
  IN IF l # 0 THEN [by |-> "line", name |-> lines[l].name, at |-> lines[l].line]
     ELSE IF s # 0
     THEN [by |-> "symbol", name |-> symbols[s].name, at |-> offset - symbols[s].offset]
     ELSE Unknown

lookup_location(r, hunks, addr) ==
  LET k == SelectInSeq([k \in DOMAIN hunks |-> k], LAMBDA k :
             r.at[k] <= addr /\ addr - r.at[k] < hunks[k].reserved_size)
  IN IF k = 0 THEN Unknown ELSE locate(hunks[k], addr - r.at[k])

-----------------------------------------------------------------------------
Fresh0 == [w \in 0..(MemWords - 1) |-> 0]
Used == [w \in 0..(MemWords - 1) |-> Dirt]
NotRead == [ok |-> FALSE]
NotLoaded == [kind |-> "none"]

LoaderInit ==
  /\ image \in Images /\ hunk_file = NotRead
  /\ ram \in {Fresh0, Used} /\ result = NotLoaded

ParseFile ==
  /\ hunk_file = NotRead
  /\ hunk_file' = IF image.offset = 0 THEN parse(image.bytes)
                  ELSE parse_overlay_node(image.bytes, image.offset)
  /\ UNCHANGED <<image, ram, result>>

Filled(m, hunks, at) ==
  LET patch(n, x) == Fixed(n, x.loc, Addend(x.kind, x.target, x.hunk, x.loc))
  IN FoldLeft(patch, Written(m, hunks, at), Sites(hunks, at))

\* A program without overlays, at the start of a run.
load(base) ==
  LET hunks == hunk_file.hunks
      at == Packed(hunks, base)
  IN /\ ram = Fresh0 /\ hunk_file.overlay = <<>>
     /\ ram' = Filled(ram, hunks, at)
     /\ result' = [kind |-> "flat", at |-> SubSeq(at, 1, Len(hunks)), entry |-> at[1],
                   end |-> at[Len(hunks) + 1]]

\* Whatever its kind, a relocation gets the address of its target.
SegFilled(m, hunks, at) ==
  LET patch(n, x) == Fixed(n, x.loc, x.target)
  IN FoldLeft(patch, Written(m, hunks, at), Sites(hunks, at))

build_seglist(allocs) ==
  LET hunks == hunk_file.hunks
      at == [k \in DOMAIN hunks |-> allocs[k] + SEG_HEADER_SIZE]
  IN /\ ram' = SegFilled(Chained(ram, hunks, allocs), hunks, at)
     /\ result' = [kind |-> "segs", at |-> at, entry |-> at[1],
                   first_bptr |-> bptr_from_addr(allocs[1] + NEXT_SEG_OFFSET)]

LoaderNext ==
  \/ ParseFile
  \/ /\ hunk_file.ok /\ hunk_file.first_hunk = 0 /\ result = NotLoaded
     /\ \/ \E base \in Starts : load(base)
        \/ \E allocs \in Layouts : build_seglist(allocs)
     /\ UNCHANGED <<image, hunk_file>>

LoaderSpec == LoaderInit /\ [][LoaderNext]_loaderVars

-----------------------------------------------------------------------------
\* What the linker meant, in image.means: the hunks, each with its words, the
\* longwords fix that lead to other places, its lines and its symbols.
Given0(m, i) == IF i < Len(m.words) THEN m.words[i + 1] ELSE 0
Signed(u) == (IF u[1] < Word \div 2 THEN u[1] ELSE u[1] - Word) * Word + u[2]
Sited(m, i) == \E f \in m.fix : f.offset \in {2 * i, 2 * i - 2}

\* However the linker wrote it down, the file is read as it was meant; and a
\* file that is cut off or contradicts itself is refused.
ReadAsMeant ==
  hunk_file # NotRead =>
    /\ hunk_file.ok = image.means.ok
    /\ hunk_file.ok =>
         LET means == image.means
         IN /\ hunk_file.first_hunk = means.first /\ hunk_file.overlay = means.overlay
            /\ DOMAIN hunk_file.hunks = DOMAIN means.hunks
            /\ \A k \in DOMAIN means.hunks :
                 LET h == hunk_file.hunks[k]
                     m == means.hunks[k]
                 IN /\ h.kind = m.kind /\ h.reserved_size = m.size
                    /\ \A i \in 0..(m.size \div 2 - 1) :
                         Given0([words |-> h.data], i) = Given0(m, i)
                    /\ Range(h.relocs) = m.fix

\* What build_seglist does not relocate as load does, although its comment says
\* so (dosseg.rs:433-437): the displacements of HUNK_RELRELOC32, for which it
\* writes addresses, see the findings.
Misplaced(f) == result.kind = "segs" /\ f.kind = "PcRelative"

\* The pointer at f of hunk k leads where it should.
Leads(m, k, f) ==
  LET loc == result.at[k] + f.offset
      addend == Signed(<<Given0(m, f.offset \div 2), Given0(m, f.offset \div 2 + 1)>>)
      to == result.at[f.target + 1] + addend
  IN ~Misplaced(f) =>
       Signed(get_u32(ram, loc)) = IF f.kind = "Absolute" THEN to ELSE to - loc

\* The hunks are in memory as they were meant, apart from each other and
\* whatever was there before; every pointer leads to its hunk, but for those of
\* Misplaced; and no other word of memory has changed.
InPlace ==
  result # NotLoaded =>
    LET means == image.means.hunks
        words(k) ==
          {w \in DOMAIN ram : 2 * w >= result.at[k] /\ 2 * w < result.at[k] + means[k].size}
        heads(k) == IF result.kind = "flat" THEN {}
                    ELSE {w \in DOMAIN ram : 2 * w >= result.at[k] - 8 /\ 2 * w < result.at[k]}
        mine(k) == words(k) \union heads(k)
    IN /\ \A k, l \in DOMAIN means : k # l => mine(k) \intersect mine(l) = {}
       /\ \A k \in DOMAIN means :
            /\ \A w \in words(k) :
                 LET i == w - result.at[k] \div 2
                 IN Sited(means[k], i) \/ ram[w] = Given0(means[k], i)
            /\ \A f \in means[k].fix : Leads(means[k], k, f)
       /\ LET rest == DOMAIN ram \ UNION {mine(k) : k \in DOMAIN means}
          IN \E old \in {0, Dirt} : \A w \in rest : ram[w] = old
       /\ result.entry = result.at[1]

\* The heap begins behind the last hunk; and the list that LoadSeg returns
\* leads through all hunks.
EndsRight ==
  LET last == Len(result.at)
      next[k \in 1..last] ==
        IF k = 1 THEN result.first_bptr ELSE get_u32(ram, 4 * next[k - 1])[2]
  IN CASE result.kind = "none" -> TRUE
       [] result.kind = "flat" ->
            \A k \in 1..last : result.at[k] + image.means.hunks[k].size <= result.end
       [] result.kind = "segs" ->
            /\ \A k \in 1..last : 4 * next[k] + 4 = result.at[k]
            /\ get_u32(ram, 4 * next[last]) = <<0, 0>>

\* What is recorded for the last place at or before an offset, of several the
\* one that the file has last.
Recorded(entries, offset) ==
  LET before == {i \in DOMAIN entries : entries[i].offset <= offset}
  IN {i \in before : \A j \in before :
        entries[j].offset < entries[i].offset \/ (entries[j].offset = entries[i].offset /\ j <= i)}
Located(m, offset) ==
  IF Recorded(m.lines, offset) # {}
  THEN {[by |-> "line", name |-> m.lines[i].name, at |-> m.lines[i].line] :
          i \in Recorded(m.lines, offset)}
  ELSE IF Recorded(m.symbols, offset) # {}
  THEN {[by |-> "symbol", name |-> m.symbols[i].name, at |-> offset - m.symbols[i].offset] :
          i \in Recorded(m.symbols, offset)}
  ELSE {Unknown}

\* A report names the line or symbol of an address, wherever its hunk is and
\* whichever side of the hunk its blocks were on.
LocationsRight ==
  result.kind = "flat" =>
    /\ \A k \in DOMAIN result.at : \A o \in 0..(image.means.hunks[k].size - 1) :
         lookup_location(result, hunk_file.hunks, result.at[k] + o)
           \in Located(image.means.hunks[k], o)
    /\ \A a \in {result.entry - 1, result.end} :
         lookup_location(result, hunk_file.hunks, a) = Unknown

\* What the linker wrote is what runs: each file is read as it was meant or
\* refused, each hunk stands in memory with its pointers right (but for those
\* of Misplaced), nothing else
\* was written, and addresses lead back to their lines (parse, load,
\* build_seglist, lookup_location).
LoadedExact == ReadAsMeant /\ InPlace /\ EndsRight /\ LocationsRight
=============================================================================
