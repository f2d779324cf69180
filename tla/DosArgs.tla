------------------------------ MODULE DosArgs ------------------------------
(***************************************************************************)
(* ReadArgs, FreeArgs and FindArg (dosargs.rs).  A template is parsed, the *)
(* words of the command line are given to its slots, and the slots are put *)
(* in blocks on the heap, which FreeArgs gives back.                       *)
(*                                                                         *)
(* The line is a sequence of items, and a word of it stands in the slots   *)
(* and in memory as its position in the line: so it shows which word is    *)
(* where, whatever its letters.  The letter case of names, the escapes in  *)
(* quotes and the bytes of blocks are left out.                            *)
(*                                                                         *)
(* The program frees a result once, and does not pass an RDArgs of its own *)
(* again before that.                                                      *)
(***************************************************************************)
EXTENDS Integers, Sequences
LOCAL INSTANCE SequencesExt
LOCAL INSTANCE Functions
LOCAL INSTANCE TLC

CONSTANTS
  Lines,        \* sequences of items [is, text]
  Templates,    \* sequences of items [names, mods]
  LaterTemplates, \* those for a ReadArgs that is not the first
  Numbers,      \* the texts that are numbers
  Supplied,     \* RDArgs of the program, which are not on the heap
  HeapSize      \* how many blocks the heap has

ASSUME SuppliedAssumption == Supplied \intersect 0..HeapSize = {}
\* A switch that must be given would take a word of /M and lose it.
ASSUME SwitchesAssumption ==
  \A template \in Templates \union LaterTemplates : \A i \in DOMAIN template :
    "A" \in Range(template[i].mods) => {"S", "T"} \intersect Range(template[i].mods) = {}

VARIABLES
  line, input_pos, \* what RunCommand put in the buffer of Input()
  room,            \* the blocks on the heap: what is in each
  rdargs,          \* DosState.rdargs: address of an RDArgs to its entry
  arrays,          \* guest memory: the array of each result
  last             \* history: the last ReadArgs
argsVars == <<line, input_pos, room, rdargs, arrays, last>>

-----------------------------------------------------------------------------
\* The template.
Types == {"S", "T", "N", "M", "F"}
KindOf(type) ==
  CASE type = "S" -> "Switch" [] type = "T" -> "Toggle" [] type = "N" -> "Number"
    [] type = "M" -> "Multi" [] type = "F" -> "RestOfLine"

\* One modifier: ctx is the argument so far, or none, and whether /M and /F
\* were used in the template.
Modified(ctx, mod) ==
  LET untyped == ctx.arg.kind = "String" /\ ~ctx.typed
      once == (mod \in {"M", "F"}) => mod \notin ctx.had
  IN CASE ctx.bad -> ctx
       [] ~ctx.bad /\ mod = "A" -> [ctx EXCEPT !.arg.required = TRUE]
       [] ~ctx.bad /\ mod = "K" -> [ctx EXCEPT !.arg.keyword_only = TRUE]
       [] ~ctx.bad /\ mod \in Types /\ untyped /\ once ->
            [ctx EXCEPT !.arg.kind = KindOf(mod), !.typed = TRUE, !.had = @ \union {mod}]
       [] OTHER -> [ctx EXCEPT !.bad = TRUE]

parse_template(template) ==
  LET Item(ctx, part) ==
        LET new == [names |-> part.names, kind |-> "String",
                    keyword_only |-> FALSE, required |-> FALSE]
            read == FoldLeft(Modified, [ctx EXCEPT !.arg = new, !.typed = FALSE], part.mods)
        IN [read EXCEPT !.out = Append(@, read.arg)]
      all == FoldLeft(Item, [arg |-> <<>>, typed |-> FALSE, had |-> {}, bad |-> FALSE,
                             out |-> <<>>], template)
  IN [ok |-> ~all.bad, args |-> all.out]

\* The first slot of that name, or 0.
find_arg(args, text) ==
  SelectInSeq(args, LAMBDA a : text \in a.names)

-----------------------------------------------------------------------------
\* The reader.
Stops == {"Newline", "Comment"}
read_item(p) ==
  IF p > Len(line) \/ line[p].is \in Stops
  THEN [is |-> "Nothing", at |-> p, next |-> p]
  ELSE [is |-> line[p].is, at |-> p, next |-> p + 1]

\* Mutant: only what is next is read.
bug_read_value(p) == read_item(p)

\* An equals sign before the value is passed over.
read_value(p) ==
  LET item == read_item(p) IN IF item.is = "Equal" THEN read_item(item.next) ELSE item

\* Up to the end of the line, comments and quotes as they are.
rest_of_line(p) ==
  LET ends == {q \in p..Len(line) : line[q].is = "Newline"}
  IN IF ends = {} THEN Len(line) + 1 ELSE CHOOSE q \in ends : \A r \in ends : q <= r
IndexOf(s, x) == SelectInSeq(s, LAMBDA y : y = x)
Stretch(from, to) == [i \in 1..(to - from) |-> from + i - 1]

is_number(p) == line[p].text \in Numbers

-----------------------------------------------------------------------------
\* The matching.  A slot holds the words given to it; only a Multi has several
\* and a RestOfLine a stretch of the line.
Slot == [words |-> <<>>, on |-> FALSE]
Failed(st, code, p) == [st EXCEPT !.error = code, !.pos = p]
Given(st, i, words, p) == [st EXCEPT !.slots[i].words = words, !.pos = p]

\* A word for slot i, the reader being at p after it.
Give(args, st, i, at, p) ==
  CASE args[i].kind = "Number" ->
         IF is_number(at) THEN Given(st, i, <<at>>, p) ELSE Failed(st, "BAD_NUMBER", p)
    [] args[i].kind = "Multi" -> Given(st, i, Append(st.slots[i].words, at), p)
    [] args[i].kind = "RestOfLine" -> Given(st, i, Stretch(at, rest_of_line(at)), rest_of_line(at))
    [] args[i].kind = "String" -> Given(st, i, <<at>>, p)

Keyword(args, st, i, item) ==
  LET value == read_value(item.next)
  IN CASE args[i].kind = "Switch" -> [st EXCEPT !.slots[i].on = TRUE, !.pos = item.next]
       [] args[i].kind = "Toggle" -> [st EXCEPT !.slots[i].on = ~@, !.pos = item.next]
       [] OTHER -> IF value.is = "Nothing" THEN Failed(st, "KEY_NEEDS_ARG", value.next)
                   ELSE Give(args, st, i, value.at, value.next)

positional(args) ==
  SelectSeq(Stretch(1, Len(args) + 1), LAMBDA i :
    ~args[i].keyword_only /\ args[i].kind \notin {"Switch", "Toggle"})

\* The cursor moves on except at a Multi, whether or not a keyword has filled
\* the slot that it is at.
Positional(args, st, item) ==
  IF st.cursor > Len(positional(args)) THEN Failed(st, "TOO_MANY_ARGS", item.next)
  ELSE LET i == positional(args)[st.cursor]
           given == Give(args, st, i, item.at, item.next)
       IN IF args[i].kind = "Multi" THEN given ELSE [given EXCEPT !.cursor = @ + 1]

RECURSIVE fill(_, _)
fill(args, st) ==
  LET item == read_item(st.pos)
      i == IF item.is = "Unquoted" THEN find_arg(args, line[item.at].text) ELSE 0
  IN IF st.error # "none" THEN st
     ELSE CASE item.is = "Nothing" -> [st EXCEPT !.pos = item.next]
            [] item.is = "Error" -> Failed(st, "UNMATCHED_QUOTES", item.next)
            [] item.is = "Equal" -> fill(args, [st EXCEPT !.pos = item.next])
            [] OTHER -> fill(args, IF i # 0 THEN Keyword(args, st, i, item)
                                   ELSE Positional(args, st, item))

\* A required slot after the Multi that has no word takes its last one.
borrow(args, st, i) ==
  LET m == SelectInSeq(args, LAMBDA a : a.kind = "Multi")
      needy == args[i].required /\ st.slots[i].words = <<>>
  IN IF st.error # "none" \/ m = 0 \/ i <= m \/ ~needy \/ st.slots[m].words = <<>> THEN st
     ELSE LET w == Last(st.slots[m].words)
              less == [st EXCEPT !.slots[m].words = Front(@)]
          IN IF args[i].kind = "Number" /\ ~is_number(w) THEN Failed(less, "BAD_NUMBER", st.pos)
             ELSE Given(less, i, <<w>>, st.pos)

filled(args, st, i) ==
  args[i].required => args[i].kind \in {"Switch", "Toggle"} \/ st.slots[i].words # <<>>

match_args(args) ==
  LET start == [slots |-> [i \in DOMAIN args |-> Slot], cursor |-> 1, pos |-> input_pos,
                error |-> "none"]
      lent == FoldLeft(LAMBDA st, i : borrow(args, st, i), fill(args, start),
                       Stretch(1, Len(args) + 1))
  IN IF lent.error = "none" /\ \E i \in DOMAIN args : ~filled(args, lent, i)
     THEN Failed(lent, "REQUIRED_ARG_MISSING", lent.pos) ELSE lent

-----------------------------------------------------------------------------
\* The blocks.  The heap is first fit; the blocks of a call are taken in order.
Unused(blocks) == SelectSeq(Stretch(1, HeapSize + 1), LAMBDA a : a \notin DOMAIN blocks)
Freed(blocks, allocations) == Restrict(blocks, DOMAIN blocks \ Range(allocations))

Needs(args, slots, i) ==
  LET n == Len(slots[i].words)
  IN CASE args[i].kind \in {"Switch", "Toggle"} \/ n = 0 -> 0
       [] args[i].kind = "Multi" /\ n > 0 -> n + 1
       [] OTHER -> 1

\* What goes into the blocks of slot i, which are at: a Multi has its table last.
Contents(args, slots, i, at) ==
  LET words == slots[i].words
  IN IF at = <<>> THEN <<>>
     ELSE IF args[i].kind = "Multi"
          THEN Append([k \in DOMAIN words |-> [words |-> <<words[k]>>]], [table |-> Front(at)])
          ELSE <<[words |-> words]>>

materialize(args, slots, blocks) ==
  LET Step(st, i) ==
        LET left == Unused(st.blocks)
            need == Needs(args, slots, i)
            fits == need <= Len(left)
            at == SubSeq(left, 1, IF fits THEN need ELSE Len(left))
            in == Contents(args, slots, i, at)
        IN IF ~st.ok THEN st
           ELSE [blocks |-> [a \in Range(at) |-> in[IndexOf(at, a)]] @@ st.blocks,
                 allocations |-> st.allocations \o at,
                 ok |-> fits,
                 array |-> Append(st.array,
                   IF args[i].kind \in {"Switch", "Toggle"} THEN slots[i].on
                   ELSE IF need > 0 /\ fits THEN at[need] ELSE 0)]
  IN FoldLeft(Step, [blocks |-> blocks, allocations |-> <<>>, ok |-> TRUE, array |-> <<>>],
              Stretch(1, Len(args) + 1))

-----------------------------------------------------------------------------
ArgsInit ==
  /\ line \in Lines /\ input_pos = 1
  /\ room = <<>> /\ rdargs = <<>> /\ arrays = <<>>
  /\ last = [template |-> <<>>, from |-> 1, error |-> "none", to |-> 0]

\* Mutant: the last block is forgotten.
bug_Unwound(blocks, allocations) == Freed(blocks, Front(allocations))

\* No room for a block: what the call has allocated goes back.
Unwound(blocks, allocations) == Freed(blocks, allocations)

\* own is an RDArgs of the program, or 0; got is what went on the heap.
Anchor(got, own) == IF own = 0 THEN Head(Unused(got.blocks)) ELSE own
Outcome(parsed, m, got, own) ==
  CASE ~parsed.ok -> "BAD_TEMPLATE"
    [] parsed.ok /\ m.error # "none" -> m.error
    [] OTHER -> IF ~got.ok \/ (own = 0 /\ Unused(got.blocks) = <<>>)
                THEN "NO_FREE_STORE" ELSE "none"

Handed(got, a, own) ==
  /\ room' = IF own = 0 THEN (a :> [anchor |-> TRUE]) @@ got.blocks ELSE got.blocks
  /\ rdargs' = (a :> [allocations |-> got.allocations, owns_anchor |-> own = 0]) @@ rdargs
  /\ arrays' = (a :> [of |-> last', array |-> got.array]) @@ arrays

Ended(got, own) ==
  CASE last'.error = "none" -> Handed(got, Anchor(got, own), own)
    [] last'.error = "NO_FREE_STORE" ->
         room' = Unwound(got.blocks, got.allocations) /\ UNCHANGED <<rdargs, arrays>>
    [] OTHER -> UNCHANGED <<room, rdargs, arrays>>

Matched(template, parsed, m, own) ==
  LET got == materialize(parsed.args, m.slots, room)
  IN /\ input_pos' = IF parsed.ok THEN m.pos ELSE input_pos
     /\ last' = [template |-> template, from |-> input_pos,
                 error |-> Outcome(parsed, m, got, own), to |-> input_pos']
     /\ Ended(got, own)

read_args(template, own) ==
  LET parsed_template == parse_template(template)
  IN /\ own = 0 \/ own \notin DOMAIN rdargs
     /\ Matched(template, parsed_template, match_args(parsed_template.args), own)
     /\ UNCHANGED line

\* Mutant: the RDArgs itself stays.
bug_GivenBack(a) == Freed(room, rdargs[a].allocations)
GivenBack(a) ==
  Freed(room, rdargs[a].allocations \o IF rdargs[a].owns_anchor THEN <<a>> ELSE <<>>)

free_args(a) ==
  /\ IF a \notin DOMAIN rdargs THEN UNCHANGED <<room, rdargs, arrays>>
     ELSE /\ room' = GivenBack(a)
          /\ rdargs' = Restrict(rdargs, DOMAIN rdargs \ {a})
          /\ arrays' = Restrict(arrays, DOMAIN arrays \ {a})
  /\ UNCHANGED <<line, input_pos, last>>

\* FGetC of what ReadArgs does not read past.
TakeStop ==
  /\ input_pos <= Len(line) /\ line[input_pos].is \in Stops
  /\ input_pos' = input_pos + 1
  /\ UNCHANGED <<line, room, rdargs, arrays, last>>

\* A bound: only the first ReadArgs may find nothing to read.
Tried == CASE last.to = 0 -> Templates
           [] last.to # 0 /\ read_item(input_pos).is # "Nothing" -> LaterTemplates
           [] OTHER -> {}

ArgsNext ==
  \/ \E template \in Tried, own \in {0} \union Supplied : read_args(template, own)
  \/ \E a \in DOMAIN rdargs \union {0} \union Supplied : free_args(a)
  \/ TakeStop

ArgsSpec == ArgsInit /\ [][ArgsNext]_argsVars

-----------------------------------------------------------------------------
\* What a template promises in the comments of dosargs.rs, said of the whole
\* line and not word by word.
ValidTemplate(template) ==
  LET uses == {<<i, k>> : i \in DOMAIN template, k \in 1..3}
      at(u) == IF u[2] \in DOMAIN template[u[1]].mods THEN template[u[1]].mods[u[2]] ELSE "A"
  IN /\ \A u \in uses : at(u) \in {"A", "K"} \union Types
     /\ \A u, v \in uses : u # v /\ {at(u), at(v)} \subseteq Types =>
          u[1] # v[1] /\ (at(u) \in {"M", "F"} => at(v) # at(u))

Valued(args, i) == i # 0 /\ args[i].kind \notin {"Switch", "Toggle"}
Named(args, p) == IF line[p].is = "Unquoted" THEN find_arg(args, line[p].text) ELSE 0

\* Where what ReadArgs may read ends, and the words before that.
StopFrom(from) ==
  LET stops == {p \in from..Len(line) : line[p].is \in Stops}
  IN IF stops = {} THEN Len(line) + 1 ELSE CHOOSE p \in stops : \A q \in stops : p <= q
WordsFrom(from) == SelectSeq(Stretch(from, StopFrom(from)), LAMBDA p : line[p].is # "Equal")

\* Each of the words w is a keyword, the value of one, or free.
Roles(args, w) ==
  LET role[k \in 0..Len(w)] ==
        IF k > 1 /\ role[k - 1] = "key" /\ Valued(args, Named(args, w[k - 1])) THEN "value"
        ELSE IF k > 0 /\ Named(args, w[k]) # 0 THEN "key" ELSE "free"
  IN role

\* The slot that each word is for, 0 when there is none: a free word is for the
\* next slot that has none, and a Multi soaks up all that reach it
\* (dosargs.rs:60-64).
Aims(args, w, role) ==
  LET places == positional(args)
      open(taken) == {n \in DOMAIN places : args[places[n]].kind = "Multi" \/ places[n] \notin taken}
      next(taken) == CHOOSE n \in open(taken) : \A o \in open(taken) : n <= o
      aim[k \in 0..Len(w)] ==
        IF k = 0 THEN <<>>
        ELSE Append(aim[k - 1],
          CASE role[k] = "key" -> 0
            [] role[k] = "value" -> Named(args, w[k - 1])
            [] role[k] = "free" /\ open(Range(aim[k - 1])) = {} -> 0
            [] OTHER -> places[next(Range(aim[k - 1]))])
  IN aim[Len(w)]

\* The word that takes the rest of the line with it, or else the last one.
Cut(args, aim) ==
  LET rests == {k \in DOMAIN aim : aim[k] # 0 /\ args[aim[k]].kind = "RestOfLine"}
  IN IF rests = {} THEN [at |-> Len(aim), rest |-> FALSE]
     ELSE [at |-> CHOOSE k \in rests : \A l \in rests : k <= l, rest |-> TRUE]

\* What the slot has of the words ks that are for it.
Worth(kind, w, ks) ==
  CASE ks = <<>> -> <<>>
    [] ks # <<>> /\ kind = "Multi" -> [n \in DOMAIN ks |-> w[ks[n]]]
    [] ks # <<>> /\ kind = "RestOfLine" -> Stretch(w[ks[1]], rest_of_line(w[ks[1]]))
    [] OTHER -> <<w[ks[Len(ks)]]>>

Reading(args, from, w, role, aim, cut) ==
  LET read == Stretch(1, cut.at + 1)
      times(i) == Len(SelectSeq(read, LAMBDA k : role[k] = "key" /\ Named(args, w[k]) = i))
  IN [words |-> [i \in DOMAIN args |->
                   Worth(args[i].kind, w, SelectSeq(read, LAMBDA k : aim[k] = i))],
      on |-> [i \in DOMAIN args |-> IF args[i].kind = "Switch" THEN times(i) > 0
                                    ELSE times(i) % 2 = 1],
      to |-> IF cut.rest THEN rest_of_line(w[cut.at]) ELSE StopFrom(from),
      good |-> \A k \in 1..cut.at :
        /\ role[k] = "key" /\ Valued(args, Named(args, w[k])) => k < Len(w)
        /\ role[k] = "free" => aim[k] # 0
        /\ line[w[k]].is = "Error" => role[k] = "value" /\ k = cut.at /\ cut.rest
        /\ aim[k] # 0 => (args[aim[k]].kind = "Number" => is_number(w[k]))]

\* Two kinds of line are not read as the comments say, see the findings: where
\* a free word passes over a slot that a keyword has filled, the code puts it
\* there; and it takes an unmatched quote for the value of a keyword.
Misread(args, w, role, aim, cut) ==
  LET place(i) == IndexOf(positional(args), i)
      filled_by_key(j) ==
        /\ role[j] = "value" /\ place(aim[j]) # 0 /\ args[aim[j]].kind # "Multi"
        /\ \A k \in 1..(j - 1) : role[k] = "free" => aim[k] # aim[j]
  IN \E k \in 1..cut.at :
       \/ role[k] = "free" /\ \E j \in 1..(k - 1) :
            filled_by_key(j) /\ (aim[k] = 0 \/ place(aim[j]) < place(aim[k]))
       \/ role[k] = "value" /\ line[w[k]].is = "Error" /\ ~(k = cut.at /\ cut.rest)

\* Required slots without a word, after the Multi, take its last words.
Lending(args, r, multi) ==
  LET lent == IF multi = 0 THEN <<>> ELSE r.words[multi]
      poor == SelectSeq(Stretch(1, Len(args) + 1), LAMBDA i :
                i > multi /\ args[i].required /\ Valued(args, i) /\ r.words[i] = <<>>)
      n == IF Len(poor) <= Len(lent) THEN Len(poor) ELSE Len(lent)
  IN [i \in DOMAIN args |->
        IF i = multi THEN SubSeq(lent, 1, Len(lent) - n)
        ELSE IF i \in Range(SubSeq(poor, 1, n))
        THEN <<lent[Len(lent) + 1 - IndexOf(poor, i)]>> ELSE r.words[i]]

Judged(args, r, words, misread) ==
  [words |-> words, on |-> r.on, to |-> r.to, misread |-> misread,
   good |-> /\ r.good
            /\ \A i \in DOMAIN args :
                 /\ args[i].required /\ Valued(args, i) => words[i] # <<>>
                 /\ args[i].kind = "Number" /\ words[i] # <<>> => is_number(words[i][1])]

Meaning(args, from) ==
  LET w == WordsFrom(from)
      role == Roles(args, w)
      aim == Aims(args, w, role)
      cut == Cut(args, aim)
      r == Reading(args, from, w, role, aim, cut)
  IN Judged(args, r, Lending(args, r, SelectInSeq(args, LAMBDA a : a.kind = "Multi")),
            Misread(args, w, role, aim, cut))

\* The words that the program finds when it follows the pointer of slot i.
Found(args, i, pointer) ==
  IF pointer = 0 THEN <<>>
  ELSE IF args[i].kind # "Multi" THEN room[pointer].words
  ELSE LET table == room[pointer].table
       IN FlattenSeq([k \in DOMAIN table |-> room[table[k]].words])

\* The program finds the words that the template promises through each result
\* that it has not freed, whatever it read and freed since; a line is refused
\* only if it does not fit the template; and it is read to its end and no
\* further; all that for each line but the two kinds that Misread names.  And
\* what no result owns is not on the heap, even when memory ran out half way
\* (match_args, materialize, read_args, free_args).
ArgsExact ==
  /\ LET owned(a) == Range(rdargs[a].allocations)
                       \union IF rdargs[a].owns_anchor THEN {a} ELSE {}
     IN /\ DOMAIN room = UNION {owned(a) : a \in DOMAIN rdargs}
        /\ \A a, b \in DOMAIN rdargs : a # b => owned(a) \intersect owned(b) = {}
  /\ \A a \in DOMAIN rdargs :
       LET args == parse_template(arrays[a].of.template).args
           means == Meaning(args, arrays[a].of.from)
       IN ~means.misread => \A i \in DOMAIN args :
            IF Valued(args, i) THEN Found(args, i, arrays[a].array[i]) = means.words[i]
            ELSE arrays[a].array[i] = means.on[i]
  /\ last.to # 0 =>
       LET args == parse_template(last.template).args
           means == Meaning(args, last.from)
       IN /\ (last.error # "BAD_TEMPLATE") = ValidTemplate(last.template)
          /\ last.error # "BAD_TEMPLATE" /\ ~means.misread =>
               (last.error \in {"none", "NO_FREE_STORE"}) = means.good
          /\ last.error = "none" /\ ~means.misread => last.to = means.to
=============================================================================
