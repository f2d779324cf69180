---------------------------- MODULE DosPatterns ----------------------------
(***************************************************************************)
(* ParsePattern and MatchPattern (dospattern.rs).  A pattern is parsed to  *)
(* a tree, the tree is written to the program's buffer as tokens, and      *)
(* each match decodes the tokens and lets a backtracking matcher run.      *)
(*                                                                         *)
(* Texts, names and tokens are sequences of bytes.  The closures that the  *)
(* matcher passes on are the sequence of what remains to be matched.  The  *)
(* two error codes of ParsePattern are not told apart.                     *)
(***************************************************************************)
EXTENDS Integers, Sequences
LOCAL INSTANCE SequencesExt

CONSTANTS
  Sources,    \* records [text, means]: a text, and the tree that it stands for
  Later,      \* those of them that are parsed when one was parsed before
  TextNames,  \* the names that patterns are matched with
  DestLens,   \* the sizes of buffer that programs pass
  MAX_PATTERN_LEN, DECODE_BYTE_BUDGET

VARIABLES
  tokens,   \* the program's buffer
  parsed,   \* history: what the last text that was accepted stands for
  answer    \* of the last ParsePattern: -1, or has_wildcard
patternVars == <<tokens, parsed, answer>>

-----------------------------------------------------------------------------
\* The trees of Node, and what the wildcards and the tokens are as bytes.
Literal(c) == [is |-> "Literal", c |-> c]
AnyByte == [is |-> "Any"]
Empty == [is |-> "Empty"]
Class(negate, ranges) == [is |-> "Class", negate |-> negate, ranges |-> ranges]
Row(nodes) == [is |-> "Seq", nodes |-> nodes]
Alt(branches) == [is |-> "Alt", nodes |-> branches]
Not(inner) == [is |-> "Not", inner |-> inner]
Repeat(inner) == [is |-> "Repeat", inner |-> inner]
\* A sequence or a choice of one is that one.
Single(nodes) == IF Len(nodes) = 1 THEN nodes[1] ELSE Row(nodes)
OneOf(nodes) == IF Len(nodes) = 1 THEN nodes[1] ELSE Alt(nodes)

QUEST == 63
HASH == 35
TILDE == 126
PERCENT == 37
OPEN == 40
BAR == 124
CLOSE == 41
LEFT == 91
RIGHT == 93
DASH == 45
QUOTE == 39
is_wildcard_char(c) ==
  c \in {QUEST, HASH, TILDE, PERCENT, OPEN, CLOSE, LEFT, RIGHT, QUOTE, BAR}

NUL == 0
C_MANY == 128
C_ANY == 129
C_EMPTY == 130
C_REPEAT == 131
C_NOT == 132
C_GROUP_START == 133
C_ALT_SEP == 134
C_GROUP_END == 135
C_CLASS_START == 136
C_CLASS_NEGATE == 137
C_CLASS_END == 138
C_RANGE_DASH == 139

-----------------------------------------------------------------------------
\* The parser.  Each operator reads from position p on and returns what it
\* read, the position after it, and whether there was a wildcard.
Got(node, pos, wild) == [node |-> node, pos |-> pos, wild |-> wild]
Bad == [pos |-> 0]
Then(r, F(_)) == IF r.pos = 0 THEN Bad ELSE F(r)

RECURSIVE parse_atom(_, _), atoms(_, _, _), branches(_, _), class_ranges(_, _, _)

atoms(t, p, in_group) ==
  IF p > Len(t) \/ (in_group /\ t[p] \in {CLOSE, BAR}) THEN Got(<<>>, p, FALSE)
  ELSE IF t[p] \in {CLOSE, BAR} THEN Bad
  ELSE Then(parse_atom(t, p), LAMBDA a :
         Then(atoms(t, a.pos, in_group), LAMBDA rest :
           Got(<<a.node>> \o rest.node, rest.pos, a.wild \/ rest.wild)))

parse_seq(t, p, in_group) ==
  Then(atoms(t, p, in_group), LAMBDA r : Got(Single(r.node), r.pos, r.wild))

branches(t, p) ==
  Then(parse_seq(t, p, TRUE), LAMBDA b :
    IF b.pos > Len(t) THEN Bad
    ELSE IF t[b.pos] = CLOSE THEN Got(<<b.node>>, b.pos + 1, TRUE)
    ELSE Then(branches(t, b.pos + 1), LAMBDA rest :
           Got(<<b.node>> \o rest.node, rest.pos, TRUE)))

parse_group(t, p) ==
  Then(branches(t, p), LAMBDA r : Got(OneOf(r.node), r.pos, TRUE))

\* A dash that is first stands for itself; one before the end, for "up to 127".
class_ranges(t, p, first) ==
  IF p > Len(t) THEN Bad
  ELSE IF t[p] = RIGHT THEN Got(<<>>, p + 1, TRUE)
  ELSE LET lone == (t[p] = DASH /\ first) \/ p + 2 > Len(t) \/ t[p + 1] # DASH
           read == CASE lone -> [range |-> <<t[p], t[p]>>, pos |-> p + 1]
                     [] ~lone /\ t[p + 2] = RIGHT ->
                          [range |-> <<t[p], 127>>, pos |-> p + 2]
                     [] OTHER -> [range |-> <<t[p], t[p + 2]>>, pos |-> p + 3]
       IN Then(class_ranges(t, read.pos, FALSE), LAMBDA rest :
            Got(<<read.range>> \o rest.node, rest.pos, TRUE))

parse_class(t, p) ==
  LET negate == p <= Len(t) /\ t[p] = TILDE
  IN Then(class_ranges(t, IF negate THEN p + 1 ELSE p, TRUE), LAMBDA r :
       IF r.node = <<>> THEN Bad ELSE Got(Class(negate, r.node), r.pos, TRUE))

\* A quote is an escape only before a wildcard character.
escaped(t, p) ==
  IF p <= Len(t) /\ is_wildcard_char(t[p]) THEN Got(Literal(t[p]), p + 1, FALSE)
  ELSE Got(Literal(QUOTE), p, FALSE)

parse_atom(t, p) ==
  IF p > Len(t) \/ t[p] \in {CLOSE, RIGHT, BAR} THEN Bad
  ELSE CASE t[p] = QUEST -> Got(AnyByte, p + 1, TRUE)
         [] t[p] = PERCENT -> Got(Empty, p + 1, TRUE)
         [] t[p] = HASH ->
              Then(parse_atom(t, p + 1), LAMBDA r : Got(Repeat(r.node), r.pos, TRUE))
         [] t[p] = TILDE ->
              Then(parse_atom(t, p + 1), LAMBDA r : Got(Not(r.node), r.pos, TRUE))
         [] t[p] = OPEN -> parse_group(t, p + 1)
         [] t[p] = LEFT -> parse_class(t, p + 1)
         [] t[p] = QUOTE -> escaped(t, p + 1)
         [] OTHER -> Got(Literal(t[p]), p + 1, FALSE)

parse(t) ==
  LET r == parse_seq(t, 1, FALSE)
  IN IF Len(t) > MAX_PATTERN_LEN \/ r.pos # Len(t) + 1 THEN Bad ELSE r

-----------------------------------------------------------------------------
\* The tokens.
RECURSIVE encode(_)

bug_encode_prefixed_atom(inner) == encode(inner)

\* What # and ~ apply to is one atom: a row of several becomes a group again.
encode_prefixed_atom(inner) ==
  IF inner.is = "Seq" THEN <<C_GROUP_START>> \o encode(inner) \o <<C_GROUP_END>>
  ELSE encode(inner)

encode_range(r) == IF r[1] = r[2] THEN <<r[1]>> ELSE <<r[1], C_RANGE_DASH, r[2]>>

encode(node) ==
  LET each == [i \in DOMAIN node.nodes |-> encode(node.nodes[i])]
      after == [i \in DOMAIN each |-> IF i = 1 THEN each[i] ELSE <<C_ALT_SEP>> \o each[i]]
  IN CASE node.is = "Literal" -> <<node.c>>
       [] node.is = "Any" -> <<C_ANY>>
       [] node.is = "Empty" -> <<C_EMPTY>>
       [] node.is = "Class" ->
            <<C_CLASS_START>> \o (IF node.negate THEN <<C_CLASS_NEGATE>> ELSE <<>>)
            \o FlattenSeq([i \in DOMAIN node.ranges |-> encode_range(node.ranges[i])])
            \o <<C_CLASS_END>>
       [] node.is = "Seq" -> FlattenSeq(each)
       [] node.is = "Alt" -> <<C_GROUP_START>> \o FlattenSeq(after) \o <<C_GROUP_END>>
       [] node.is = "Not" -> <<C_NOT>> \o encode_prefixed_atom(node.inner)
       [] node = Repeat(AnyByte) -> <<C_MANY>>
       [] OTHER -> <<C_REPEAT>> \o encode_prefixed_atom(node.inner)

\* A byte can be read while the budget lasts.  (What lies after the tokens in
\* memory is never read: they end with a NUL.)
Readable(b, p) == p <= DECODE_BYTE_BUDGET /\ p <= Len(b)

RECURSIVE decode_atom(_, _), decode_atoms(_, _), decode_branches(_, _), decode_ranges(_, _)

\* Up to a terminator, which is consumed and returned.
decode_atoms(b, p) ==
  IF ~Readable(b, p) THEN Bad
  ELSE IF b[p] \in {NUL, C_ALT_SEP, C_GROUP_END}
  THEN [node |-> <<>>, pos |-> p + 1, term |-> b[p]]
  ELSE Then(decode_atom(b, p), LAMBDA a :
         Then(decode_atoms(b, a.pos), LAMBDA rest :
           [rest EXCEPT !.node = <<a.node>> \o @]))

decode_seq(b, p) == Then(decode_atoms(b, p), LAMBDA r : [r EXCEPT !.node = Single(@)])

decode_branches(b, p) ==
  Then(decode_seq(b, p), LAMBDA s :
    CASE s.term = C_GROUP_END -> Got(<<s.node>>, s.pos, TRUE)
      [] s.term = NUL -> Bad
      [] OTHER -> Then(decode_branches(b, s.pos), LAMBDA rest :
                    Got(<<s.node>> \o rest.node, rest.pos, TRUE)))

decode_ranges(b, p) ==
  IF ~Readable(b, p) THEN Bad
  ELSE IF b[p] = C_CLASS_END THEN Got(<<>>, p + 1, TRUE)
  ELSE IF ~Readable(b, p + 1) THEN Bad
  ELSE LET wide == b[p + 1] = C_RANGE_DASH
       IN IF wide /\ ~Readable(b, p + 2) THEN Bad
          ELSE Then(decode_ranges(b, IF wide THEN p + 3 ELSE p + 1), LAMBDA rest :
                 Got(<<<<b[p], IF wide THEN b[p + 2] ELSE b[p]>>>> \o rest.node,
                     rest.pos, TRUE))

decode_class(b, p) ==
  LET negate == Readable(b, p) /\ b[p] = C_CLASS_NEGATE
  IN Then(decode_ranges(b, IF negate THEN p + 1 ELSE p), LAMBDA r :
       Got(Class(negate, r.node), r.pos, TRUE))

decode_atom(b, p) ==
  IF ~Readable(b, p) THEN Bad
  ELSE CASE b[p] = C_MANY -> Got(Repeat(AnyByte), p + 1, TRUE)
         [] b[p] = C_ANY -> Got(AnyByte, p + 1, TRUE)
         [] b[p] = C_EMPTY -> Got(Empty, p + 1, TRUE)
         [] b[p] = C_REPEAT ->
              Then(decode_atom(b, p + 1), LAMBDA r : Got(Repeat(r.node), r.pos, TRUE))
         [] b[p] = C_NOT ->
              Then(decode_atom(b, p + 1), LAMBDA r : Got(Not(r.node), r.pos, TRUE))
         [] b[p] = C_GROUP_START ->
              Then(decode_branches(b, p + 1), LAMBDA r :
                Got(OneOf(r.node), r.pos, TRUE))
         [] b[p] = C_CLASS_START -> decode_class(b, p + 1)
         [] OTHER -> Got(Literal(b[p]), p + 1, FALSE)

-----------------------------------------------------------------------------
\* The matcher, for a name and whether case folds: on = [name, fold].
amiga_toupper(c) == IF c \in 97..122 \/ c \in (224..254 \ {247}) THEN c - 32 ELSE c
byte_eq(a, b, fold) == IF fold THEN amiga_toupper(a) = amiga_toupper(b) ELSE a = b

class_matches(c, node, fold) ==
  LET hit == \E i \in DOMAIN node.ranges :
        LET lo == node.ranges[i][1]
            hi == node.ranges[i][2]
        IN \/ c \in lo..hi
           \/ fold /\ amiga_toupper(c) \in amiga_toupper(lo)..amiga_toupper(hi)
  IN hit # node.negate

\* What remains, k, is a sequence of trees, and of the further rounds of
\* repetitions that are under way.  A repetition remembers in seen where its
\* rounds have begun, and does not begin another there.
Again(inner, id) == [is |-> "Again", inner |-> inner, id |-> id]

RECURSIVE match_node(_, _, _, _, _), match_rest(_, _, _, _), match_any(_, _, _, _, _)

bug_match_not(on, inner, i, k, seen) ==
  IF match_node(on, inner, i, <<>>, seen).hit THEN [hit |-> FALSE, seen |-> seen]
  ELSE match_rest(on, i, k, seen)

\* Not takes all that is left, unless what it negates matches all of it.
match_not(on, inner, i, k, seen) ==
  IF match_node(on, inner, i, <<>>, seen).hit THEN [hit |-> FALSE, seen |-> seen]
  ELSE match_rest(on, Len(on.name) + 1, k, seen)

bug_match_repeat(on, inner, i, k, id, seen) ==
  IF seen[id] # {} THEN [hit |-> FALSE, seen |-> seen]
  ELSE LET now == [seen EXCEPT ![id] = @ \union {i}]
           done == match_rest(on, i, k, now)
       IN IF done.hit THEN done
          ELSE match_node(on, inner, i, <<Again(inner, id)>> \o k, done.seen)

match_repeat(on, inner, i, k, id, seen) ==
  IF i \in seen[id] THEN [hit |-> FALSE, seen |-> seen]
  ELSE LET now == [seen EXCEPT ![id] = @ \union {i}]
           done == match_rest(on, i, k, now)
       IN IF done.hit THEN done
          ELSE match_node(on, inner, i, <<Again(inner, id)>> \o k, done.seen)

match_rest(on, i, k, seen) ==
  IF k = <<>> THEN [hit |-> i = Len(on.name) + 1, seen |-> seen]
  ELSE IF Head(k).is = "Again"
  THEN match_repeat(on, Head(k).inner, i, Tail(k), Head(k).id, seen)
  ELSE match_node(on, Head(k), i, Tail(k), seen)

match_any(on, nodes, i, k, seen) ==
  IF nodes = <<>> THEN [hit |-> FALSE, seen |-> seen]
  ELSE LET first == match_node(on, Head(nodes), i, k, seen)
       IN IF first.hit THEN first ELSE match_any(on, Tail(nodes), i, k, first.seen)

match_node(on, node, i, k, seen) ==
  LET one(fits) == IF i <= Len(on.name) /\ fits THEN match_rest(on, i + 1, k, seen)
                   ELSE [hit |-> FALSE, seen |-> seen]
  IN CASE node.is = "Literal" -> one(byte_eq(on.name[i], node.c, on.fold))
       [] node.is = "Any" -> one(TRUE)
       [] node.is = "Class" -> one(class_matches(on.name[i], node, on.fold))
       [] node.is = "Empty" -> match_rest(on, i, k, seen)
       [] node.is = "Seq" -> match_rest(on, i, node.nodes \o k, seen)
       [] node.is = "Alt" -> match_any(on, node.nodes, i, k, seen)
       [] node.is = "Not" -> match_not(on, node.inner, i, k, seen)
       [] node.is = "Repeat" ->
            match_repeat(on, node.inner, i, k, Len(seen) + 1, Append(seen, {}))

full_match(node, name, fold) ==
  match_node([name |-> name, fold |-> fold], node, 1, <<>>, <<>>).hit

match_pattern(b, name, fold) ==
  LET r == decode_seq(b, 1) IN r.pos # 0 /\ full_match(r.node, name, fold)

-----------------------------------------------------------------------------
PInit == tokens = <<>> /\ parsed = Empty /\ answer = -1

ParsePattern(source, dest_len) ==
  LET r == parse(source.text)
      bytes == Append(encode(r.node), NUL)
  IN IF r.pos = 0 \/ Len(bytes) > dest_len
     THEN answer' = -1 /\ UNCHANGED <<tokens, parsed>>
     ELSE /\ tokens' = bytes /\ parsed' = source.means
          /\ answer' = IF r.wild THEN 1 ELSE 0

\* MatchPattern changes nothing: PatternsExact quantifies over its calls.
PNext ==
  \E source \in IF tokens = <<>> THEN Sources ELSE Later, dest_len \in DestLens :
    ParsePattern(source, dest_len)

PSpec == PInit /\ [][PNext]_patternVars

-----------------------------------------------------------------------------
\* What a tree means, without an order of search: where it can end when it
\* begins at i.  A repetition ends where any number of rounds lead.
RECURSIVE Ends(_, _, _)

Rounds(step(_), from, n) ==
  LET reach[m \in 0..n] ==
        IF m = 0 THEN from ELSE reach[m - 1] \union UNION {step(j) : j \in reach[m - 1]}
  IN reach[n]

OneByte(on, i, fits(_)) == {j \in {i + 1} : i <= Len(on.name) /\ fits(on.name[i])}

InClass(c, node, fold) ==
  (\E i \in DOMAIN node.ranges, d \in 0..255 :
     d \in node.ranges[i][1]..node.ranges[i][2] /\ byte_eq(c, d, fold)) # node.negate

Ends(on, node, i) ==
  CASE node.is = "Literal" -> OneByte(on, i, LAMBDA c : byte_eq(c, node.c, on.fold))
    [] node.is = "Any" -> OneByte(on, i, LAMBDA c : TRUE)
    [] node.is = "Class" -> OneByte(on, i, LAMBDA c : InClass(c, node, on.fold))
    [] node.is = "Empty" -> {i}
    [] node.is = "Seq" ->
         FoldLeft(LAMBDA from, n : UNION {Ends(on, n, j) : j \in from}, {i}, node.nodes)
    [] node.is = "Alt" -> UNION {Ends(on, node.nodes[b], i) : b \in DOMAIN node.nodes}
    [] node.is = "Not" ->
         {Len(on.name) + 1} \ Ends(on, node.inner, i)
    [] node.is = "Repeat" ->
         Rounds(LAMBDA j : Ends(on, node.inner, j), {i}, Len(on.name) + 1)

Means(node, name, fold) == Len(name) + 1 \in Ends([name |-> name, fold |-> fold], node, 1)

RECURSIVE Wild(_), NameOf(_)
Wild(node) ==
  \/ node.is \notin {"Literal", "Seq"}
  \/ node.is = "Seq" /\ \E i \in DOMAIN node.nodes : Wild(node.nodes[i])
NameOf(node) ==
  IF node.is = "Literal" THEN <<node.c>>
  ELSE FlattenSeq([i \in DOMAIN node.nodes |-> NameOf(node.nodes[i])])

\* The buffer matches the names that the text last accepted stands for, and no
\* other; the answer tells whether it had a wildcard; and without one the
\* buffer is the name itself, which programs go on to use as a string.
PatternsExact ==
  tokens # <<>> =>
    /\ Len(tokens) <= DECODE_BYTE_BUDGET =>
         \A name \in TextNames, fold \in BOOLEAN :
           match_pattern(tokens, name, fold) = Means(parsed, name, fold)
    /\ answer # -1 => (answer = 1) = Wild(parsed)
    /\ ~Wild(parsed) => tokens = Append(NameOf(parsed), NUL)
=============================================================================
