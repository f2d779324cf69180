----------------------------- MODULE MCDosLocks -----------------------------
(* Small instances for TLC of how programs name files: the locks of         *)
(* DosLocks, on a volume with a file and a directory and an assign of both  *)
(* directories; the patterns of DosPatterns; and the templates of DosArgs.  *)
(* One of the three at a time.                                              *)
EXTENDS DosLocks, DosPatterns, DosArgs
LOCAL INSTANCE SequencesExt

VARIABLE part
dirsVars == <<part, vars, patternVars, argsVars>>

O(path) == [root |-> "SYS", path |-> path]
P(name, comps) == [name |-> name, comps |-> comps]

mc_Tree ==
  (O(<<>>) :> "dir") @@ (O(<<1>>) :> "file") @@ (O(<<2>>) :> "dir") @@ (O(<<2, 2>>) :> "file")
mc_Assigned == ("WORK" :> <<P("SYS", <<2>>), P("SYS", <<>>)>>)
mc_StartDir == P("SYS", <<>>)
mc_StartBelow == P("SYS", <<2>>)
\* WORK:1 is found in the second directory of WORK, and made in the first.
mc_Paths == {P(NoColon, <<2>>), P(NoColon, <<ParentStep>>), P("WORK", <<>>), P("WORK", <<1>>)}

Symmetry == Permutations(Addrs)

-----------------------------------------------------------------------------
\* The trees of up to three operators over six leaves, and their texts.
a == 97
b == 98
Leaves ==
  {Literal(a), Literal(HASH), AnyByte, Empty, Class(FALSE, <<<<a, b>>>>),
   Class(TRUE, <<<<DASH, DASH>>, <<a, a>>>>)}
Prefixed(nodes) == {Repeat(n) : n \in nodes} \union {Not(n) : n \in nodes}
Joined(xs, ys) == UNION {{Row(<<x, y>>), Alt(<<x, y>>)} : x \in xs, y \in ys}
Ones == Prefixed(Leaves) \union Joined(Leaves, Leaves) \union {Alt(<<n>>) : n \in Leaves}
Shapes ==
  UNION {Leaves, Ones, Prefixed(Ones), Joined(Ones, Leaves), Joined(Leaves, Ones),
         Prefixed(Joined({Repeat(n) : n \in Leaves}, Leaves))}

RECURSIVE Text(_)
Quoted(c) == IF is_wildcard_char(c) THEN <<QUOTE, c>> ELSE <<c>>
Span(r) == IF r[1] = r[2] THEN <<r[1]>> ELSE <<r[1], DASH, r[2]>>
Grouped(node) ==
  IF node.is = "Seq" THEN <<OPEN>> \o Text(node) \o <<CLOSE>> ELSE Text(node)
Text(node) ==
  CASE node.is = "Literal" -> Quoted(node.c)
    [] node.is = "Any" -> <<QUEST>>
    [] node.is = "Empty" -> <<PERCENT>>
    [] node.is = "Class" ->
         <<LEFT>> \o (IF node.negate THEN <<TILDE>> ELSE <<>>)
         \o FlattenSeq([i \in DOMAIN node.ranges |-> Span(node.ranges[i])]) \o <<RIGHT>>
    [] node.is = "Seq" -> FlattenSeq([i \in DOMAIN node.nodes |-> Text(node.nodes[i])])
    [] node.is = "Alt" ->
         LET after(i) == (IF i = 1 THEN <<OPEN>> ELSE <<BAR>>) \o Text(node.nodes[i])
         IN FlattenSeq([i \in DOMAIN node.nodes |-> after(i)]) \o <<CLOSE>>
    [] node.is = "Not" -> <<TILDE>> \o Grouped(node.inner)
    [] node.is = "Repeat" -> <<HASH>> \o Grouped(node.inner)

\* Quotes, classes and groups at their edges; and texts that are refused, which
\* stand for a tree that matches nothing.
S(text, means) == [text |-> text, means |-> means]
mc_Later ==
  {S(<<QUOTE, a>>, Row(<<Literal(QUOTE), Literal(a)>>)), S(<<QUOTE, QUOTE>>, Literal(QUOTE)),
   S(<<a, QUOTE>>, Row(<<Literal(a), Literal(QUOTE)>>)),
   S(<<LEFT, a, DASH, RIGHT>>, Class(FALSE, <<<<a, 127>>>>)),
   S(<<LEFT, DASH, a, DASH, b, RIGHT>>, Class(FALSE, <<<<DASH, DASH>>, <<a, b>>>>)),
   S(<<OPEN, CLOSE>>, Alt(<<Empty>>)),
   S(<<HASH, OPEN, BAR, a, CLOSE>>, Repeat(Alt(<<Empty, Literal(a)>>)))}
  \union {S(text, Alt(<<>>)) : text \in
            {<<OPEN, a>>, <<a, CLOSE>>, <<a, BAR, a>>, <<LEFT, a>>, <<LEFT, RIGHT>>,
             <<LEFT, TILDE, RIGHT>>, <<LEFT, a, DASH>>, <<HASH>>, <<TILDE>>, <<RIGHT>>,
             <<OPEN, HASH, BAR, a, CLOSE>>}}
mc_Sources == mc_Later \union {S(Text(n), n) : n \in Shapes}
mc_TextNames ==
  {<<>>, <<a>>, <<b>>, <<65>>, <<HASH>>, <<DASH>>, <<QUOTE>>, <<a, a>>, <<a, b>>, <<b, a>>,
   <<a, b, a>>, <<a, HASH, a>>, <<QUOTE, a>>, <<a, QUOTE>>}

-----------------------------------------------------------------------------
\* Lines of up to three words, keywords among them, quoted or not, and a few
\* longer ones that a newline or a comment divides.
I(is, text) == [is |-> is, text |-> text]
U(text) == I("Unquoted", text)
Eq == I("Equal", "")
Endings == {I("Newline", ""), I("Comment", "")}
Words == {U("FROM"), U("TO"), U("ALL"), U("a"), U("7"), I("Quoted", "FROM")}
Short == UNION {[1..n -> Words \union {Eq}] : n \in 0..3}
mc_Lines ==
  {l \in Short : \A i \in 1..(Len(l) - 1) : <<l[i], l[i + 1]>> # <<Eq, Eq>>}
  \union {Append(l, I("Error", "a")) : l \in {l \in Short : Len(l) < 3 /\ Eq \notin Range(l)}}
  \union {l \o <<e, U("TO"), U("7"), I("Newline", ""), U("a")>> : e \in Endings, l \in
            {<<>>, <<U("a")>>, <<U("a"), U("FROM"), Eq, U("7")>>, <<U("a"), U("a"), U("7"), U("a")>>}}

T(names, mods) == [names |-> names, mods |-> mods]
From(mods) == T({"FROM"}, mods)
To(mods) == T({"TO"}, mods)
All(mods) == T({"ALL"}, mods)
mc_LaterTemplates == {<<From(<<"M">>), To(<<"K">>)>>, <<To(<<>>), All(<<"F">>)>>}
mc_Templates == mc_LaterTemplates \union
  {<<From(<<>>), To(<<>>)>>, <<T({"FROM", "ALL"}, <<"A">>), To(<<"K">>)>>,
   <<From(<<"A", "M">>), To(<<"A">>)>>, <<From(<<"M">>), To(<<"A">>), All(<<"A">>)>>,
   <<From(<<>>), All(<<"S">>)>>, <<From(<<"K">>), All(<<"T">>), To(<<"N">>)>>,
   <<To(<<"F", "K">>), From(<<"M">>)>>, <<From(<<"M">>), To(<<"N", "A">>), All(<<"S">>)>>,
   <<T({}, <<"N">>), From(<<>>)>>,
   <<From(<<"M">>), To(<<"M">>)>>, <<To(<<"F">>), From(<<"F">>)>>, <<From(<<"S", "N">>)>>,
   <<From(<<"Q">>)>>}

-----------------------------------------------------------------------------
DirsInit ==
  /\ Init /\ PInit /\ ArgsInit
  /\ part \in {"locks", "patterns", "arguments"}
  /\ part # "arguments" => line = <<>>
DirsNext ==
  \/ part = "locks" /\ Next /\ UNCHANGED <<part, patternVars, argsVars>>
  \/ part = "patterns" /\ PNext /\ UNCHANGED <<part, vars, argsVars>>
  \/ part = "arguments" /\ ArgsNext /\ UNCHANGED <<part, vars, patternVars>>
DirsSpec == DirsInit /\ [][DirsNext]_dirsVars

\* Texts that programs give to be read: a pattern matches what it stands for,
\* and the words of a command line come where the template wants them.
TextsExact == PatternsExact /\ ArgsExact
=============================================================================
