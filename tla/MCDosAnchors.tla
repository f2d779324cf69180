---------------------------- MODULE MCDosAnchors ----------------------------
(* A volume with a file, and a directory that holds an empty directory.     *)
EXTENDS DosAnchors

O(path) == [root |-> "SYS", path |-> path]
P(name, comps) == [name |-> name, comps |-> comps]

mc_Tree ==
  (O(<<>>) :> "dir") @@ (O(<<1>>) :> "dir") @@ (O(<<1, 2>>) :> "dir") @@ (O(<<2>>) :> "file")
mc_Assigned == <<>>
mc_StartDir == P("SYS", <<>>)
mc_Paths == {P("SYS", <<1, 2>>)}

\* SYS:#? and SYS:1, and a pattern that 2 matches in the current directory.
mc_Patterns ==
  {[text |-> P("SYS", <<1>>), wild |-> TRUE, matches |-> Names],
   [text |-> P("SYS", <<1>>), wild |-> FALSE, matches |-> {}],
   [text |-> P(NoColon, <<1>>), wild |-> TRUE, matches |-> {2}],
   [text |-> P(NoColon, <<1, 1>>), wild |-> TRUE, matches |-> {2}]}

Symmetry == Permutations(Addrs)
=============================================================================
