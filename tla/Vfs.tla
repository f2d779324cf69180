-------------------------------- MODULE Vfs ---------------------------------
(***************************************************************************)
(* Amiga paths on a host directory tree (vfs.rs): volumes, assigns, the    *)
(* current directory, and what a path resolves to.                         *)
(*                                                                         *)
(* Names of files and directories are positive integers, which sort as     *)
(* the code sorts them; the parent step "/" is 0.  A parsed path is a      *)
(* record [name, comps]: its name is a volume or an assign, BareColon for  *)
(* ":a", or NoColon for a path relative to the current directory.  An      *)
(* object of the host is [root, path], the host directory of a volume and  *)
(* the components below it.                                                *)
(*                                                                         *)
(* A Result is the set of the values the code returns: empty for an error. *)
(* Left out: the case of letters, volumes created at their first use, the  *)
(* auto-assign root, and links.                                            *)
(***************************************************************************)
EXTENDS Integers, Sequences, FiniteSets, SequencesExt

CONSTANTS
  Volumes,      \* configured volumes
  AssignNames,  \* names an assign may have
  Names         \* names of files and directories

ASSUME NamesAssumption ==
  /\ Names \subseteq Nat \ {0} /\ IsFiniteSet(Names)
  /\ Volumes \cap AssignNames = {}

VARIABLES
  kind,     \* the host's tree: "dir" or "file" for each object there is
  assigns,  \* VfsConfig.assigns: the target paths of each assign, in order
  cwd       \* VfsConfig.cwd: an absolute path

vfs == <<kind, assigns, cwd>>

ParentStep == 0
NoColon == "no colon"
BareColon == ""
MAX_ASSIGN_DEPTH == 16

-----------------------------------------------------------------------------
(* The host's tree. *)

Below(o, comps) == [o EXCEPT !.path = @ \o comps]
Inside(o, name) == Below(o, <<name>>)
Within(o, dir) == o.root = dir.root /\ IsPrefix(dir.path, o.path)

Exists(o) == o \in DOMAIN kind
IsDir(o) == Exists(o) /\ kind[o] = "dir"

\* sorted_dir_entries: the names in a directory, in order.
Children(dir) == {n \in Names : Exists(Inside(dir, n))}
Ascending(q) == \A i, j \in DOMAIN q : i < j => q[i] < q[j]
InOrder(names) ==
  CHOOSE q \in [1..Cardinality(names) -> names] : Ascending(q) /\ ToSet(q) = names
sorted_dir_entries(dir) == InOrder(Children(dir))

\* What is left when o and everything below it is gone.
Without(o) == [p \in {q \in DOMAIN kind : ~ Within(q, o)} |-> kind[p]]
\* A new file or directory.
With(o, k) == [p \in DOMAIN kind \cup {o} |-> IF p = o THEN k ELSE kind[p]]
\* What rename(2) does: the tree of old is now at new.
Moved(old, new) ==
  LET Place(o) == IF Within(o, old)
                  THEN Below(new, SubSeq(o.path, Len(old.path) + 1, Len(o.path))) ELSE o
  IN [p \in {Place(q) : q \in DOMAIN kind} |->
        kind[CHOOSE q \in DOMAIN kind : Place(q) = p]]

-----------------------------------------------------------------------------
(* Paths. *)

\* What parse_path returns, and an absolute path without parent steps.
ParsedPath == [name : Volumes \cup AssignNames \cup {NoColon, BareColon},
               comps : Seq(Names \cup {ParentStep})]
AbsolutePath == [name : Volumes \cup AssignNames, comps : Seq(Names)]
HostObject == [root : Volumes, path : Seq(Names)]

\* One more component: a parent step takes the last one away, and is an error
\* if there is none to take.
Popped(stacks, c) ==
  IF c = ParentStep THEN {Front(s) : s \in stacks \ {<<>>}} ELSE {Append(s, c) : s \in stacks}

\* The named components that are left of all.
apply_parent_pops(comps) ==
  LET left[i \in 0..Len(comps)] == IF i = 0 THEN {<<>>} ELSE Popped(left[i - 1], comps[i])
  IN left[Len(comps)]

leading_name(p) == IF p.name \in {NoColon, BareColon} THEN cwd.name ELSE p.name
effective_components(p) == IF p.name = NoColon THEN cwd.comps \o p.comps ELSE p.comps

normalize_to_absolute(p) ==
  {[name |-> leading_name(p), comps |-> named] :
     named \in apply_parent_pops(effective_components(p))}

\* The host directories of one more target of an assign, after those found.
WithTarget(hosts, found, t) ==
  {done \o [i \in DOMAIN bases |-> Below(bases[i], named)] :
     done \in found, bases \in hosts[leading_name(t)], named \in apply_parent_pops(t.comps)}

OfTargets(hosts, targets) ==
  LET found[i \in 0..Len(targets)] ==
        IF i = 0 THEN {<<>>} ELSE WithTarget(hosts, found[i - 1], targets[i])
  IN found[Len(targets)]

\* What each name stands for, if hosts is what it stands for one assign less deep.
Deeper(hosts) ==
  [n \in Volumes \cup AssignNames |->
     IF n \in Volumes THEN {<<[root |-> n, path |-> <<>>]>>}
     ELSE IF n \notin DOMAIN assigns \/ assigns[n] = <<>> THEN {}
     ELSE OfTargets(hosts, assigns[n])]

\* The host directories a name stands for, in the order they are searched.
assign_targets ==
  LET hosts[depth \in 0..(MAX_ASSIGN_DEPTH + 1)] ==
        IF depth = 0 THEN [n \in Volumes \cup AssignNames |-> {}] ELSE Deeper(hosts[depth - 1])
  IN hosts[MAX_ASSIGN_DEPTH + 1]

\* Whether the first target of an assign, and the first target of that one,
\* and so on, ends at a volume.
host_dir_for_name(n) ==
  LET sound[left \in 0..(MAX_ASSIGN_DEPTH + 1), m \in Volumes \cup AssignNames] ==
        IF left = 0 THEN FALSE
        ELSE \/ m \in Volumes
             \/ /\ m \in DOMAIN assigns /\ assigns[m] # <<>>
                /\ sound[left - 1, leading_name(Head(assigns[m]))]
                /\ apply_parent_pops(Head(assigns[m]).comps) # {}
  IN sound[MAX_ASSIGN_DEPTH + 1, n]

\* Whether the walk down from a directory succeeds.  The directory itself is
\* not looked at when there is nowhere to walk.
resolve_named_components(base, named, last_must_exist) ==
  \/ named = <<>>
  \/ /\ \A i \in 1..(Len(named) - 1) : IsDir(Below(base, SubSeq(named, 1, i)))
     /\ \/ Exists(Below(base, named))
        \/ ~ last_must_exist /\ (Exists(base) => IsDir(base))

\* Mutant: the path of an object keeps the parent steps it was reached by.
bug_Resolved(p, base, named) ==
  [host |-> Below(base, named),
   amiga |-> [name |-> leading_name(p), comps |-> effective_components(p)]]

\* resolve_with_amiga_path, for MustExist and for ParentMustExist: the object,
\* and the path that names it.
Resolved(p, base, named) ==
  [host |-> Below(base, named), amiga |-> [name |-> leading_name(p), comps |-> named]]

Searches(p) == assign_targets[leading_name(p)] \X apply_parent_pops(effective_components(p))
Hits(search) ==
  {i \in DOMAIN search[1] : resolve_named_components(search[1][i], search[2], TRUE)}

search_targets(p) ==
  {Resolved(p, s[1][Min(Hits(s))], s[2]) : s \in {t \in Searches(p) : Hits(t) # {}}}

\* If the current directory is a file, every relative path is that file.
resolve_must_exist(p) ==
  LET here == search_targets(cwd)
  IN IF p.name # NoColon \/ \E r \in here : IsDir(r.host) THEN search_targets(p) ELSE here

\* A new object is made in the first directory of an assign.
resolve_parent_must_exist(p) ==
  {Resolved(p, Head(s[1]), s[2]) :
     s \in {t \in Searches(p) : resolve_named_components(Head(t[1]), t[2], FALSE)}}

-----------------------------------------------------------------------------
(* The steps of the Vfs itself. *)

set_assign(name, targets) ==
  assigns' = [n \in DOMAIN assigns \cup {name} |-> IF n = name THEN targets ELSE assigns[n]]
remove_assign(name) == assigns' = [n \in DOMAIN assigns \ {name} |-> assigns[n]]

\* The current directory that set_cwd(p) sets, or none if it refuses p.
set_cwd(p) == {q \in normalize_to_absolute(p) : host_dir_for_name(q.name)}
=============================================================================
