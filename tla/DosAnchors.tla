----------------------------- MODULE DosAnchors -----------------------------
(***************************************************************************)
(* MatchFirst, MatchNext and MatchEnd (dosanchor.rs) over the locks: a     *)
(* scan of a directory tree that keeps a lock for each level it is in,     *)
(* while the program uses those locks, changes the current directory, and  *)
(* changes the tree.                                                       *)
(*                                                                         *)
(* A pattern is a path whose last component is replaced by the names that  *)
(* match it if it is wild.  pending_entry and direct_self are kept as the  *)
(* path that a descent would enter.  The AChain of a level is never freed  *)
(* and never read again: only the failure to allocate one is modelled.     *)
(* APF_DODIR is the one flag the code reads.                               *)
(***************************************************************************)
EXTENDS DosLocks

CONSTANTS
  Anchors,     \* addresses of AnchorPaths, which are not on the heap
  Patterns,    \* records [text, wild, matches]
  BufferShort  \* ap_Buf may be too short for the path of an entry

ASSUME AnchorsAssumption ==
  /\ BufferShort \in BOOLEAN
  /\ \A pat \in Patterns :
       pat.text \in ParsedPath /\ pat.wild \in BOOLEAN /\ pat.matches \subseteq Names

VARIABLES
  anchor_states,  \* DosState.anchor_states
  dodir,          \* guest memory: the AnchorPaths with APF_DODIR set
  tour            \* history: what the calls for an AnchorPath have returned

anchors == <<anchor_states, dodir, tour>>
avars == <<vars, anchors>>

NoTour == [root |-> NoPath, matches |-> {}, direct |-> FALSE, same |-> TRUE,
           got |-> <<>>, entered |-> {}, done |-> FALSE]
\* No more is said of a tour once a change or a short buffer came between.
Spoilt == [NoTour EXCEPT !.same = FALSE]
\* A tour of which something was returned.
NewTour(root, matches, direct, first) ==
  [NoTour EXCEPT !.root = root, !.matches = matches, !.direct = direct, !.got = <<first>>]

AInit ==
  /\ Init
  /\ anchor_states = <<>> /\ dodir = {}
  /\ tour = [ap \in Anchors |-> NoTour]

-----------------------------------------------------------------------------
\* The names that match in a directory, in order, and which are directories;
\* what is no directory has none.
list_and_filter(host, matches) ==
  LET names == InOrder({n \in Children(host) \cap matches : IsDir(host)})
  IN [i \in DOMAIN names |-> [name |-> names[i], is_dir |-> IsDir(Inside(host, names[i]))]]

\* The path of an entry of a level, if it is a directory, and what is
\* returned for it.
Enterable(level, e) ==
  IF e.is_dir THEN {[level.amiga EXCEPT !.comps = Append(@, e.name)]} ELSE {}
Entry(level, e) == [at |-> Inside(level.host, e.name), leaving |-> FALSE]

\* Whether the rest of a call, from the allocation of an AChain or from the
\* filling of the buffer on, may fail.
MayFail(cause) == IF cause THEN BOOLEAN ELSE {FALSE}

\* Without a wildcard: a lock on the object itself, a level with no entries.
\* The lock stays if there is no room for the AChain or for the path.
match_first_plain(ap, pat) ==
  \E r \in resolve_must_exist(pat.text) : \E o \in new_lock(dos, r.host, r.amiga) :
    \E failed \in MayFail(HeapMayFail \/ BufferShort) :
      /\ dos' = o.dos
      /\ IF o.at = Zero \/ failed THEN UNCHANGED <<anchor_states, tour>>
         ELSE /\ anchor_states' = Put(anchor_states, ap,
                   [matches |-> Names,
                    levels |-> <<[lock |-> o.at, amiga |-> r.amiga, host |-> r.host,
                                  entries |-> <<>>, cursor |-> 1]>>,
                    pending |-> IF IsDir(r.host) THEN {r.amiga} ELSE {}])
              /\ tour' = [tour EXCEPT ![ap] =
                   NewTour(r.host, Names, TRUE, [at |-> r.host, leaving |-> FALSE])]

\* With one: a lock on the directory, which is given back if nothing matches.
match_first_wild(ap, pat) ==
  \E r \in resolve_must_exist(dir_part(pat.text)) : \E o \in new_lock(dos, r.host, r.amiga) :
    \E failed \in MayFail(HeapMayFail \/ BufferShort) :
      LET entries == list_and_filter(r.host, pat.matches)
          level == [lock |-> o.at, amiga |-> dir_part(pat.text), host |-> r.host,
                    entries |-> entries, cursor |-> 2]
      IN IF o.at = Zero THEN dos' = o.dos /\ UNCHANGED <<anchor_states, tour>>
         ELSE IF entries = <<>> THEN dos' = unlock(o.dos, o.at) /\ UNCHANGED <<anchor_states, tour>>
         ELSE IF failed THEN dos' = o.dos /\ UNCHANGED <<anchor_states, tour>>
         ELSE /\ dos' = o.dos
              /\ anchor_states' = Put(anchor_states, ap,
                   [matches |-> pat.matches, levels |-> <<level>>,
                    pending |-> Enterable(level, Head(entries))])
              /\ tour' = [tour EXCEPT ![ap] =
                   NewTour(r.host, pat.matches, FALSE, Entry(level, Head(entries)))]

match_first(ap, pat) ==
  /\ ap \notin DOMAIN anchor_states
  /\ IF pat.wild THEN match_first_wild(ap, pat) ELSE match_first_plain(ap, pat)
  /\ UNCHANGED <<vfs, devprocs, exall, held, dropped, scan, changes, dodir>>

-----------------------------------------------------------------------------
(* MatchNext: first a descent, if the last entry was a directory and the    *)
(* program asks for it, then the next entry or the way back.  A step of it  *)
(* is a record of what it leaves: dos, the state, whether APF_DODIR is set, *)
(* what was entered and returned, and if it goes on.                        *)

Start(ap) ==
  [dos |-> dos, state |-> [anchor_states[ap] EXCEPT !.pending = {}],
   dodir |-> ap \in dodir, entered |-> {}, got |-> <<>>, on |-> TRUE, end |-> FALSE]

\* The directory r that path names was locked with outcome o: a level for it.
Descent(ap, path, r, o, failed) ==
  LET level == [lock |-> o.at, amiga |-> path, host |-> r.host, cursor |-> 1,
                entries |-> list_and_filter(r.host, anchor_states[ap].matches)]
  IN IF o.at = Zero \/ failed THEN [Start(ap) EXCEPT !.dos = o.dos, !.on = FALSE]
     ELSE [Start(ap) EXCEPT !.dos = o.dos, !.dodir = FALSE, !.entered = {r.host},
                            !.state.levels = Append(@, level)]

descended(ap) ==
  IF ap \notin dodir \/ anchor_states[ap].pending = {} THEN {Start(ap)}
  ELSE LET path == CHOOSE p \in anchor_states[ap].pending : TRUE
           found == resolve_must_exist(path)
       IN IF found = {} THEN {[Start(ap) EXCEPT !.on = FALSE]}
          ELSE UNION {{Descent(ap, path, r, o, failed) :
                         o \in new_lock(dos, r.host, r.amiga), failed \in MayFail(HeapMayFail)} :
                      r \in found}

\* The next entry of the innermost level; its cursor moves also if the path
\* does not fit.
next_entry(s, short) ==
  LET n == Len(s.state.levels)
      level == s.state.levels[n]
      e == level.entries[level.cursor]
  IN [s EXCEPT !.state.levels[n].cursor = @ + 1,
               !.state.pending = IF short THEN {} ELSE Enterable(level, e),
               !.got = IF short THEN <<>> ELSE <<Entry(level, e)>>]

\* Mutant: the directory that was left may be entered again.
bug_level_left(s, short) ==
  LET level == Last(s.state.levels)
  IN [s EXCEPT !.dos = unlock(@, level.lock), !.state.levels = Front(@),
               !.state.pending = {level.amiga},
               !.got = IF short THEN <<>> ELSE <<[at |-> level.host, leaving |-> TRUE]>>]

\* The innermost level is left and its lock released.
level_left(s, short) ==
  LET level == Last(s.state.levels)
  IN [s EXCEPT !.dos = unlock(@, level.lock), !.state.levels = Front(@),
               !.got = IF short THEN <<>> ELSE <<[at |-> level.host, leaving |-> TRUE]>>]

match_next_inner(s, short) ==
  LET level == Last(s.state.levels)
  IN IF ~ s.on THEN s
     ELSE IF level.cursor <= Len(level.entries) THEN next_entry(s, short)
     ELSE IF Len(s.state.levels) = 1 THEN [s EXCEPT !.end = TRUE]
     ELSE level_left(s, short)

\* What was read through locks that are gone is history.
Forget(locks) ==
  /\ dropped' = (dropped \/ dos.current_dir_lock \in locks)
  /\ scan' = [a \in Addrs |-> IF a \in locks THEN NoScan ELSE scan[a]]

\* A tour with what a step of MatchNext adds to it.
Longer(w, s) ==
  [w EXCEPT !.got = @ \o s.got, !.entered = @ \cup s.entered, !.done = @ \/ s.end]

match_next(ap) ==
  /\ ap \in DOMAIN anchor_states
  /\ \E s \in descended(ap), short \in MayFail(BufferShort) :
       LET t == match_next_inner(s, short) IN
       /\ dos' = t.dos
       /\ anchor_states' = [anchor_states EXCEPT ![ap] = t.state]
       /\ dodir' = IF t.dodir THEN dodir ELSE dodir \ {ap}
       /\ tour' = [tour EXCEPT ![ap] = IF @.same /\ ~ short THEN Longer(@, t) ELSE Spoilt]
       /\ Forget(DOMAIN dos.locks \ DOMAIN t.dos.locks)
  /\ UNCHANGED <<vfs, devprocs, exall, held, changes>>

\* Mutant: only the innermost level's lock is released.
bug_match_end(ap) ==
  /\ ap \in DOMAIN anchor_states
  /\ dos' = unlock(dos, Last(anchor_states[ap].levels).lock)
  /\ anchor_states' = Dropped(anchor_states, ap)
  /\ tour' = [tour EXCEPT ![ap] = NoTour]
  /\ Forget(DOMAIN dos.locks \ DOMAIN dos'.locks)
  /\ UNCHANGED <<vfs, devprocs, exall, held, changes, dodir>>

\* Each level's lock is unlocked in its turn; what is left is the same in any order.
unlock_all(d, locks) ==
  [d EXCEPT !.exnext = Restrict(@, DOMAIN @ \ locks),
            !.locks = Restrict(@, DOMAIN @ \ locks),
            !.blocks = @ \ (locks \cap DOMAIN d.locks),
            !.current_dir_lock = IF @ \in locks THEN Zero ELSE @]

LevelLocks(ap) == {anchor_states[ap].levels[i].lock : i \in DOMAIN anchor_states[ap].levels}

match_end(ap) ==
  /\ ap \in DOMAIN anchor_states
  /\ dos' = unlock_all(dos, LevelLocks(ap))
  /\ anchor_states' = Dropped(anchor_states, ap)
  /\ tour' = [tour EXCEPT ![ap] = NoTour]
  /\ Forget(DOMAIN dos.locks \ DOMAIN dos'.locks)
  /\ UNCHANGED <<vfs, devprocs, exall, held, changes, dodir>>

\* The program asks for a descent.
SetDoDir(ap) ==
  /\ ap \in DOMAIN anchor_states
  /\ dodir' = dodir \cup {ap}
  /\ UNCHANGED <<vars, anchor_states, tour>>

\* Where a scan goes on may depend on the current directory: the path of its
\* pattern is kept as it was given, and an assign may have such a target.
Relative(p) == p.name \in {NoColon, BareColon}
FollowsCwd(ap) ==
  \/ Relative(Head(anchor_states[ap].levels).amiga)
  \/ \E n \in DOMAIN assigns : \E i \in DOMAIN assigns[n] : Relative(assigns[n][i])

\* The calls of DosLocks; a change of the tree or the assigns, or of the current
\* directory of a scan that follows it, ends what can be said of a tour.
OtherCall ==
  /\ Next
  /\ tour' = [ap \in Anchors |->
       IF /\ ap \in DOMAIN anchor_states
          /\ changes' # changes \/ (cwd' # cwd /\ FollowsCwd(ap))
       THEN Spoilt ELSE tour[ap]]
  /\ UNCHANGED <<anchor_states, dodir>>

ANext ==
  \/ OtherCall
  \/ \E ap \in Anchors : \/ \E pat \in Patterns : match_first(ap, pat)
                         \/ match_next(ap) \/ match_end(ap) \/ SetDoDir(ap)

ASpec == AInit /\ [][ANext]_avars

-----------------------------------------------------------------------------
(* What must hold. *)

\* Descending and leaving by turns, failing half way and ending at any point,
\* each level's lock is there as long as the level and no longer, and no other
\* lock is left over (dosanchor.rs match_first, match_next_inner, match_end).
ScansOwnLocks ==
  LET program == held \cup {devprocs[v] : v \in DOMAIN devprocs}
      scans == UNION {LevelLocks(ap) : ap \in DOMAIN anchor_states}
  IN /\ DOMAIN dos.locks = program \cup scans
     /\ program \cap scans = {}
     /\ \A ap \in DOMAIN anchor_states :
          Cardinality(LevelLocks(ap)) = Len(anchor_states[ap].levels)

\* What a tour returns: what matches in every directory it goes through, and
\* every directory that is entered once more, when it is left; without a
\* wildcard, the object itself.
Items(w) ==
  LET through == w.entered \cup IF w.direct THEN {} ELSE {w.root}
  IN (UNION {{[at |-> Inside(d, n), leaving |-> FALSE] : n \in Children(d) \cap w.matches} :
               d \in {o \in through : IsDir(o)}})
       \cup {[at |-> d, leaving |-> TRUE] : d \in w.entered}
       \cup IF w.direct THEN {[at |-> w.root, leaving |-> FALSE]} ELSE {}

\* The order of a tour: by name, a directory before what is in it and its
\* leaving after.
Before(x, y) ==
  LET p == x.at.path
      q == y.at.path
  IN \/ \E k \in DOMAIN p \cap DOMAIN q :
          (\A i \in 1 .. k - 1 : p[i] = q[i]) /\ p[k] < q[k]
     \/ IsPrefix(p, q) /\ ~ x.leaving /\ (p = q => y.leaving)
     \/ IsPrefix(q, p) /\ y.leaving /\ (p = q => ~ x.leaving)

\* Whatever directories the program lets the scan enter, the calls return the
\* tour of the tree: all of it up to the last one returned, in order and once
\* each, and at its end all of it.  The directory a descent would enter is the
\* one returned last (dosanchor.rs:66-80).
WalkIsTour ==
  \A ap \in DOMAIN anchor_states :
    LET w == tour[ap]
        returned == {w.got[i] : i \in DOMAIN w.got}
    IN w.same =>
         /\ \A i, j \in DOMAIN w.got : i < j => Before(w.got[i], w.got[j])
         /\ returned \subseteq Items(w)
         /\ \A x \in Items(w), y \in returned : Before(x, y) => x \in returned
         /\ w.done => Items(w) \subseteq returned
         /\ \A p \in anchor_states[ap].pending :
              {r.host : r \in resolve_must_exist(p)} = {Last(w.got).at}
=============================================================================
