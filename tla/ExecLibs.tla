------------------------------ MODULE ExecLibs ------------------------------
(***************************************************************************)
(* Disk-based libraries: OpenLibrary, CloseLibrary, RemLibrary, AddLibrary *)
(* (execlib.rs), the registry of library bases and the order in which a    *)
(* name is looked up (dispatch.rs), and the seglists the libraries are     *)
(* made of (dosseg.rs).                                                    *)
(*                                                                         *)
(* An open runs guest code: initFunc, then the Open vector.  initFunc may  *)
(* itself open and close libraries, and may Wait, so that other tasks do;  *)
(* its continuation is on one stack with theirs, and the last pushed is    *)
(* taken first.  The Open, Close and Expunge vectors run under Forbid and  *)
(* call nothing modelled here, so a call through one is a single step.     *)
(*                                                                         *)
(* An rt_Init adds its library by AddLibrary and returns later, and then   *)
(* the registry has it without its seglist until after_init: it can be     *)
(* opened, closed, or replaced by a copy before its init is over.          *)
(*                                                                         *)
(* The guest keeps the rules of the RKRM: a library counts its opens in    *)
(* lib_OpenCnt and lets itself be unloaded only when none is left; a base  *)
(* is closed by who opened it.                                             *)
(***************************************************************************)
EXTENDS Naturals, FiniteSets, SequencesExt

CONSTANTS
  Names,      \* what OpenLibrary is called with: library names and paths
  Files,      \* files the names lead to
  FileOf,     \* Names -> Files
  LnName,     \* Files -> Names, the rt_Name the library carries
  AutoInit,   \* the files with RTF_AUTOINIT
  NullInit,   \* those of them with no initFunc
  Broken,     \* the files that are no loadable library
  LibsDir,    \* the names found in the --libs-dir directory
  MayRefuse,  \* the files whose init may fail
  OwnExpunge, \* the AUTOINIT files whose Close frees the base itself
  NullTwice,  \* an rt_Init may return NULL although a copy came or went
  EarlyEnd,   \* a library may agree to go while its own init runs
  Addrs,      \* heap addresses a base can have
  BPtrs,      \* heap addresses a seglist can have
  NULL,       \* no address, no file
  MaxOpens,   \* bound: opens of one base not yet closed
  MaxDepth    \* bound: inits running at a time

ASSUME NameAssumption == FileOf \in [Names -> Files] /\ LnName \in [Files -> Names]
ASSUME KindAssumption ==
  /\ Broken \subseteq Files /\ AutoInit \subseteq Files
  /\ NullInit \subseteq AutoInit /\ OwnExpunge \subseteq AutoInit
  /\ LibsDir \subseteq Names
ASSUME NullAssumption == NULL \notin Addrs \union BPtrs \union Files
ASSUME RulesAssumption == NullTwice \in BOOLEAN /\ EarlyEnd \in BOOLEAN
ASSUME BoundAssumption == MaxOpens \in Nat /\ MaxDepth \in Nat

VARIABLES
  loaded,    \* LibraryRegistry.loaded: Names -> LoadedLibrary
  faked,     \* the names registered as fake libraries
  libList,   \* ExecBase.LibList, from its head
  seglists,  \* DosState.seglists: the BPTRs of live seglists
  lib,       \* guest memory: the library at each heap address
  pending,   \* the continuations of running inits, the last pushed last
  opens,     \* history: OpenLibrary calls that returned the base, not closed
  fault     \* the call that ended the run: a HandlerFailed

libsVars == <<loaded, faked, libList, seglists, lib, pending, opens, fault>>

NoEntry == [base |-> NULL, seglist |-> NULL, alloc |-> NULL]
NoLib == [file |-> NULL, seglist |-> NULL, count |-> 0]
Live == {b \in Addrs : lib[b].file # NULL}
Unhurt == fault = "no"

-----------------------------------------------------------------------------
(* The registry, the list and the heap, as functions of their old values.  *)

RunningInits == Range(pending)
Initialising == {p.alloc : p \in RunningInits} \ {NULL}
\* The bases that an rt_Init has added and not yet returned.
Added == {p.made : p \in RunningInits} \ {NULL}

register_loaded(L, n, b, s, a) == [L EXCEPT ![n] = [base |-> b, seglist |-> s, alloc |-> a]]
bug_unregister_loaded(L, n) == L
unregister_loaded(L, n) == [L EXCEPT ![n] = NoEntry]
loaded_library_by_base(L, b) == {n \in Names : L[n].base = b}

Listed(l, b) == \E i \in DOMAIN l : l[i] = b
\* remove_impl, unless the library took its node out itself.
Unlinked(l, b) == RemoveFirst(l, b)

\* find_lib_node_named: the first node of that name other than skip.
find_lib_node_named(l, m, n, skip) ==
  LET hits == {i \in DOMAIN l : l[i] # skip /\ m[l[i]].file # NULL /\ LnName[m[l[i]].file] = n}
  IN IF hits = {} THEN NULL ELSE l[CHOOSE i \in hits : \A j \in hits : i <= j]

MakeLibrary(m, b, f, s) == [m EXCEPT ![b] = [file |-> f, seglist |-> s, count |-> 0]]
Freed(m, a) == IF a = NULL THEN m ELSE [m EXCEPT ![a] = NoLib]

LibsInit ==
  /\ loaded = [n \in Names |-> NoEntry]
  /\ faked = {}
  /\ libList = <<>>
  /\ seglists = {}
  /\ lib = [b \in Addrs |-> NoLib]
  /\ pending = <<>>
  /\ opens = [b \in Addrs |-> 0]
  /\ fault = "no"

-----------------------------------------------------------------------------
(* OpenLibrary. *)

\* The version check and the Open vector.  A library that refuses, or is
\* too old, stays where it is.
OpenVector(b, m) ==
  \/ /\ opens[b] < MaxOpens
     /\ lib' = [m EXCEPT ![b].count = @ + 1]
     /\ opens' = [opens EXCEPT ![b] = @ + 1]
  \/ lib' = m /\ UNCHANGED opens

reopen(n) ==
  /\ loaded[n] # NoEntry /\ n \notin LibsDir
  /\ OpenVector(loaded[n].base, lib)
  /\ UNCHANGED <<loaded, faked, libList, seglists, pending, fault>>

bug_Renamed(L, n, b) == [k \in Names |-> IF k # n THEN NoEntry ELSE L[k]]

\* A base that is registered under another spelling loses that entry.
Renamed(L, n, b) == [k \in Names |-> IF k # n /\ L[k].base = b THEN NoEntry ELSE L[k]]

\* A refused init keeps its seglist.
bug_Refused(p, m) == lib' = Freed(m, p.alloc) /\ UNCHANGED seglists

Refused(p, m) == lib' = Freed(m, p.alloc) /\ seglists' = seglists \ {p.seglist}

\* The init left base b (NULL if it refused) in D0, and the memory as in m.
after_init(p, b, m) ==
  IF b = NULL
    THEN /\ Refused(p, m)
         /\ UNCHANGED <<loaded, libList, opens>>
    ELSE /\ libList' = IF Listed(libList, b) THEN libList ELSE Append(libList, b)
         /\ loaded' = register_loaded(Renamed(loaded, p.name, b), p.name, b, p.seglist, p.alloc)
         /\ OpenVector(b, m)
         /\ seglists' = seglists \union {p.seglist}

PendingOpen(n, s, a, pre) ==
  [name |-> n, seglist |-> s, alloc |-> a, preexisting |-> pre, made |-> NULL]

\* A name in no registry: the file is loaded and its init starts.  So it is,
\* at every open, for a name in the --libs-dir directory.
OnDisk(n) == Unhurt /\ (n \in LibsDir \/ (loaded[n] = NoEntry /\ n \notin faked))

begin_open(n, s, b) ==
  LET f == FileOf[n] IN
  /\ OnDisk(n) /\ f \notin Broken /\ f \in AutoInit
  /\ s \in BPtrs \ seglists
  /\ b \in Addrs \ Live
  /\ IF f \in NullInit
       THEN /\ after_init(PendingOpen(n, s, b, NULL), b, MakeLibrary(lib, b, f, s))
            /\ UNCHANGED pending
       ELSE /\ Len(pending) < MaxDepth
            /\ seglists' = seglists \union {s}
            /\ lib' = MakeLibrary(lib, b, f, s)
            /\ pending' = Append(pending, PendingOpen(n, s, b, NULL))
            /\ UNCHANGED <<loaded, libList, opens>>
  /\ UNCHANGED <<faked, fault>>

begin_direct_init(n, s) ==
  LET f == FileOf[n] IN
  /\ OnDisk(n) /\ f \notin Broken /\ f \notin AutoInit
  /\ Len(pending) < MaxDepth
  /\ s \in BPtrs \ seglists
  /\ seglists' = seglists \union {s}
  /\ pending' = Append(pending,
       PendingOpen(n, s, NULL, find_lib_node_named(libList, lib, LnName[f], NULL)))
  /\ UNCHANGED <<loaded, faked, libList, lib, opens, fault>>

\* A structural failure: what was loaded is unloaded, and the name gets a
\* fake base that stays; in the --libs-dir directory it is an error.
open_library_common(n) ==
  /\ OnDisk(n) /\ FileOf[n] \in Broken
  /\ IF n \in LibsDir THEN fault' = "libs-dir" /\ UNCHANGED faked
                      ELSE faked' = faked \union {n} /\ UNCHANGED fault
  /\ UNCHANGED <<loaded, libList, seglists, lib, pending, opens>>

Top == Last(pending)

\* An AUTOINIT init returns the base it was given, or NULL.  It may have
\* freed the base before that; the host's own free is then refused.
InitReturns ==
  /\ Unhurt /\ pending # <<>> /\ Top.alloc # NULL
  /\ \/ after_init(Top, Top.alloc, lib)
     \/ FileOf[Top.name] \in MayRefuse /\ after_init(Top, NULL, lib)
  /\ pending' = Front(pending)
  /\ UNCHANGED <<faked, fault>>

\* AddLibrary in a running rt_Init, of the library that it built: the node is
\* linked, the base registered under its ln_Name, with no seglist.
add_library_handler(i, b) ==
  LET p == pending[i]
      f == FileOf[p.name]
  IN /\ Unhurt /\ p.alloc = NULL /\ p.made = NULL
     /\ b \in Addrs \ Live
     /\ lib' = MakeLibrary(lib, b, f, p.seglist)
     /\ libList' = Append(libList, b)
     /\ loaded' = register_loaded(loaded, LnName[f], b, NULL, NULL)
     /\ faked' = faked \ {LnName[f]}
     /\ pending' = [pending EXCEPT ![i].made = b]
     /\ UNCHANGED <<seglists, opens, fault>>

\* The rt_Init returns the base that it added, or one that it built only.
DirectInitReturns(b) ==
  LET f == FileOf[Top.name] IN
  /\ Unhurt /\ pending # <<>> /\ Top.alloc = NULL
  /\ \/ Top.made = b /\ b # NULL /\ after_init(Top, b, lib)
     \/ /\ Top.made = NULL /\ b \in Addrs \ Live
        /\ after_init(Top, b, MakeLibrary(lib, b, f, Top.seglist))
  /\ pending' = Front(pending)
  /\ UNCHANGED <<faked, fault>>

\* No other library of the name f carries is listed, but perhaps the one that
\* was there before.
Alone(f) ==
  /\ Top.made = NULL \/ Top.made # Top.preexisting
  /\ \A b \in Range(libList) \ {Top.preexisting, Top.made} : LnName[lib[b].file] # LnName[f]

\* It returns NULL, and has added a library or refuses.  The list is searched.
DirectInitReturnsNull ==
  LET f == FileOf[Top.name] IN
  /\ Unhurt /\ pending # <<>> /\ Top.alloc = NULL
  /\ Top.made # NULL \/ f \in MayRefuse
  /\ NullTwice \/ Alone(f)
  /\ after_init(Top, find_lib_node_named(libList, lib, LnName[f], Top.preexisting), lib)
  /\ pending' = Front(pending)
  /\ UNCHANGED <<faked, fault>>

-----------------------------------------------------------------------------
(* CloseLibrary and RemLibrary. *)

\* RemLibrary's free is as loud as CloseLibrary's.
bug_Unload(s, a, m, tolerant) ==
  IF s \notin seglists
    THEN fault' = "UnLoadSeg" /\ lib' = m /\ UNCHANGED seglists
    ELSE /\ seglists' = seglists \ {s}
         /\ lib' = Freed(m, a)
         /\ fault' = IF a # NULL /\ m[a] = NoLib THEN "free" ELSE "no"

\* UnLoadSeg of s and then a free of a, each loud: m is the memory when
\* the vector returned, and tolerant says that a dead block is passed over.
Unload(s, a, m, tolerant) ==
  IF s \notin seglists
    THEN fault' = "UnLoadSeg" /\ lib' = m /\ UNCHANGED seglists
    ELSE /\ seglists' = seglists \ {s}
         /\ lib' = Freed(m, a)
         /\ fault' = IF a # NULL /\ m[a] = NoLib /\ ~tolerant THEN "free" ELSE "no"

\* remove_impl of a node that is not linked would corrupt the list.
finish_close(n, b, s, a, l, m, tolerant) ==
  /\ libList' = Unlinked(l, b)
  /\ loaded' = unregister_loaded(loaded, n)
  /\ Unload(s, a, m, tolerant)

\* The library may unlink its own node.  It frees the base if it made it.
SelfUnlinked(b) == {libList, Unlinked(libList, b)}
OwnsBase(n) == loaded[n].alloc = NULL

\* The library agrees to go: it has no open, and its init is over.
Agrees(b, m) == m[b].count = 0 /\ (EarlyEnd \/ b \notin Added)

\* Close takes one open back.  At the last the library may ask to go.
close_library_handler(b) ==
  /\ Unhurt /\ opens[b] > 0
  /\ opens' = [opens EXCEPT ![b] = @ - 1]
  /\ IF loaded_library_by_base(loaded, b) = {}
       THEN UNCHANGED <<loaded, libList, seglists, lib, fault>>
       ELSE \E n \in loaded_library_by_base(loaded, b) :
              LET m == [lib EXCEPT ![b].count = @ - 1]
                  frees == OwnsBase(n) \/ lib[b].file \in OwnExpunge
              IN \/ lib' = m /\ UNCHANGED <<loaded, libList, seglists, fault>>
                 \/ /\ Agrees(b, m)
                    /\ \E l \in SelfUnlinked(b) :
                         finish_close(n, b, lib[b].seglist, loaded[n].alloc, l,
                                      IF frees THEN Freed(m, b) ELSE m, FALSE)
  /\ UNCHANGED <<faked, pending>>

\* An Expunge vector that agrees may have freed the base.
rem_library_handler(b) ==
  /\ Unhurt
  /\ \E n \in loaded_library_by_base(loaded, b) : \E l \in SelfUnlinked(b) :
       /\ Agrees(b, lib)
       /\ \E m \in {Freed(lib, b)} \union (IF OwnsBase(n) THEN {} ELSE {lib}) :
            finish_close(n, b, lib[b].seglist, loaded[n].alloc, l, m, TRUE)
  /\ UNCHANGED <<faked, pending, opens>>

LibsNext ==
  \/ \E n \in Names :
       \/ Unhurt /\ reopen(n)
       \/ open_library_common(n)
       \/ \E s \in BPtrs : begin_direct_init(n, s) \/ \E b \in Addrs : begin_open(n, s, b)
  \/ InitReturns
  \/ \E b \in Addrs : \/ \E i \in DOMAIN pending : add_library_handler(i, b)
                      \/ DirectInitReturns(b) \/ close_library_handler(b) \/ rem_library_handler(b)
  \/ DirectInitReturnsNull

LibsSpec == LibsInit /\ [][LibsNext]_libsVars

-----------------------------------------------------------------------------
(* Properties. *)

(* No CloseLibrary and no RemLibrary finds a seglist or a base that it      *)
(* unloads already gone, in whichever order opens, closes, removals and     *)
(* refused inits come, and whoever frees the base (finish_close).           *)
NoLoudFailure == fault \notin {"UnLoadSeg", "free"}

(* A library is in memory, code and base, for as long as a caller has it    *)
(* open or its init runs: no close or removal of a copy, and no reuse of a  *)
(* base or a seglist address, takes it away.                                *)
InUseLive ==
  /\ \A b \in Addrs : opens[b] > 0 => b \in Live /\ lib[b].seglist \in seglists
  /\ \A p \in RunningInits : p.seglist \in seglists /\ {p.alloc, p.made} \subseteq Live \union {NULL}

RegistryAgrees ==
  \A n \in Names : loaded[n] # NoEntry =>
    LET b == loaded[n].base IN
    /\ b \in Live \ Initialising
    /\ loaded[n].seglist = IF b \in Added THEN NULL ELSE lib[b].seglist
    /\ opens[b] <= lib[b].count
    /\ loaded_library_by_base(loaded, b) = {n}

ListAgrees ==
  /\ Range(libList) = Live \ Initialising
  /\ IsInjective(libList)

SeglistsOwned == seglists = {lib[b].seglist : b \in Live} \union {p.seglist : p \in RunningInits}

(* Registry, LibList, memory and seglists agree: a registered base is a     *)
(* live library with its own seglist, or none while its init runs, under    *)
(* one name, and its lib_OpenCnt covers the opens not closed (it is more    *)
(* if a copy had its entry meanwhile); LibList has every library once, and  *)
(* no dead node; every seglist in memory is that of a live library or of a  *)
(* running init, nothing stays behind when an open is refused or a library  *)
(* goes (after_init, add_library_handler, finish_close).                    *)
BooksAgree == RegistryAgrees /\ ListAgrees /\ SeglistsOwned

(* What opens and closes promise together: nothing is unloaded twice or     *)
(* while it is in use, and the books that decide it agree at every step     *)
(* (open_library_common, after_init, finish_close, rem_library_handler).    *)
LibrariesKept == NoLoudFailure /\ InUseLive /\ BooksAgree

(* A library leaves the registry by its own end, or because another copy of *)
(* the same file takes its place.  Then CloseLibrary of the first does      *)
(* nothing, and it stays in memory for good (after_init).                   *)
LostOnlyToACopy ==
  [][\A n \in Names :
       LET b == loaded[n].base IN
       loaded[n] # NoEntry /\ loaded_library_by_base(loaded', b) = {} =>
         \/ b \notin Live'
         \/ \E c \in Addrs \ {b} : /\ lib'[c].file = lib[b].file
                                  /\ loaded_library_by_base(loaded', c) # {}]_libsVars
=============================================================================
