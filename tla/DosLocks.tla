------------------------------ MODULE DosLocks ------------------------------
(***************************************************************************)
(* dos.library's locks over the Vfs (doslock.rs, dosassign.rs, dosexall.rs *)
(* and dosdevproc.rs): the registry of locks, the current directory, the   *)
(* cursors of Examine and ExNext, ExAll, assigns, and device processes,    *)
(* while files and directories come and go under them.                     *)
(*                                                                         *)
(* One handler is one step.  A call that is refused and changes nothing is *)
(* no step.  The heap is any free address, and may be out of room for any  *)
(* allocation when HeapMayFail.  The program may call anything with the    *)
(* locks it was given and has not given back, and UnLock with an address   *)
(* that is no lock; the bound on changes to the tree and the assigns is    *)
(* MaxChanges.                                                             *)
(***************************************************************************)
EXTENDS Vfs

CONSTANTS
  Addrs, Zero,    \* addresses of heap blocks, and the null pointer
  Tree, Assigned, StartDir,  \* the initial tree, assigns and current directory
  Paths,          \* path arguments
  Fits,           \* how many entries the buffer of an ExAll has room for
  HeapMayFail,
  MaxChanges

ASSUME LocksAssumption ==
  /\ IsFiniteSet(Addrs) /\ Zero \notin Addrs
  /\ Fits \subseteq Nat \ {0} /\ MaxChanges \in Nat /\ HeapMayFail \in BOOLEAN

\* The paths are on volumes and assigns that are known; the current directory
\* at the start is absolute.
ASSUME PathsAssumption ==
  /\ {NoColon, BareColon} \cap (Volumes \cup AssignNames) = {}
  /\ \A p \in Paths : p \in ParsedPath
  /\ \A n \in DOMAIN Assigned : Assigned[n] \in Seq(ParsedPath)
  /\ StartDir \in AbsolutePath

VARIABLES
  dos,       \* DosState's locks, exnext, current_dir_lock, initial_cwd and
             \* fs_port, and blocks, what is allocated on the heap
  devprocs,  \* guest memory: the dvp_Lock of each DevProc
  exall,     \* guest memory: eac_LastKey of an ExAllControl, and its history
  held,      \* history: the locks the program was given and has not given back
  dropped,   \* history: the current directory's lock was unlocked
  scan,      \* history: what each lock's ExNext has returned
  changes    \* how often the tree and the assigns were changed

calls == <<dos, devprocs, exall, held, dropped, scan, changes>>
vars == <<vfs, calls>>

NoPath == [name |-> NoColon, comps |-> <<>>]
NoScan == [stay |-> {}, got |-> <<>>]
NoExAll == [lock |-> Zero, host |-> NoPath, key |-> 0, got |-> <<>>,
            same |-> TRUE, done |-> FALSE]

Init ==
  /\ kind = Tree /\ assigns = Assigned /\ cwd = StartDir
  /\ dos = [locks |-> <<>>, exnext |-> <<>>, current_dir_lock |-> Zero,
            initial_cwd |-> NoPath, fs_port |-> Zero, blocks |-> {}]
  /\ devprocs = <<>> /\ exall = NoExAll
  /\ held = {} /\ dropped = FALSE
  /\ scan = [a \in Addrs |-> NoScan]
  /\ changes = 0

-----------------------------------------------------------------------------
(* Allocation.  An outcome is the address returned, Zero for none, and the *)
(* state d of DosState and the heap after the call.                        *)

Put(f, a, value) == [b \in DOMAIN f \cup {a} |-> IF b = a THEN value ELSE f[b]]
Dropped(f, a) == [b \in DOMAIN f \ {a} |-> f[b]]

OutOfMemory(d) == IF HeapMayFail THEN {[at |-> Zero, dos |-> d]} ELSE {}

alloc(d) ==
  {[at |-> a, dos |-> [d EXCEPT !.blocks = @ \cup {a}]] : a \in Addrs \ d.blocks}
    \cup OutOfMemory(d)

\* The filesystem's message port, made at its first use and kept.
fs_port_addr(d) ==
  IF d.fs_port # Zero THEN {[at |-> d.fs_port, dos |-> d]}
  ELSE {IF o.at = Zero THEN o ELSE [o EXCEPT !.dos.fs_port = o.at] : o \in alloc(d)}

heap_free(d, a) == [d EXCEPT !.blocks = @ \ {a}]

\* Mutant: the FileLock stays on the heap when there is no port for it.
bug_new_lock(d, host, amiga) ==
  UNION {IF o.at = Zero THEN {o}
         ELSE {IF p.at = Zero THEN p
               ELSE [at |-> o.at,
                     dos |-> [p.dos EXCEPT !.locks =
                                Put(@, o.at, [host |-> host, amiga |-> amiga])]] :
                 p \in fs_port_addr(o.dos)} :
           o \in alloc(d)}

\* The FileLock comes first; it is freed again if there is no port for it.
new_lock(d, host, amiga) ==
  UNION {IF o.at = Zero THEN {o}
         ELSE {IF p.at = Zero THEN [at |-> Zero, dos |-> heap_free(p.dos, o.at)]
               ELSE [at |-> o.at,
                     dos |-> [p.dos EXCEPT !.locks =
                                Put(@, o.at, [host |-> host, amiga |-> amiga])]] :
                 p \in fs_port_addr(o.dos)} :
           o \in alloc(d)}

unlock(d, a) ==
  [d EXCEPT !.exnext = Dropped(@, a),
            !.locks = Dropped(@, a),
            !.blocks = IF a \in DOMAIN d.locks THEN @ \ {a} ELSE @,
            !.current_dir_lock = IF @ = a THEN Zero ELSE @]

\* A lock for the program, on an object of a Result.
GivenLock(result) ==
  \E r \in result : \E o \in new_lock(dos, r.host, r.amiga) :
    /\ dos' = o.dos
    /\ held' = held \cup ({o.at} \ {Zero})

\* What was read through a lock that is gone is history, and a program does not
\* go on with its ExAll.
Forgotten(a) ==
  /\ dropped' = (dropped \/ (a # Zero /\ dos.current_dir_lock = a))
  /\ scan' = [scan EXCEPT ![a] = NoScan]
  /\ exall' = IF exall.lock = a THEN NoExAll ELSE exall

\* The program's lock is gone.
Released(a) ==
  /\ dos' = unlock(dos, a)
  /\ held' = held \ {a}
  /\ Forgotten(a)

-----------------------------------------------------------------------------
(* Locks. *)

Lock(p) ==
  /\ GivenLock(resolve_must_exist(p))
  /\ UNCHANGED <<vfs, devprocs, exall, dropped, scan, changes>>

\* The path of a lock with a relative path added to it.
combine_lock_path(lock, p) ==
  IF lock = Zero THEN {p}
  ELSE IF p.name # NoColon THEN {}
  ELSE {[dos.locks[lock].amiga EXCEPT !.comps = @ \o p.comps]}

LocateObject(lock, p) ==
  /\ \E q \in combine_lock_path(lock, p) : GivenLock(resolve_must_exist(q))
  /\ UNCHANGED <<vfs, devprocs, exall, dropped, scan, changes>>

DupLock(a) ==
  /\ GivenLock({dos.locks[a]})
  /\ UNCHANGED <<vfs, devprocs, exall, dropped, scan, changes>>

ParentDir(a) ==
  LET p == IF a = Zero THEN cwd ELSE dos.locks[a].amiga IN
  /\ p.comps # <<>>
  /\ GivenLock(resolve_must_exist([p EXCEPT !.comps = Front(@)]))
  /\ UNCHANGED <<vfs, devprocs, exall, dropped, scan, changes>>

\* Legal also for an address that is no lock.
UnLock(a) ==
  /\ a \in held \/ a \notin DOMAIN dos.locks
  /\ Released(a)
  /\ UNCHANGED <<vfs, devprocs, changes>>

\* Mutant: the lock is the current one also when its path is refused.
bug_early_lock(a) ==
  LET initial == IF dos.initial_cwd = NoPath THEN cwd ELSE dos.initial_cwd
      set == IF a = Zero THEN set_cwd(initial)
             ELSE UNION {set_cwd(dos.locks[b].amiga) : b \in {a} \cap DOMAIN dos.locks}
  IN /\ dos' = [dos EXCEPT !.initial_cwd = initial,
                           !.current_dir_lock = IF a \in DOMAIN dos.locks THEN a ELSE Zero]
     /\ cwd' = IF set = {} THEN cwd ELSE CHOOSE q \in set : TRUE
     /\ dropped' = (dropped /\ set = {})
     /\ UNCHANGED <<kind, assigns, devprocs, exall, held, scan, changes>>

\* Mutant: every call keeps what the current directory was before.
bug_recapture(a) ==
  LET set == IF a = Zero THEN set_cwd(cwd)
             ELSE UNION {set_cwd(dos.locks[b].amiga) : b \in {a} \cap DOMAIN dos.locks}
  IN /\ dos' = [dos EXCEPT !.initial_cwd = cwd,
                           !.current_dir_lock = IF set = {} THEN @ ELSE a]
     /\ cwd' = IF set = {} THEN cwd ELSE CHOOSE q \in set : TRUE
     /\ dropped' = (dropped /\ set = {})
     /\ UNCHANGED <<kind, assigns, devprocs, exall, held, scan, changes>>

\* The first call keeps what the current directory was before, even if it fails.
CurrentDir(a) ==
  LET initial == IF dos.initial_cwd = NoPath THEN cwd ELSE dos.initial_cwd
      set == IF a = Zero THEN set_cwd(initial)
             ELSE UNION {set_cwd(dos.locks[b].amiga) : b \in {a} \cap DOMAIN dos.locks}
  IN /\ dos' = [dos EXCEPT !.initial_cwd = initial,
                           !.current_dir_lock = IF set = {} THEN @ ELSE a]
     /\ cwd' = IF set = {} THEN cwd ELSE CHOOSE q \in set : TRUE
     /\ dropped' = (dropped /\ set = {})
     /\ UNCHANGED <<kind, assigns, devprocs, exall, held, scan, changes>>

-----------------------------------------------------------------------------
(* The tree.  Whatever is gone stops being something a scan must return.    *)

Change ==
  /\ changes < MaxChanges
  /\ changes' = changes + 1

Seen(locks) ==
  /\ scan' = [a \in Addrs |->
       [scan[a] EXCEPT !.stay =
          {n \in @ : a \in DOMAIN locks /\ Inside(locks[a].host, n) \in DOMAIN kind'}]]
  /\ exall' = [exall EXCEPT !.same =
       @ /\ (exall.lock = Zero \/
             \A n \in Names : Inside(exall.host, n) \in DOMAIN kind
                                <=> Inside(exall.host, n) \in DOMAIN kind')]

\* Whether the host can make o: its directory is there.
HasPlace(o) == o.path # <<>> => IsDir([o EXCEPT !.path = Front(@)])

\* The directory is there before the lock is allocated, and stays if it cannot be.
CreateDir(p) ==
  /\ Change
  /\ \E r \in resolve_parent_must_exist(p) :
       /\ ~ Exists(r.host) /\ HasPlace(r.host)
       /\ kind' = With(r.host, "dir")
       /\ GivenLock({r})
  /\ Seen(dos.locks)
  /\ UNCHANGED <<assigns, cwd, devprocs, dropped>>

\* Open(p, MODE_NEWFILE), but for the file handle.
NewFile(p) ==
  /\ Change
  /\ \E r \in resolve_parent_must_exist(p) :
       /\ ~ Exists(r.host) /\ HasPlace(r.host)
       /\ kind' = With(r.host, "file")
  /\ Seen(dos.locks)
  /\ UNCHANGED <<assigns, cwd, dos, devprocs, held, dropped>>

\* A file, or a directory that is empty.
DeleteFile(p) ==
  /\ Change
  /\ \E r \in resolve_must_exist(p) :
       /\ Exists(r.host) /\ Children(r.host) = {}
       /\ kind' = Without(r.host)
  /\ Seen(dos.locks)
  /\ UNCHANGED <<assigns, cwd, dos, devprocs, held, dropped>>

\* Locks on what is moved keep the paths they have.
Rename(p, q) ==
  /\ Change
  /\ \E old \in resolve_must_exist(p), new \in resolve_parent_must_exist(q) :
       /\ ~ Exists(new.host) /\ HasPlace(new.host)
       /\ Exists(old.host) /\ ~ Within(new.host, old.host)
       /\ kind' = Moved(old.host, new.host)
  /\ Seen(dos.locks)
  /\ UNCHANGED <<assigns, cwd, dos, devprocs, held, dropped>>

\* The lock is absorbed: the assign keeps the path it stood for.
AssignLock(n, a) ==
  /\ Change
  /\ n \notin Volumes
  /\ set_assign(n, <<dos.locks[a].amiga>>)
  /\ Released(a)
  /\ UNCHANGED <<kind, cwd, devprocs>>

AssignCancel(n) ==
  /\ Change
  /\ n \in DOMAIN assigns
  /\ remove_assign(n)
  /\ UNCHANGED <<kind, cwd, dos, devprocs, exall, held, dropped, scan>>

-----------------------------------------------------------------------------
(* Reading directories. *)

\* Examine of a directory starts a scan of the names it has now.
Examine(a) ==
  LET host == dos.locks[a].host IN
  /\ Exists(host)
  /\ dos' = [dos EXCEPT !.exnext =
               IF IsDir(host)
               THEN Put(@, a, [entries |-> sorted_dir_entries(host), next_index |-> 1])
               ELSE Dropped(@, a)]
  /\ scan' = [scan EXCEPT ![a] =
               IF IsDir(host) THEN [stay |-> Children(host), got |-> <<>>] ELSE NoScan]
  /\ UNCHANGED <<vfs, devprocs, exall, held, dropped, changes>>

\* Mutant: the cursor counts through the names there are now.
bug_ExNext(a) ==
  LET host == dos.locks[a].host
      state == dos.exnext[a]
      names == sorted_dir_entries(host)
  IN /\ IsDir(host)
     /\ a \in DOMAIN dos.exnext
     /\ state.next_index <= Len(names)
     /\ dos' = [dos EXCEPT !.exnext[a] = [entries |-> names, next_index |-> state.next_index + 1]]
     /\ scan' = [scan EXCEPT ![a].got = Append(@, names[state.next_index])]
     /\ UNCHANGED <<vfs, devprocs, exall, held, dropped, changes>>

\* The next of those names; if it is gone by now the call fails, and the
\* cursor has moved all the same.
ExNext(a) ==
  LET host == dos.locks[a].host
      state == dos.exnext[a]
      name == state.entries[state.next_index]
  IN /\ IsDir(host)
     /\ a \in DOMAIN dos.exnext
     /\ state.next_index <= Len(state.entries)
     /\ dos' = [dos EXCEPT !.exnext[a].next_index = @ + 1]
     /\ scan' = IF Exists(Inside(host, name))
                THEN [scan EXCEPT ![a].got = Append(@, name)] ELSE scan
     /\ UNCHANGED <<vfs, devprocs, exall, held, dropped, changes>>

\* Mutant: the key goes past the entry that did not fit.
bug_ExAll(a, fit) ==
  LET host == dos.locks[a].host
      names == sorted_dir_entries(host)
      last == IF exall.key + fit < Len(names) THEN exall.key + fit ELSE Len(names)
  IN /\ IsDir(host) /\ ~ exall.done
     /\ exall.lock = Zero \/ (exall.lock = a /\ exall.host = host)
     /\ exall' = [exall EXCEPT !.lock = a, !.host = host,
                    !.got = @ \o SubSeq(names, exall.key + 1, last),
                    !.key = last + 1, !.done = last = Len(names)]
     /\ UNCHANGED <<vfs, dos, devprocs, held, dropped, scan, changes>>

\* As many of the names from eac_LastKey on as the buffer has room for.
ExAll(a, fit) ==
  LET host == dos.locks[a].host
      names == sorted_dir_entries(host)
      last == IF exall.key + fit < Len(names) THEN exall.key + fit ELSE Len(names)
  IN /\ IsDir(host) /\ ~ exall.done
     /\ exall.lock = Zero \/ (exall.lock = a /\ exall.host = host)
     /\ exall' = [exall EXCEPT !.lock = a, !.host = host,
                    !.got = @ \o SubSeq(names, exall.key + 1, last),
                    !.key = IF exall.key < last THEN last ELSE @,
                    !.done = last = Len(names)]
     /\ UNCHANGED <<vfs, dos, devprocs, held, dropped, scan, changes>>

ExAllEnd ==
  /\ exall' = NoExAll
  /\ UNCHANGED <<vfs, dos, devprocs, held, dropped, scan, changes>>

-----------------------------------------------------------------------------
(* Device processes. *)

\* Where GetDeviceProc and MatchFirst look for the last part of a path: the
\* text up to its last colon or slash, or else the current directory's with
\* a slash after it, which in a volume's root is a parent step.
HasSeparator(p) == p.name # NoColon \/ Len(p.comps) > 1 \/ p.comps = <<ParentStep>>
dir_part(p) ==
  IF ~ HasSeparator(p)
  THEN IF cwd.comps = <<>> THEN [cwd EXCEPT !.comps = <<ParentStep>>] ELSE cwd
  ELSE IF p.comps = <<>> \/ Last(p.comps) = ParentStep THEN p
  ELSE [p EXCEPT !.comps = Front(@)]

\* A lock on that directory in a new DevProc; the lock goes again if there is
\* no room for the DevProc.
GetDeviceProc(p) ==
  /\ \E r \in resolve_must_exist(dir_part(p)) : \E o \in new_lock(dos, r.host, r.amiga) :
       IF o.at = Zero THEN dos' = o.dos /\ devprocs' = devprocs
       ELSE \E port \in fs_port_addr(o.dos) :
              IF port.at = Zero THEN dos' = unlock(port.dos, o.at) /\ devprocs' = devprocs
              ELSE \E v \in alloc(port.dos) :
                     IF v.at = Zero THEN dos' = unlock(v.dos, o.at) /\ devprocs' = devprocs
                     ELSE dos' = v.dos /\ devprocs' = Put(devprocs, v.at, o.at)
  /\ UNCHANGED <<vfs, exall, held, dropped, scan, changes>>

\* Also GetDeviceProc with a DevProc to go on from, which ends there.
FreeDeviceProc(v) ==
  LET a == devprocs[v] IN
  /\ dos' = heap_free(unlock(dos, a), v)
  /\ devprocs' = Dropped(devprocs, v)
  /\ Forgotten(a)
  /\ UNCHANGED <<vfs, held, changes>>

-----------------------------------------------------------------------------
Next ==
  \/ \E p \in Paths : \/ Lock(p) \/ GetDeviceProc(p)
                      \/ CreateDir(p) \/ NewFile(p) \/ DeleteFile(p)
                      \/ \E q \in Paths : Rename(p, q)
                      \/ \E a \in DOMAIN dos.locks \cup {Zero} : LocateObject(a, p)
  \/ \E a \in Addrs : UnLock(a)
  \/ \E a \in Addrs \cup {Zero} : CurrentDir(a)
  \/ \E a \in DOMAIN dos.locks \cup {Zero} : ParentDir(a)
  \/ \E a \in DOMAIN dos.locks : \/ DupLock(a) \/ Examine(a) \/ ExNext(a)
                                \/ \E fit \in Fits : ExAll(a, fit)
  \/ \E n \in AssignNames : AssignCancel(n) \/ \E a \in held : AssignLock(n, a)
  \/ ExAllEnd
  \/ \E v \in DOMAIN devprocs : FreeDeviceProc(v)

Spec == Init /\ [][Next]_vars

-----------------------------------------------------------------------------
(* What must hold. *)

\* Every lock, the current directory and the one to go back to are named by
\* absolute paths without parent steps (vfs.rs normalize_to_absolute).
PathsAbsolute ==
  /\ cwd \in AbsolutePath /\ dos.initial_cwd \in AbsolutePath \cup {NoPath}
  /\ \A a \in DOMAIN dos.locks :
       dos.locks[a].host \in HostObject /\ dos.locks[a].amiga \in AbsolutePath

\* Nothing leaks and nothing is freed while it is used, whichever allocation
\* fails (doslock.rs new_lock, unlock; dosdevproc.rs): every block on the heap
\* is a lock that the program or a DevProc holds, a DevProc, or the port; a
\* cursor and the current directory belong to a lock that exists.
LocksOwned ==
  LET inside == {devprocs[v] : v \in DOMAIN devprocs} IN
  /\ DOMAIN dos.locks = held \cup inside
  /\ held \cap inside = {}
  /\ dos.blocks = DOMAIN dos.locks \cup DOMAIN devprocs \cup ({dos.fs_port} \ {Zero})
  /\ DOMAIN dos.locks \cap DOMAIN devprocs = {}
  /\ dos.fs_port \notin DOMAIN dos.locks \cup DOMAIN devprocs
  /\ \A v, w \in DOMAIN devprocs : devprocs[v] = devprocs[w] => v = w
  /\ DOMAIN dos.exnext \subseteq DOMAIN dos.locks
  /\ dos.current_dir_lock \in DOMAIN dos.locks \cup {Zero}

\* The path that names are resolved against is the path of the lock that
\* CurrentDir will hand back, so that a program that puts it back later is
\* where it was (doslock.rs current_dir, unlock; vfs.rs set_cwd).
CwdIsCurrentLock ==
  dos.current_dir_lock # Zero => cwd = dos.locks[dos.current_dir_lock].amiga

\* When CurrentDir hands back 0, the program is where it was started, however
\* it has been about and whatever was refused meanwhile, unless it unlocked its
\* own current directory (doslock.rs:54-58).
RestorePoint == dos.current_dir_lock = Zero /\ ~ dropped => cwd = StartDir

\* The current directory is what CurrentDir says it is: of the lock it will
\* hand back, or, when it hands back 0, the one the program was started in;
\* and it and every lock are known by a path that names the same whatever
\* directory is current.
CurrentDirKept == CwdIsCurrentLock /\ RestorePoint /\ PathsAbsolute

\* An entry that is there from Examine until ExNext says there are no more is
\* returned once, in order, whatever else is created, deleted or renamed
\* between the calls (doslock.rs examine, ex_next).
ScanComplete ==
  \A a \in DOMAIN dos.exnext :
    /\ \A i, j \in DOMAIN scan[a].got : i < j => scan[a].got[i] < scan[a].got[j]
    /\ dos.exnext[a].next_index > Len(dos.exnext[a].entries) =>
         scan[a].stay \subseteq ToSet(scan[a].got)

\* An ExAll in as many calls as the buffer needs returns every entry once, in
\* order, if no entry of the directory came or went meanwhile (dosexall.rs).
ExAllComplete ==
  exall.done /\ exall.same => exall.got = sorted_dir_entries(exall.host)

\* Both ways to scan a directory return what they must, whatever happens
\* between their calls (doslock.rs ex_next, dosexall.rs ex_all).
ScansComplete == ScanComplete /\ ExAllComplete
=============================================================================
