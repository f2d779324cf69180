--------------------------- MODULE DosLocksProofs ---------------------------
(***************************************************************************)
(* About DosLocks and DosAnchors, for every tree, every set of paths,      *)
(* assigns and addresses, and whichever allocations fail: that no lock,    *)
(* port or DevProc leaks or is freed while it is used, with the locks of   *)
(* the levels of MatchFirst; that scans of a directory return what they    *)
(* must; that the current directory is what CurrentDir says; and that the  *)
(* calls of a scan return the tour of the tree, each entry once.           *)
(***************************************************************************)
EXTENDS DosAnchors, FiniteSetTheorems, SequenceTheorems, WellFoundedInduction, TLAPS

\* The fields of DosState.
IsDos(d) ==
  d = [locks |-> d.locks, exnext |-> d.exnext, current_dir_lock |-> d.current_dir_lock,
       initial_cwd |-> d.initial_cwd, fs_port |-> d.fs_port, blocks |-> d.blocks]

Inner(V) == {V[v] : v \in DOMAIN V}

\* LocksOwned, of any state of DosState, for the locks H the program holds and
\* the DevProcs V.
Owned(d, H, V) ==
  /\ IsDos(d)
  /\ d.blocks \subseteq Addrs
  /\ DOMAIN d.locks = H \cup Inner(V)
  /\ H \cap Inner(V) = {}
  /\ d.blocks = DOMAIN d.locks \cup DOMAIN V \cup ({d.fs_port} \ {Zero})
  /\ DOMAIN d.locks \cap DOMAIN V = {}
  /\ d.fs_port \notin DOMAIN d.locks \cup DOMAIN V
  /\ \A v, w \in DOMAIN V : V[v] = V[w] => v = w
  /\ DOMAIN d.exnext \subseteq DOMAIN d.locks
  /\ d.current_dir_lock \in DOMAIN d.locks \cup {Zero}

\* The same, when further locks S belong to neither.
Kept(d, H, S, V) == Owned(d, H \cup S, V) /\ H \cap S = {}

\* The inductive invariant of the locks alone.
IInv == Kept(dos, held, {}, devprocs)

\* The invariant of the specification follows from it.
LEMMA Implied == IInv => LocksOwned
BY DEF IInv, Kept, Owned, LocksOwned, Inner

-----------------------------------------------------------------------------
(* What an allocation returns. *)

\* The outcomes of alloc.
LEMMA AllocOutcome ==
  ASSUME NEW d, NEW o \in alloc(d)
  PROVE  \/ o = [at |-> Zero, dos |-> d]
         \/ /\ o.at \in Addrs \ d.blocks
            /\ o.dos = [d EXCEPT !.blocks = @ \cup {o.at}]
BY DEF alloc, OutOfMemory

\* fs_port_addr returns the port there is after the call, or fails; the rest of
\* DosState stays, and the port is the one block that may be new.
LEMMA PortOutcome ==
  ASSUME NEW d, IsDos(d), NEW o \in fs_port_addr(d)
  PROVE  /\ IsDos(o.dos)
         /\ o.dos.locks = d.locks /\ o.dos.exnext = d.exnext
         /\ o.dos.current_dir_lock = d.current_dir_lock /\ o.dos.initial_cwd = d.initial_cwd
         /\ o.at # Zero => o.dos.fs_port = o.at
         /\ \/ o.dos = d /\ (o.at = Zero \/ o.at = d.fs_port)
            \/ /\ d.fs_port = Zero /\ o.dos.fs_port \in Addrs \ d.blocks
               /\ o.dos.blocks = d.blocks \cup {o.dos.fs_port}
<1>1. CASE d.fs_port # Zero
  BY <1>1 DEF fs_port_addr
<1>2. CASE d.fs_port = Zero
  <2>1. PICK p \in alloc(d) : o = IF p.at = Zero THEN p ELSE [p EXCEPT !.dos.fs_port = p.at]
    BY <1>2 DEF fs_port_addr
  <2>2. CASE p = [at |-> Zero, dos |-> d]
    BY <2>1, <2>2, <1>2
  <2>3. CASE p.at \in Addrs \ d.blocks /\ p.dos = [d EXCEPT !.blocks = @ \cup {p.at}]
    <3>1. p = [at |-> p.at, dos |-> p.dos]
      BY <2>1 DEF alloc, OutOfMemory
    <3>2. p.at # Zero
      BY <2>3, LocksAssumption
    <3>3. o = [at |-> p.at, dos |-> [p.dos EXCEPT !.fs_port = p.at]]
      BY <2>1, <3>1, <3>2
    <3> QED BY <3>2, <3>3, <2>3, <1>2 DEF IsDos
  <2> QED BY <2>1, <2>2, <2>3, AllocOutcome
<1> QED BY <1>1, <1>2

\* fs_port_addr keeps what is owned.
LEMMA PortOwned ==
  ASSUME NEW d, NEW H, NEW V, Owned(d, H, V), NEW o \in fs_port_addr(d)
  PROVE  Owned(o.dos, H, V)
<1>1. IsDos(d)
  BY DEF Owned
<1> QED BY <1>1, PortOutcome, LocksAssumption DEF Owned

\* new_lock gives a lock that nobody had, or fails and leaves nothing behind
\* but the port.
LEMMA LockOwned ==
  ASSUME NEW d, NEW H, NEW V, Owned(d, H, V), NEW host, NEW amiga,
         NEW o \in new_lock(d, host, amiga)
  PROVE  /\ o.at = Zero => Owned(o.dos, H, V)
         /\ o.at # Zero => Owned(o.dos, H \cup {o.at}, V) /\ o.at \notin H
<1>. DEFINE Granted == [host |-> host, amiga |-> amiga]
<1>1. PICK b \in alloc(d) :
        o \in IF b.at = Zero THEN {b}
              ELSE {IF p.at = Zero THEN [at |-> Zero, dos |-> heap_free(p.dos, b.at)]
                    ELSE [at |-> b.at, dos |-> [p.dos EXCEPT !.locks = Put(@, b.at, Granted)]] :
                    p \in fs_port_addr(b.dos)}
  BY DEF new_lock
<1>2. CASE b = [at |-> Zero, dos |-> d]
  BY <1>1, <1>2
<1>3. CASE b.at \in Addrs \ d.blocks /\ b.dos = [d EXCEPT !.blocks = @ \cup {b.at}]
  <2>1. b.at # Zero
    BY <1>3, LocksAssumption
  <2>2. PICK p \in fs_port_addr(b.dos) :
          o = IF p.at = Zero THEN [at |-> Zero, dos |-> heap_free(p.dos, b.at)]
              ELSE [at |-> b.at, dos |-> [p.dos EXCEPT !.locks = Put(@, b.at, Granted)]]
    BY <1>1, <2>1
  <2>3. IsDos(b.dos)
    BY <1>3 DEF Owned, IsDos
  <2>4. /\ b.dos.locks = d.locks /\ b.dos.exnext = d.exnext /\ b.dos.fs_port = d.fs_port
        /\ b.dos.current_dir_lock = d.current_dir_lock
        /\ b.dos.blocks = d.blocks \cup {b.at}
    BY <1>3 DEF Owned, IsDos
  <2>5. /\ IsDos(p.dos)
        /\ p.dos.locks = d.locks /\ p.dos.exnext = d.exnext
        /\ p.dos.current_dir_lock = d.current_dir_lock
        /\ p.at # Zero => p.dos.fs_port = p.at
        /\ \/ p.dos.fs_port = d.fs_port /\ p.dos.blocks = d.blocks \cup {b.at}
           \/ /\ d.fs_port = Zero /\ p.dos.fs_port \in Addrs \ (d.blocks \cup {b.at})
              /\ p.dos.blocks = d.blocks \cup {b.at, p.dos.fs_port}
    BY <2>2, <2>3, <2>4, PortOutcome
  <2>6. CASE p.at = Zero
    <3>. DEFINE e == heap_free(p.dos, b.at)
    <3>1. o = [at |-> Zero, dos |-> e]
      BY <2>2, <2>6
    <3>2. /\ IsDos(e)
          /\ e.locks = d.locks /\ e.exnext = d.exnext /\ e.fs_port = p.dos.fs_port
          /\ e.current_dir_lock = d.current_dir_lock /\ e.blocks = p.dos.blocks \ {b.at}
      BY <2>5 DEF IsDos, heap_free
    <3>. HIDE DEF e
    <3>3. Owned(e, H, V)
      BY <2>5, <3>2, <1>3, LocksAssumption DEF Owned
    <3> QED BY <3>1, <3>3
  <2>7. CASE p.at # Zero
    <3>. DEFINE e == [p.dos EXCEPT !.locks = Put(@, b.at, Granted)]
    <3>1. o = [at |-> b.at, dos |-> e]
      BY <2>2, <2>7
    <3>2. /\ IsDos(e)
          /\ DOMAIN e.locks = DOMAIN d.locks \cup {b.at}
          /\ e.exnext = d.exnext /\ e.fs_port = p.dos.fs_port
          /\ e.current_dir_lock = d.current_dir_lock /\ e.blocks = p.dos.blocks
      BY <2>5 DEF IsDos, Put
    <3>. HIDE DEF e
    <3>3. Owned(e, H \cup {b.at}, V) /\ b.at \notin H
      BY <2>1, <2>5, <3>2, <1>3, LocksAssumption DEF Owned
    <3> QED BY <2>1, <3>1, <3>3
  <2> QED BY <2>6, <2>7
<1> QED BY <1>1, <1>2, <1>3, AllocOutcome

\* The fields that unlock leaves.
LEMMA UnlockFields ==
  ASSUME NEW d, IsDos(d), NEW a
  PROVE  LET e == unlock(d, a) IN
         /\ IsDos(e)
         /\ DOMAIN e.locks = DOMAIN d.locks \ {a} /\ DOMAIN e.exnext = DOMAIN d.exnext \ {a}
         /\ e.fs_port = d.fs_port
         /\ e.current_dir_lock = IF d.current_dir_lock = a THEN Zero ELSE d.current_dir_lock
         /\ e.blocks = IF a \in DOMAIN d.locks THEN d.blocks \ {a} ELSE d.blocks
<1>. DEFINE Locks == Dropped(d.locks, a)
            Exnext == Dropped(d.exnext, a)
            Blocks == IF a \in DOMAIN d.locks THEN d.blocks \ {a} ELSE d.blocks
            Current == IF d.current_dir_lock = a THEN Zero ELSE d.current_dir_lock
            e == unlock(d, a)
<1>1. e = [d EXCEPT !.exnext = Exnext, !.locks = Locks, !.blocks = Blocks,
                    !.current_dir_lock = Current]
  BY DEF unlock
<1>2. DOMAIN Locks = DOMAIN d.locks \ {a} /\ DOMAIN Exnext = DOMAIN d.exnext \ {a}
  BY DEF Dropped
<1>. HIDE DEF Locks, Exnext, Blocks, Current, e
<1>3. e = [locks |-> Locks, exnext |-> Exnext, current_dir_lock |-> Current,
           initial_cwd |-> d.initial_cwd, fs_port |-> d.fs_port, blocks |-> Blocks]
  BY <1>1 DEF IsDos
<1>4. /\ IsDos(e) /\ e.locks = Locks /\ e.exnext = Exnext /\ e.current_dir_lock = Current
      /\ e.fs_port = d.fs_port /\ e.blocks = Blocks
  BY <1>3 DEF IsDos
<1>5. IsDos(unlock(d, a))
  BY <1>4 DEF e
<1> QED BY <1>2, <1>4, <1>5 DEF Blocks, Current, e

\* unlock takes a lock of the program away, and does nothing to what is no lock.
LEMMA UnlockOwned ==
  ASSUME NEW d, NEW H, NEW V, Owned(d, H, V), NEW a, a \in H \/ a \notin DOMAIN d.locks
  PROVE  Owned(unlock(d, a), H \ {a}, V)
<1>. DEFINE e == unlock(d, a)
<1>1. /\ IsDos(e)
      /\ DOMAIN e.locks = DOMAIN d.locks \ {a} /\ DOMAIN e.exnext = DOMAIN d.exnext \ {a}
      /\ e.fs_port = d.fs_port
      /\ e.current_dir_lock = IF d.current_dir_lock = a THEN Zero ELSE d.current_dir_lock
      /\ e.blocks = IF a \in DOMAIN d.locks THEN d.blocks \ {a} ELSE d.blocks
  BY UnlockFields DEF Owned
<1>. HIDE DEF e
<1>2. CASE a \in DOMAIN d.locks
  <2>1. a \in H /\ a \notin Inner(V) /\ a \notin DOMAIN V /\ a # d.fs_port
    BY <1>2 DEF Owned
  <2>2. DOMAIN e.locks = (H \ {a}) \cup Inner(V)
    BY <1>1, <2>1 DEF Owned
  <2>3. e.blocks = DOMAIN e.locks \cup DOMAIN V \cup ({e.fs_port} \ {Zero})
    BY <1>1, <1>2, <2>1 DEF Owned
  <2>4. Owned(e, H \ {a}, V)
    BY <1>1, <2>2, <2>3 DEF Owned
  <2> QED BY <2>4 DEF e
<1>3. CASE a \notin DOMAIN d.locks
  <2>1. H \ {a} = H /\ DOMAIN e.locks = DOMAIN d.locks
    BY <1>1, <1>3 DEF Owned
  <2>2. Owned(e, H, V)
    BY <1>1, <1>3, <2>1 DEF Owned
  <2> QED BY <2>1, <2>2 DEF e
<1> QED BY <1>2, <1>3

\* A lock goes into a new DevProc v.
LEMMA DevProcOwned ==
  ASSUME NEW d, NEW H, NEW V, NEW a, a \notin H, Owned(d, H \cup {a}, V),
         NEW v \in Addrs \ d.blocks
  PROVE  Owned([d EXCEPT !.blocks = @ \cup {v}], H, Put(V, v, a))
<1>. DEFINE e == [d EXCEPT !.blocks = @ \cup {v}]
            W == Put(V, v, a)
<1>1. /\ IsDos(e) /\ e.locks = d.locks /\ e.exnext = d.exnext /\ e.fs_port = d.fs_port
      /\ e.current_dir_lock = d.current_dir_lock /\ e.blocks = d.blocks \cup {v}
  BY DEF Owned, IsDos
<1>2. v \notin DOMAIN V /\ v \notin DOMAIN d.locks /\ v # d.fs_port /\ v # Zero
  BY LocksAssumption DEF Owned
<1>3. DOMAIN W = DOMAIN V \cup {v} /\ W[v] = a /\ \A w \in DOMAIN V : W[w] = V[w]
  BY <1>2 DEF Put
<1>4. a \notin Inner(V)
  BY DEF Owned
<1>. HIDE DEF e, W
<1>5. Inner(W) = Inner(V) \cup {a}
  BY <1>3, <1>2 DEF Inner
<1>6. \A x, y \in DOMAIN W : W[x] = W[y] => x = y
  BY <1>3, <1>4 DEF Inner, Owned
<1>7. Owned(e, H, W)
  BY <1>1, <1>2, <1>3, <1>4, <1>5, <1>6 DEF Owned
<1> QED BY <1>7 DEF e, W

\* A DevProc that is freed takes its lock with it.
LEMMA FreedOwned ==
  ASSUME NEW d, NEW H, NEW V, Owned(d, H, V), NEW v \in DOMAIN V
  PROVE  Owned(heap_free(unlock(d, V[v]), v), H, Dropped(V, v))
<1>. DEFINE e == heap_free(unlock(d, V[v]), v)
            W == Dropped(V, v)
<1>1. V[v] \in DOMAIN d.locks /\ V[v] \notin H
  BY DEF Owned, Inner
<1>. DEFINE u == unlock(d, V[v])
<1>2. /\ IsDos(u)
      /\ DOMAIN u.locks = DOMAIN d.locks \ {V[v]}
      /\ DOMAIN u.exnext = DOMAIN d.exnext \ {V[v]}
      /\ u.fs_port = d.fs_port
      /\ u.current_dir_lock = IF d.current_dir_lock = V[v] THEN Zero ELSE d.current_dir_lock
      /\ u.blocks = d.blocks \ {V[v]}
  BY <1>1, UnlockFields DEF Owned
<1>3. e = [u EXCEPT !.blocks = u.blocks \ {v}]
  BY DEF heap_free
<1>. HIDE DEF u
<1>4. /\ IsDos(e)
      /\ DOMAIN e.locks = DOMAIN d.locks \ {V[v]}
      /\ DOMAIN e.exnext = DOMAIN d.exnext \ {V[v]}
      /\ e.fs_port = d.fs_port
      /\ e.current_dir_lock = IF d.current_dir_lock = V[v] THEN Zero ELSE d.current_dir_lock
      /\ e.blocks = d.blocks \ {V[v], v}
  BY <1>2, <1>3 DEF IsDos
<1>5. DOMAIN W = DOMAIN V \ {v} /\ \A w \in DOMAIN W : W[w] = V[w]
  BY DEF Dropped
<1>. HIDE DEF e, W
<1>6. Inner(W) = Inner(V) \ {V[v]}
  BY <1>5 DEF Inner, Owned
<1>7. \A x, y \in DOMAIN W : W[x] = W[y] => x = y
  BY <1>5 DEF Owned
<1>8. V[v] \notin DOMAIN V /\ V[v] # d.fs_port /\ v # d.fs_port /\ v \notin DOMAIN d.locks
  BY <1>1 DEF Owned
<1>9. e.blocks = DOMAIN e.locks \cup DOMAIN W \cup ({e.fs_port} \ {Zero})
  BY <1>4, <1>5, <1>8 DEF Owned
<1>10. Owned(e, H, W)
  BY <1>1, <1>4, <1>5, <1>6, <1>7, <1>8, <1>9 DEF Owned
<1> QED BY <1>10 DEF e, W

-----------------------------------------------------------------------------
(* The same with further locks S. *)

LEMMA PortKept ==
  ASSUME NEW d, NEW H, NEW S, NEW V, Kept(d, H, S, V), NEW o \in fs_port_addr(d)
  PROVE  Kept(o.dos, H, S, V)
BY PortOwned DEF Kept

LEMMA LockKept ==
  ASSUME NEW d, NEW H, NEW S, NEW V, Kept(d, H, S, V), NEW host, NEW amiga,
         NEW o \in new_lock(d, host, amiga)
  PROVE  /\ o.at = Zero => Kept(o.dos, H, S, V)
         /\ o.at # Zero => /\ Kept(o.dos, H \cup {o.at}, S, V)
                           /\ Kept(o.dos, H, S \cup {o.at}, V)
                           /\ o.at \notin H /\ o.at \notin S
<1>1. Owned(d, H \cup S, V) /\ H \cap S = {}
  BY DEF Kept
<1>2. /\ o.at = Zero => Owned(o.dos, H \cup S, V)
      /\ o.at # Zero => Owned(o.dos, (H \cup S) \cup {o.at}, V) /\ o.at \notin H \cup S
  BY <1>1, LockOwned
<1>3. /\ (H \cup S) \cup {o.at} = (H \cup {o.at}) \cup S
      /\ (H \cup S) \cup {o.at} = H \cup (S \cup {o.at})
  OBVIOUS
<1> QED BY <1>1, <1>2, <1>3 DEF Kept

\* A lock of the program, or an address that is no lock.
LEMMA UnlockKept ==
  ASSUME NEW d, NEW H, NEW S, NEW V, Kept(d, H, S, V), NEW a, a \in H \/ a \notin DOMAIN d.locks
  PROVE  Kept(unlock(d, a), H \ {a}, S, V)
<1>1. Owned(d, H \cup S, V) /\ H \cap S = {}
  BY DEF Kept
<1>2. Owned(unlock(d, a), (H \cup S) \ {a}, V)
  BY <1>1, UnlockOwned
<1>3. H \cup S \subseteq DOMAIN d.locks
  BY <1>1 DEF Owned
<1>4. (H \cup S) \ {a} = (H \ {a}) \cup S
  BY <1>1, <1>3
<1> QED BY <1>1, <1>2, <1>4 DEF Kept

\* One of the others.
LEMMA OtherUnlocked ==
  ASSUME NEW d, NEW H, NEW S, NEW V, Kept(d, H, S, V), NEW a \in S
  PROVE  Kept(unlock(d, a), H, S \ {a}, V)
<1>1. Owned(d, H \cup S, V) /\ H \cap S = {}
  BY DEF Kept
<1>2. Owned(unlock(d, a), (H \cup S) \ {a}, V)
  BY <1>1, UnlockOwned
<1>3. (H \cup S) \ {a} = H \cup (S \ {a})
  BY <1>1
<1> QED BY <1>1, <1>2, <1>3 DEF Kept

-----------------------------------------------------------------------------
(* The steps. *)

\* The invariant holds at the start.
LEMMA Initially == Init => IInv
BY DEF Init, IInv, Kept, Owned, IsDos, Inner

\* A lock given to the program.
LEMMA GivenOwned ==
  ASSUME NEW S, Kept(dos, held, S, devprocs), NEW result, GivenLock(result),
         devprocs' = devprocs
  PROVE  Kept(dos', held', S, devprocs')
<1>1. PICK r \in result : \E o \in new_lock(dos, r.host, r.amiga) :
        dos' = o.dos /\ held' = held \cup ({o.at} \ {Zero})
  BY DEF GivenLock
<1>2. PICK o \in new_lock(dos, r.host, r.amiga) :
        dos' = o.dos /\ held' = held \cup ({o.at} \ {Zero})
  BY <1>1
<1>3. CASE o.at = Zero
  <2>1. held' = held
    BY <1>2, <1>3
  <2>2. Kept(o.dos, held, S, devprocs)
    BY <1>3, LockKept
  <2> QED BY <1>2, <2>1, <2>2
<1>4. CASE o.at # Zero
  <2>1. held' = held \cup {o.at}
    BY <1>2, <1>4
  <2>2. Kept(o.dos, held \cup {o.at}, S, devprocs)
    BY <1>4, LockKept
  <2> QED BY <1>2, <2>1, <2>2
<1> QED BY <1>3, <1>4

\* A lock given back.
LEMMA ReleasedOwned ==
  ASSUME NEW S, Kept(dos, held, S, devprocs), NEW a, a \in held \/ a \notin DOMAIN dos.locks,
         Released(a), devprocs' = devprocs
  PROVE  Kept(dos', held', S, devprocs')
BY UnlockKept DEF Released

\* Only DosState changes, and there only the cursors, the current directory and
\* the one to go back to.
LEMMA KeptOwned ==
  ASSUME NEW S, Kept(dos, held, S, devprocs), held' = held, devprocs' = devprocs, IsDos(dos'),
         dos'.locks = dos.locks, dos'.blocks = dos.blocks, dos'.fs_port = dos.fs_port,
         DOMAIN dos'.exnext \subseteq DOMAIN dos.locks,
         dos'.current_dir_lock \in DOMAIN dos.locks \cup {Zero}
  PROVE  Kept(dos', held', S, devprocs')
BY DEF Kept, Owned

\* The current directory's lock is a lock that exists.
LEMMA CurrentDirOwned ==
  ASSUME NEW S, Kept(dos, held, S, devprocs), NEW a, CurrentDir(a)
  PROVE Kept(dos', held', S, devprocs')
<1>. DEFINE initial == IF dos.initial_cwd = NoPath THEN cwd ELSE dos.initial_cwd
            set == IF a = Zero THEN set_cwd(initial)
                   ELSE UNION {set_cwd(dos.locks[b].amiga) : b \in {a} \cap DOMAIN dos.locks}
            lock == IF set = {} THEN dos.current_dir_lock ELSE a
<1>1. /\ dos' = [dos EXCEPT !.initial_cwd = initial, !.current_dir_lock = lock]
      /\ held' = held /\ devprocs' = devprocs
  BY DEF CurrentDir, Kept, Owned, IsDos
<1>2. a \notin DOMAIN dos.locks /\ a # Zero => set = {}
  OBVIOUS
<1>3. lock \in DOMAIN dos.locks \cup {Zero}
  BY <1>2 DEF Kept, Owned
<1>. HIDE DEF initial, lock
<1>4. /\ IsDos(dos') /\ dos'.locks = dos.locks /\ dos'.blocks = dos.blocks
      /\ dos'.fs_port = dos.fs_port /\ dos'.exnext = dos.exnext
      /\ dos'.current_dir_lock = lock
  BY <1>1 DEF Kept, Owned, IsDos
<1>5. DOMAIN dos.exnext \subseteq DOMAIN dos.locks
  BY DEF Kept, Owned
<1> QED BY <1>1, <1>3, <1>4, <1>5, KeptOwned

\* A cursor belongs to a lock that exists.
LEMMA ExamineOwned ==
  ASSUME NEW S, Kept(dos, held, S, devprocs), NEW a \in DOMAIN dos.locks, Examine(a)
  PROVE Kept(dos', held', S, devprocs')
<1>. DEFINE host == dos.locks[a].host
            next == IF IsDir(host)
                    THEN Put(dos.exnext, a,
                             [entries |-> sorted_dir_entries(host), next_index |-> 1])
                    ELSE Dropped(dos.exnext, a)
<1>1. dos' = [dos EXCEPT !.exnext = next] /\ held' = held /\ devprocs' = devprocs
  BY DEF Examine
<1>2. DOMAIN next \subseteq DOMAIN dos.exnext \cup {a}
  BY DEF Put, Dropped
<1>. HIDE DEF next
<1>3. /\ IsDos(dos') /\ dos'.locks = dos.locks /\ dos'.blocks = dos.blocks
      /\ dos'.fs_port = dos.fs_port /\ dos'.exnext = next
      /\ dos'.current_dir_lock = dos.current_dir_lock
  BY <1>1 DEF Kept, Owned, IsDos
<1>4. /\ DOMAIN dos.exnext \subseteq DOMAIN dos.locks
      /\ dos.current_dir_lock \in DOMAIN dos.locks \cup {Zero}
  BY DEF Kept, Owned
<1> QED BY <1>1, <1>2, <1>3, <1>4, KeptOwned

\* The cursor moves on.
LEMMA ExNextOwned ==
  ASSUME NEW S, Kept(dos, held, S, devprocs), NEW a, ExNext(a)
  PROVE Kept(dos', held', S, devprocs')
<1>1. /\ dos' = [dos EXCEPT !.exnext[a].next_index = @ + 1]
      /\ held' = held /\ devprocs' = devprocs
  BY DEF ExNext
<1>2. /\ IsDos(dos') /\ dos'.locks = dos.locks /\ dos'.blocks = dos.blocks
      /\ dos'.fs_port = dos.fs_port /\ DOMAIN dos'.exnext = DOMAIN dos.exnext
      /\ dos'.current_dir_lock = dos.current_dir_lock
  BY <1>1 DEF Kept, Owned, IsDos
<1>3. /\ DOMAIN dos.exnext \subseteq DOMAIN dos.locks
      /\ dos.current_dir_lock \in DOMAIN dos.locks \cup {Zero}
  BY DEF Kept, Owned
<1> QED BY <1>1, <1>2, <1>3, KeptOwned

\* The lock of a DevProc is nobody else's at any point, and goes again when the
\* port or the DevProc does not fit.
LEMMA GetDeviceProcOwned ==
  ASSUME NEW S, Kept(dos, held, S, devprocs), NEW p, GetDeviceProc(p)
  PROVE Kept(dos', held', S, devprocs')
<1>1. PICK r \in resolve_must_exist(dir_part(p)) : \E o \in new_lock(dos, r.host, r.amiga) :
        IF o.at = Zero THEN dos' = o.dos /\ devprocs' = devprocs
        ELSE \E port \in fs_port_addr(o.dos) :
               IF port.at = Zero THEN dos' = unlock(port.dos, o.at) /\ devprocs' = devprocs
               ELSE \E v \in alloc(port.dos) :
                      IF v.at = Zero THEN dos' = unlock(v.dos, o.at) /\ devprocs' = devprocs
                      ELSE dos' = v.dos /\ devprocs' = Put(devprocs, v.at, o.at)
  BY DEF GetDeviceProc
<1>2. PICK o \in new_lock(dos, r.host, r.amiga) :
        IF o.at = Zero THEN dos' = o.dos /\ devprocs' = devprocs
        ELSE \E port \in fs_port_addr(o.dos) :
               IF port.at = Zero THEN dos' = unlock(port.dos, o.at) /\ devprocs' = devprocs
               ELSE \E v \in alloc(port.dos) :
                      IF v.at = Zero THEN dos' = unlock(v.dos, o.at) /\ devprocs' = devprocs
                      ELSE dos' = v.dos /\ devprocs' = Put(devprocs, v.at, o.at)
  BY <1>1
<1>3. held' = held
  BY DEF GetDeviceProc
<1>4. Kept(dos, held, S, devprocs)
  OBVIOUS
<1>5. CASE o.at = Zero
  <2>1. Kept(o.dos, held, S, devprocs)
    BY <1>4, <1>5, LockKept
  <2>2. dos' = o.dos /\ devprocs' = devprocs
    BY <1>2, <1>5
  <2> QED BY <1>3, <2>1, <2>2
<1>6. CASE o.at # Zero
  <2>. DEFINE H == held \cup {o.at}
  <2>1. Kept(o.dos, H, S, devprocs) /\ o.at \notin held /\ o.at \notin S
    BY <1>4, <1>6, LockKept
  <2>2. H \ {o.at} = held /\ o.at \in H
    BY <2>1
  <2>. HIDE DEF H
  <2>3. PICK port \in fs_port_addr(o.dos) :
          IF port.at = Zero THEN dos' = unlock(port.dos, o.at) /\ devprocs' = devprocs
          ELSE \E v \in alloc(port.dos) :
                 IF v.at = Zero THEN dos' = unlock(v.dos, o.at) /\ devprocs' = devprocs
                 ELSE dos' = v.dos /\ devprocs' = Put(devprocs, v.at, o.at)
    BY <1>2, <1>6
  <2>4. Kept(port.dos, H, S, devprocs)
    BY <2>1, PortKept
  <2>5. Kept(unlock(port.dos, o.at), held, S, devprocs)
    BY <2>2, <2>4, UnlockKept
  <2>6. CASE port.at = Zero
    BY <1>3, <2>3, <2>5, <2>6
  <2>7. CASE port.at # Zero
    <3>1. PICK v \in alloc(port.dos) :
            IF v.at = Zero THEN dos' = unlock(v.dos, o.at) /\ devprocs' = devprocs
            ELSE dos' = v.dos /\ devprocs' = Put(devprocs, v.at, o.at)
      BY <2>3, <2>7
    <3>2. CASE v = [at |-> Zero, dos |-> port.dos]
      BY <1>3, <2>5, <3>1, <3>2
    <3>3. CASE /\ v.at \in Addrs \ port.dos.blocks
               /\ v.dos = [port.dos EXCEPT !.blocks = @ \cup {v.at}]
      <4>1. v.at # Zero
        BY <3>3, LocksAssumption
      <4>2. dos' = [port.dos EXCEPT !.blocks = @ \cup {v.at}]
            /\ devprocs' = Put(devprocs, v.at, o.at)
        BY <3>1, <3>3, <4>1
      <4>3. Owned(port.dos, (held \cup S) \cup {o.at}, devprocs)
        <5>1. H \cup S = (held \cup S) \cup {o.at}
          BY DEF H
        <5> QED BY <2>4, <5>1 DEF Kept
      <4>4. Owned([port.dos EXCEPT !.blocks = @ \cup {v.at}], held \cup S,
                  Put(devprocs, v.at, o.at))
        BY <2>1, <3>3, <4>3, DevProcOwned
      <4> QED BY <1>3, <1>4, <4>2, <4>4 DEF Kept
    <3> QED BY <3>2, <3>3, AllocOutcome
  <2> QED BY <2>6, <2>7
<1> QED BY <1>5, <1>6

\* Every step keeps the invariant.
LEMMA Step ==
  ASSUME NEW S, Kept(dos, held, S, devprocs), [Next]_vars
  PROVE  Kept(dos', held', S, devprocs')
<1>1. ASSUME NEW p \in Paths, Lock(p) PROVE Kept(dos', held', S, devprocs')
  BY <1>1, GivenOwned DEF Lock
<1>2. ASSUME NEW p \in Paths, GetDeviceProc(p) PROVE Kept(dos', held', S, devprocs')
  BY <1>2, GetDeviceProcOwned
<1>3. ASSUME NEW p \in Paths, CreateDir(p) PROVE Kept(dos', held', S, devprocs')
  BY <1>3, GivenOwned DEF CreateDir
<1>4. ASSUME NEW p \in Paths, NewFile(p) \/ DeleteFile(p) PROVE Kept(dos', held', S, devprocs')
  BY <1>4 DEF NewFile, DeleteFile
<1>5. ASSUME NEW p \in Paths, NEW q \in Paths, Rename(p, q) PROVE Kept(dos', held', S, devprocs')
  BY <1>5 DEF Rename
<1>6. ASSUME NEW a, NEW p \in Paths, LocateObject(a, p) PROVE Kept(dos', held', S, devprocs')
  BY <1>6, GivenOwned DEF LocateObject
<1>7. ASSUME NEW a \in Addrs, UnLock(a) PROVE Kept(dos', held', S, devprocs')
  BY <1>7, ReleasedOwned DEF UnLock
<1>8. ASSUME NEW a, CurrentDir(a) PROVE Kept(dos', held', S, devprocs')
  BY <1>8, CurrentDirOwned
<1>9. ASSUME NEW a, ParentDir(a) PROVE Kept(dos', held', S, devprocs')
  BY <1>9, GivenOwned DEF ParentDir
<1>10. ASSUME NEW a \in DOMAIN dos.locks, DupLock(a) PROVE Kept(dos', held', S, devprocs')
  BY <1>10, GivenOwned DEF DupLock
<1>11. ASSUME NEW a \in DOMAIN dos.locks, Examine(a) PROVE Kept(dos', held', S, devprocs')
  BY <1>11, ExamineOwned
<1>12. ASSUME NEW a \in DOMAIN dos.locks, ExNext(a) PROVE Kept(dos', held', S, devprocs')
  BY <1>12, ExNextOwned
<1>13. ASSUME NEW a \in DOMAIN dos.locks, NEW fit \in Fits, ExAll(a, fit)
       PROVE  Kept(dos', held', S, devprocs')
  BY <1>13 DEF ExAll
<1>14. ASSUME NEW n \in AssignNames, AssignCancel(n) PROVE Kept(dos', held', S, devprocs')
  BY <1>14 DEF AssignCancel
<1>15. ASSUME NEW n \in AssignNames, NEW a \in held, AssignLock(n, a)
       PROVE  Kept(dos', held', S, devprocs')
  BY <1>15, ReleasedOwned DEF AssignLock
<1>16. CASE ExAllEnd
  BY <1>16 DEF ExAllEnd
<1>17. ASSUME NEW v \in DOMAIN devprocs, FreeDeviceProc(v) PROVE Kept(dos', held', S, devprocs')
  <2>1. /\ dos' = heap_free(unlock(dos, devprocs[v]), v)
        /\ devprocs' = Dropped(devprocs, v) /\ held' = held
    BY <1>17 DEF FreeDeviceProc
  <2> QED BY <2>1, FreedOwned DEF Kept
<1>18. CASE UNCHANGED vars
  BY <1>18 DEF vars, calls
<1> QED BY <1>1, <1>2, <1>3, <1>4, <1>5, <1>6, <1>7, <1>8, <1>9, <1>10, <1>11, <1>12,
           <1>13, <1>14, <1>15, <1>16, <1>17, <1>18 DEF Next

\* For every tree, path and heap: no lock, port or DevProc leaks or is freed
\* while it is used, whichever allocation fails (new_lock, unlock,
\* get_device_proc, free_device_proc).
THEOREM LocksNeverLeak == Spec => []LocksOwned
<1>1. IInv /\ [Next]_vars => IInv'
  BY Step DEF IInv
<1> QED BY Initially, <1>1, Implied, PTL DEF Spec

-----------------------------------------------------------------------------
(* The locks of the levels of a scan (DosAnchors). *)

\* The fields of a level, and the levels of a scan, innermost last.
IsLevel(l) ==
  l = [lock |-> l.lock, amiga |-> l.amiga, host |-> l.host, entries |-> l.entries,
       cursor |-> l.cursor]
IsLevels(s) ==
  /\ s \in Seq({s[i] : i \in DOMAIN s}) /\ s # <<>>
  /\ \A i \in DOMAIN s : IsLevel(s[i])
Locks(s) == {s[i].lock : i \in DOMAIN s}
Distinct(s) == \A i, j \in DOMAIN s : s[i].lock = s[j].lock => i = j

IsState(a) ==
  /\ a = [matches |-> a.matches, levels |-> a.levels, pending |-> a.pending]
  /\ IsLevels(a.levels) /\ Distinct(a.levels)

\* A sequence is one over its own elements.
LEMMA IsSeq ==
  ASSUME NEW m \in Nat, NEW t, t = [i \in 1 .. m |-> t[i]]
  PROVE  t \in Seq({t[i] : i \in DOMAIN t})
<1> DEFINE T == {t[i] : i \in DOMAIN t}
<1>1. DOMAIN t = 1 .. m /\ \A i \in 1 .. m : t[i] \in T
  OBVIOUS
<1> HIDE DEF T
<1>2. t \in [1 .. m -> T]
  BY <1>1
<1>3. t \in Seq(T)
  BY <1>2
<1> QED BY <1>3 DEF T

LEMMA OwnRange == ASSUME NEW T, NEW t \in Seq(T) PROVE t \in Seq({t[i] : i \in DOMAIN t})
<1>1. PICK m \in Nat : m = Len(t) /\ t = [i \in 1 .. m |-> t[i]]
  OBVIOUS
<1> QED BY <1>1, IsSeq

LEMMA FirstLevel ==
  ASSUME NEW l, IsLevel(l)
  PROVE  IsLevels(<<l>>) /\ Distinct(<<l>>) /\ Locks(<<l>>) = {l.lock}
BY DEF IsLevels, Distinct, Locks

LEMMA LevelAdded ==
  ASSUME NEW s, IsLevels(s), Distinct(s), NEW l, IsLevel(l), l.lock \notin Locks(s)
  PROVE  LET t == Append(s, l)
         IN IsLevels(t) /\ Distinct(t) /\ Locks(t) = Locks(s) \cup {l.lock}
<1> DEFINE R == {s[i] : i \in DOMAIN s} \cup {l}
           t == Append(s, l)
<1>1. s \in Seq(R) /\ l \in R
  BY DEF IsLevels
<1> HIDE DEF R
<1>2. PICK n \in Nat : n = Len(s)
  BY <1>1
<1>3. /\ t \in Seq(R) /\ DOMAIN t = 1 .. n + 1 /\ DOMAIN s = 1 .. n
      /\ t[n + 1] = l /\ \A i \in 1 .. n : t[i] = s[i]
  BY <1>1, <1>2
<1> HIDE DEF t
<1>4. \A i \in DOMAIN t : i = n + 1 \/ i \in DOMAIN s
  BY <1>3
<1>5. \A i \in DOMAIN t : IsLevel(t[i])
  BY <1>3, <1>4 DEF IsLevels
<1>6. Locks(t) = Locks(s) \cup {l.lock}
  BY <1>3, <1>4 DEF Locks
<1>7. Distinct(t)
  <2> SUFFICES ASSUME NEW i \in DOMAIN t, NEW j \in DOMAIN t, t[i].lock = t[j].lock PROVE i = j
    BY DEF Distinct
  <2>1. CASE i \in DOMAIN s /\ j \in DOMAIN s
    BY <1>3, <2>1 DEF Distinct
  <2>2. CASE i = n + 1 /\ j \in DOMAIN s
    BY <1>3, <2>2 DEF Locks
  <2>3. CASE i \in DOMAIN s /\ j = n + 1
    BY <1>3, <2>3 DEF Locks
  <2> QED BY <1>4, <2>1, <2>2, <2>3
<1>8. t \in Seq({t[i] : i \in DOMAIN t}) /\ t # <<>>
  <2>1. n + 1 \in DOMAIN t
    BY <1>3
  <2> QED BY <1>3, <2>1, OwnRange
<1> QED BY <1>5, <1>6, <1>7, <1>8 DEF IsLevels, t

LEMMA LevelTaken ==
  ASSUME NEW s, IsLevels(s), Distinct(s)
  PROVE  /\ IsLevel(Last(s)) /\ Last(s).lock \in Locks(s)
         /\ Len(s) # 1 => /\ IsLevels(Front(s)) /\ Distinct(Front(s))
                          /\ Locks(Front(s)) = Locks(s) \ {Last(s).lock}
<1> DEFINE R == {s[i] : i \in DOMAIN s}
           t == Front(s)
<1>1. s \in Seq(R) /\ s # <<>>
  BY DEF IsLevels
<1> HIDE DEF R
<1>2. PICK n \in Nat : n = Len(s) /\ n > 0
  BY <1>1, EmptySeq
<1>3. DOMAIN s = 1 .. n /\ n \in DOMAIN s /\ Last(s) = s[n]
  BY <1>1, <1>2 DEF Last
<1>4. IsLevel(Last(s)) /\ Last(s).lock \in Locks(s)
  BY <1>3 DEF IsLevels, Locks
<1>5. ASSUME n # 1
      PROVE  IsLevels(t) /\ Distinct(t) /\ Locks(t) = Locks(s) \ {s[n].lock}
  <2>1. t = SubSeq(s, 1, n - 1) /\ n - 1 \in Nat /\ n - 1 > 0
    BY <1>2, <1>5 DEF Front
  <2>2. t \in Seq(R) /\ DOMAIN t = 1 .. n - 1 /\ \A i \in 1 .. n - 1 : t[i] = s[i]
    BY <1>1, <1>2, <2>1
  <2> HIDE DEF t
  <2>3. \A i \in DOMAIN t : i \in DOMAIN s /\ i # n
    BY <1>2, <1>3, <2>2
  <2>4. \A i \in DOMAIN s : i # n => i \in DOMAIN t
    BY <1>2, <1>3, <2>2
  <2>5. Locks(t) = Locks(s) \ {s[n].lock}
    BY <1>3, <2>2, <2>3, <2>4 DEF Locks, Distinct
  <2>6. Distinct(t)
    BY <2>2, <2>3 DEF Distinct
  <2>7. t \in Seq({t[i] : i \in DOMAIN t}) /\ t # <<>>
    <3>1. 1 \in DOMAIN t
      BY <2>1, <2>2
    <3> QED BY <2>2, <3>1, OwnRange
  <2> QED BY <2>2, <2>3, <2>5, <2>6, <2>7 DEF IsLevels
<1> QED BY <1>2, <1>3, <1>4, <1>5 DEF t

LEMMA LevelMoved ==
  ASSUME NEW s, IsLevels(s), Distinct(s), NEW n \in DOMAIN s, NEW c
  PROVE  LET t == [s EXCEPT ![n].cursor = c]
         IN IsLevels(t) /\ Distinct(t) /\ Locks(t) = Locks(s)
<1> DEFINE t == [s EXCEPT ![n].cursor = c]
<1>1. IsLevel(s[n]) /\ s \in Seq({s[i] : i \in DOMAIN s}) /\ s # <<>>
  BY DEF IsLevels
<1>2. /\ DOMAIN t = DOMAIN s /\ t[n] = [s[n] EXCEPT !.cursor = c]
      /\ \A i \in DOMAIN s : i # n => t[i] = s[i]
  OBVIOUS
<1>3. IsLevel(t[n]) /\ t[n].lock = s[n].lock
  BY <1>1, <1>2 DEF IsLevel
<1>4. \A i \in DOMAIN t : IsLevel(t[i]) /\ t[i].lock = s[i].lock
  BY <1>2, <1>3 DEF IsLevels
<1>5. t \in Seq({t[i] : i \in DOMAIN t}) /\ t # <<>>
  <2>1. t = [i \in DOMAIN s |-> t[i]]
    OBVIOUS
  <2>2. PICK m \in Nat : DOMAIN s = 1 .. m
    BY <1>1
  <2> HIDE DEF t
  <2> QED BY <1>2, <2>1, <2>2, IsSeq
<1> HIDE DEF t
<1>6. IsLevels(t) /\ Distinct(t) /\ Locks(t) = Locks(s)
  BY <1>2, <1>4, <1>5 DEF IsLevels, Distinct, Locks
<1> QED BY <1>6 DEF t

-----------------------------------------------------------------------------
(* Scans.  S are the locks of levels.  Where something may fail, MatchFirst
   and MatchNext may leave locks behind, which nobody else has. *)

Fails == HeapMayFail \/ BufferShort
Sound(d, H, V, S) == \E L : Kept(d, H, S \cup L, V) /\ S \cap L = {} /\ (~Fails => L = {})

LEMMA SoundLock ==
  ASSUME NEW d, NEW H, NEW V, NEW S, Sound(d, H, V, S), NEW host, NEW amiga,
         NEW o \in new_lock(d, host, amiga)
  PROVE  /\ o.at = Zero => Sound(o.dos, H, V, S)
         /\ o.at # Zero => o.at \notin S /\ Sound(o.dos, H, V, S \cup {o.at})
         /\ Fails => Sound(o.dos, H, V, S)
<1>1. PICK L : Kept(d, H, S \cup L, V) /\ S \cap L = {} /\ (~Fails => L = {})
  BY DEF Sound
<1> DEFINE T == S \cup L
<1>2. /\ o.at = Zero => Kept(o.dos, H, T, V)
      /\ o.at # Zero => Kept(o.dos, H, T \cup {o.at}, V) /\ o.at \notin T
  <2>1. Kept(d, H, T, V)
    BY <1>1
  <2> HIDE DEF T
  <2> QED BY <2>1, LockKept
<1>3. CASE o.at = Zero
  BY <1>1, <1>2, <1>3 DEF Sound
<1>4. CASE o.at # Zero
  <2>1. T \cup {o.at} = (S \cup {o.at}) \cup L /\ T \cup {o.at} = S \cup (L \cup {o.at})
    OBVIOUS
  <2>2. o.at \notin S /\ o.at \notin L
    BY <1>2, <1>4
  <2> HIDE DEF T
  <2>3. Kept(o.dos, H, (S \cup {o.at}) \cup L, V) /\ Kept(o.dos, H, S \cup (L \cup {o.at}), V)
    BY <1>2, <1>4, <2>1
  <2>4. Sound(o.dos, H, V, S \cup {o.at})
    <3>1. (S \cup {o.at}) \cap L = {}
      BY <1>1, <2>2
    <3> QED BY <1>1, <2>3, <3>1 DEF Sound
  <2>5. Fails => Sound(o.dos, H, V, S)
    <3>1. S \cap (L \cup {o.at}) = {}
      BY <1>1, <2>2
    <3> QED BY <2>3, <3>1 DEF Sound
  <2> QED BY <1>4, <2>2, <2>4, <2>5
<1> QED BY <1>3, <1>4

LEMMA SoundUnlock ==
  ASSUME NEW d, NEW H, NEW V, NEW S, Sound(d, H, V, S), NEW a \in S
  PROVE  Sound(unlock(d, a), H, V, S \ {a})
<1>1. PICK L : Kept(d, H, S \cup L, V) /\ S \cap L = {} /\ (~Fails => L = {})
  BY DEF Sound
<1>2. Kept(unlock(d, a), H, (S \cup L) \ {a}, V)
  BY <1>1, OtherUnlocked
<1>3. (S \cup L) \ {a} = (S \ {a}) \cup L /\ (S \ {a}) \cap L = {}
  BY <1>1
<1> QED BY <1>1, <1>2, <1>3 DEF Sound

\* The locks of all levels of a scan.
LEMMA AllUnlocked ==
  ASSUME NEW d, NEW H, NEW V, NEW S, Owned(d, H \cup S, V), H \cap S = {}, NEW T, T \subseteq S
  PROVE  Owned(unlock_all(d, T), H \cup (S \ T), V)
<1> DEFINE Exnext == Restrict(d.exnext, DOMAIN d.exnext \ T)
           Left == Restrict(d.locks, DOMAIN d.locks \ T)
           Blocks == d.blocks \ (T \cap DOMAIN d.locks)
           Current == IF d.current_dir_lock \in T THEN Zero ELSE d.current_dir_lock
           e == unlock_all(d, T)
<1>1. e = [d EXCEPT !.exnext = Exnext, !.locks = Left, !.blocks = Blocks,
                    !.current_dir_lock = Current]
  BY DEF unlock_all
<1>2. DOMAIN Left = DOMAIN d.locks \ T /\ DOMAIN Exnext = DOMAIN d.exnext \ T
  BY DEF Restrict
<1>3. /\ Blocks = d.blocks \ (T \cap DOMAIN d.locks)
      /\ Current = IF d.current_dir_lock \in T THEN Zero ELSE d.current_dir_lock
  OBVIOUS
<1> HIDE DEF Exnext, Left, Blocks, Current, e
<1>4. e = [locks |-> Left, exnext |-> Exnext, current_dir_lock |-> Current,
           initial_cwd |-> d.initial_cwd, fs_port |-> d.fs_port, blocks |-> Blocks]
  BY <1>1 DEF IsDos, Owned
<1>5. /\ IsDos(e) /\ e.locks = Left /\ e.exnext = Exnext /\ e.current_dir_lock = Current
      /\ e.fs_port = d.fs_port /\ e.blocks = Blocks
  BY <1>4 DEF IsDos
<1>6. T \subseteq DOMAIN d.locks /\ T \cap Inner(V) = {} /\ T \cap DOMAIN V = {}
      /\ d.fs_port \notin T
  BY DEF Owned
<1>7. DOMAIN e.locks = (H \cup (S \ T)) \cup Inner(V)
  BY <1>2, <1>5, <1>6 DEF Owned
<1>8. e.blocks = DOMAIN e.locks \cup DOMAIN V \cup ({e.fs_port} \ {Zero})
  BY <1>2, <1>3, <1>5, <1>6 DEF Owned
<1>9. /\ e.blocks \subseteq Addrs /\ DOMAIN e.exnext \subseteq DOMAIN e.locks
      /\ e.current_dir_lock \in DOMAIN e.locks \cup {Zero}
  BY <1>2, <1>3, <1>5 DEF Owned
<1>10. Owned(e, H \cup (S \ T), V)
  BY <1>2, <1>5, <1>7, <1>8, <1>9 DEF Owned
<1> QED BY <1>10 DEF e

LEMMA SoundEnd ==
  ASSUME NEW d, NEW H, NEW V, NEW S, Sound(d, H, V, S), NEW T, T \subseteq S
  PROVE  Sound(unlock_all(d, T), H, V, S \ T)
<1>1. PICK L : Kept(d, H, S \cup L, V) /\ S \cap L = {} /\ (~Fails => L = {})
  BY DEF Sound
<1>2. Owned(unlock_all(d, T), H \cup ((S \cup L) \ T), V)
  BY <1>1, AllUnlocked DEF Kept
<1>3. (S \cup L) \ T = (S \ T) \cup L /\ (S \ T) \cap L = {}
  BY <1>1
<1>4. Kept(unlock_all(d, T), H, (S \ T) \cup L, V)
  BY <1>1, <1>2, <1>3 DEF Kept
<1> QED BY <1>1, <1>3, <1>4 DEF Sound

-----------------------------------------------------------------------------
(* MatchNext. *)

IsStep(s) ==
  s = [dos |-> s.dos, state |-> s.state, dodir |-> s.dodir, entered |-> s.entered,
       got |-> s.got, on |-> s.on, end |-> s.end]

\* A step of it leaves the locks R of other scans, and those of its levels.
Good(s, R, H, V) ==
  /\ IsStep(s) /\ IsState(s.state)
  /\ R \cap Locks(s.state.levels) = {}
  /\ Sound(s.dos, H, V, R \cup Locks(s.state.levels))

LEMMA StartGood ==
  ASSUME NEW R, NEW ap, IsState(anchor_states[ap]),
         R \cap Locks(anchor_states[ap].levels) = {},
         Sound(dos, held, devprocs, R \cup Locks(anchor_states[ap].levels))
  PROVE  /\ Good(Start(ap), R, held, devprocs)
         /\ Start(ap).dos = dos /\ Start(ap).state.levels = anchor_states[ap].levels
<1> DEFINE a == anchor_states[ap]
           b == [a EXCEPT !.pending = {}]
<1>1. b = [matches |-> a.matches, levels |-> a.levels, pending |-> {}]
  BY DEF IsState
<1>2. IsState(b) /\ b.levels = a.levels
  BY <1>1 DEF IsState
<1>3. Start(ap) = [dos |-> dos, state |-> b, dodir |-> ap \in dodir, entered |-> {},
                   got |-> <<>>, on |-> TRUE, end |-> FALSE]
  BY DEF Start
<1> HIDE DEF b
<1>4. IsStep(Start(ap)) /\ Start(ap).dos = dos /\ Start(ap).state = b
  BY <1>3 DEF IsStep
<1> QED BY <1>2, <1>4 DEF Good

LEMMA DescendedGood ==
  ASSUME NEW R, NEW ap, IsState(anchor_states[ap]),
         R \cap Locks(anchor_states[ap].levels) = {},
         Sound(dos, held, devprocs, R \cup Locks(anchor_states[ap].levels)),
         NEW s \in descended(ap)
  PROVE  Good(s, R, held, devprocs)
<1> DEFINE b == Start(ap)
           T == Locks(anchor_states[ap].levels)
           path == CHOOSE p \in anchor_states[ap].pending : TRUE
           found == resolve_must_exist(path)
<1>1. /\ Good(b, R, held, devprocs) /\ b.dos = dos
      /\ b.state.levels = anchor_states[ap].levels
  BY StartGood
<1>2. \/ s = b \/ s = [b EXCEPT !.on = FALSE]
      \/ \E r \in found : s \in {Descent(ap, path, r, o, failed) :
           o \in new_lock(dos, r.host, r.amiga), failed \in MayFail(HeapMayFail)}
  BY DEF descended
<1> HIDE DEF b, found
<1>3. IsStep(b) /\ IsState(b.state) /\ R \cap Locks(b.state.levels) = {}
      /\ Sound(dos, held, devprocs, R \cup T) /\ T = Locks(b.state.levels)
  BY <1>1 DEF Good
<1>4. CASE s = b
  BY <1>1, <1>4
<1>5. CASE s = [b EXCEPT !.on = FALSE]
  <2>1. IsStep(s) /\ s.state = b.state /\ s.dos = b.dos
    BY <1>3, <1>5 DEF IsStep
  <2> QED BY <1>1, <2>1 DEF Good
<1>6. ASSUME NEW r \in found, s \in {Descent(ap, path, r, o, failed) :
               o \in new_lock(dos, r.host, r.amiga), failed \in MayFail(HeapMayFail)}
      PROVE  Good(s, R, held, devprocs)
  <2> DEFINE Level(at) == [lock |-> at, amiga |-> path, host |-> r.host, cursor |-> 1,
                           entries |-> list_and_filter(r.host, anchor_states[ap].matches)]
  <2>1. PICK o \in new_lock(dos, r.host, r.amiga), failed \in MayFail(HeapMayFail) :
          s = Descent(ap, path, r, o, failed)
    BY <1>6
  <2>2. s = IF o.at = Zero \/ failed THEN [b EXCEPT !.dos = o.dos, !.on = FALSE]
            ELSE [b EXCEPT !.dos = o.dos, !.dodir = FALSE, !.entered = {r.host},
                           !.state.levels = Append(@, Level(o.at))]
    BY <2>1 DEF Descent, b
  <2> DEFINE S == R \cup T
             host == r.host
             amiga == r.amiga
  <2>3. o \in new_lock(dos, host, amiga) /\ Sound(dos, held, devprocs, S)
    BY <1>3, <2>2
  <2>4. /\ o.at = Zero => Sound(o.dos, held, devprocs, S)
        /\ o.at # Zero => o.at \notin S /\ Sound(o.dos, held, devprocs, S \cup {o.at})
        /\ Fails => Sound(o.dos, held, devprocs, S)
    <3> HIDE DEF S, host, amiga
    <3> QED BY <2>3, SoundLock
  <2>5. CASE o.at = Zero \/ failed
    <3>1. Sound(o.dos, held, devprocs, S)
      <4>1. failed => Fails
        BY DEF MayFail, Fails
      <4> HIDE DEF S
      <4> QED BY <2>4, <2>5, <4>1
    <3>2. s = [b EXCEPT !.dos = o.dos, !.on = FALSE]
      BY <2>2, <2>5
    <3>3. IsStep(s) /\ s.state = b.state /\ s.dos = o.dos
      BY <1>3, <3>2 DEF IsStep
    <3> QED BY <1>3, <3>1, <3>3 DEF Good
  <2>6. CASE ~ (o.at = Zero \/ failed)
    <3> DEFINE l == Level(o.at)
               t == Append(b.state.levels, l)
    <3>1. IsLevel(l) /\ l.lock = o.at
      BY DEF IsLevel
    <3>2. s = [b EXCEPT !.dos = o.dos, !.dodir = FALSE, !.entered = {r.host},
                        !.state = [b.state EXCEPT !.levels = t]]
      BY <1>3, <2>2, <2>6 DEF IsStep, IsState
    <3> HIDE DEF l
    <3>3. o.at \notin S /\ Sound(o.dos, held, devprocs, S \cup {o.at})
      <4> HIDE DEF S
      <4> QED BY <2>4, <2>6
    <3>4. IsLevels(t) /\ Distinct(t) /\ Locks(t) = T \cup {o.at}
      <4>1. /\ IsLevels(b.state.levels) /\ Distinct(b.state.levels)
            /\ l.lock \notin Locks(b.state.levels)
        BY <1>3, <3>1, <3>3 DEF IsState
      <4> QED BY <1>3, <3>1, <4>1, LevelAdded
    <3> HIDE DEF t
    <3>5. IsStep(s) /\ s.dos = o.dos /\ s.state = [b.state EXCEPT !.levels = t]
      BY <1>3, <3>2 DEF IsStep
    <3>6. IsState(s.state) /\ s.state.levels = t
      BY <1>3, <3>4, <3>5 DEF IsState
    <3>7. R \cup Locks(t) = S \cup {o.at} /\ R \cap Locks(t) = {}
      BY <1>3, <3>3, <3>4
    <3> QED BY <3>3, <3>5, <3>6, <3>7 DEF Good
  <2> QED BY <2>5, <2>6
<1> QED BY <1>2, <1>4, <1>5, <1>6

LEMMA InnerGood ==
  ASSUME NEW s, NEW R, NEW H, NEW V, Good(s, R, H, V), NEW short
  PROVE  Good(match_next_inner(s, short), R, H, V)
<1> DEFINE levels == s.state.levels
           t == match_next_inner(s, short)
<1>1. /\ IsStep(s) /\ IsState(s.state) /\ R \cap Locks(levels) = {}
      /\ Sound(s.dos, H, V, R \cup Locks(levels))
  BY DEF Good
<1>2. /\ IsLevels(levels) /\ Distinct(levels)
      /\ s.state = [matches |-> s.state.matches, levels |-> levels, pending |-> s.state.pending]
  BY <1>1 DEF IsState
<1>3. \/ t = s \/ t = next_entry(s, short) \/ t = [s EXCEPT !.end = TRUE]
      \/ Len(levels) # 1 /\ t = level_left(s, short)
  BY DEF match_next_inner
<1> SUFFICES Good(t, R, H, V)
  OBVIOUS
<1> HIDE DEF t, levels
<1>4. CASE t = s
  BY <1>4
<1>5. CASE t = [s EXCEPT !.end = TRUE]
  <2>1. IsStep(t) /\ t.dos = s.dos /\ t.state = s.state
    BY <1>1, <1>5 DEF IsStep
  <2> QED BY <1>1, <2>1 DEF Good, levels
<1>6. CASE t = next_entry(s, short)
  <2> DEFINE n == Len(levels)
             level == levels[n]
             e == level.entries[level.cursor]
             u == [levels EXCEPT ![n].cursor = level.cursor + 1]
             p == IF short THEN {} ELSE Enterable(level, e)
             g == IF short THEN <<>> ELSE <<Entry(level, e)>>
  <2>1. n \in DOMAIN levels
    BY <1>2, EmptySeq DEF IsLevels
  <2>2. t = [s EXCEPT !.state = [s.state EXCEPT !.levels = u, !.pending = p], !.got = g]
    BY <1>1, <1>2, <1>6, <2>1 DEF next_entry, levels, IsStep, IsState
  <2>3. IsLevels(u) /\ Distinct(u) /\ Locks(u) = Locks(levels)
    BY <1>2, <2>1, LevelMoved
  <2> HIDE DEF u, p, g
  <2>4. IsStep(t) /\ t.dos = s.dos /\ t.state = [s.state EXCEPT !.levels = u, !.pending = p]
    BY <1>1, <2>2 DEF IsStep
  <2>5. IsState(t.state) /\ t.state.levels = u
    BY <1>2, <2>3, <2>4 DEF IsState
  <2> QED BY <1>1, <2>3, <2>4, <2>5 DEF Good
<1>7. CASE Len(levels) # 1 /\ t = level_left(s, short)
  <2> DEFINE level == Last(levels)
             u == Front(levels)
             g == IF short THEN <<>> ELSE <<[at |-> level.host, leaving |-> TRUE]>>
             d == unlock(s.dos, level.lock)
  <2>1. t = [s EXCEPT !.dos = d, !.state = [s.state EXCEPT !.levels = u], !.got = g]
    BY <1>1, <1>2, <1>7 DEF level_left, levels, IsStep, IsState
  <2>2. /\ level.lock \in Locks(levels) /\ IsLevels(u) /\ Distinct(u)
        /\ Locks(u) = Locks(levels) \ {level.lock}
    BY <1>2, <1>7, LevelTaken
  <2> DEFINE S == R \cup Locks(levels)
  <2>3. Sound(d, H, V, S \ {level.lock})
    <3>1. level.lock \in S /\ Sound(s.dos, H, V, S)
      BY <1>1, <2>2
    <3> HIDE DEF S, level
    <3> QED BY <3>1, SoundUnlock
  <2>4. S \ {level.lock} = R \cup Locks(u) /\ R \cap Locks(u) = {}
    BY <1>1, <2>2
  <2> HIDE DEF u, g, d, S, level
  <2>5. IsStep(t) /\ t.dos = d /\ t.state = [s.state EXCEPT !.levels = u]
    BY <1>1, <2>1 DEF IsStep
  <2>6. IsState(t.state) /\ t.state.levels = u
    BY <1>2, <2>2, <2>5 DEF IsState
  <2> QED BY <2>3, <2>4, <2>5, <2>6 DEF Good
<1> QED BY <1>3, <1>4, <1>5, <1>6, <1>7

-----------------------------------------------------------------------------
(* All scans: A is anchor_states. *)

Scans(A) == UNION {Locks(A[ap].levels) : ap \in DOMAIN A}
Others(A, ap) == UNION {Locks(A[b].levels) : b \in DOMAIN A \ {ap}}
Scanned(A) ==
  /\ \A ap \in DOMAIN A : IsState(A[ap])
  /\ \A ap, b \in DOMAIN A : ap # b => Locks(A[ap].levels) \cap Locks(A[b].levels) = {}

\* The inductive invariant of DosAnchors.
AInv == Scanned(anchor_states) /\ Sound(dos, held, devprocs, Scans(anchor_states))

LEMMA Shares ==
  ASSUME NEW A, Scanned(A), NEW ap \in DOMAIN A
  PROVE  /\ IsState(A[ap])
         /\ Others(A, ap) \cap Locks(A[ap].levels) = {}
         /\ Scans(A) = Others(A, ap) \cup Locks(A[ap].levels)
         /\ Locks(A[ap].levels) \subseteq Scans(A)
         /\ Others(A, ap) = Scans(A) \ Locks(A[ap].levels)
<1>1. IsState(A[ap]) /\ Others(A, ap) \cap Locks(A[ap].levels) = {}
  BY DEF Scanned, Others
<1>2. Scans(A) = Others(A, ap) \cup Locks(A[ap].levels)
  BY DEF Scans, Others
<1> QED BY <1>1, <1>2

\* One scan is begun or goes on.
LEMMA OneChanged ==
  ASSUME NEW A, Scanned(A), NEW ap, NEW B, DOMAIN B = DOMAIN A \cup {ap},
         \A b \in DOMAIN A \ {ap} : B[b] = A[b],
         IsState(B[ap]), Others(A, ap) \cap Locks(B[ap].levels) = {}
  PROVE  Scanned(B) /\ Scans(B) = Others(A, ap) \cup Locks(B[ap].levels)
<1>1. \A b \in DOMAIN B : b = ap \/ (b # ap /\ b \in DOMAIN A /\ B[b] = A[b])
  OBVIOUS
<1>2. \A b \in DOMAIN A \ {ap} : Locks(A[b].levels) \cap Locks(B[ap].levels) = {}
  BY DEF Others
<1>3. Scanned(B)
  <2>1. \A b \in DOMAIN B : IsState(B[b])
    BY <1>1 DEF Scanned
  <2>2. ASSUME NEW b \in DOMAIN B, NEW c \in DOMAIN B, b # c
        PROVE  Locks(B[b].levels) \cap Locks(B[c].levels) = {}
    <3>1. CASE b = ap
      BY <1>1, <1>2, <2>2, <3>1
    <3>2. CASE c = ap
      BY <1>1, <1>2, <2>2, <3>2
    <3>3. CASE b # ap /\ c # ap
      BY <1>1, <2>2, <3>3 DEF Scanned
    <3> QED BY <3>1, <3>2, <3>3
  <2> QED BY <2>1, <2>2 DEF Scanned
<1>4. DOMAIN B \ {ap} = DOMAIN A \ {ap} /\ ap \in DOMAIN B
  OBVIOUS
<1>5. Others(B, ap) = Others(A, ap)
  BY <1>4 DEF Others
<1> QED BY <1>3, <1>4, <1>5, Shares

LEMMA AInvInit == AInit => AInv
<1> SUFFICES ASSUME AInit PROVE AInv
  OBVIOUS
<1>1. Scans(anchor_states) = {} /\ Scanned(anchor_states)
  BY DEF AInit, Scans, Scanned
<1>2. Kept(dos, held, {}, devprocs)
  BY Initially DEF AInit, IInv
<1> QED BY <1>1, <1>2 DEF AInv, Sound

\* A scan begins with a lock on a directory or on the object itself.
LEMMA ScanBegun ==
  ASSUME AInv, NEW ap, ap \notin DOMAIN anchor_states, NEW host, NEW amiga,
         NEW o \in new_lock(dos, host, amiga), o.at # Zero,
         dos' = o.dos, held' = held, devprocs' = devprocs,
         NEW a, a = [matches |-> a.matches, levels |-> <<a.levels[1]>>, pending |-> a.pending],
         IsLevel(a.levels[1]), a.levels[1].lock = o.at,
         anchor_states' = Put(anchor_states, ap, a)
  PROVE  AInv'
<1> DEFINE A == anchor_states
           B == anchor_states'
           l == a.levels[1]
<1>1. a.levels = <<l>>
  OBVIOUS
<1> HIDE DEF l
<1>2. IsLevel(l) /\ l.lock = o.at
  BY DEF l
<1>3. IsState(a) /\ Locks(a.levels) = {o.at}
  BY <1>1, <1>2, FirstLevel DEF IsState
<1>4. DOMAIN B = DOMAIN A \cup {ap} /\ B[ap] = a /\ \A b \in DOMAIN A \ {ap} : B[b] = A[b]
  BY DEF Put
<1>5. Others(A, ap) = Scans(A)
  <2>1. DOMAIN A \ {ap} = DOMAIN A
    OBVIOUS
  <2> QED BY <2>1 DEF Others, Scans
<1> DEFINE S == Scans(A)
<1>6. o.at \notin S /\ Sound(o.dos, held, devprocs, S \cup {o.at})
  <2>1. Sound(dos, held, devprocs, S)
    BY DEF AInv
  <2> HIDE DEF S
  <2> QED BY <2>1, SoundLock
<1> HIDE DEF A, B
<1>7. Scanned(A)
  BY DEF AInv, A
<1>8. Scanned(B) /\ Scans(B) = S \cup {o.at}
  <2>1. IsState(B[ap]) /\ Others(A, ap) \cap Locks(B[ap].levels) = {}
        /\ Locks(B[ap].levels) = {o.at}
    BY <1>3, <1>4, <1>5, <1>6
  <2>2. DOMAIN B = DOMAIN A \cup {ap} /\ \A b \in DOMAIN A \ {ap} : B[b] = A[b]
    BY <1>4
  <2>3. Scanned(B) /\ Scans(B) = Others(A, ap) \cup Locks(B[ap].levels)
    BY <1>7, <2>1, <2>2, OneChanged
  <2> QED BY <1>5, <2>1, <2>3 DEF S
<1>9. Sound(dos', held', devprocs', Scans(B))
  BY <1>6, <1>8
<1> QED BY <1>8, <1>9 DEF AInv, B

\* Nothing of any scan changes.
LEMMA NoScanChanged ==
  ASSUME AInv, anchor_states' = anchor_states, NEW d, NEW H, NEW V,
         Sound(d, H, V, Scans(anchor_states)), dos' = d, held' = H, devprocs' = V
  PROVE  AInv'
BY DEF AInv

LEMMA MatchFirstKeeps ==
  ASSUME AInv, NEW ap \in Anchors, NEW pat \in Patterns, match_first(ap, pat)
  PROVE  AInv'
<1> DEFINE S == Scans(anchor_states)
<1>1. ap \notin DOMAIN anchor_states /\ held' = held /\ devprocs' = devprocs
  BY DEF match_first
<1>2. Sound(dos, held, devprocs, S)
  BY DEF AInv
<1>3. ASSUME NEW host, NEW amiga, NEW o \in new_lock(dos, host, amiga)
      PROVE  /\ o.at = Zero => Sound(o.dos, held, devprocs, S)
             /\ o.at # Zero => o.at \notin S /\ Sound(o.dos, held, devprocs, S \cup {o.at})
             /\ Fails => Sound(o.dos, held, devprocs, S)
  <2> HIDE DEF S
  <2> QED BY <1>2, SoundLock
<1>4. ASSUME NEW failed \in MayFail(HeapMayFail \/ BufferShort), failed PROVE Fails
  BY <1>4 DEF MayFail, Fails
<1>5. CASE match_first_plain(ap, pat)
  <2>0. PICK r \in resolve_must_exist(pat.text) :
          \E o \in new_lock(dos, r.host, r.amiga), failed \in MayFail(HeapMayFail \/ BufferShort) :
            /\ dos' = o.dos
            /\ IF o.at = Zero \/ failed THEN anchor_states' = anchor_states
               ELSE anchor_states' = Put(anchor_states, ap,
                      [matches |-> Names,
                       levels |-> <<[lock |-> o.at, amiga |-> r.amiga, host |-> r.host,
                                     entries |-> <<>>, cursor |-> 1]>>,
                       pending |-> IF IsDir(r.host) THEN {r.amiga} ELSE {}])
    BY <1>5 DEF match_first_plain
  <2>1. PICK o \in new_lock(dos, r.host, r.amiga), failed \in MayFail(HeapMayFail \/ BufferShort) :
          /\ dos' = o.dos
          /\ IF o.at = Zero \/ failed THEN anchor_states' = anchor_states
             ELSE anchor_states' = Put(anchor_states, ap,
                    [matches |-> Names,
                     levels |-> <<[lock |-> o.at, amiga |-> r.amiga, host |-> r.host,
                                   entries |-> <<>>, cursor |-> 1]>>,
                     pending |-> IF IsDir(r.host) THEN {r.amiga} ELSE {}])
    BY <2>0
  <2>2. CASE o.at = Zero \/ failed
    <3>1. Sound(o.dos, held, devprocs, S)
      BY <1>3, <1>4, <2>2
    <3> QED BY <1>1, <2>1, <2>2, <3>1, NoScanChanged
  <2>3. CASE ~ (o.at = Zero \/ failed)
    <3> DEFINE l == [lock |-> o.at, amiga |-> r.amiga, host |-> r.host,
                     entries |-> <<>>, cursor |-> 1]
               p == IF IsDir(r.host) THEN {r.amiga} ELSE {}
               a == [matches |-> Names, levels |-> <<l>>, pending |-> p]
    <3>1. IsLevel(l) /\ l.lock = o.at
      BY DEF IsLevel
    <3>2. dos' = o.dos /\ anchor_states' = Put(anchor_states, ap, a)
      BY <2>1, <2>3
    <3> HIDE DEF l, p
    <3>3. a.levels[1] = l
          /\ a = [matches |-> a.matches, levels |-> <<a.levels[1]>>, pending |-> a.pending]
      OBVIOUS
    <3> HIDE DEF a
    <3> QED BY <1>1, <2>3, <3>1, <3>2, <3>3, ScanBegun
  <2> QED BY <2>2, <2>3
<1>6. CASE match_first_wild(ap, pat)
  <2>0. PICK r \in resolve_must_exist(dir_part(pat.text)) :
          \E o \in new_lock(dos, r.host, r.amiga), failed \in MayFail(HeapMayFail \/ BufferShort) :
            LET entries == list_and_filter(r.host, pat.matches)
                level == [lock |-> o.at, amiga |-> dir_part(pat.text), host |-> r.host,
                          entries |-> entries, cursor |-> 2]
            IN IF o.at = Zero THEN dos' = o.dos /\ anchor_states' = anchor_states
               ELSE IF entries = <<>>
               THEN dos' = unlock(o.dos, o.at) /\ anchor_states' = anchor_states
               ELSE IF failed THEN dos' = o.dos /\ anchor_states' = anchor_states
               ELSE /\ dos' = o.dos
                    /\ anchor_states' = Put(anchor_states, ap,
                         [matches |-> pat.matches, levels |-> <<level>>,
                          pending |-> Enterable(level, Head(entries))])
    BY <1>6 DEF match_first_wild
  <2>1. PICK o \in new_lock(dos, r.host, r.amiga), failed \in MayFail(HeapMayFail \/ BufferShort) :
          LET entries == list_and_filter(r.host, pat.matches)
              level == [lock |-> o.at, amiga |-> dir_part(pat.text), host |-> r.host,
                        entries |-> entries, cursor |-> 2]
          IN IF o.at = Zero THEN dos' = o.dos /\ anchor_states' = anchor_states
             ELSE IF entries = <<>>
             THEN dos' = unlock(o.dos, o.at) /\ anchor_states' = anchor_states
             ELSE IF failed THEN dos' = o.dos /\ anchor_states' = anchor_states
             ELSE /\ dos' = o.dos
                  /\ anchor_states' = Put(anchor_states, ap,
                       [matches |-> pat.matches, levels |-> <<level>>,
                        pending |-> Enterable(level, Head(entries))])
    BY <2>0
  <2> DEFINE entries == list_and_filter(r.host, pat.matches)
             l == [lock |-> o.at, amiga |-> dir_part(pat.text), host |-> r.host,
                   entries |-> entries, cursor |-> 2]
             p == Enterable(l, Head(entries))
             a == [matches |-> pat.matches, levels |-> <<l>>, pending |-> p]
  <2>2. CASE o.at = Zero
    <3>1. Sound(o.dos, held, devprocs, S)
      BY <1>3, <2>2
    <3> QED BY <1>1, <2>1, <2>2, <3>1, NoScanChanged
  <2>3. CASE o.at # Zero /\ entries = <<>>
    <3>1. o.at \notin S /\ Sound(o.dos, held, devprocs, S \cup {o.at})
      BY <1>3, <2>3
    <3>2. Sound(unlock(o.dos, o.at), held, devprocs, (S \cup {o.at}) \ {o.at})
      <4> DEFINE U == S \cup {o.at}
      <4>1. o.at \in U /\ Sound(o.dos, held, devprocs, U)
        BY <3>1
      <4> HIDE DEF U
      <4>2. Sound(unlock(o.dos, o.at), held, devprocs, U \ {o.at})
        BY <4>1, SoundUnlock
      <4> QED BY <4>2 DEF U
    <3>3. (S \cup {o.at}) \ {o.at} = S
      BY <3>1
    <3>4. Sound(unlock(o.dos, o.at), held, devprocs, S)
      BY <3>2, <3>3
    <3>5. dos' = unlock(o.dos, o.at) /\ anchor_states' = anchor_states
      BY <2>1, <2>3
    <3> QED BY <1>1, <3>4, <3>5, NoScanChanged
  <2>4. CASE o.at # Zero /\ entries # <<>> /\ failed
    <3>1. Sound(o.dos, held, devprocs, S)
      BY <1>3, <1>4, <2>4
    <3>2. dos' = o.dos /\ anchor_states' = anchor_states
      BY <2>1, <2>4
    <3> QED BY <1>1, <3>1, <3>2, NoScanChanged
  <2>5. CASE o.at # Zero /\ entries # <<>> /\ ~failed
    <3>1. IsLevel(l) /\ l.lock = o.at
      BY DEF IsLevel
    <3>2. dos' = o.dos /\ anchor_states' = Put(anchor_states, ap, a)
      BY <2>1, <2>5
    <3> HIDE DEF l, p, entries
    <3>3. a.levels[1] = l
          /\ a = [matches |-> a.matches, levels |-> <<a.levels[1]>>, pending |-> a.pending]
      OBVIOUS
    <3> HIDE DEF a
    <3> QED BY <1>1, <2>5, <3>1, <3>2, <3>3, ScanBegun
  <2> QED BY <2>2, <2>3, <2>4, <2>5
<1> QED BY <1>5, <1>6 DEF match_first

LEMMA MatchNextKeeps == ASSUME AInv, NEW ap \in Anchors, match_next(ap) PROVE AInv'
<1> DEFINE A == anchor_states
           R == Others(A, ap)
<1>1. ap \in DOMAIN A /\ held' = held /\ devprocs' = devprocs
  BY DEF match_next
<1>2. PICK s \in descended(ap), short \in MayFail(BufferShort) :
        LET t == match_next_inner(s, short)
        IN dos' = t.dos /\ anchor_states' = [A EXCEPT ![ap] = t.state]
  BY DEF match_next
<1> DEFINE t == match_next_inner(s, short)
           B == anchor_states'
<1>3. /\ IsState(A[ap]) /\ R \cap Locks(A[ap].levels) = {}
      /\ Sound(dos, held, devprocs, R \cup Locks(A[ap].levels))
  BY <1>1, Shares DEF AInv
<1>4. Good(s, R, held, devprocs)
  BY <1>3, DescendedGood
<1>5. Good(t, R, held, devprocs)
  BY <1>4, InnerGood
<1>6. dos' = t.dos /\ anchor_states' = [A EXCEPT ![ap] = t.state]
  BY <1>2
<1> HIDE DEF t
<1>7. /\ IsState(t.state) /\ R \cap Locks(t.state.levels) = {}
      /\ Sound(t.dos, held, devprocs, R \cup Locks(t.state.levels))
  BY <1>5 DEF Good
<1>8. /\ DOMAIN B = DOMAIN A \cup {ap} /\ B[ap] = t.state
      /\ \A b \in DOMAIN A \ {ap} : B[b] = A[b]
  BY <1>1, <1>6
<1>9. Scanned(A)
  BY DEF AInv
<1> HIDE DEF A, B
<1>10. Scanned(B) /\ Scans(B) = R \cup Locks(t.state.levels)
  BY <1>7, <1>8, <1>9, OneChanged
<1>11. Sound(dos', held', devprocs', Scans(B))
  BY <1>1, <1>6, <1>7, <1>10
<1> QED BY <1>10, <1>11 DEF AInv, B

LEMMA MatchEndKeeps == ASSUME AInv, NEW ap \in Anchors, match_end(ap) PROVE AInv'
<1> DEFINE A == anchor_states
           B == anchor_states'
           S == Scans(A)
           T == Locks(A[ap].levels)
<1>1. /\ ap \in DOMAIN A /\ held' = held /\ devprocs' = devprocs
      /\ dos' = unlock_all(dos, T) /\ B = Dropped(A, ap)
  BY DEF match_end, LevelLocks, Locks
<1>2. DOMAIN B = DOMAIN A \ {ap} /\ \A b \in DOMAIN B : B[b] = A[b]
  BY <1>1 DEF Dropped
<1>3. Scanned(A) /\ Sound(dos, held, devprocs, S)
  BY DEF AInv
<1> HIDE DEF B
<1>4. Scanned(B) /\ Scans(B) = Others(A, ap)
  BY <1>2, <1>3 DEF Scanned, Scans, Others
<1>5. T \subseteq S /\ Scans(B) = S \ T
  BY <1>1, <1>3, <1>4, Shares
<1> HIDE DEF S, T
<1>6. Sound(unlock_all(dos, T), held, devprocs, S \ T)
  BY <1>3, <1>5, SoundEnd
<1>7. Sound(dos', held', devprocs', Scans(B))
  BY <1>1, <1>5, <1>6
<1> QED BY <1>4, <1>7 DEF AInv, B

\* No other call can free the lock of a level: the program was not given it.
LEMMA OtherCallKeeps ==
  ASSUME AInv, [Next]_vars, anchor_states' = anchor_states
  PROVE  AInv'
<1> DEFINE S == Scans(anchor_states)
<1>1. Sound(dos, held, devprocs, S)
  BY DEF AInv
<1> HIDE DEF S
<1>2. PICK L : Kept(dos, held, S \cup L, devprocs) /\ S \cap L = {} /\ (~Fails => L = {})
  BY <1>1 DEF Sound
<1>3. Kept(dos', held', S \cup L, devprocs')
  BY <1>2, Step
<1>4. Sound(dos', held', devprocs', S)
  BY <1>2, <1>3 DEF Sound
<1> QED BY <1>4 DEF AInv, S

LEMMA AStep == AInv /\ [ANext]_avars => AInv'
<1> SUFFICES ASSUME AInv, [ANext]_avars PROVE AInv'
  OBVIOUS
<1>1. CASE OtherCall
  BY <1>1, OtherCallKeeps DEF OtherCall
<1>2. ASSUME NEW ap \in Anchors, NEW pat \in Patterns, match_first(ap, pat) PROVE AInv'
  BY <1>2, MatchFirstKeeps
<1>3. ASSUME NEW ap \in Anchors, match_next(ap) PROVE AInv'
  BY <1>3, MatchNextKeeps
<1>4. ASSUME NEW ap \in Anchors, match_end(ap) PROVE AInv'
  BY <1>4, MatchEndKeeps
<1>5. ASSUME NEW ap \in Anchors, SetDoDir(ap) PROVE AInv'
  BY <1>5, OtherCallKeeps DEF SetDoDir
<1>6. CASE UNCHANGED avars
  BY <1>6, OtherCallKeeps DEF avars, anchors
<1> QED BY <1>1, <1>2, <1>3, <1>4, <1>5, <1>6 DEF ANext

\* As many locks as levels.
LEMMA LocksCounted ==
  ASSUME NEW s, IsLevels(s), Distinct(s)
  PROVE  Cardinality(Locks(s)) = Len(s)
<1>1. PICK n \in Nat : n = Len(s) /\ DOMAIN s = 1 .. n
  BY DEF IsLevels
<1> DEFINE f == [i \in 1 .. n |-> s[i].lock]
<1>2. f \in Bijection(1 .. n, Locks(s))
  <2>1. f \in [1 .. n -> Locks(s)]
    BY <1>1 DEF Locks
  <2>2. \A i, j \in 1 .. n : f[i] = f[j] => i = j
    BY <1>1 DEF Distinct
  <2>3. \A l \in Locks(s) : \E i \in 1 .. n : f[i] = l
    BY <1>1 DEF Locks
  <2> HIDE DEF f
  <2> QED BY <2>1, <2>2, <2>3 DEF Bijection, Injection, Surjection, IsInjective
<1>3. ExistsBijection(1 .. n, Locks(s))
  BY <1>2 DEF ExistsBijection
<1> QED BY <1>1, <1>3, FS_CountingElements

\* The lock of every level is there, its own, and neither the program's nor a DevProc's.
LevelsHeld ==
  LET program == held \cup {devprocs[v] : v \in DOMAIN devprocs}
  IN \A ap \in DOMAIN anchor_states :
       /\ LevelLocks(ap) \subseteq DOMAIN dos.locks \ program
       /\ Cardinality(LevelLocks(ap)) = Len(anchor_states[ap].levels)
       /\ \A b \in DOMAIN anchor_states : b # ap => LevelLocks(ap) \cap LevelLocks(b) = {}

LEMMA AInvMeans == AInv => LevelsHeld /\ (~Fails => ScansOwnLocks)
<1> SUFFICES ASSUME AInv PROVE LevelsHeld /\ (~Fails => ScansOwnLocks)
  OBVIOUS
<1> DEFINE S == Scans(anchor_states)
           program == held \cup Inner(devprocs)
<1>1. PICK L : Kept(dos, held, S \cup L, devprocs) /\ S \cap L = {} /\ (~Fails => L = {})
  BY DEF AInv, Sound
<1>2. \A ap : LevelLocks(ap) = Locks(anchor_states[ap].levels)
  BY DEF LevelLocks, Locks
<1>3. \A ap \in DOMAIN anchor_states :
        Cardinality(LevelLocks(ap)) = Len(anchor_states[ap].levels)
  BY <1>2, LocksCounted DEF AInv, Scanned, IsState
<1>4. UNION {LevelLocks(ap) : ap \in DOMAIN anchor_states} = S
  BY <1>2 DEF Scans
<1> HIDE DEF S
<1>5. DOMAIN dos.locks = program \cup S \cup L /\ program \cap (S \cup L) = {}
  BY <1>1 DEF Kept, Owned
<1>6. LevelsHeld
  <2>1. \A ap \in DOMAIN anchor_states : LevelLocks(ap) \subseteq DOMAIN dos.locks \ program
    BY <1>4, <1>5
  <2>2. \A ap, b \in DOMAIN anchor_states : b # ap => LevelLocks(ap) \cap LevelLocks(b) = {}
    BY <1>2 DEF AInv, Scanned
  <2> QED BY <1>3, <2>1, <2>2 DEF LevelsHeld, Inner
<1>7. ASSUME ~Fails PROVE ScansOwnLocks
  BY <1>1, <1>3, <1>4, <1>5, <1>7 DEF ScansOwnLocks, Inner
<1> QED BY <1>6, <1>7

\* Whatever fails: no lock of a level of a scan is freed while the level is
\* there, nor is it at the same time another level's or the program's
\* (match_first, match_next_inner, match_end, unlock).
THEOREM LevelsKeepTheirLocks == ASpec => []LevelsHeld
<1>1. AInv => LevelsHeld
  BY AInvMeans
<1> QED BY <1>1, AInvInit, AStep, PTL DEF ASpec

\* For every tree, pattern and order of the calls: where nothing fails, a scan
\* has the locks of its levels and leaves none behind.
THEOREM ScansLeakNoLocks == ASSUME ~HeapMayFail, ~BufferShort PROVE ASpec => []ScansOwnLocks
<1>1. AInv => ScansOwnLocks
  BY AInvMeans DEF Fails
<1> QED BY <1>1, AInvInit, AStep, PTL DEF ASpec

-----------------------------------------------------------------------------
(* Induction over the naturals, as a fact about sets: a form without an    *)
(* operator for a parameter.                                               *)

LEMMA Least ==
  ASSUME NEW T, T \subseteq Nat, T # {} PROVE \E m \in T : \A n \in T : m <= n
<1> DEFINE R == {ss \in Nat \X Nat : ss[1] < ss[2]}
<1>1. IsWellFoundedOn(R, Nat)
  BY NatLessThanWellFounded DEF OpToRel
<1>2. PICK m \in T : \A n \in T : ~ (<<n, m>> \in R)
  <2> HIDE DEF R
  <2> QED BY <1>1, WFMin
<1>3. ASSUME NEW n \in T PROVE m <= n
  <2>1. m \in Nat /\ n \in Nat
    OBVIOUS
  <2>2. n < m => <<n, m>> \in R
    BY <2>1
  <2> HIDE DEF R
  <2> QED BY <1>2, <2>1, <2>2
<1> QED BY <1>3

LEMMA Induction ==
  ASSUME NEW T, 0 \in T, \A n \in Nat : n \in T => n + 1 \in T
  PROVE  Nat \subseteq T
<1> SUFFICES ASSUME ~ (Nat \subseteq T) PROVE FALSE
  OBVIOUS
<1>1. PICK m \in Nat \ T : \A n \in Nat \ T : m <= n
  <2> DEFINE F == Nat \ T
  <2>1. F \subseteq Nat /\ F # {}
    OBVIOUS
  <2> HIDE DEF F
  <2>2. \E m \in F : \A n \in F : m <= n
    BY <2>1, Least
  <2> QED BY <2>2 DEF F
<1>2. m # 0 /\ m - 1 \in Nat
  OBVIOUS
<1>3. m - 1 \in T
  BY <1>1, <1>2
<1> QED BY <1>2, <1>3

-----------------------------------------------------------------------------
(* The names in a directory, in order. *)

\* The sequences InOrder chooses from.
Orders(C) == {q \in [1 .. Cardinality(C) -> C] : Ascending(q) /\ ToSet(q) = C}

LEMMA OrdersExist == \A C : C \subseteq Nat /\ IsFiniteSet(C) => Orders(C) # {}
<1> DEFINE T == {n \in Nat : \A C : C \subseteq Nat /\ IsFiniteSet(C) /\ Cardinality(C) = n
                                     => Orders(C) # {}}
<1>1. 0 \in T
  <2> SUFFICES ASSUME NEW C, C \subseteq Nat, IsFiniteSet(C), Cardinality(C) = 0
               PROVE  Orders(C) # {}
    OBVIOUS
  <2>1. C = {}
    BY FS_EmptySet
  <2> DEFINE q == [i \in 1 .. Cardinality(C) |-> i]
  <2>2. q \in [1 .. Cardinality(C) -> C] /\ DOMAIN q = {}
    BY <2>1
  <2>3. Ascending(q) /\ ToSet(q) = C
    BY <2>1, <2>2 DEF Ascending, ToSet
  <2> QED BY <2>2, <2>3 DEF Orders
<1>2. ASSUME NEW n \in Nat, n \in T PROVE n + 1 \in T
  <2> SUFFICES ASSUME NEW C, C \subseteq Nat, IsFiniteSet(C), Cardinality(C) = n + 1
               PROVE  Orders(C) # {}
    OBVIOUS
  <2>1. C # {}
    BY FS_EmptySet
  <2>2. PICK m \in C : \A k \in C : m <= k
    BY <2>1, Least
  <2> DEFINE D == C \ {m}
  <2>3. IsFiniteSet(D) /\ Cardinality(D) = n /\ D \subseteq Nat
    <3>1. IsFiniteSet(D) /\ Cardinality(D) = Cardinality(C) - 1
      BY FS_RemoveElement
    <3> QED BY <3>1
  <2>4. Orders(D) # {}
    BY <1>2, <2>3
  <2>5. PICK p \in [1 .. n -> D] : Ascending(p) /\ {p[i] : i \in 1 .. n} = D
    BY <2>3, <2>4 DEF Orders, ToSet
  <2> DEFINE q == [i \in 1 .. n + 1 |-> IF i = 1 THEN m ELSE p[i - 1]]
  <2>6. \A i \in 1 .. n + 1 : i # 1 => i - 1 \in 1 .. n /\ q[i] = p[i - 1] /\ q[i] \in D
    OBVIOUS
  <2>7. q \in [1 .. n + 1 -> C] /\ q[1] = m
    BY <2>6
  <2>8. \A d \in D : m < d
    BY <2>2
  <2>9. Ascending(q)
    <3> SUFFICES ASSUME NEW i \in 1 .. n + 1, NEW j \in 1 .. n + 1, i < j PROVE q[i] < q[j]
      BY <2>7 DEF Ascending
    <3>1. j # 1
      OBVIOUS
    <3>2. CASE i = 1
      BY <2>6, <2>7, <2>8, <3>1, <3>2
    <3>3. CASE i # 1
      <4>1. i - 1 \in 1 .. n /\ j - 1 \in 1 .. n /\ i - 1 < j - 1
        BY <3>3
      <4>2. p[i - 1] < p[j - 1]
        BY <2>5, <4>1 DEF Ascending
      <4> QED BY <2>6, <3>1, <3>3, <4>2
    <3> QED BY <3>2, <3>3
  <2>10. ToSet(q) = C
    <3>1. ASSUME NEW c \in C PROVE \E i \in 1 .. n + 1 : q[i] = c
      <4>1. CASE c = m
        BY <2>7, <4>1
      <4>2. CASE c # m
        <5>1. PICK i \in 1 .. n : p[i] = c
          BY <2>5, <4>2
        <5>2. i + 1 \in 1 .. n + 1 /\ q[i + 1] = p[i]
          OBVIOUS
        <5> QED BY <5>1, <5>2
      <4> QED BY <4>1, <4>2
    <3>2. DOMAIN q = 1 .. n + 1
      OBVIOUS
    <3> HIDE DEF q
    <3> QED BY <2>7, <3>1, <3>2 DEF ToSet
  <2> HIDE DEF q
  <2> QED BY <2>7, <2>9, <2>10 DEF Orders
<1> HIDE DEF T
<1>3. Nat \subseteq T
  BY <1>1, <1>2, Induction
<1> QED BY <1>3, FS_CardinalityType DEF T

\* What sorted_dir_entries returns.
LEMMA Entries ==
  ASSUME NEW C, C \subseteq Names
  PROVE  /\ InOrder(C) \in Seq(Names)
         /\ Ascending(InOrder(C)) /\ ToSet(InOrder(C)) = C
<1>1. C \subseteq Nat /\ IsFiniteSet(C)
  BY NamesAssumption, FS_Subset
<1>2. InOrder(C) \in Orders(C)
  BY <1>1, OrdersExist DEF Orders, InOrder
<1>3. Cardinality(C) \in Nat
  BY <1>1, FS_CardinalityType
<1>4. InOrder(C) \in Seq(C)
  BY <1>2, <1>3 DEF Orders
<1> QED BY <1>2, <1>4 DEF Orders

-----------------------------------------------------------------------------
(* One scan with ExNext: K is what there is on the host, x the cursor of a *)
(* lock on the directory host, and s what was returned.                    *)

Listed(K, host) == {n \in Names : Inside(host, n) \in K}

Cursor(x) ==
  /\ x = [entries |-> x.entries, next_index |-> x.next_index]
  /\ x.entries \in Seq(Names) /\ Ascending(x.entries)
  /\ x.next_index \in 1 .. Len(x.entries) + 1

Reading(K, host, x, s) ==
  /\ Cursor(x)
  /\ s = [stay |-> s.stay, got |-> s.got]
  /\ s.got \in Seq(Names) /\ Ascending(s.got)
  /\ \A i \in DOMAIN s.got : \E j \in 1 .. x.next_index - 1 : s.got[i] = x.entries[j]
  /\ \A n \in s.stay :
       /\ Inside(host, n) \in K
       /\ \E j \in DOMAIN x.entries :
            x.entries[j] = n /\ (j < x.next_index => n \in ToSet(s.got))

LEMMA ReadingStarts ==
  ASSUME NEW K, NEW host
  PROVE  Reading(K, host, [entries |-> InOrder(Listed(K, host)), next_index |-> 1],
                 [stay |-> Listed(K, host), got |-> <<>>])
<1> DEFINE C == Listed(K, host)
           q == InOrder(C)
           x == [entries |-> q, next_index |-> 1]
           s == [stay |-> C, got |-> <<>>]
<1>1. C \subseteq Names /\ \A n \in C : Inside(host, n) \in K
  BY DEF Listed
<1> HIDE DEF C
<1>2. q \in Seq(Names) /\ Ascending(q) /\ ToSet(q) = C
  BY <1>1, Entries
<1> HIDE DEF q
<1>3. Len(q) \in Nat /\ DOMAIN q = 1 .. Len(q)
  BY <1>2
<1>4. Cursor(x)
  BY <1>2, <1>3 DEF Cursor
<1>5. s.got \in Seq(Names) /\ DOMAIN s.got = {} /\ Ascending(s.got)
  BY DEF Ascending
<1>6. \A n \in C : \E j \in DOMAIN q : q[j] = n /\ ~ (j < 1)
  BY <1>2, <1>3 DEF ToSet
<1> QED BY <1>1, <1>4, <1>5, <1>6 DEF Reading, C, q

\* What is gone from the host is no more what must be returned.
LEMMA ReadingSeen ==
  ASSUME NEW K, NEW L, NEW host, NEW x, NEW s, Reading(K, host, x, s), NEW t,
         t = [s EXCEPT !.stay = {n \in @ : Inside(host, n) \in L}]
  PROVE  Reading(L, host, x, t)
BY DEF Reading

LEMMA ReadingNext ==
  ASSUME NEW K, NEW host, NEW x, NEW s, Reading(K, host, x, s),
         x.next_index <= Len(x.entries),
         NEW name, name = x.entries[x.next_index],
         NEW t, t = IF Inside(host, name) \in K THEN [s EXCEPT !.got = Append(@, name)] ELSE s
  PROVE  Reading(K, host, [x EXCEPT !.next_index = @ + 1], t)
<1> DEFINE y == [x EXCEPT !.next_index = @ + 1]
<1>1. PICK n \in Nat, k \in Nat \ {0} :
        /\ n = Len(x.entries) /\ DOMAIN x.entries = 1 .. n /\ k = x.next_index /\ k <= n
  BY DEF Reading, Cursor
<1>2. y.entries = x.entries /\ y.next_index = k + 1 /\ Cursor(y)
  BY <1>1 DEF Reading, Cursor
<1>3. name \in Names
  BY <1>1 DEF Reading, Cursor
<1> HIDE DEF y
<1>4. \A i, j \in 1 .. n : i < j => x.entries[i] < x.entries[j]
  BY <1>1 DEF Reading, Cursor, Ascending
<1>5. \A m \in s.stay : \E j \in 1 .. n :
         x.entries[j] = m /\ Inside(host, m) \in K /\ (j < k => m \in ToSet(s.got))
  BY <1>1 DEF Reading
<1>6. PICK l \in Nat : l = Len(s.got) /\ DOMAIN s.got = 1 .. l
  BY DEF Reading
<1>7. \A i \in 1 .. l : \E j \in 1 .. k - 1 : s.got[i] = x.entries[j]
  BY <1>1, <1>6 DEF Reading
<1>8. t.stay = s.stay
  BY DEF Reading
<1>9. CASE Inside(host, name) \in K
  <2>1. t = [stay |-> s.stay, got |-> Append(s.got, name)]
    BY <1>9 DEF Reading
  <2>2. /\ t.got \in Seq(Names) /\ DOMAIN t.got = 1 .. l + 1 /\ t.got[l + 1] = name
        /\ \A i \in 1 .. l : t.got[i] = s.got[i]
    BY <1>3, <1>6, <2>1 DEF Reading
  <2>3. \A i \in 1 .. l : s.got[i] < name
    <3> SUFFICES ASSUME NEW i \in 1 .. l PROVE s.got[i] < name
      OBVIOUS
    <3>1. PICK j \in 1 .. k - 1 : s.got[i] = x.entries[j]
      BY <1>7
    <3>2. x.entries[j] < x.entries[k]
      BY <1>1, <1>4
    <3> QED BY <1>1, <3>1, <3>2
  <2>4. Ascending(t.got)
    <3> SUFFICES ASSUME NEW i \in 1 .. l + 1, NEW j \in 1 .. l + 1, i < j
                 PROVE  t.got[i] < t.got[j]
      BY <2>2 DEF Ascending
    <3>1. CASE j = l + 1
      BY <2>2, <2>3, <3>1
    <3>2. CASE j # l + 1
      <4>1. i \in 1 .. l /\ j \in 1 .. l
        BY <3>2
      <4>2. s.got[i] < s.got[j]
        BY <1>6, <4>1 DEF Reading, Ascending
      <4> QED BY <2>2, <4>1, <4>2
    <3> QED BY <3>1, <3>2
  <2>5. \A i \in 1 .. l + 1 : \E j \in 1 .. k : t.got[i] = x.entries[j]
    <3> SUFFICES ASSUME NEW i \in 1 .. l + 1 PROVE \E j \in 1 .. k : t.got[i] = x.entries[j]
      OBVIOUS
    <3>1. CASE i = l + 1
      <4>1. k \in 1 .. k /\ name = x.entries[k] /\ t.got[i] = name
        BY <1>1, <2>2, <3>1
      <4> QED BY <4>1
    <3>2. CASE i # l + 1
      <4>1. i \in 1 .. l
        BY <3>2
      <4>2. PICK j \in 1 .. k - 1 : s.got[i] = x.entries[j]
        BY <1>7, <4>1
      <4> QED BY <2>2, <4>1, <4>2
    <3> QED BY <3>1, <3>2
  <2>6. ToSet(t.got) = ToSet(s.got) \cup {name}
    <3>1. ToSet(t.got) \subseteq ToSet(s.got) \cup {name}
      <4> SUFFICES ASSUME NEW i \in 1 .. l + 1 PROVE t.got[i] \in ToSet(s.got) \cup {name}
        BY <2>2 DEF ToSet
      <4>1. i = l + 1 \/ i \in 1 .. l
        OBVIOUS
      <4> QED BY <1>6, <2>2, <4>1 DEF ToSet
    <3>2. \A i \in 1 .. l : i \in 1 .. l + 1
      OBVIOUS
    <3> QED BY <1>6, <2>2, <3>1, <3>2 DEF ToSet
  <2>7. ASSUME NEW m \in s.stay
        PROVE  /\ Inside(host, m) \in K
               /\ \E j \in 1 .. n : x.entries[j] = m /\ (j < k + 1 => m \in ToSet(t.got))
    <3>1. PICK j \in 1 .. n :
            x.entries[j] = m /\ Inside(host, m) \in K /\ (j < k => m \in ToSet(s.got))
      BY <1>5
    <3>2. j < k + 1 => j < k \/ j = k
      BY <1>1
    <3>3. j = k => m = name
      BY <1>1, <3>1
    <3> QED BY <2>6, <3>1, <3>2, <3>3
  <2>8. t = [stay |-> t.stay, got |-> t.got]
    BY <2>1
  <2>9. DOMAIN y.entries = 1 .. n /\ y.next_index - 1 = k
    BY <1>1, <1>2
  <2>10. Reading(K, host, y, t)
    <3>1. \A i \in DOMAIN t.got : \E j \in 1 .. y.next_index - 1 : t.got[i] = y.entries[j]
      <4>1. /\ DOMAIN t.got = 1 .. l + 1 /\ y.entries = x.entries
            /\ 1 .. y.next_index - 1 = 1 .. k
        BY <1>2, <2>2, <2>9
      <4> QED BY <2>5, <4>1
    <3>2. \A m \in t.stay :
            /\ Inside(host, m) \in K
            /\ \E j \in DOMAIN y.entries :
                 y.entries[j] = m /\ (j < y.next_index => m \in ToSet(t.got))
      BY <1>2, <1>8, <2>7, <2>9
    <3> QED BY <1>2, <2>2, <2>4, <2>8, <3>1, <3>2 DEF Reading
  <2> QED BY <2>10 DEF y
<1>10. CASE Inside(host, name) \notin K
  <2>1. t = s
    BY <1>10
  <2>2. ASSUME NEW m \in s.stay
        PROVE  /\ Inside(host, m) \in K
               /\ \E j \in 1 .. n : x.entries[j] = m /\ (j < k + 1 => m \in ToSet(s.got))
    <3>1. PICK j \in 1 .. n :
            x.entries[j] = m /\ Inside(host, m) \in K /\ (j < k => m \in ToSet(s.got))
      BY <1>5
    <3>2. j < k + 1 => j < k \/ j = k
      BY <1>1
    <3>3. j # k
      BY <1>1, <1>10, <3>1
    <3> QED BY <3>1, <3>2, <3>3
  <2>3. \A i \in 1 .. l : \E j \in 1 .. k : s.got[i] = x.entries[j]
    BY <1>1, <1>7
  <2>4. /\ s = [stay |-> s.stay, got |-> s.got] /\ s.got \in Seq(Names) /\ Ascending(s.got)
        /\ DOMAIN y.entries = 1 .. n /\ y.next_index - 1 = k
    BY <1>1, <1>2 DEF Reading
  <2>5. Reading(K, host, y, t)
    BY <1>2, <1>6, <2>1, <2>2, <2>3, <2>4 DEF Reading
  <2> QED BY <2>5 DEF y
<1> QED BY <1>9, <1>10

LEMMA ReadingMeans ==
  ASSUME NEW K, NEW host, NEW x, NEW s, Reading(K, host, x, s)
  PROVE  /\ Ascending(s.got)
         /\ x.next_index > Len(x.entries) => s.stay \subseteq ToSet(s.got)
<1>1. PICK n \in Nat, k \in Nat :
        n = Len(x.entries) /\ DOMAIN x.entries = 1 .. n /\ k = x.next_index
  BY DEF Reading, Cursor
<1>2. k > n => \A j \in 1 .. n : j < k
  OBVIOUS
<1> QED BY <1>1, <1>2 DEF Reading

-----------------------------------------------------------------------------
(* A scan with ExAll: x is the ExAllControl.                               *)

ExAllGood(K, x) ==
  /\ x = [lock |-> x.lock, host |-> x.host, key |-> x.key, got |-> x.got,
          same |-> x.same, done |-> x.done]
  /\ x.key \in Nat
  /\ x.lock = Zero => x.key = 0 /\ x.got = <<>> /\ ~ x.done
  /\ x.same /\ x.lock # Zero =>
       LET names == InOrder(Listed(K, x.host)) IN
       /\ x.key <= Len(names)
       /\ x.got = SubSeq(names, 1, x.key)
       /\ x.done => x.key = Len(names)

LEMMA NoExAllGood == \A K : ExAllGood(K, NoExAll)
BY DEF ExAllGood, NoExAll

LEMMA ExAllSeen ==
  ASSUME NEW K, NEW L, NEW x, ExAllGood(K, x), NEW y,
         y = [x EXCEPT !.same = @ /\ (x.lock = Zero \/
                \A n \in Names : Inside(x.host, n) \in K <=> Inside(x.host, n) \in L)]
  PROVE  ExAllGood(L, y)
<1> DEFINE same == x.same /\ (x.lock = Zero \/
                     \A n \in Names : Inside(x.host, n) \in K <=> Inside(x.host, n) \in L)
<1>1. y = [x EXCEPT !.same = same]
  OBVIOUS
<1>2. same => x.same /\ (x.lock = Zero \/ Listed(K, x.host) = Listed(L, x.host))
  BY DEF Listed
<1> HIDE DEF same
<1>3. /\ y = [lock |-> y.lock, host |-> y.host, key |-> y.key, got |-> y.got,
              same |-> y.same, done |-> y.done]
      /\ y.lock = x.lock /\ y.host = x.host /\ y.key = x.key /\ y.got = x.got
      /\ y.done = x.done /\ y.same = same
  BY <1>1 DEF ExAllGood
<1> QED BY <1>2, <1>3 DEF ExAllGood

LEMMA Joined ==
  ASSUME NEW T, NEW q \in Seq(T), NEW i \in Nat, NEW j \in Nat, i <= j, j <= Len(q)
  PROVE  SubSeq(q, 1, i) \o SubSeq(q, i + 1, j) = SubSeq(q, 1, j)
OBVIOUS

\* A call on the lock a of the directory host, with room for fit entries.
ExAllCall(K, x, a, host, fit, names, last, key, got, done) ==
  /\ a # Zero /\ fit \in Nat
  /\ x.lock = Zero \/ (x.lock = a /\ x.host = host)
  /\ ~ x.done
  /\ names = InOrder(Listed(K, host))
  /\ last = IF x.key + fit < Len(names) THEN x.key + fit ELSE Len(names)
  /\ key = IF x.key < last THEN last ELSE x.key
  /\ got = x.got \o SubSeq(names, x.key + 1, last)
  /\ done => last = Len(names)

LEMMA ExAllNext ==
  ASSUME NEW K, NEW x, NEW a, NEW host, NEW fit, NEW names, NEW last, NEW key, NEW got,
         NEW done, ExAllGood(K, x),
         ExAllCall(K, x, a, host, fit, names, last, key, got, done)
  PROVE  ExAllGood(K, [lock |-> a, host |-> host, key |-> key, got |-> got,
                       same |-> x.same, done |-> done])
<1>0. /\ a # Zero /\ fit \in Nat
      /\ x.lock = Zero \/ (x.lock = a /\ x.host = host)
      /\ ~ x.done
      /\ names = InOrder(Listed(K, host))
      /\ last = IF x.key + fit < Len(names) THEN x.key + fit ELSE Len(names)
      /\ key = IF x.key < last THEN last ELSE x.key
      /\ got = x.got \o SubSeq(names, x.key + 1, last)
      /\ done => last = Len(names)
  BY DEF ExAllCall
<1> USE <1>0
<1>1. names \in Seq(Names)
  <2>1. Listed(K, host) \subseteq Names
    BY DEF Listed
  <2> QED BY <2>1, Entries
<1>2. PICK n \in Nat, k \in Nat : n = Len(names) /\ k = x.key
  <2>1. Len(names) \in Nat
    BY <1>1
  <2>2. x.key \in Nat
    BY DEF ExAllGood
  <2> QED BY <2>1, <2>2
<1>3. last \in Nat /\ last <= n
  BY <1>2
<1> DEFINE y == [lock |-> a, host |-> host, key |-> key, got |-> got,
                 same |-> x.same, done |-> done]
<1>4. key \in Nat
  BY <1>2, <1>3
<1>5. ASSUME x.same
      PROVE  key <= n /\ got = SubSeq(names, 1, key) /\ (last = n => key = n)
  <2>1. k <= n /\ x.got = SubSeq(names, 1, k)
    <3>1. CASE x.lock = Zero
      <4>1. k = 0 /\ x.got = <<>>
        BY <1>2, <3>1 DEF ExAllGood
      <4>2. SubSeq(names, 1, 0) = <<>>
        BY <1>1
      <4> QED BY <1>2, <4>1, <4>2
    <3>2. CASE x.lock # Zero
      <4>1. x.host = host
        BY <3>2
      <4> QED BY <1>2, <1>5, <3>2, <4>1 DEF ExAllGood
    <3> QED BY <3>1, <3>2
  <2>2. k <= last
    BY <1>2, <2>1
  <2>3. key = last
    BY <1>2, <1>3, <2>2
  <2>4. SubSeq(names, 1, k) \o SubSeq(names, k + 1, last) = SubSeq(names, 1, last)
    BY <1>1, <1>2, <1>3, <2>2, Joined
  <2>5. got = SubSeq(names, 1, last)
    <3>1. got = x.got \o SubSeq(names, k + 1, last)
      BY <1>2
    <3> QED BY <2>1, <2>4, <3>1
  <2>6. got = SubSeq(names, 1, key)
    BY <2>3, <2>5
  <2>7. key <= n /\ (last = n => key = n)
    BY <1>3, <2>3
  <2> QED BY <2>6, <2>7
<1>6. /\ y = [lock |-> y.lock, host |-> y.host, key |-> y.key, got |-> y.got,
              same |-> y.same, done |-> y.done]
      /\ y.lock = a /\ y.key = key /\ y.got = got /\ y.host = host
  OBVIOUS
<1>7. (y.same => x.same) /\ (y.done => last = n)
  BY <1>2
<1>8. InOrder(Listed(K, y.host)) = names
  OBVIOUS
<1> HIDE DEF y
<1>9. ExAllGood(K, y)
  BY <1>2, <1>4, <1>5, <1>6, <1>7, <1>8 DEF ExAllGood
<1> QED BY <1>9 DEF y

LEMMA ExAllMeans ==
  ASSUME NEW K, NEW x, ExAllGood(K, x), x.done, x.same
  PROVE  x.got = InOrder(Listed(K, x.host))
<1> DEFINE names == InOrder(Listed(K, x.host))
<1>1. names \in Seq(Names)
  <2>1. Listed(K, x.host) \subseteq Names
    BY DEF Listed
  <2> QED BY <2>1, Entries
<1>2. x.got = SubSeq(names, 1, Len(names))
  BY DEF ExAllGood
<1> HIDE DEF names
<1>3. SubSeq(names, 1, Len(names)) = names
  BY <1>1
<1> QED BY <1>2, <1>3 DEF names

-----------------------------------------------------------------------------
(* The steps. *)

ScansGood(K, d, S) ==
  /\ S = [a \in Addrs |-> S[a]]
  /\ \A a \in DOMAIN d.exnext : Reading(K, d.locks[a].host, d.exnext[a], S[a])

\* The inductive invariant of the scans.
SInv ==
  /\ IInv
  /\ ScansGood(DOMAIN kind, dos, scan)
  /\ ExAllGood(DOMAIN kind, exall)

\* No cursor of d is lost in e but with its lock, and none moves.
Stays(d, e) ==
  \A a \in DOMAIN e.exnext :
    a \in DOMAIN d.exnext /\ e.exnext[a] = d.exnext[a] /\ e.locks[a] = d.locks[a]

LEMMA StaysOn ==
  ASSUME NEW d, NEW e, NEW f, Stays(d, e), Stays(e, f) PROVE Stays(d, f)
BY DEF Stays

LEMMA StaysUnlock ==
  ASSUME NEW d, NEW a, IsDos(d), DOMAIN d.exnext \subseteq DOMAIN d.locks
  PROVE  Stays(d, unlock(d, a))
<1> DEFINE e == unlock(d, a)
<1>1. e.exnext = Dropped(d.exnext, a) /\ e.locks = Dropped(d.locks, a)
  BY DEF unlock, IsDos
<1> HIDE DEF e
<1>2. \A f, b : b \in DOMAIN f /\ b # a => Dropped(f, a)[b] = f[b]
  BY DEF Dropped
<1>3. DOMAIN e.exnext = DOMAIN d.exnext \ {a}
  BY <1>1 DEF Dropped
<1>4. ASSUME NEW b \in DOMAIN e.exnext
      PROVE  b \in DOMAIN d.exnext /\ e.exnext[b] = d.exnext[b] /\ e.locks[b] = d.locks[b]
  <2>1. b \in DOMAIN d.exnext /\ b \in DOMAIN d.locks /\ b # a
    BY <1>3
  <2> QED BY <1>1, <1>2, <2>1
<1>5. Stays(d, e)
  BY <1>4 DEF Stays
<1> QED BY <1>5 DEF e

LEMMA StaysPort == ASSUME NEW d, IsDos(d), NEW o \in fs_port_addr(d) PROVE Stays(d, o.dos)
BY PortOutcome DEF Stays

LEMMA StaysLock ==
  ASSUME NEW d, NEW H, NEW V, Owned(d, H, V), NEW host, NEW amiga,
         NEW o \in new_lock(d, host, amiga)
  PROVE  Stays(d, o.dos)
<1>. DEFINE Granted == [host |-> host, amiga |-> amiga]
<1>1. PICK b \in alloc(d) :
        o \in IF b.at = Zero THEN {b}
              ELSE {IF p.at = Zero THEN [at |-> Zero, dos |-> heap_free(p.dos, b.at)]
                    ELSE [at |-> b.at, dos |-> [p.dos EXCEPT !.locks = Put(@, b.at, Granted)]] :
                    p \in fs_port_addr(b.dos)}
  BY DEF new_lock
<1>2. CASE b = [at |-> Zero, dos |-> d]
  BY <1>1, <1>2 DEF Stays
<1>3. CASE b.at \in Addrs \ d.blocks /\ b.dos = [d EXCEPT !.blocks = @ \cup {b.at}]
  <2>1. b.at # Zero
    BY <1>3, LocksAssumption
  <2>2. PICK p \in fs_port_addr(b.dos) :
          o = IF p.at = Zero THEN [at |-> Zero, dos |-> heap_free(p.dos, b.at)]
              ELSE [at |-> b.at, dos |-> [p.dos EXCEPT !.locks = Put(@, b.at, Granted)]]
    BY <1>1, <2>1
  <2>3. IsDos(b.dos) /\ b.dos.locks = d.locks /\ b.dos.exnext = d.exnext
    BY <1>3 DEF Owned, IsDos
  <2>4. IsDos(p.dos) /\ p.dos.locks = d.locks /\ p.dos.exnext = d.exnext
    BY <2>3, PortOutcome
  <2>5. CASE p.at = Zero
    <3>1. o.dos = [p.dos EXCEPT !.blocks = p.dos.blocks \ {b.at}]
      BY <2>2, <2>5 DEF heap_free
    <3>2. o.dos.locks = d.locks /\ o.dos.exnext = d.exnext
      BY <2>4, <3>1 DEF IsDos
    <3> QED BY <3>2 DEF Stays
  <2>6. CASE p.at # Zero
    <3>. DEFINE L == Put(d.locks, b.at, Granted)
    <3>1. o.dos = [p.dos EXCEPT !.locks = L]
      BY <2>2, <2>4, <2>6
    <3>2. \A a \in DOMAIN d.locks : a # b.at => L[a] = d.locks[a]
      BY DEF Put
    <3>. HIDE DEF L
    <3>3. o.dos.locks = L /\ o.dos.exnext = d.exnext
      BY <2>4, <3>1 DEF IsDos
    <3>4. \A a \in DOMAIN d.exnext : a \in DOMAIN d.locks /\ a # b.at
      BY <1>3 DEF Owned
    <3> QED BY <3>2, <3>3, <3>4 DEF Stays
  <2> QED BY <2>5, <2>6
<1> QED BY <1>1, <1>2, <1>3, AllocOutcome

\* The cursors stay, whatever of the allocations of GetDeviceProc fails.
LEMMA StaysGetDeviceProc == ASSUME IInv, NEW p, GetDeviceProc(p) PROVE Stays(dos, dos')
<1>1. PICK r \in resolve_must_exist(dir_part(p)) : \E o \in new_lock(dos, r.host, r.amiga) :
        IF o.at = Zero THEN dos' = o.dos /\ devprocs' = devprocs
        ELSE \E port \in fs_port_addr(o.dos) :
               IF port.at = Zero THEN dos' = unlock(port.dos, o.at) /\ devprocs' = devprocs
               ELSE \E v \in alloc(port.dos) :
                      IF v.at = Zero THEN dos' = unlock(v.dos, o.at) /\ devprocs' = devprocs
                      ELSE dos' = v.dos /\ devprocs' = Put(devprocs, v.at, o.at)
  BY DEF GetDeviceProc
<1>2. PICK o \in new_lock(dos, r.host, r.amiga) :
        IF o.at = Zero THEN dos' = o.dos /\ devprocs' = devprocs
        ELSE \E port \in fs_port_addr(o.dos) :
               IF port.at = Zero THEN dos' = unlock(port.dos, o.at) /\ devprocs' = devprocs
               ELSE \E v \in alloc(port.dos) :
                      IF v.at = Zero THEN dos' = unlock(v.dos, o.at) /\ devprocs' = devprocs
                      ELSE dos' = v.dos /\ devprocs' = Put(devprocs, v.at, o.at)
  BY <1>1
<1>3. Kept(dos, held, {}, devprocs) /\ Owned(dos, held, devprocs)
  BY DEF IInv, Kept
<1>4. Stays(dos, o.dos)
  BY <1>3, StaysLock
<1>5. CASE o.at = Zero
  BY <1>2, <1>4, <1>5
<1>6. CASE o.at # Zero
  <2>1. Kept(o.dos, held \cup {o.at}, {}, devprocs)
    BY <1>3, <1>6, LockKept
  <2>2. IsDos(o.dos)
    BY <2>1 DEF Kept, Owned
  <2>3. PICK port \in fs_port_addr(o.dos) :
          IF port.at = Zero THEN dos' = unlock(port.dos, o.at) /\ devprocs' = devprocs
          ELSE \E v \in alloc(port.dos) :
                 IF v.at = Zero THEN dos' = unlock(v.dos, o.at) /\ devprocs' = devprocs
                 ELSE dos' = v.dos /\ devprocs' = Put(devprocs, v.at, o.at)
    BY <1>2, <1>6
  <2>4. Kept(port.dos, held \cup {o.at}, {}, devprocs) /\ Stays(o.dos, port.dos)
    BY <2>1, <2>2, PortKept, StaysPort
  <2>5. /\ IsDos(port.dos) /\ DOMAIN port.dos.exnext \subseteq DOMAIN port.dos.locks
        /\ Stays(dos, port.dos)
    BY <1>4, <2>4, StaysOn DEF Kept, Owned
  <2>6. Stays(port.dos, unlock(port.dos, o.at))
    BY <2>5, StaysUnlock
  <2>7. Stays(dos, unlock(port.dos, o.at))
    BY <2>5, <2>6, StaysOn
  <2>8. CASE port.at = Zero
    BY <2>3, <2>7, <2>8
  <2>9. CASE port.at # Zero
    <3>1. PICK v \in alloc(port.dos) :
            IF v.at = Zero THEN dos' = unlock(v.dos, o.at) /\ devprocs' = devprocs
            ELSE dos' = v.dos /\ devprocs' = Put(devprocs, v.at, o.at)
      BY <2>3, <2>9
    <3>2. CASE v = [at |-> Zero, dos |-> port.dos]
      BY <2>7, <3>1, <3>2
    <3>3. CASE /\ v.at \in Addrs \ port.dos.blocks
               /\ v.dos = [port.dos EXCEPT !.blocks = @ \cup {v.at}]
      <4>1. v.at # Zero
        BY <3>3, LocksAssumption
      <4>2. dos' = [port.dos EXCEPT !.blocks = @ \cup {v.at}]
        BY <3>1, <3>3, <4>1
      <4>3. dos'.locks = port.dos.locks /\ dos'.exnext = port.dos.exnext
        BY <2>5, <4>2 DEF IsDos
      <4> QED BY <2>5, <4>3 DEF Stays
    <3> QED BY <3>2, <3>3, AllocOutcome
  <2> QED BY <2>8, <2>9
<1> QED BY <1>5, <1>6

\* Nothing changes on the host, and what was returned through a lock that
\* stays is the same.
LEMMA QuietKeeps ==
  ASSUME SInv, IInv', kind' = kind, Stays(dos, dos'),
         scan' = [a \in Addrs |-> scan'[a]], \A a \in DOMAIN dos'.exnext : scan'[a] = scan[a],
         ExAllGood(DOMAIN kind, exall')
  PROVE  SInv'
<1>1. ASSUME NEW a \in DOMAIN dos'.exnext
      PROVE  Reading(DOMAIN kind, dos'.locks[a].host, dos'.exnext[a], scan'[a])
  BY <1>1 DEF SInv, ScansGood, Stays
<1>2. ScansGood(DOMAIN kind, dos', scan')
  BY <1>1 DEF ScansGood
<1> QED BY <1>2 DEF SInv

\* The same when the histories stay as they are.
LEMMA StillKeeps ==
  ASSUME SInv, IInv', kind' = kind, Stays(dos, dos'), scan' = scan, exall' = exall
  PROVE  SInv'
<1>1. scan = [a \in Addrs |-> scan[a]] /\ ExAllGood(DOMAIN kind, exall)
  BY DEF SInv, ScansGood
<1> QED BY <1>1, QuietKeeps

\* A lock is gone, and what was read through it is forgotten.
LEMMA ForgottenKeeps ==
  ASSUME SInv, IInv', kind' = kind, Stays(dos, dos'), NEW a, a \notin DOMAIN dos'.exnext,
         Forgotten(a)
  PROVE  SInv'
<1>1. scan = [b \in Addrs |-> scan[b]] /\ ExAllGood(DOMAIN kind, exall)
  BY DEF SInv, ScansGood
<1>2. scan' = [scan EXCEPT ![a] = NoScan] /\ (exall' = exall \/ exall' = NoExAll)
  BY DEF Forgotten
<1>3. scan' = [b \in Addrs |-> scan'[b]] /\ \A b : b # a => scan'[b] = scan[b]
  BY <1>1, <1>2
<1>4. ExAllGood(DOMAIN kind, exall')
  BY <1>1, <1>2, NoExAllGood
<1> QED BY <1>3, <1>4, QuietKeeps

\* The host changes, and what is gone from it is no more to be returned.
LEMMA SeenKeeps ==
  ASSUME SInv, IInv', Stays(dos, dos'), Seen(dos.locks)
  PROVE  SInv'
<1> DEFINE K == DOMAIN kind
           L == DOMAIN kind'
<1>1. /\ IInv /\ ExAllGood(K, exall) /\ scan = [a \in Addrs |-> scan[a]]
      /\ \A a \in DOMAIN dos.exnext :
           Reading(K, dos.locks[a].host, dos.exnext[a], scan[a])
  BY DEF SInv, ScansGood
<1>2. DOMAIN dos.exnext \subseteq DOMAIN dos.locks /\ DOMAIN dos.locks \subseteq Addrs
  BY <1>1 DEF IInv, Kept, Owned
<1>3. scan' = [a \in Addrs |->
        [scan[a] EXCEPT !.stay =
           {n \in @ : a \in DOMAIN dos.locks /\ Inside(dos.locks[a].host, n) \in L}]]
  BY DEF Seen
<1>4. exall' = [exall EXCEPT !.same = @ /\ (exall.lock = Zero \/
        \A n \in Names : Inside(exall.host, n) \in K <=> Inside(exall.host, n) \in L)]
  BY DEF Seen
<1> HIDE DEF K, L
<1>5. ExAllGood(L, exall')
  BY <1>1, <1>4, ExAllSeen
<1>6. ASSUME NEW a \in DOMAIN dos'.exnext
      PROVE  Reading(L, dos'.locks[a].host, dos'.exnext[a], scan'[a])
  <2>1. /\ a \in DOMAIN dos.exnext /\ a \in DOMAIN dos.locks /\ a \in Addrs
        /\ dos'.exnext[a] = dos.exnext[a] /\ dos'.locks[a] = dos.locks[a]
    BY <1>2, <1>6 DEF Stays
  <2>2. scan'[a] = [scan[a] EXCEPT !.stay = {n \in @ : Inside(dos.locks[a].host, n) \in L}]
    BY <1>3, <2>1
  <2>3. Reading(L, dos.locks[a].host, dos.exnext[a], scan'[a])
    BY <1>1, <2>1, <2>2, ReadingSeen
  <2> QED BY <2>1, <2>3
<1>7. scan' = [a \in Addrs |-> scan'[a]]
  BY <1>3
<1>8. ScansGood(L, dos', scan')
  BY <1>6, <1>7 DEF ScansGood
<1> QED BY <1>5, <1>8 DEF SInv, L

LEMMA GivenStays == ASSUME IInv, NEW result, GivenLock(result) PROVE Stays(dos, dos')
<1>1. PICK r \in result : \E o \in new_lock(dos, r.host, r.amiga) : dos' = o.dos
  BY DEF GivenLock
<1>2. PICK o \in new_lock(dos, r.host, r.amiga) : dos' = o.dos
  BY <1>1
<1>3. Owned(dos, held \cup {}, devprocs)
  BY DEF IInv, Kept
<1> QED BY <1>2, <1>3, StaysLock

LEMMA ReleasedStays ==
  ASSUME IInv, NEW a PROVE Stays(dos, unlock(dos, a)) /\ a \notin DOMAIN unlock(dos, a).exnext
<1>1. IsDos(dos) /\ DOMAIN dos.exnext \subseteq DOMAIN dos.locks
  BY DEF IInv, Kept, Owned
<1>2. DOMAIN unlock(dos, a).exnext = DOMAIN dos.exnext \ {a}
  BY <1>1, UnlockFields
<1> QED BY <1>1, <1>2, StaysUnlock

LEMMA ExamineKeeps ==
  ASSUME SInv, IInv', NEW a \in DOMAIN dos.locks, Examine(a) PROVE SInv'
<1> DEFINE host == dos.locks[a].host
           K == DOMAIN kind
           x == [entries |-> sorted_dir_entries(host), next_index |-> 1]
           next == IF IsDir(host) THEN Put(dos.exnext, a, x) ELSE Dropped(dos.exnext, a)
           s == IF IsDir(host) THEN [stay |-> Children(host), got |-> <<>>] ELSE NoScan
<1>1. /\ dos' = [dos EXCEPT !.exnext = next] /\ scan' = [scan EXCEPT ![a] = s]
      /\ kind' = kind /\ exall' = exall
  BY DEF Examine, vfs
<1>2. /\ IInv /\ ExAllGood(K, exall) /\ scan = [b \in Addrs |-> scan[b]]
      /\ \A b \in DOMAIN dos.exnext :
           Reading(K, dos.locks[b].host, dos.exnext[b], scan[b])
  BY DEF SInv, ScansGood
<1>3. IsDos(dos) /\ a \in Addrs
  BY <1>2 DEF IInv, Kept, Owned
<1>4. Children(host) = Listed(K, host)
  BY DEF Children, Listed, Exists
<1>5. Reading(K, host, x, [stay |-> Children(host), got |-> <<>>])
  BY <1>4, ReadingStarts DEF sorted_dir_entries
<1>6. \A b \in DOMAIN next : \/ b = a /\ IsDir(host) /\ next[b] = x
                             \/ b # a /\ b \in DOMAIN dos.exnext /\ next[b] = dos.exnext[b]
  BY DEF Put, Dropped
<1> HIDE DEF next, x
<1>7. dos'.exnext = next /\ dos'.locks = dos.locks
  BY <1>1, <1>3 DEF IsDos
<1>8. scan' = [b \in Addrs |-> scan'[b]] /\ scan'[a] = s /\ \A b : b # a => scan'[b] = scan[b]
  BY <1>1, <1>2, <1>3
<1>9. IsDir(host) => s = [stay |-> Children(host), got |-> <<>>]
  OBVIOUS
<1> HIDE DEF s, host, K
<1>10. \A b \in DOMAIN dos'.exnext : Reading(K, dos'.locks[b].host, dos'.exnext[b], scan'[b])
  <2> SUFFICES ASSUME NEW b \in DOMAIN next
               PROVE  Reading(K, dos.locks[b].host, next[b], scan'[b])
    BY <1>7
  <2>1. CASE b = a /\ IsDir(host) /\ next[b] = x
    BY <1>5, <1>8, <1>9, <2>1 DEF host
  <2>2. CASE b # a /\ b \in DOMAIN dos.exnext /\ next[b] = dos.exnext[b]
    BY <1>2, <1>8, <2>2
  <2> QED BY <1>6, <2>1, <2>2
<1>11. ScansGood(K, dos', scan') /\ ExAllGood(K, exall')
  BY <1>1, <1>2, <1>8, <1>10 DEF ScansGood
<1> QED BY <1>1, <1>11 DEF SInv, K

LEMMA ExNextKeeps ==
  ASSUME SInv, IInv', NEW a \in DOMAIN dos.locks, ExNext(a) PROVE SInv'
<1> DEFINE host == dos.locks[a].host
           K == DOMAIN kind
           x == dos.exnext[a]
           name == x.entries[x.next_index]
           y == [x EXCEPT !.next_index = @ + 1]
           t == IF Inside(host, name) \in K THEN [scan[a] EXCEPT !.got = Append(@, name)]
                ELSE scan[a]
<1>1. /\ a \in DOMAIN dos.exnext /\ x.next_index <= Len(x.entries)
      /\ dos' = [dos EXCEPT !.exnext[a].next_index = @ + 1]
      /\ scan' = IF Inside(host, name) \in K
                 THEN [scan EXCEPT ![a].got = Append(@, name)] ELSE scan
      /\ kind' = kind /\ exall' = exall
  BY DEF ExNext, vfs, Exists
<1>2. /\ IInv /\ ExAllGood(K, exall) /\ scan = [b \in Addrs |-> scan[b]]
      /\ \A b \in DOMAIN dos.exnext :
           Reading(K, dos.locks[b].host, dos.exnext[b], scan[b])
  BY DEF SInv, ScansGood
<1>3. IsDos(dos) /\ a \in Addrs
  BY <1>2 DEF IInv, Kept, Owned
<1>4. Reading(K, host, x, scan[a])
  BY <1>1, <1>2
<1>5. Reading(K, host, y, t)
  <2> DEFINE n == name
  <2>1. n = x.entries[x.next_index] /\ x.next_index <= Len(x.entries)
    BY <1>1
  <2> HIDE DEF x, host, K, n
  <2>2. Reading(K, host, [x EXCEPT !.next_index = @ + 1],
                IF Inside(host, n) \in K THEN [scan[a] EXCEPT !.got = Append(@, n)]
                ELSE scan[a])
    BY <1>4, <2>1, ReadingNext
  <2> QED BY <2>2 DEF n
<1>6. dos' = [dos EXCEPT !.exnext = [dos.exnext EXCEPT ![a] = y]]
  BY <1>1, <1>3 DEF IsDos
<1>7. /\ dos'.locks = dos.locks /\ DOMAIN dos'.exnext = DOMAIN dos.exnext
      /\ dos'.exnext[a] = y /\ \A b \in DOMAIN dos.exnext : b # a => dos'.exnext[b] = dos.exnext[b]
  <2> HIDE DEF y
  <2> QED BY <1>1, <1>3, <1>6 DEF IsDos
<1>8. scan' = [scan EXCEPT ![a] = t]
  BY <1>1, <1>2, <1>3
<1> HIDE DEF t, y, x, host, K
<1>9. scan' = [b \in Addrs |-> scan'[b]] /\ scan'[a] = t /\ \A b : b # a => scan'[b] = scan[b]
  BY <1>2, <1>3, <1>8
<1>10. \A b \in DOMAIN dos'.exnext : Reading(K, dos'.locks[b].host, dos'.exnext[b], scan'[b])
  <2> SUFFICES ASSUME NEW b \in DOMAIN dos.exnext
               PROVE  Reading(K, dos.locks[b].host, dos'.exnext[b], scan'[b])
    BY <1>7
  <2>1. CASE b = a
    BY <1>5, <1>7, <1>9, <2>1 DEF host
  <2>2. CASE b # a
    BY <1>2, <1>7, <1>9, <2>2
  <2> QED BY <2>1, <2>2
<1>11. ScansGood(K, dos', scan') /\ ExAllGood(K, exall')
  BY <1>1, <1>2, <1>9, <1>10 DEF ScansGood
<1> QED BY <1>1, <1>11 DEF SInv, K

LEMMA ExAllKeeps ==
  ASSUME SInv, IInv', NEW a \in DOMAIN dos.locks, NEW fit \in Fits, ExAll(a, fit) PROVE SInv'
<1> DEFINE host == dos.locks[a].host
           names == sorted_dir_entries(host)
           last == IF exall.key + fit < Len(names) THEN exall.key + fit ELSE Len(names)
           key == IF exall.key < last THEN last ELSE exall.key
           got == exall.got \o SubSeq(names, exall.key + 1, last)
           done == last = Len(names)
           K == DOMAIN kind
<1>1. /\ exall.lock = Zero \/ (exall.lock = a /\ exall.host = host)
      /\ ~ exall.done
      /\ exall' = [exall EXCEPT !.lock = a, !.host = host, !.got = got, !.key = key, !.done = done]
      /\ kind' = kind /\ dos' = dos /\ scan' = scan
  BY DEF ExAll, vfs
<1>2. ExAllGood(K, exall) /\ IInv /\ scan = [b \in Addrs |-> scan[b]]
  BY DEF SInv, ScansGood
<1>3. a # Zero /\ fit \in Nat
  BY <1>2, LocksAssumption DEF IInv, Kept, Owned
<1>4. names = InOrder(Listed(K, host))
  BY DEF sorted_dir_entries, Children, Listed, Exists
<1>5. done => last = Len(names)
  OBVIOUS
<1> HIDE DEF names, done
<1>6. /\ last = IF exall.key + fit < Len(names) THEN exall.key + fit ELSE Len(names)
      /\ key = IF exall.key < last THEN last ELSE exall.key
      /\ got = exall.got \o SubSeq(names, exall.key + 1, last)
  OBVIOUS
<1> HIDE DEF host, K, last, key, got
<1>7. ExAllGood(K, [lock |-> a, host |-> host, key |-> key, got |-> got,
                    same |-> exall.same, done |-> done])
  <2>1. ExAllCall(K, exall, a, host, fit, names, last, key, got, done)
    BY <1>1, <1>3, <1>4, <1>5, <1>6 DEF ExAllCall
  <2> QED BY <1>2, <2>1, ExAllNext
<1>8. exall' = [lock |-> a, host |-> host, key |-> key, got |-> got,
                same |-> exall.same, done |-> done]
  <2>1. exall = [lock |-> exall.lock, host |-> exall.host, key |-> exall.key,
                 got |-> exall.got, same |-> exall.same, done |-> exall.done]
    BY <1>2 DEF ExAllGood
  <2>2. exall' = [exall EXCEPT !.lock = a, !.host = host, !.got = got, !.key = key,
                               !.done = done]
    BY <1>1
  <2> QED BY <2>1, <2>2
<1>9. ExAllGood(K, exall')
  BY <1>7, <1>8
<1>10. Stays(dos, dos')
  BY <1>1 DEF Stays
<1> QED BY <1>1, <1>2, <1>9, <1>10, QuietKeeps DEF K

LEMMA SStep == SInv /\ [Next]_vars => SInv'
<1> SUFFICES ASSUME SInv, [Next]_vars PROVE SInv'
  OBVIOUS
<1> USE DEF vfs
<1>1. IInv /\ IInv'
  <2>1. Kept(dos', held', {}, devprocs')
    BY Step DEF SInv, IInv
  <2> QED BY <2>1 DEF SInv, IInv
<1>2. ASSUME NEW p, Lock(p) PROVE SInv'
  BY <1>1, <1>2, GivenStays, StillKeeps DEF Lock
<1>3. ASSUME NEW p, GetDeviceProc(p) PROVE SInv'
  BY <1>1, <1>3, StaysGetDeviceProc, StillKeeps DEF GetDeviceProc
<1>4. ASSUME NEW p, CreateDir(p) PROVE SInv'
  <2>1. Seen(dos.locks) /\ Stays(dos, dos')
    BY <1>1, <1>4, GivenStays DEF CreateDir
  <2> QED BY <1>1, <2>1, SeenKeeps
<1>5. ASSUME NEW p, NewFile(p) \/ DeleteFile(p) PROVE SInv'
  <2>1. Seen(dos.locks) /\ dos' = dos
    BY <1>5 DEF NewFile, DeleteFile
  <2>2. Stays(dos, dos')
    BY <2>1 DEF Stays
  <2> QED BY <1>1, <2>1, <2>2, SeenKeeps
<1>6. ASSUME NEW p, NEW q, Rename(p, q) PROVE SInv'
  <2>1. Seen(dos.locks) /\ dos' = dos
    BY <1>6 DEF Rename
  <2>2. Stays(dos, dos')
    BY <2>1 DEF Stays
  <2> QED BY <1>1, <2>1, <2>2, SeenKeeps
<1>7. ASSUME NEW a, NEW p, LocateObject(a, p) PROVE SInv'
  BY <1>1, <1>7, GivenStays, StillKeeps DEF LocateObject
<1>8. ASSUME NEW a, UnLock(a) PROVE SInv'
  BY <1>1, <1>8, ReleasedStays, ForgottenKeeps DEF UnLock, Released
<1>9. ASSUME NEW a, CurrentDir(a) PROVE SInv'
  <2>1. dos'.exnext = dos.exnext /\ dos'.locks = dos.locks
    BY <1>1, <1>9 DEF CurrentDir, IInv, Kept, Owned, IsDos
  <2>2. kind' = kind /\ scan' = scan /\ exall' = exall
    BY <1>9 DEF CurrentDir
  <2>3. Stays(dos, dos')
    BY <2>1 DEF Stays
  <2> QED BY <1>1, <2>2, <2>3, StillKeeps
<1>10. ASSUME NEW a, ParentDir(a) PROVE SInv'
  BY <1>1, <1>10, GivenStays, StillKeeps DEF ParentDir
<1>11. ASSUME NEW a, DupLock(a) PROVE SInv'
  BY <1>1, <1>11, GivenStays, StillKeeps DEF DupLock
<1>12. ASSUME NEW a \in DOMAIN dos.locks, Examine(a) PROVE SInv'
  BY <1>1, <1>12, ExamineKeeps
<1>13. ASSUME NEW a \in DOMAIN dos.locks, ExNext(a) PROVE SInv'
  BY <1>1, <1>13, ExNextKeeps
<1>14. ASSUME NEW a \in DOMAIN dos.locks, NEW fit \in Fits, ExAll(a, fit) PROVE SInv'
  BY <1>1, <1>14, ExAllKeeps
<1>15. ASSUME NEW n, AssignCancel(n) PROVE SInv'
  <2>1. dos' = dos /\ kind' = kind /\ scan' = scan /\ exall' = exall
    BY <1>15 DEF AssignCancel, remove_assign
  <2>2. Stays(dos, dos')
    BY <2>1 DEF Stays
  <2> QED BY <1>1, <2>1, <2>2, StillKeeps
<1>16. ASSUME NEW n, NEW a, AssignLock(n, a) PROVE SInv'
  BY <1>1, <1>16, ReleasedStays, ForgottenKeeps DEF AssignLock, Released
<1>17. CASE ExAllEnd
  <2>1. dos' = dos /\ kind' = kind /\ scan' = scan /\ exall' = NoExAll
    BY <1>17 DEF ExAllEnd
  <2>2. Stays(dos, dos') /\ scan = [a \in Addrs |-> scan[a]]
    BY <2>1 DEF Stays, SInv, ScansGood
  <2> QED BY <1>1, <2>1, <2>2, NoExAllGood, QuietKeeps
<1>18. ASSUME NEW v, FreeDeviceProc(v) PROVE SInv'
  <2> DEFINE a == devprocs[v]
             d == unlock(dos, a)
  <2>1. dos' = heap_free(d, v) /\ Forgotten(a) /\ kind' = kind
    BY <1>18 DEF FreeDeviceProc
  <2>2. Stays(dos, d) /\ a \notin DOMAIN d.exnext
    BY <1>1, ReleasedStays
  <2>3. IsDos(d)
    BY <1>1, UnlockFields DEF IInv, Kept, Owned
  <2> HIDE DEF d, a
  <2>4. dos'.exnext = d.exnext /\ dos'.locks = d.locks
    BY <2>1, <2>3 DEF heap_free, IsDos
  <2>5. Stays(dos, dos') /\ a \notin DOMAIN dos'.exnext
    BY <2>2, <2>4 DEF Stays
  <2> QED BY <1>1, <2>1, <2>5, ForgottenKeeps
<1>19. CASE UNCHANGED vars
  <2>1. dos' = dos /\ kind' = kind /\ scan' = scan /\ exall' = exall
    BY <1>19 DEF vars, calls
  <2>2. Stays(dos, dos')
    BY <2>1 DEF Stays
  <2> QED BY <1>1, <2>1, <2>2, StillKeeps
<1> QED BY <1>2, <1>3, <1>4, <1>5, <1>6, <1>7, <1>8, <1>9, <1>10, <1>11, <1>12, <1>13,
           <1>14, <1>15, <1>16, <1>17, <1>18, <1>19 DEF Next

LEMMA SInvInit == Init => SInv
<1> SUFFICES ASSUME Init PROVE SInv
  OBVIOUS
<1>1. ScansGood(DOMAIN kind, dos, scan)
  BY DEF Init, ScansGood
<1>2. ExAllGood(DOMAIN kind, exall)
  BY NoExAllGood DEF Init
<1> QED BY <1>1, <1>2, Initially DEF SInv

LEMMA SInvMeans == SInv => ScansComplete
<1> SUFFICES ASSUME SInv PROVE ScansComplete
  OBVIOUS
<1>1. ScanComplete
  <2> SUFFICES ASSUME NEW a \in DOMAIN dos.exnext
               PROVE  /\ Ascending(scan[a].got)
                      /\ dos.exnext[a].next_index > Len(dos.exnext[a].entries) =>
                           scan[a].stay \subseteq ToSet(scan[a].got)
    BY DEF ScanComplete, Ascending
  <2>1. Reading(DOMAIN kind, dos.locks[a].host, dos.exnext[a], scan[a])
    BY DEF SInv, ScansGood
  <2> QED BY <2>1, ReadingMeans
<1>2. ExAllComplete
  <2>1. ExAllGood(DOMAIN kind, exall)
    BY DEF SInv
  <2>2. sorted_dir_entries(exall.host) = InOrder(Listed(DOMAIN kind, exall.host))
    BY DEF sorted_dir_entries, Children, Listed, Exists
  <2> QED BY <2>1, <2>2, ExAllMeans DEF ExAllComplete
<1> QED BY <1>1, <1>2 DEF ScansComplete

\* For every tree and every change made to it between the calls: ExNext returns each name that
\* stays once and in order, and so does ExAll (doslock.rs ex_next; dosexall.rs ex_all).
THEOREM ScansMissNothing == Spec => []ScansComplete
<1>1. SInv => ScansComplete
  BY SInvMeans
<1> QED BY <1>1, SInvInit, SStep, PTL DEF Spec

-----------------------------------------------------------------------------
(* Recursion along 1 .. n: the step is a function s of the place and of    *)
(* what there is before it.                                                *)

Steps(n, A, a, s) ==
  n \in Nat /\ a \in A /\ \A i \in 1 .. n, x \in A : s[<<i, x>>] \in A
Recursive(n, A, a, s, f) ==
  f \in [0 .. n -> A] /\ f[0] = a /\ \A i \in 1 .. n : f[i] = s[<<i, f[i - 1]>>]

LEMMA Recursion ==
  ASSUME NEW n, NEW A, NEW a, NEW s, Steps(n, A, a, s)
  PROVE  \E f : Recursive(n, A, a, s, f)
<1> USE DEF Steps, Recursive
<1> DEFINE Along(m) == {f \in [0 .. m -> A] :
                          f[0] = a /\ \A i \in 1 .. m : f[i] = s[<<i, f[i - 1]>>]}
           T == {m \in Nat : m <= n => Along(m) # {}}
<1>1. 0 \in T
  <2> DEFINE f == [i \in 0 .. 0 |-> a]
  <2>1. f \in Along(0)
    OBVIOUS
  <2> QED BY <2>1
<1>2. ASSUME NEW m \in Nat, m \in T PROVE m + 1 \in T
  <2> SUFFICES ASSUME m + 1 <= n PROVE Along(m + 1) # {}
    OBVIOUS
  <2>1. PICK f \in [0 .. m -> A] : f[0] = a /\ \A i \in 1 .. m : f[i] = s[<<i, f[i - 1]>>]
    BY <1>2
  <2> DEFINE g == [i \in 0 .. m + 1 |-> IF i <= m THEN f[i] ELSE s[<<m + 1, f[m]>>]]
  <2>2. g \in [0 .. m + 1 -> A]
    <3>1. s[<<m + 1, f[m]>>] \in A
      BY <2>1
    <3> QED BY <2>1, <3>1
  <2>3. g[0] = a
    BY <2>1
  <2>4. ASSUME NEW i \in 1 .. m + 1 PROVE g[i] = s[<<i, g[i - 1]>>]
    <3>1. i - 1 \in 0 .. m /\ i - 1 <= m
      OBVIOUS
    <3>4. g[i - 1] = f[i - 1]
      BY <3>1
    <3>2. CASE i = m + 1
      <4>1. ~ (i <= m) /\ i - 1 = m
        BY <3>2
      <4>2. g[i] = s[<<m + 1, f[m]>>]
        BY <4>1
      <4> HIDE DEF g
      <4> QED BY <3>2, <3>4, <4>1, <4>2
    <3>3. CASE i # m + 1
      <4>1. i \in 1 .. m /\ g[i] = f[i]
        BY <3>3
      <4> HIDE DEF g
      <4> QED BY <2>1, <3>4, <4>1
    <3> QED BY <3>2, <3>3
  <2> HIDE DEF g
  <2>5. g \in Along(m + 1)
    BY <2>2, <2>3, <2>4
  <2> QED BY <2>5
<1> HIDE DEF T
<1>3. Nat \subseteq T
  BY <1>1, <1>2, Induction
<1> QED BY <1>3 DEF T

-----------------------------------------------------------------------------
(* Parent steps. *)

Comps == Seq(Names \cup {ParentStep})
Stacks(c, f) == f = [i \in 0 .. Len(c) |-> IF i = 0 THEN {<<>>} ELSE Popped(f[i - 1], c[i])]

LEMMA PoppedType ==
  ASSUME NEW S, S \subseteq Seq(Names), NEW c \in Names \cup {ParentStep}
  PROVE  Popped(S, c) \subseteq Seq(Names)
<1>1. \A s \in S \ {<<>>} : Front(s) \in Seq(Names)
  BY DEF Front
<1>2. ParentStep \notin Names
  BY NamesAssumption DEF ParentStep
<1> QED BY <1>1, <1>2 DEF Popped

LEMMA StacksExist ==
  ASSUME NEW c \in Comps
  PROVE  \E f \in [0 .. Len(c) -> SUBSET Seq(Names)] :
           Stacks(c, f) /\ apply_parent_pops(c) = f[Len(c)]
<1>1. PICK n \in Nat : n = Len(c) /\ \A i \in 1 .. n : c[i] \in Names \cup {ParentStep}
  BY DEF Comps
<1> DEFINE A == SUBSET Seq(Names)
           s == [p \in (1 .. n) \X A |-> Popped(p[2], c[p[1]])]
<1>2. {<<>>} \in A
  OBVIOUS
<1>3. \A i \in 1 .. n, x \in A : s[<<i, x>>] = Popped(x, c[i])
  OBVIOUS
<1>4. \A i \in 1 .. n, x \in A : s[<<i, x>>] \in A
  BY <1>1, <1>3, PoppedType
<1> HIDE DEF s, A
<1> DEFINE a == {<<>>}
<1> HIDE DEF a
<1>0. a \in A
  BY <1>2 DEF a
<1>5. Steps(n, A, a, s)
  BY <1>0, <1>4 DEF Steps
<1>11. PICK f : Recursive(n, A, a, s, f)
  BY <1>5, Recursion
<1>12. f \in [0 .. n -> A] /\ f[0] = {<<>>} /\ \A i \in 1 .. n : f[i] = s[<<i, f[i - 1]>>]
  BY <1>11 DEF Recursive, a
<1>6. \A i \in 1 .. n : f[i] = Popped(f[i - 1], c[i])
  <2> SUFFICES ASSUME NEW i \in 1 .. n PROVE f[i] = Popped(f[i - 1], c[i])
    OBVIOUS
  <2>1. f[i - 1] \in A
    BY <1>12
  <2> QED BY <1>3, <1>12, <2>1
<1>7. Stacks(c, f)
  BY <1>1, <1>6, <1>12 DEF Stacks
<1> DEFINE g == CHOOSE h : Stacks(c, h)
<1>8. Stacks(c, g)
  BY <1>7
<1>9. apply_parent_pops(c) = g[Len(c)]
  BY DEF apply_parent_pops, Stacks
<1> HIDE DEF g
<1>10. \A i \in 0 .. n : g[i] = f[i]
  <2> DEFINE T == {i \in Nat : i <= n => g[i] = f[i]}
  <2>1. \A i \in 0 .. n : g[i] = IF i = 0 THEN {<<>>} ELSE Popped(g[i - 1], c[i])
    BY <1>1, <1>8 DEF Stacks
  <2>2. 0 \in T
    <3>1. 0 \in 0 .. n
      OBVIOUS
    <3>2. g[0] = {<<>>}
      BY <2>1, <3>1
    <3> QED BY <1>12, <3>2
  <2>3. ASSUME NEW i \in Nat, i \in T PROVE i + 1 \in T
    BY <1>6, <2>1, <2>3
  <2> HIDE DEF T
  <2>4. Nat \subseteq T
    BY <2>2, <2>3, Induction
  <2> QED BY <2>4 DEF T
<1>13. apply_parent_pops(c) = f[n]
  BY <1>1, <1>9, <1>10
<1> QED BY <1>1, <1>12, <1>7, <1>13 DEF A

LEMMA PopsType == ASSUME NEW c \in Comps PROVE apply_parent_pops(c) \subseteq Seq(Names)
<1>1. PICK f \in [0 .. Len(c) -> SUBSET Seq(Names)] : apply_parent_pops(c) = f[Len(c)]
  BY StacksExist
<1>2. Len(c) \in Nat
  BY DEF Comps
<1>3. Len(c) \in 0 .. Len(c)
  BY <1>2
<1> QED BY <1>1, <1>3

\* Without parent steps nothing changes.
LEMMA PopsNone == ASSUME NEW c \in Seq(Names) PROVE apply_parent_pops(c) = {c}
<1>1. c \in Comps
  BY DEF Comps
<1>2. PICK f \in [0 .. Len(c) -> SUBSET Seq(Names)] :
        Stacks(c, f) /\ apply_parent_pops(c) = f[Len(c)]
  BY <1>1, StacksExist
<1>3. PICK n \in Nat : n = Len(c) /\ \A i \in 1 .. n : c[i] \in Names
  OBVIOUS
<1>4. \A i \in 0 .. n : f[i] = IF i = 0 THEN {<<>>} ELSE Popped(f[i - 1], c[i])
  BY <1>2, <1>3 DEF Stacks
<1> DEFINE T == {i \in Nat : i <= n => f[i] = {SubSeq(c, 1, i)}}
<1>5. 0 \in T
  BY <1>4
<1>6. ASSUME NEW i \in Nat, i \in T PROVE i + 1 \in T
  <2> SUFFICES ASSUME i + 1 <= n PROVE f[i + 1] = {SubSeq(c, 1, i + 1)}
    OBVIOUS
  <2>1. f[i] = {SubSeq(c, 1, i)}
    BY <1>6
  <2>2. c[i + 1] \in Names /\ c[i + 1] # ParentStep
    BY <1>3, NamesAssumption DEF ParentStep
  <2>3. f[i + 1] = Popped(f[i], c[i + 1])
    BY <1>4
  <2>4. f[i + 1] = {Append(SubSeq(c, 1, i), c[i + 1])}
    BY <2>1, <2>2, <2>3 DEF Popped
  <2>5. Append(SubSeq(c, 1, i), c[i + 1]) = SubSeq(c, 1, i + 1)
    BY <1>3
  <2> QED BY <2>4, <2>5
<1> HIDE DEF T
<1>7. Nat \subseteq T
  BY <1>5, <1>6, Induction
<1>8. f[n] = {SubSeq(c, 1, n)}
  BY <1>7 DEF T
<1>9. SubSeq(c, 1, n) = c
  BY <1>3
<1> QED BY <1>2, <1>3, <1>8, <1>9

AtMostOne(S) == \A x, y \in S : x = y

LEMMA PopsOne == ASSUME NEW c \in Comps PROVE AtMostOne(apply_parent_pops(c))
<1>1. PICK f \in [0 .. Len(c) -> SUBSET Seq(Names)] :
        Stacks(c, f) /\ apply_parent_pops(c) = f[Len(c)]
  BY StacksExist
<1>2. PICK n \in Nat : n = Len(c)
  BY DEF Comps
<1>3. \A i \in 0 .. n : f[i] = IF i = 0 THEN {<<>>} ELSE Popped(f[i - 1], c[i])
  BY <1>1, <1>2 DEF Stacks
<1> DEFINE T == {i \in Nat : i <= n => AtMostOne(f[i])}
<1>4. 0 \in T
  BY <1>3 DEF AtMostOne
<1>5. ASSUME NEW i \in Nat, i \in T PROVE i + 1 \in T
  <2> SUFFICES ASSUME i + 1 <= n PROVE AtMostOne(f[i + 1])
    OBVIOUS
  <2>1. AtMostOne(f[i])
    BY <1>5
  <2>2. f[i + 1] = Popped(f[i], c[i + 1])
    BY <1>3
  <2> QED BY <2>1, <2>2 DEF Popped, AtMostOne
<1> HIDE DEF T
<1>6. Nat \subseteq T
  BY <1>4, <1>5, Induction
<1> QED BY <1>1, <1>2, <1>6 DEF T

LEMMA PopsAppend ==
  ASSUME NEW c \in Comps, NEW n \in Names
  PROVE  apply_parent_pops(Append(c, n)) = {Append(s, n) : s \in apply_parent_pops(c)}
<1> DEFINE d == Append(c, n)
<1>1. PICK m \in Nat : m = Len(c)
  BY DEF Comps
<1>2. d \in Comps /\ Len(d) = m + 1 /\ d[m + 1] = n /\ \A i \in 1 .. m : d[i] = c[i]
  BY <1>1 DEF Comps
<1> HIDE DEF d
<1>3. PICK f \in [0 .. Len(c) -> SUBSET Seq(Names)] :
        Stacks(c, f) /\ apply_parent_pops(c) = f[Len(c)]
  BY StacksExist
<1>4. PICK g \in [0 .. Len(d) -> SUBSET Seq(Names)] :
        Stacks(d, g) /\ apply_parent_pops(d) = g[Len(d)]
  BY <1>2, StacksExist
<1>5. \A i \in 0 .. m : f[i] = IF i = 0 THEN {<<>>} ELSE Popped(f[i - 1], c[i])
  BY <1>1, <1>3 DEF Stacks
<1>6. \A i \in 0 .. m + 1 : g[i] = IF i = 0 THEN {<<>>} ELSE Popped(g[i - 1], d[i])
  BY <1>2, <1>4 DEF Stacks
<1> DEFINE T == {i \in Nat : i <= m => g[i] = f[i]}
<1>7. 0 \in T
  <2>1. 0 \in 0 .. m /\ 0 \in 0 .. m + 1
    OBVIOUS
  <2> QED BY <1>5, <1>6, <2>1
<1>8. ASSUME NEW i \in Nat, i \in T PROVE i + 1 \in T
  <2> SUFFICES ASSUME i + 1 <= m PROVE g[i + 1] = f[i + 1]
    OBVIOUS
  <2>1. g[i] = f[i] /\ i + 1 \in 1 .. m /\ i + 1 \in 0 .. m /\ i + 1 \in 0 .. m + 1 /\ i + 1 # 0
        /\ (i + 1) - 1 = i
    BY <1>8
  <2>2. f[i + 1] = Popped(f[i], c[i + 1])
    BY <1>5, <2>1
  <2>3. g[i + 1] = Popped(g[i], d[i + 1])
    BY <1>6, <2>1
  <2> QED BY <1>2, <2>1, <2>2, <2>3
<1> HIDE DEF T
<1>9. Nat \subseteq T
  BY <1>7, <1>8, Induction
<1>10. g[m] = f[m]
  BY <1>9 DEF T
<1>11. m + 1 \in 0 .. m + 1 /\ m + 1 # 0 /\ (m + 1) - 1 = m
  OBVIOUS
<1>12. g[m + 1] = Popped(f[m], n)
  BY <1>2, <1>6, <1>10, <1>11
<1>13. n # ParentStep
  BY NamesAssumption DEF ParentStep
<1>14. apply_parent_pops(d) = {Append(s, n) : s \in apply_parent_pops(c)}
  BY <1>1, <1>2, <1>3, <1>4, <1>12, <1>13 DEF Popped
<1> QED BY <1>14 DEF d

-----------------------------------------------------------------------------
(* What names stand for. *)

Bases == Seq(HostObject) \ {<<>>}
Hosts == [Volumes \cup AssignNames -> {S \in SUBSET Bases : AtMostOne(S)}]
Targets == \A n \in DOMAIN assigns : assigns[n] \in Seq(ParsedPath)
Based == cwd \in AbsolutePath /\ Targets

LEMMA LeadingName ==
  ASSUME cwd \in AbsolutePath, NEW p \in ParsedPath
  PROVE  leading_name(p) \in Volumes \cup AssignNames
BY DEF leading_name, ParsedPath, AbsolutePath

LEMMA BelowType ==
  ASSUME NEW o \in HostObject, NEW named \in Seq(Names)
  PROVE  Below(o, named) \in HostObject
<1>1. PICK r \in Volumes, q \in Seq(Names) : o = [root |-> r, path |-> q]
  BY DEF HostObject
<1>2. q \o named \in Seq(Names)
  OBVIOUS
<1> DEFINE w == q \o named
<1>3. Below(o, named) = [o EXCEPT !.path = w]
  BY <1>1 DEF Below
<1> HIDE DEF w
<1>4. Below(o, named) = [root |-> r, path |-> w]
  BY <1>1, <1>3
<1> QED BY <1>2, <1>4 DEF HostObject, w

LEMMA BasesBelow ==
  ASSUME NEW bases \in Bases, NEW named \in Seq(Names)
  PROVE  [i \in DOMAIN bases |-> Below(bases[i], named)] \in Bases
<1>1. PICK n \in Nat : n = Len(bases) /\ DOMAIN bases = 1 .. n /\ n # 0
  BY DEF Bases
<1>2. \A i \in 1 .. n : bases[i] \in HostObject
  BY <1>1 DEF Bases
<1> DEFINE q == [i \in DOMAIN bases |-> Below(bases[i], named)]
<1>3. q = [i \in 1 .. n |-> Below(bases[i], named)]
  BY <1>1
<1>4. \A i \in 1 .. n : Below(bases[i], named) \in HostObject
  BY <1>2, BelowType
<1>5. q \in Seq(HostObject) /\ Len(q) = n
  BY <1>3, <1>4
<1> QED BY <1>1, <1>5 DEF Bases

\* The operators of Vfs for any assigns A and any name c of the current
\* directory's volume.
LeadOf(c, p) == IF p.name \in {NoColon, BareColon} THEN c ELSE p.name
Extended(found, ends, t) ==
  {done \o [i \in DOMAIN bases |-> Below(bases[i], named)] :
     done \in found, bases \in ends, named \in apply_parent_pops(t.comps)}
WithTargetOf(c, hosts, found, t) == Extended(found, hosts[LeadOf(c, t)], t)
OfTargetsOf(c, hosts, targets) ==
  LET found[i \in 0..Len(targets)] ==
        IF i = 0 THEN {<<>>} ELSE WithTargetOf(c, hosts, found[i - 1], targets[i])
  IN found[Len(targets)]
DeeperOf(A, c, hosts) ==
  [n \in Volumes \cup AssignNames |->
     IF n \in Volumes THEN {<<[root |-> n, path |-> <<>>]>>}
     ELSE IF n \notin DOMAIN A \/ A[n] = <<>> THEN {}
     ELSE OfTargetsOf(c, hosts, A[n])]
TargetsOf(A, c) ==
  LET hosts[depth \in 0..(MAX_ASSIGN_DEPTH + 1)] ==
        IF depth = 0 THEN [n \in Volumes \cup AssignNames |-> {}]
        ELSE DeeperOf(A, c, hosts[depth - 1])
  IN hosts[MAX_ASSIGN_DEPTH + 1]

LEMMA TargetsAre == assign_targets = TargetsOf(assigns, cwd.name)
BY DEF assign_targets, TargetsOf, Deeper, DeeperOf, OfTargets, OfTargetsOf,
       WithTarget, WithTargetOf, Extended, leading_name, LeadOf

LEMMA WithTargetType ==
  ASSUME NEW c \in Volumes \cup AssignNames, NEW hosts \in Hosts,
         NEW found, found \subseteq Seq(HostObject), AtMostOne(found), NEW t \in ParsedPath
  PROVE  /\ WithTargetOf(c, hosts, found, t) \subseteq Bases
         /\ AtMostOne(WithTargetOf(c, hosts, found, t))
<1>1. LeadOf(c, t) \in Volumes \cup AssignNames
  BY DEF LeadOf, ParsedPath
<1>2. hosts[LeadOf(c, t)] \subseteq Bases /\ AtMostOne(hosts[LeadOf(c, t)])
  BY <1>1 DEF Hosts
<1>3. apply_parent_pops(t.comps) \subseteq Seq(Names) /\ AtMostOne(apply_parent_pops(t.comps))
  <2>1. t.comps \in Comps
    BY DEF ParsedPath, Comps
  <2> QED BY <2>1, PopsType, PopsOne
<1>4. \A done \in found, q \in Bases : done \o q \in Bases
  <2> SUFFICES ASSUME NEW done \in Seq(HostObject), NEW q \in Bases PROVE done \o q \in Bases
    OBVIOUS
  <2>1. q \in Seq(HostObject) /\ q # <<>>
    BY DEF Bases
  <2>2. done \o q \in Seq(HostObject) /\ done \o q # <<>>
    BY <2>1
  <2> QED BY <2>2 DEF Bases
<1> DEFINE Heads == hosts[LeadOf(c, t)]
           Tails == apply_parent_pops(t.comps)
           J(done, bases, named) == done \o [i \in DOMAIN bases |-> Below(bases[i], named)]
<1>5. WithTargetOf(c, hosts, found, t) =
        {J(done, bases, named) : done \in found, bases \in Heads, named \in Tails}
  BY DEF WithTargetOf, Extended
<1>6. ASSUME NEW done \in found, NEW bases \in Heads, NEW named \in Tails
      PROVE  J(done, bases, named) \in Bases
  <2>1. [i \in DOMAIN bases |-> Below(bases[i], named)] \in Bases
    BY <1>2, <1>3, BasesBelow
  <2> QED BY <1>4, <2>1
<1>7. AtMostOne(Heads) /\ AtMostOne(Tails)
  BY <1>2, <1>3
<1> HIDE DEF Heads, Tails, J
<1> QED BY <1>5, <1>6, <1>7 DEF AtMostOne

\* The recursion of OfTargets, and where it does not depend on the name c.
FoundBy(c, hosts, t, f) ==
  f = [i \in 0 .. Len(t) |-> IF i = 0 THEN {<<>>} ELSE WithTargetOf(c, hosts, f[i - 1], t[i])]

LEMMA OfTargetsType ==
  ASSUME NEW c \in Volumes \cup AssignNames, NEW hosts \in Hosts,
         NEW t \in Seq(ParsedPath), t # <<>>
  PROVE  /\ OfTargetsOf(c, hosts, t) \subseteq Bases /\ AtMostOne(OfTargetsOf(c, hosts, t))
         /\ \A d \in Volumes \cup AssignNames :
              (\A i \in DOMAIN t : LeadOf(c, t[i]) = LeadOf(d, t[i]))
                => OfTargetsOf(c, hosts, t) = OfTargetsOf(d, hosts, t)
<1>1. PICK n \in Nat : /\ n = Len(t) /\ n # 0 /\ DOMAIN t = 1 .. n
                      /\ \A i \in 1 .. n : t[i] \in ParsedPath
  BY EmptySeq
<1> DEFINE A == {S \in SUBSET Seq(HostObject) : AtMostOne(S)}
           a == {<<>>}
           C == Volumes \cup AssignNames
<1>2. a \in A
  BY DEF AtMostOne
<1>3. \A b \in C, x \in A, i \in 1 .. n :
        /\ WithTargetOf(b, hosts, x, t[i]) \subseteq Bases
        /\ AtMostOne(WithTargetOf(b, hosts, x, t[i]))
  BY <1>1, WithTargetType
<1>4. Bases \subseteq Seq(HostObject)
  BY DEF Bases
<1>5. \A b \in C, x \in A, i \in 1 .. n : WithTargetOf(b, hosts, x, t[i]) \in A
  BY <1>3, <1>4
<1> HIDE DEF a, C
<1>6. ASSUME NEW b \in C
      PROVE  \E g : /\ OfTargetsOf(b, hosts, t) = g[n] /\ g \in [0 .. n -> A] /\ g[0] = a
                    /\ \A i \in 1 .. n : g[i] = WithTargetOf(b, hosts, g[i - 1], t[i])
  <2> DEFINE s == [p \in (1 .. n) \X A |-> WithTargetOf(b, hosts, p[2], t[p[1]])]
  <2>1. \A i \in 1 .. n, x \in A : s[<<i, x>>] = WithTargetOf(b, hosts, x, t[i])
    OBVIOUS
  <2>2. \A i \in 1 .. n, x \in A : s[<<i, x>>] \in A
    BY <1>5, <2>1
  <2> HIDE DEF s, A
  <2>3. Steps(n, A, a, s)
    BY <1>2, <2>2 DEF Steps
  <2>4. PICK f : Recursive(n, A, a, s, f)
    BY <2>3, Recursion
  <2>5. f \in [0 .. n -> A] /\ f[0] = a /\ \A i \in 1 .. n : f[i] = s[<<i, f[i - 1]>>]
    BY <2>4 DEF Recursive
  <2>6. \A i \in 1 .. n : f[i] = WithTargetOf(b, hosts, f[i - 1], t[i])
    <3> SUFFICES ASSUME NEW i \in 1 .. n PROVE f[i] = WithTargetOf(b, hosts, f[i - 1], t[i])
      OBVIOUS
    <3>1. f[i - 1] \in A
      BY <2>5
    <3> QED BY <2>1, <2>5, <3>1
  <2>7. FoundBy(b, hosts, t, f)
    BY <1>1, <2>5, <2>6 DEF FoundBy, a
  <2> DEFINE g == CHOOSE h : FoundBy(b, hosts, t, h)
  <2>8. FoundBy(b, hosts, t, g)
    BY <2>7
  <2>9. OfTargetsOf(b, hosts, t) = g[Len(t)]
    BY DEF OfTargetsOf, FoundBy
  <2> HIDE DEF g
  <2>10. \A i \in 0 .. n : g[i] = IF i = 0 THEN a ELSE WithTargetOf(b, hosts, g[i - 1], t[i])
    BY <1>1, <2>8 DEF FoundBy, a
  <2> DEFINE T == {i \in Nat : i <= n => g[i] \in A}
  <2>11. 0 \in T
    <3>1. 0 \in 0 .. n
      OBVIOUS
    <3> QED BY <1>2, <2>10, <3>1
  <2>12. ASSUME NEW i \in Nat, i \in T PROVE i + 1 \in T
    <3> SUFFICES ASSUME i + 1 <= n PROVE g[i + 1] \in A
      OBVIOUS
    <3>1. g[i] \in A /\ i + 1 \in 1 .. n
      BY <2>12
    <3>2. g[i + 1] = WithTargetOf(b, hosts, g[i], t[i + 1])
      BY <2>10
    <3> QED BY <1>5, <3>1, <3>2
  <2> HIDE DEF T
  <2>13. Nat \subseteq T
    BY <2>11, <2>12, Induction
  <2>14. \A i \in 0 .. n : g[i] \in A
    BY <2>13 DEF T
  <2>15. 0 \in 0 .. n /\ \A i \in 1 .. n : i \in 0 .. n /\ i # 0
    OBVIOUS
  <2>16. g \in [0 .. n -> A]
    BY <1>1, <2>8, <2>14 DEF FoundBy
  <2> QED BY <1>1, <2>9, <2>10, <2>15, <2>16
<1>7. c \in C /\ n \in 1 .. n /\ n - 1 \in 0 .. n
  BY <1>1 DEF C
<1>8. PICK g : /\ OfTargetsOf(c, hosts, t) = g[n] /\ g \in [0 .. n -> A] /\ g[0] = a
               /\ \A i \in 1 .. n : g[i] = WithTargetOf(c, hosts, g[i - 1], t[i])
  BY <1>6, <1>7
<1>9. OfTargetsOf(c, hosts, t) \subseteq Bases /\ AtMostOne(OfTargetsOf(c, hosts, t))
  <2>1. g[n - 1] \in A
    BY <1>7, <1>8
  <2>2. g[n] = WithTargetOf(c, hosts, g[n - 1], t[n])
    BY <1>7, <1>8
  <2> HIDE DEF A
  <2> QED BY <1>3, <1>7, <1>8, <2>1, <2>2
<1>10. ASSUME NEW d \in C, \A i \in 1 .. n : LeadOf(c, t[i]) = LeadOf(d, t[i])
       PROVE  OfTargetsOf(c, hosts, t) = OfTargetsOf(d, hosts, t)
  <2>1. PICK h : /\ OfTargetsOf(d, hosts, t) = h[n] /\ h \in [0 .. n -> A] /\ h[0] = a
                 /\ \A i \in 1 .. n : h[i] = WithTargetOf(d, hosts, h[i - 1], t[i])
    BY <1>6
  <2>2. ASSUME NEW i \in 1 .. n, NEW x
        PROVE  WithTargetOf(c, hosts, x, t[i]) = WithTargetOf(d, hosts, x, t[i])
    <3>1. LeadOf(c, t[i]) = LeadOf(d, t[i])
      BY <1>10
    <3> QED BY <3>1, Zenon DEF WithTargetOf
  <2> DEFINE T == {i \in Nat : i <= n => g[i] = h[i]}
  <2>3. 0 \in T
    BY <1>8, <2>1
  <2>4. ASSUME NEW i \in Nat, i \in T PROVE i + 1 \in T
    <3> SUFFICES ASSUME i + 1 <= n PROVE g[i + 1] = h[i + 1]
      OBVIOUS
    <3>1. g[i] = h[i] /\ i + 1 \in 1 .. n /\ (i + 1) - 1 = i
      BY <2>4
    <3>2. g[i + 1] = WithTargetOf(c, hosts, g[i], t[i + 1])
      BY <1>8, <3>1
    <3>3. h[i + 1] = WithTargetOf(d, hosts, h[i], t[i + 1])
      BY <2>1, <3>1
    <3> QED BY <2>2, <3>1, <3>2, <3>3
  <2> HIDE DEF T
  <2>5. Nat \subseteq T
    BY <2>3, <2>4, Induction
  <2>6. g[n] = h[n]
    BY <2>5 DEF T
  <2> QED BY <1>8, <2>1, <2>6
<1> QED BY <1>1, <1>9, <1>10 DEF C

\* One assign less deep.
AssignsIn(A) == \A n \in DOMAIN A : A[n] \in Seq(ParsedPath)
\* The targets that do not depend on the current directory.
Fixed(A) == \A n \in DOMAIN A : \A i \in DOMAIN A[n] : ~ Relative(A[n][i])

LEMMA DeeperType ==
  ASSUME NEW A, AssignsIn(A), NEW c \in Volumes \cup AssignNames, NEW hosts \in Hosts
  PROVE  /\ DeeperOf(A, c, hosts) \in Hosts
         /\ Fixed(A) => \A d \in Volumes \cup AssignNames :
                          DeeperOf(A, c, hosts) = DeeperOf(A, d, hosts)
<1> DEFINE Of(b, n) == IF n \in Volumes THEN {<<[root |-> n, path |-> <<>>]>>}
                       ELSE IF n \notin DOMAIN A \/ A[n] = <<>> THEN {}
                       ELSE OfTargetsOf(b, hosts, A[n])
<1>1. ASSUME NEW n \in Volumes \cup AssignNames
      PROVE  Of(c, n) \subseteq Bases /\ AtMostOne(Of(c, n))
  <2>1. CASE n \in Volumes
    <3>1. [root |-> n, path |-> <<>>] \in HostObject
      BY <2>1 DEF HostObject
    <3> DEFINE o == [root |-> n, path |-> <<>>]
    <3> HIDE DEF o
    <3>2. <<o>> \in Bases
      BY <3>1 DEF o, Bases
    <3> QED BY <2>1, <3>2 DEF o, AtMostOne
  <2>2. CASE n \notin Volumes /\ ~ (n \notin DOMAIN A \/ A[n] = <<>>)
    <3>1. A[n] \in Seq(ParsedPath)
      BY <2>2 DEF AssignsIn
    <3>2. OfTargetsOf(c, hosts, A[n]) \subseteq Bases /\ AtMostOne(OfTargetsOf(c, hosts, A[n]))
      BY <2>2, <3>1, OfTargetsType
    <3> QED BY <2>2, <3>2
  <2>3. CASE n \notin Volumes /\ (n \notin DOMAIN A \/ A[n] = <<>>)
    BY <2>3 DEF AtMostOne
  <2> QED BY <2>1, <2>2, <2>3
<1>2. ASSUME Fixed(A), NEW d \in Volumes \cup AssignNames, NEW n \in Volumes \cup AssignNames
      PROVE  Of(c, n) = Of(d, n)
  <2>1. CASE n \notin Volumes /\ ~ (n \notin DOMAIN A \/ A[n] = <<>>)
    <3>1. A[n] \in Seq(ParsedPath)
      BY <2>1 DEF AssignsIn
    <3>2. \A i \in DOMAIN A[n] : LeadOf(c, A[n][i]) = LeadOf(d, A[n][i])
      BY <1>2, <2>1 DEF Fixed, LeadOf, Relative
    <3>3. OfTargetsOf(c, hosts, A[n]) = OfTargetsOf(d, hosts, A[n])
      BY <2>1, <3>1, <3>2, OfTargetsType
    <3> QED BY <3>3
  <2> QED BY <2>1
<1>3. \A b : DeeperOf(A, b, hosts) = [n \in Volumes \cup AssignNames |-> Of(b, n)]
  BY DEF DeeperOf
<1> HIDE DEF Of
<1> QED BY <1>1, <1>2, <1>3 DEF Hosts

NoHosts == [n \in Volumes \cup AssignNames |-> {}]
HostsBy(A, c, m, f) == f = [i \in 0 .. m |-> IF i = 0 THEN NoHosts ELSE DeeperOf(A, c, f[i - 1])]

LEMMA TargetsType ==
  ASSUME NEW A, AssignsIn(A), NEW c \in Volumes \cup AssignNames
  PROVE  /\ TargetsOf(A, c) \in Hosts
         /\ Fixed(A) => \A d \in Volumes \cup AssignNames : TargetsOf(A, c) = TargetsOf(A, d)
<1> DEFINE n == MAX_ASSIGN_DEPTH + 1
           C == Volumes \cup AssignNames
<1>1. n \in Nat /\ n # 0 /\ n \in 0 .. n /\ 0 \in 0 .. n
  BY DEF MAX_ASSIGN_DEPTH
<1>2. NoHosts \in Hosts
  BY DEF NoHosts, Hosts, AtMostOne
<1>3. \A b \in C, x \in Hosts : DeeperOf(A, b, x) \in Hosts
  BY DeeperType
<1>4. \A b : TargetsOf(A, b) = (CHOOSE h : HostsBy(A, b, n, h))[n]
  BY DEF TargetsOf, HostsBy, NoHosts
<1> HIDE DEF n, C
<1>5. ASSUME NEW b \in C
      PROVE  \E g : /\ TargetsOf(A, b) = g[n] /\ g[0] = NoHosts
                    /\ \A i \in 0 .. n : g[i] \in Hosts
                    /\ \A i \in 1 .. n : g[i] = DeeperOf(A, b, g[i - 1])
  <2> DEFINE s == [p \in (1 .. n) \X Hosts |-> DeeperOf(A, b, p[2])]
  <2>1. \A i \in 1 .. n, x \in Hosts : s[<<i, x>>] = DeeperOf(A, b, x)
    OBVIOUS
  <2> HIDE DEF s
  <2>2. Steps(n, Hosts, NoHosts, s)
    BY <1>1, <1>2, <1>3, <2>1 DEF Steps
  <2>3. PICK f : Recursive(n, Hosts, NoHosts, s, f)
    BY <2>2, Recursion
  <2>4. f \in [0 .. n -> Hosts] /\ f[0] = NoHosts /\ \A i \in 1 .. n : f[i] = s[<<i, f[i - 1]>>]
    BY <2>3 DEF Recursive
  <2>5. \A i \in 1 .. n : f[i] = DeeperOf(A, b, f[i - 1])
    <3> SUFFICES ASSUME NEW i \in 1 .. n PROVE f[i] = DeeperOf(A, b, f[i - 1])
      OBVIOUS
    <3>1. f[i - 1] \in Hosts
      BY <1>1, <2>4
    <3> QED BY <2>1, <2>4, <3>1
  <2>6. HostsBy(A, b, n, f)
    BY <1>1, <2>4, <2>5 DEF HostsBy
  <2> DEFINE g == CHOOSE h : HostsBy(A, b, n, h)
  <2>7. HostsBy(A, b, n, g)
    BY <2>6
  <2>8. TargetsOf(A, b) = g[n]
    BY <1>4
  <2> HIDE DEF g
  <2>9. \A i \in 0 .. n : g[i] = IF i = 0 THEN NoHosts ELSE DeeperOf(A, b, g[i - 1])
    BY <1>1, <2>7 DEF HostsBy
  <2> DEFINE T == {i \in Nat : i <= n => g[i] \in Hosts}
  <2>10. 0 \in T
    BY <1>1, <1>2, <2>9
  <2>11. ASSUME NEW i \in Nat, i \in T PROVE i + 1 \in T
    <3> SUFFICES ASSUME i + 1 <= n PROVE g[i + 1] \in Hosts
      OBVIOUS
    <3>1. g[i] \in Hosts /\ i + 1 \in 0 .. n
      BY <1>1, <2>11
    <3>2. g[i + 1] = DeeperOf(A, b, g[i])
      BY <2>9, <3>1
    <3> QED BY <1>3, <3>1, <3>2
  <2> HIDE DEF T
  <2>12. Nat \subseteq T
    BY <2>10, <2>11, Induction
  <2>13. \A i \in 0 .. n : g[i] \in Hosts
    BY <1>1, <2>12 DEF T
  <2>14. \A i \in 1 .. n : i \in 0 .. n /\ i # 0
    BY <1>1
  <2> QED BY <1>1, <2>8, <2>9, <2>13, <2>14
<1>6. c \in C
  BY DEF C
<1>7. PICK g : /\ TargetsOf(A, c) = g[n] /\ g[0] = NoHosts
               /\ \A i \in 0 .. n : g[i] \in Hosts
               /\ \A i \in 1 .. n : g[i] = DeeperOf(A, c, g[i - 1])
  BY <1>5, <1>6
<1>8. ASSUME Fixed(A), NEW d \in C PROVE TargetsOf(A, c) = TargetsOf(A, d)
  <2>1. PICK h : /\ TargetsOf(A, d) = h[n] /\ h[0] = NoHosts
                 /\ \A i \in 0 .. n : h[i] \in Hosts
                 /\ \A i \in 1 .. n : h[i] = DeeperOf(A, d, h[i - 1])
    BY <1>5
  <2>2. \A x \in Hosts : DeeperOf(A, c, x) = DeeperOf(A, d, x)
    BY <1>8, DeeperType DEF C
  <2> DEFINE T == {i \in Nat : i <= n => g[i] = h[i]}
  <2>3. 0 \in T
    BY <1>7, <2>1
  <2>4. ASSUME NEW i \in Nat, i \in T PROVE i + 1 \in T
    <3> SUFFICES ASSUME i + 1 <= n PROVE g[i + 1] = h[i + 1]
      OBVIOUS
    <3>1. g[i] = h[i] /\ i + 1 \in 1 .. n /\ (i + 1) - 1 = i /\ i \in 0 .. n
      BY <1>1, <2>4
    <3> QED BY <1>7, <2>1, <2>2, <3>1
  <2> HIDE DEF T
  <2>5. Nat \subseteq T
    BY <2>3, <2>4, Induction
  <2>6. g[n] = h[n]
    BY <1>1, <2>5 DEF T
  <2> QED BY <1>7, <2>1, <2>6
<1> QED BY <1>1, <1>7, <1>8 DEF C

LEMMA AssignTargetsType == Based => assign_targets \in Hosts
<1> SUFFICES ASSUME Based PROVE assign_targets \in Hosts
  OBVIOUS
<1>1. AssignsIn(assigns) /\ cwd.name \in Volumes \cup AssignNames
  BY DEF Based, Targets, AssignsIn, AbsolutePath
<1> QED BY <1>1, TargetsAre, TargetsType

-----------------------------------------------------------------------------
(* What a path resolves to. *)

WellNamed(r) == r.host \in HostObject /\ r.amiga \in AbsolutePath

LEMMA AbsoluteIsParsed == AbsolutePath \subseteq ParsedPath
<1>1. \A q \in Seq(Names) : q \in Seq(Names \cup {ParentStep})
  OBVIOUS
<1> QED BY <1>1 DEF AbsolutePath, ParsedPath

LEMMA EffectiveNamed ==
  ASSUME cwd \in AbsolutePath, NEW p \in ParsedPath
  PROVE  apply_parent_pops(effective_components(p)) \subseteq Seq(Names)
<1>1. cwd.comps \in Comps /\ p.comps \in Comps
  BY DEF AbsolutePath, ParsedPath, Comps
<1>2. cwd.comps \o p.comps \in Comps
  BY <1>1 DEF Comps
<1>3. effective_components(p) \in Comps
  BY <1>1, <1>2 DEF effective_components
<1> QED BY <1>3, PopsType

LEMMA ResolvedGood ==
  ASSUME cwd \in AbsolutePath, NEW p \in ParsedPath, NEW base \in HostObject,
         NEW named \in Seq(Names)
  PROVE  WellNamed(Resolved(p, base, named))
<1>1. leading_name(p) \in Volumes \cup AssignNames
  BY LeadingName
<1>2. Below(base, named) \in HostObject
  BY BelowType
<1>3. [name |-> leading_name(p), comps |-> named] \in AbsolutePath
  BY <1>1 DEF AbsolutePath
<1> DEFINE amiga == [name |-> leading_name(p), comps |-> named]
           host == Below(base, named)
<1>4. Resolved(p, base, named) = [host |-> host, amiga |-> amiga]
  BY DEF Resolved
<1> HIDE DEF host, amiga
<1> QED BY <1>2, <1>3, <1>4 DEF WellNamed, host, amiga

LEMMA SearchesType ==
  ASSUME Based, NEW p \in ParsedPath, NEW t \in Searches(p)
  PROVE  t[1] \in Bases /\ t[2] \in Seq(Names)
<1>1. leading_name(p) \in Volumes \cup AssignNames
  BY LeadingName DEF Based
<1>2. assign_targets[leading_name(p)] \subseteq Bases
  BY <1>1, AssignTargetsType DEF Hosts
<1>3. apply_parent_pops(effective_components(p)) \subseteq Seq(Names)
  BY EffectiveNamed DEF Based
<1> QED BY <1>2, <1>3 DEF Searches

LEMMA SearchGood ==
  ASSUME Based, NEW p \in ParsedPath PROVE \A r \in search_targets(p) : WellNamed(r)
<1> SUFFICES ASSUME NEW r \in search_targets(p) PROVE WellNamed(r)
  OBVIOUS
<1>1. PICK t \in Searches(p) : Hits(t) # {} /\ r = Resolved(p, t[1][Min(Hits(t))], t[2])
  BY DEF search_targets
<1>2. t[1] \in Bases /\ t[2] \in Seq(Names)
  BY SearchesType
<1>3. Hits(t) \subseteq DOMAIN t[1]
  BY DEF Hits
<1>4. DOMAIN t[1] \subseteq Nat
  BY <1>2 DEF Bases
<1>5. Min(Hits(t)) \in Hits(t)
  <2> DEFINE H == Hits(t)
  <2>1. H \subseteq Nat /\ H # {}
    BY <1>1, <1>3, <1>4
  <2> HIDE DEF H
  <2>2. \E m \in H : \A n \in H : m <= n
    BY <2>1, Least
  <2>3. Min(H) \in H
    BY <2>2 DEF Min
  <2> QED BY <2>3 DEF H
<1>6. t[1][Min(Hits(t))] \in HostObject
  BY <1>2, <1>3, <1>5 DEF Bases
<1> QED BY <1>1, <1>2, <1>6, ResolvedGood DEF Based

LEMMA MustExistGood ==
  ASSUME Based, NEW p \in ParsedPath PROVE \A r \in resolve_must_exist(p) : WellNamed(r)
<1>1. cwd \in ParsedPath
  BY AbsoluteIsParsed DEF Based
<1>2. resolve_must_exist(p) = search_targets(p) \/ resolve_must_exist(p) = search_targets(cwd)
  BY DEF resolve_must_exist
<1> QED BY <1>1, <1>2, SearchGood

LEMMA ParentMustExistGood ==
  ASSUME Based, NEW p \in ParsedPath PROVE \A r \in resolve_parent_must_exist(p) : WellNamed(r)
<1> SUFFICES ASSUME NEW r \in resolve_parent_must_exist(p) PROVE WellNamed(r)
  OBVIOUS
<1>1. PICK t \in Searches(p) : r = Resolved(p, Head(t[1]), t[2])
  BY DEF resolve_parent_must_exist
<1>2. t[1] \in Bases /\ t[2] \in Seq(Names)
  BY SearchesType
<1>3. Head(t[1]) \in HostObject
  BY <1>2 DEF Bases
<1> QED BY <1>1, <1>2, <1>3, ResolvedGood DEF Based

\* An absolute path stands for itself, or is refused.
LEMMA SetCwdExact == ASSUME NEW p \in AbsolutePath PROVE set_cwd(p) \subseteq {p}
<1>1. PICK n \in Volumes \cup AssignNames, q \in Seq(Names) : p = [name |-> n, comps |-> q]
  BY DEF AbsolutePath
<1>2. p.name = n /\ p.comps = q /\ n \notin {NoColon, BareColon}
  BY <1>1, PathsAssumption
<1>3. leading_name(p) = n /\ effective_components(p) = q
  BY <1>2 DEF leading_name, effective_components
<1>4. apply_parent_pops(q) = {q}
  BY PopsNone
<1>5. normalize_to_absolute(p) = {[name |-> n, comps |-> q]}
  BY <1>3, <1>4 DEF normalize_to_absolute
<1> QED BY <1>1, <1>5 DEF set_cwd

\* The paths that handlers make.
LEMMA CombinedParsed ==
  ASSUME NEW p \in ParsedPath, NEW lock, lock = Zero \/ WellNamed(dos.locks[lock]),
         NEW q \in combine_lock_path(lock, p)
  PROVE  q \in ParsedPath
<1>1. CASE lock = Zero
  BY <1>1 DEF combine_lock_path
<1>2. CASE lock # Zero
  <2> DEFINE a == dos.locks[lock].amiga
  <2>1. a \in AbsolutePath
    BY <1>2 DEF WellNamed
  <2>2. q = [a EXCEPT !.comps = @ \o p.comps]
    BY <1>2 DEF combine_lock_path
  <2> HIDE DEF a
  <2>3. PICK n \in Volumes \cup AssignNames, c \in Seq(Names) : a = [name |-> n, comps |-> c]
    BY <2>1 DEF AbsolutePath
  <2> DEFINE w == c \o p.comps
  <2>4. w \in Seq(Names \cup {ParentStep})
    <3>1. c \in Seq(Names \cup {ParentStep}) /\ p.comps \in Seq(Names \cup {ParentStep})
      BY DEF ParsedPath
    <3> QED BY <3>1
  <2>5. q = [a EXCEPT !.comps = w]
    BY <2>2, <2>3
  <2> HIDE DEF w
  <2>6. q = [name |-> n, comps |-> w]
    BY <2>3, <2>5
  <2> QED BY <2>4, <2>6 DEF ParsedPath
<1> QED BY <1>1, <1>2

LEMMA FrontParsed ==
  ASSUME NEW p \in ParsedPath, p.comps # <<>>
  PROVE  [p EXCEPT !.comps = Front(@)] \in ParsedPath
<1>1. PICK n \in Volumes \cup AssignNames \cup {NoColon, BareColon},
           c \in Seq(Names \cup {ParentStep}) : p = [name |-> n, comps |-> c]
  BY DEF ParsedPath
<1> DEFINE w == Front(c)
<1>2. w \in Seq(Names \cup {ParentStep})
  BY <1>1 DEF Front
<1>3. [p EXCEPT !.comps = Front(@)] = [p EXCEPT !.comps = w]
  BY <1>1
<1> HIDE DEF w
<1>4. [p EXCEPT !.comps = w] = [name |-> n, comps |-> w]
  BY <1>1
<1> QED BY <1>1, <1>2, <1>3, <1>4 DEF ParsedPath

LEMMA DirPartParsed ==
  ASSUME cwd \in AbsolutePath, NEW p \in ParsedPath PROVE dir_part(p) \in ParsedPath
<1>1. cwd \in ParsedPath
  BY AbsoluteIsParsed
<1>2. [cwd EXCEPT !.comps = <<ParentStep>>] \in ParsedPath
  <2>1. PICK n, c : cwd = [name |-> n, comps |-> c] /\ n \in Volumes \cup AssignNames
    BY DEF AbsolutePath
  <2> DEFINE w == <<ParentStep>>
  <2>2. w \in Seq(Names \cup {ParentStep})
    OBVIOUS
  <2> HIDE DEF w
  <2>3. [cwd EXCEPT !.comps = w] = [name |-> n, comps |-> w]
    BY <2>1
  <2>4. [cwd EXCEPT !.comps = w] \in ParsedPath
    BY <2>1, <2>2, <2>3 DEF ParsedPath
  <2> QED BY <2>4 DEF w
<1>3. p.comps # <<>> => [p EXCEPT !.comps = Front(@)] \in ParsedPath
  BY FrontParsed
<1> QED BY <1>1, <1>2, <1>3 DEF dir_part

-----------------------------------------------------------------------------
(* Where the program is: d is a state of DosState, c the current directory,  *)
(* and lost says that the lock it had was unlocked.                          *)

Named(d) == \A a \in DOMAIN d.locks : WellNamed(d.locks[a])

Where(d, c, lost) ==
  /\ d.current_dir_lock # Zero => c = d.locks[d.current_dir_lock].amiga
  /\ d.initial_cwd = NoPath => c = StartDir /\ d.current_dir_lock = Zero
  /\ d.initial_cwd # NoPath => d.initial_cwd = StartDir
  /\ d.current_dir_lock = Zero => c = StartDir \/ lost

Home(d, c, lost) == Named(d) /\ Where(d, c, lost)

\* It does not matter who else has locks.
Held == \E S : Kept(dos, held, S, devprocs)

HInv == Held /\ Based /\ Home(dos, cwd, dropped)

LEMMA HInvMeans == HInv => CurrentDirKept
<1> SUFFICES ASSUME HInv PROVE CurrentDirKept
  OBVIOUS
<1>1. Named(dos) /\ Where(dos, cwd, dropped) /\ cwd \in AbsolutePath
  BY DEF HInv, Home, Based
<1>2. CwdIsCurrentLock /\ RestorePoint
  BY <1>1 DEF Where, CwdIsCurrentLock, RestorePoint
<1>3. dos.initial_cwd \in AbsolutePath \cup {NoPath}
  BY <1>1, PathsAssumption DEF Where
<1>4. PathsAbsolute
  BY <1>1, <1>3 DEF PathsAbsolute, Named, WellNamed
<1> QED BY <1>2, <1>4 DEF CurrentDirKept

LEMMA HInvInit == Init => HInv
<1> SUFFICES ASSUME Init PROVE HInv
  OBVIOUS
<1>1. Based
  BY PathsAssumption DEF Init, Based, Targets
<1>2. dos.locks = <<>> /\ dos.current_dir_lock = Zero /\ dos.initial_cwd = NoPath /\ cwd = StartDir
  BY DEF Init
<1>3. Home(dos, cwd, dropped)
  BY <1>2 DEF Home, Named, Where
<1>4. Held
  BY Initially DEF Held, IInv
<1> QED BY <1>1, <1>3, <1>4 DEF HInv

LEMMA HomeStays ==
  ASSUME NEW d, NEW c, NEW lost, Home(d, c, lost), NEW e, e.locks = d.locks,
         e.current_dir_lock = d.current_dir_lock, e.initial_cwd = d.initial_cwd
  PROVE  Home(e, c, lost)
BY DEF Home, Named, Where

LEMMA LockFields ==
  ASSUME NEW d, NEW H, NEW V, Owned(d, H, V), NEW host, NEW amiga,
         NEW o \in new_lock(d, host, amiga)
  PROVE  /\ o.dos.current_dir_lock = d.current_dir_lock /\ o.dos.initial_cwd = d.initial_cwd
         /\ \/ o.dos.locks = d.locks
            \/ /\ o.at \notin DOMAIN d.locks
               /\ o.dos.locks = Put(d.locks, o.at, [host |-> host, amiga |-> amiga])
<1>. DEFINE Granted == [host |-> host, amiga |-> amiga]
<1>1. PICK b \in alloc(d) :
        o \in IF b.at = Zero THEN {b}
              ELSE {IF p.at = Zero THEN [at |-> Zero, dos |-> heap_free(p.dos, b.at)]
                    ELSE [at |-> b.at, dos |-> [p.dos EXCEPT !.locks = Put(@, b.at, Granted)]] :
                    p \in fs_port_addr(b.dos)}
  BY DEF new_lock
<1>2. CASE b = [at |-> Zero, dos |-> d]
  BY <1>1, <1>2
<1>3. CASE b.at \in Addrs \ d.blocks /\ b.dos = [d EXCEPT !.blocks = @ \cup {b.at}]
  <2>1. b.at # Zero /\ b.at \notin DOMAIN d.locks
    BY <1>3, LocksAssumption DEF Owned
  <2>2. PICK p \in fs_port_addr(b.dos) :
          o = IF p.at = Zero THEN [at |-> Zero, dos |-> heap_free(p.dos, b.at)]
              ELSE [at |-> b.at, dos |-> [p.dos EXCEPT !.locks = Put(@, b.at, Granted)]]
    BY <1>1, <2>1
  <2>3. /\ IsDos(b.dos) /\ b.dos.locks = d.locks
        /\ b.dos.current_dir_lock = d.current_dir_lock /\ b.dos.initial_cwd = d.initial_cwd
    BY <1>3 DEF Owned, IsDos
  <2>4. /\ IsDos(p.dos) /\ p.dos.locks = d.locks
        /\ p.dos.current_dir_lock = d.current_dir_lock /\ p.dos.initial_cwd = d.initial_cwd
    BY <2>3, PortOutcome
  <2>5. CASE p.at = Zero
    <3>1. o.dos = [p.dos EXCEPT !.blocks = p.dos.blocks \ {b.at}]
      BY <2>2, <2>5 DEF heap_free
    <3> QED BY <2>4, <3>1 DEF IsDos
  <2>6. CASE p.at # Zero
    <3>. DEFINE L == Put(d.locks, b.at, Granted)
    <3>1. o.at = b.at /\ o.dos = [p.dos EXCEPT !.locks = L]
      BY <2>2, <2>4, <2>6
    <3>. HIDE DEF L
    <3>2. /\ o.dos.locks = L /\ o.dos.current_dir_lock = d.current_dir_lock
          /\ o.dos.initial_cwd = d.initial_cwd
      BY <2>4, <3>1 DEF IsDos
    <3> QED BY <2>1, <3>1, <3>2 DEF L
  <2> QED BY <2>5, <2>6
<1> QED BY <1>1, <1>2, <1>3, AllocOutcome

LEMMA LockHome ==
  ASSUME NEW d, NEW H, NEW V, Owned(d, H, V), NEW c, NEW lost, Home(d, c, lost),
         NEW host \in HostObject, NEW amiga \in AbsolutePath, NEW o \in new_lock(d, host, amiga)
  PROVE  Home(o.dos, c, lost)
<1> DEFINE L == Put(d.locks, o.at, [host |-> host, amiga |-> amiga])
<1>1. /\ o.dos.current_dir_lock = d.current_dir_lock /\ o.dos.initial_cwd = d.initial_cwd
      /\ o.dos.locks = d.locks \/ (o.at \notin DOMAIN d.locks /\ o.dos.locks = L)
  BY LockFields
<1>2. CASE o.dos.locks = d.locks
  BY <1>1, <1>2, HomeStays
<1>3. CASE o.at \notin DOMAIN d.locks /\ o.dos.locks = L
  <2>1. /\ DOMAIN L = DOMAIN d.locks \cup {o.at}
        /\ L[o.at] = [host |-> host, amiga |-> amiga]
        /\ \A a \in DOMAIN d.locks : L[a] = d.locks[a]
    BY <1>3 DEF Put
  <2> HIDE DEF L
  <2>2. WellNamed(L[o.at])
    BY <2>1 DEF WellNamed
  <2>3. Named(o.dos)
    BY <1>3, <2>1, <2>2 DEF Home, Named
  <2>4. d.current_dir_lock \in DOMAIN d.locks \cup {Zero}
    BY DEF Owned
  <2>5. Where(o.dos, c, lost)
    BY <1>1, <1>3, <2>1, <2>4 DEF Home, Where
  <2> QED BY <2>3, <2>5 DEF Home
<1> QED BY <1>1, <1>2, <1>3

LEMMA UnlockHome ==
  ASSUME NEW d, IsDos(d), d.current_dir_lock \in DOMAIN d.locks \cup {Zero},
         NEW c, NEW lost, Home(d, c, lost), NEW a, NEW gone,
         lost => gone, a # Zero /\ d.current_dir_lock = a => gone
  PROVE  Home(unlock(d, a), c, gone)
<1> DEFINE e == unlock(d, a)
           L == Dropped(d.locks, a)
<1>1. /\ e.locks = L /\ e.initial_cwd = d.initial_cwd
      /\ e.current_dir_lock = IF d.current_dir_lock = a THEN Zero ELSE d.current_dir_lock
  BY DEF unlock, IsDos
<1>2. DOMAIN L = DOMAIN d.locks \ {a} /\ \A b \in DOMAIN L : L[b] = d.locks[b]
  BY DEF Dropped
<1> HIDE DEF e, L
<1>3. Named(e)
  BY <1>1, <1>2 DEF Home, Named
<1>4. Where(e, c, gone)
  BY <1>1, <1>2 DEF Home, Where
<1>5. Home(e, c, gone)
  BY <1>3, <1>4 DEF Home
<1> QED BY <1>5 DEF e

LEMMA PortHome ==
  ASSUME NEW d, IsDos(d), NEW c, NEW lost, Home(d, c, lost), NEW o \in fs_port_addr(d)
  PROVE  Home(o.dos, c, lost)
BY PortOutcome, HomeStays

-----------------------------------------------------------------------------
(* The steps. *)

LEMMA GivenHome ==
  ASSUME HInv, NEW result, \A r \in result : WellNamed(r), GivenLock(result)
  PROVE  Home(dos', cwd, dropped)
<1>1. PICK r \in result : \E o \in new_lock(dos, r.host, r.amiga) : dos' = o.dos
  BY DEF GivenLock
<1>2. PICK o \in new_lock(dos, r.host, r.amiga) : dos' = o.dos
  BY <1>1
<1>3. PICK S : Owned(dos, held \cup S, devprocs) /\ Home(dos, cwd, dropped)
  BY DEF HInv, Held, Kept
<1>4. r.host \in HostObject /\ r.amiga \in AbsolutePath
  BY DEF WellNamed
<1> QED BY <1>2, <1>3, <1>4, LockHome

LEMMA GivenKeeps ==
  ASSUME HInv, Held', NEW result, \A r \in result : WellNamed(r), GivenLock(result),
         assigns' = assigns, cwd' = cwd, dropped' = dropped
  PROVE  HInv'
<1>1. Home(dos', cwd', dropped')
  BY GivenHome
<1>2. Based'
  BY DEF HInv, Based, Targets
<1> QED BY <1>1, <1>2 DEF HInv

LEMMA HInvFacts ==
  ASSUME HInv
  PROVE  /\ IsDos(dos) /\ dos.current_dir_lock \in DOMAIN dos.locks \cup {Zero}
         /\ Zero \notin DOMAIN dos.locks /\ \A a \in DOMAIN dos.locks : WellNamed(dos.locks[a])
         /\ Based /\ cwd \in AbsolutePath /\ Home(dos, cwd, dropped)
         /\ \A a \in held : a \in DOMAIN dos.locks
<1>1. PICK S : Owned(dos, held \cup S, devprocs)
  BY DEF HInv, Held, Kept
<1> QED BY <1>1, LocksAssumption DEF HInv, Owned, Home, Named, Based

LEMMA ReleasedHome ==
  ASSUME HInv, NEW a, Released(a) PROVE Home(dos', cwd, dropped')
<1>1. dos' = unlock(dos, a) /\ dropped' = (dropped \/ (a # Zero /\ dos.current_dir_lock = a))
  BY DEF Released, Forgotten
<1>2. /\ dropped => dropped'
      /\ a # Zero /\ dos.current_dir_lock = a => dropped'
  BY <1>1
<1> QED BY <1>1, <1>2, HInvFacts, UnlockHome

LEMMA CurrentDirHome ==
  ASSUME HInv, NEW a, CurrentDir(a)
  PROVE  cwd' \in AbsolutePath /\ Home(dos', cwd', dropped')
<1>. DEFINE initial == IF dos.initial_cwd = NoPath THEN cwd ELSE dos.initial_cwd
            set == IF a = Zero THEN set_cwd(initial)
                   ELSE UNION {set_cwd(dos.locks[b].amiga) : b \in {a} \cap DOMAIN dos.locks}
            lock == IF set = {} THEN dos.current_dir_lock ELSE a
<1>1. /\ IsDos(dos) /\ Named(dos) /\ Where(dos, cwd, dropped) /\ cwd \in AbsolutePath
      /\ Zero \notin DOMAIN dos.locks
  BY HInvFacts DEF Home
<1>2. dos' = [dos EXCEPT !.initial_cwd = initial, !.current_dir_lock = lock]
  BY <1>1 DEF CurrentDir, IsDos
<1>3. cwd' = IF set = {} THEN cwd ELSE CHOOSE q \in set : TRUE
  BY DEF CurrentDir
<1>4. dropped' = (dropped /\ set = {})
  BY DEF CurrentDir
<1>5. initial = StartDir /\ StartDir # NoPath /\ StartDir \in AbsolutePath
  <2>1. StartDir # NoPath
    BY PathsAssumption DEF NoPath, AbsolutePath
  <2> QED BY <1>1, <2>1, PathsAssumption DEF Where
<1>6. a = Zero => set \subseteq {StartDir}
  BY <1>5, SetCwdExact
<1>7. a # Zero => /\ set # {} => a \in DOMAIN dos.locks
                  /\ set \subseteq {dos.locks[a].amiga}
  <2> SUFFICES ASSUME a # Zero
               PROVE  (set # {} => a \in DOMAIN dos.locks) /\ set \subseteq {dos.locks[a].amiga}
    OBVIOUS
  <2>1. CASE a \notin DOMAIN dos.locks
    <3>1. set = {}
      BY <2>1
    <3> QED BY <3>1
  <2>2. CASE a \in DOMAIN dos.locks
    <3>1. set = set_cwd(dos.locks[a].amiga)
      BY <2>2
    <3>2. dos.locks[a].amiga \in AbsolutePath
      BY <1>1, <2>2 DEF Named, WellNamed
    <3> HIDE DEF set
    <3> QED BY <2>2, <3>1, <3>2, SetCwdExact
  <2> QED BY <2>1, <2>2
<1>. HIDE DEF initial, set
<1>8. /\ dos'.locks = dos.locks /\ dos'.initial_cwd = StartDir /\ dos'.current_dir_lock = lock
  BY <1>1, <1>2, <1>5 DEF IsDos
<1>9. CASE set = {}
  <2>1. cwd' = cwd /\ (dropped => dropped') /\ dos'.current_dir_lock = dos.current_dir_lock
    BY <1>3, <1>4, <1>8, <1>9
  <2>2. Where(dos', cwd', dropped')
    BY <1>1, <1>5, <1>8, <2>1 DEF Where
  <2> QED BY <1>1, <1>8, <2>1, <2>2 DEF Home, Named
<1>10. CASE set # {}
  <2>1. cwd' \in set /\ dos'.current_dir_lock = a
    BY <1>3, <1>8, <1>10
  <2>2. CASE a = Zero
    <3>1. cwd' = StartDir
      BY <1>6, <2>1, <2>2
    <3>2. Where(dos', cwd', dropped')
      BY <1>5, <1>8, <2>1, <2>2, <3>1 DEF Where
    <3> QED BY <1>1, <1>5, <1>8, <3>1, <3>2 DEF Home, Named
  <2>3. CASE a # Zero
    <3>1. cwd' = dos.locks[a].amiga /\ a \in DOMAIN dos.locks
      BY <1>7, <1>10, <2>1, <2>3
    <3>2. Where(dos', cwd', dropped')
      BY <1>5, <1>8, <2>1, <2>3, <3>1 DEF Where
    <3> QED BY <1>1, <1>8, <3>1, <3>2 DEF Home, Named, WellNamed
  <2> QED BY <2>2, <2>3
<1> QED BY <1>9, <1>10

LEMMA GetDeviceProcHome ==
  ASSUME HInv, NEW p \in ParsedPath, GetDeviceProc(p) PROVE Home(dos', cwd, dropped)
<1>1. PICK r \in resolve_must_exist(dir_part(p)) : \E o \in new_lock(dos, r.host, r.amiga) :
        IF o.at = Zero THEN dos' = o.dos /\ devprocs' = devprocs
        ELSE \E port \in fs_port_addr(o.dos) :
               IF port.at = Zero THEN dos' = unlock(port.dos, o.at) /\ devprocs' = devprocs
               ELSE \E v \in alloc(port.dos) :
                      IF v.at = Zero THEN dos' = unlock(v.dos, o.at) /\ devprocs' = devprocs
                      ELSE dos' = v.dos /\ devprocs' = Put(devprocs, v.at, o.at)
  BY DEF GetDeviceProc
<1>2. PICK o \in new_lock(dos, r.host, r.amiga) :
        IF o.at = Zero THEN dos' = o.dos /\ devprocs' = devprocs
        ELSE \E port \in fs_port_addr(o.dos) :
               IF port.at = Zero THEN dos' = unlock(port.dos, o.at) /\ devprocs' = devprocs
               ELSE \E v \in alloc(port.dos) :
                      IF v.at = Zero THEN dos' = unlock(v.dos, o.at) /\ devprocs' = devprocs
                      ELSE dos' = v.dos /\ devprocs' = Put(devprocs, v.at, o.at)
  BY <1>1
<1>3. PICK S : /\ Kept(dos, held, S, devprocs) /\ Owned(dos, held \cup S, devprocs)
               /\ Home(dos, cwd, dropped)
  BY DEF HInv, Held, Kept
<1>4. WellNamed(r)
  <2>1. dir_part(p) \in ParsedPath
    BY HInvFacts, DirPartParsed
  <2> QED BY <2>1, HInvFacts, MustExistGood
<1>5. Home(o.dos, cwd, dropped)
  <2>1. r.host \in HostObject /\ r.amiga \in AbsolutePath
    BY <1>4 DEF WellNamed
  <2> QED BY <1>3, <2>1, LockHome
<1>6. CASE o.at = Zero
  BY <1>2, <1>5, <1>6
<1>7. CASE o.at # Zero
  <2>1. Kept(o.dos, held \cup {o.at}, S, devprocs)
    BY <1>3, <1>7, LockKept
  <2>2. IsDos(o.dos)
    BY <2>1 DEF Kept, Owned
  <2>3. PICK port \in fs_port_addr(o.dos) :
          IF port.at = Zero THEN dos' = unlock(port.dos, o.at) /\ devprocs' = devprocs
          ELSE \E v \in alloc(port.dos) :
                 IF v.at = Zero THEN dos' = unlock(v.dos, o.at) /\ devprocs' = devprocs
                 ELSE dos' = v.dos /\ devprocs' = Put(devprocs, v.at, o.at)
    BY <1>2, <1>7
  <2>4. Kept(port.dos, held \cup {o.at}, S, devprocs)
    BY <2>1, PortKept
  <2>5. IsDos(port.dos) /\ port.dos.current_dir_lock \in DOMAIN port.dos.locks \cup {Zero}
    BY <2>4 DEF Kept, Owned
  <2>6. Home(port.dos, cwd, dropped)
    BY <1>5, <2>2, PortHome
  <2>7. port.dos.current_dir_lock # o.at
    <3>1. port.dos.current_dir_lock = dos.current_dir_lock
      <4> DEFINE host == r.host
                 amiga == r.amiga
      <4>1. Owned(dos, held \cup S, devprocs) /\ o \in new_lock(dos, host, amiga)
        BY <1>3
      <4> HIDE DEF host, amiga
      <4> DEFINE L == Put(dos.locks, o.at, [host |-> host, amiga |-> amiga])
      <4>2. /\ o.dos.current_dir_lock = dos.current_dir_lock
            /\ o.dos.initial_cwd = dos.initial_cwd
            /\ o.dos.locks = dos.locks \/ (o.at \notin DOMAIN dos.locks /\ o.dos.locks = L)
        BY <4>1, LockFields
      <4> QED BY <2>2, <4>2, PortOutcome
    <3>2. o.at \notin held /\ o.at \notin S /\ o.at \notin Inner(devprocs)
      <4>1. Kept(o.dos, held \cup {o.at}, S, devprocs) /\ o.at \notin held
        BY <1>3, <1>7, LockKept
      <4> QED BY <4>1 DEF Kept, Owned
    <3>3. dos.current_dir_lock \in (held \cup S \cup Inner(devprocs)) \cup {Zero}
      BY <1>3 DEF Owned
    <3> QED BY <1>7, <3>1, <3>2, <3>3
  <2>8. Home(unlock(port.dos, o.at), cwd, dropped)
    BY <2>5, <2>6, <2>7, UnlockHome
  <2>9. CASE port.at = Zero
    BY <2>3, <2>8, <2>9
  <2>10. CASE port.at # Zero
    <3>1. PICK v \in alloc(port.dos) :
            IF v.at = Zero THEN dos' = unlock(v.dos, o.at) /\ devprocs' = devprocs
            ELSE dos' = v.dos /\ devprocs' = Put(devprocs, v.at, o.at)
      BY <2>3, <2>10
    <3>2. CASE v = [at |-> Zero, dos |-> port.dos]
      BY <2>8, <3>1, <3>2
    <3>3. CASE /\ v.at \in Addrs \ port.dos.blocks
               /\ v.dos = [port.dos EXCEPT !.blocks = @ \cup {v.at}]
      <4>1. v.at # Zero
        BY <3>3, LocksAssumption
      <4>2. dos' = [port.dos EXCEPT !.blocks = @ \cup {v.at}]
        BY <3>1, <3>3, <4>1
      <4>3. /\ dos'.locks = port.dos.locks /\ dos'.initial_cwd = port.dos.initial_cwd
            /\ dos'.current_dir_lock = port.dos.current_dir_lock
        BY <2>5, <4>2 DEF IsDos
      <4> QED BY <2>6, <4>3, HomeStays
    <3> QED BY <3>2, <3>3, AllocOutcome
  <2> QED BY <2>9, <2>10
<1> QED BY <1>6, <1>7

LEMMA HStep == HInv /\ [Next]_vars => HInv'
<1> SUFFICES ASSUME HInv, [Next]_vars PROVE HInv'
  OBVIOUS
<1>0. /\ IsDos(dos) /\ Zero \notin DOMAIN dos.locks
      /\ \A a \in DOMAIN dos.locks : WellNamed(dos.locks[a])
      /\ Based /\ cwd \in AbsolutePath /\ Home(dos, cwd, dropped)
      /\ \A a \in held : a \in DOMAIN dos.locks
  BY HInvFacts
<1>i. Held'
  BY Step DEF HInv, Held
<1>p. Paths \subseteq ParsedPath
  BY PathsAssumption
<1>s. ASSUME assigns' = assigns, cwd' = cwd, Home(dos', cwd, dropped') PROVE HInv'
  <2>1. Based'
    BY <1>0, <1>s DEF Based, Targets
  <2> QED BY <1>i, <1>s, <2>1 DEF HInv
<1>1. ASSUME NEW p \in Paths, Lock(p) PROVE HInv'
  <2>1. \A r \in resolve_must_exist(p) : WellNamed(r)
    BY <1>0, <1>p, MustExistGood
  <2>2. GivenLock(resolve_must_exist(p)) /\ assigns' = assigns /\ cwd' = cwd /\ dropped' = dropped
    BY <1>1 DEF Lock, vfs
  <2> QED BY <1>i, <2>1, <2>2, GivenKeeps
<1>2. ASSUME NEW p \in Paths, GetDeviceProc(p) PROVE HInv'
  <2>1. Home(dos', cwd, dropped)
    BY <1>2, <1>p, GetDeviceProcHome
  <2>2. assigns' = assigns /\ cwd' = cwd /\ dropped' = dropped
    BY <1>2 DEF GetDeviceProc, vfs
  <2> QED BY <1>s, <2>1, <2>2
<1>3. ASSUME NEW p \in Paths, CreateDir(p) PROVE HInv'
  <2>1. PICK r \in resolve_parent_must_exist(p) : GivenLock({r})
    BY <1>3 DEF CreateDir
  <2>2. \A q \in {r} : WellNamed(q)
    BY <1>0, <1>p, ParentMustExistGood
  <2>3. assigns' = assigns /\ cwd' = cwd /\ dropped' = dropped
    BY <1>3 DEF CreateDir
  <2> QED BY <1>i, <2>1, <2>2, <2>3, GivenKeeps
<1>4. ASSUME NEW p \in Paths, NewFile(p) \/ DeleteFile(p) PROVE HInv'
  BY <1>0, <1>4, <1>s DEF NewFile, DeleteFile
<1>5. ASSUME NEW p \in Paths, NEW q \in Paths, Rename(p, q) PROVE HInv'
  BY <1>0, <1>5, <1>s DEF Rename
<1>6. ASSUME NEW a \in DOMAIN dos.locks \cup {Zero}, NEW p \in Paths, LocateObject(a, p) PROVE HInv'
  <2>1. PICK q \in combine_lock_path(a, p) : GivenLock(resolve_must_exist(q))
    BY <1>6 DEF LocateObject
  <2>2. q \in ParsedPath
    BY <1>0, <1>p, CombinedParsed
  <2>3. \A r \in resolve_must_exist(q) : WellNamed(r)
    BY <1>0, <2>2, MustExistGood
  <2>4. assigns' = assigns /\ cwd' = cwd /\ dropped' = dropped
    BY <1>6 DEF LocateObject, vfs
  <2> QED BY <1>i, <2>1, <2>3, <2>4, GivenKeeps
<1>7. ASSUME NEW a \in Addrs, UnLock(a) PROVE HInv'
  <2>1. Home(dos', cwd, dropped')
    BY <1>7, ReleasedHome DEF UnLock
  <2>2. assigns' = assigns /\ cwd' = cwd
    BY <1>7 DEF UnLock, vfs
  <2> QED BY <1>s, <2>1, <2>2
<1>8. ASSUME NEW a, CurrentDir(a) PROVE HInv'
  <2>1. cwd' \in AbsolutePath /\ Home(dos', cwd', dropped')
    BY <1>8, CurrentDirHome
  <2>2. assigns' = assigns
    BY <1>8 DEF CurrentDir
  <2>3. Based'
    BY <1>0, <2>1, <2>2 DEF Based, Targets
  <2> QED BY <1>i, <2>1, <2>3 DEF HInv
<1>9. ASSUME NEW a \in DOMAIN dos.locks \cup {Zero}, ParentDir(a) PROVE HInv'
  <2> DEFINE p == IF a = Zero THEN cwd ELSE dos.locks[a].amiga
             up == [p EXCEPT !.comps = Front(@)]
  <2>1. p.comps # <<>> /\ GivenLock(resolve_must_exist(up))
    BY <1>9 DEF ParentDir
  <2>2. p \in ParsedPath
    BY <1>0, AbsoluteIsParsed DEF WellNamed
  <2>3. up \in ParsedPath
    <3> HIDE DEF p
    <3> QED BY <2>1, <2>2, FrontParsed
  <2>4. assigns' = assigns /\ cwd' = cwd /\ dropped' = dropped
    BY <1>9 DEF ParentDir, vfs
  <2> HIDE DEF up
  <2>5. \A r \in resolve_must_exist(up) : WellNamed(r)
    BY <1>0, <2>3, MustExistGood
  <2> QED BY <1>i, <2>1, <2>4, <2>5, GivenKeeps
<1>10. ASSUME NEW a \in DOMAIN dos.locks, DupLock(a) PROVE HInv'
  <2>1. \A r \in {dos.locks[a]} : WellNamed(r)
    BY <1>0
  <2>2. GivenLock({dos.locks[a]}) /\ assigns' = assigns /\ cwd' = cwd /\ dropped' = dropped
    BY <1>10 DEF DupLock, vfs
  <2> QED BY <1>i, <2>1, <2>2, GivenKeeps
<1>11. ASSUME NEW a \in DOMAIN dos.locks, Examine(a) PROVE HInv'
  <2>1. PICK next : dos' = [dos EXCEPT !.exnext = next]
    BY <1>11 DEF Examine
  <2>2. assigns' = assigns /\ cwd' = cwd /\ dropped' = dropped
    BY <1>11 DEF Examine, vfs
  <2>3. /\ dos'.locks = dos.locks /\ dos'.current_dir_lock = dos.current_dir_lock
        /\ dos'.initial_cwd = dos.initial_cwd
    BY <1>0, <2>1 DEF IsDos
  <2> QED BY <1>0, <1>s, <2>2, <2>3, HomeStays
<1>12. ASSUME NEW a \in DOMAIN dos.locks, ExNext(a) PROVE HInv'
  <2>1. dos' = [dos EXCEPT !.exnext[a].next_index = @ + 1]
    BY <1>12 DEF ExNext
  <2>2. assigns' = assigns /\ cwd' = cwd /\ dropped' = dropped
    BY <1>12 DEF ExNext, vfs
  <2>3. /\ dos'.locks = dos.locks /\ dos'.current_dir_lock = dos.current_dir_lock
        /\ dos'.initial_cwd = dos.initial_cwd
    BY <1>0, <2>1 DEF IsDos
  <2> QED BY <1>0, <1>s, <2>2, <2>3, HomeStays
<1>13. ASSUME NEW a \in DOMAIN dos.locks, NEW fit \in Fits, ExAll(a, fit) PROVE HInv'
  BY <1>0, <1>13, <1>s DEF ExAll, vfs
<1>14. ASSUME NEW n \in AssignNames, AssignCancel(n) PROVE HInv'
  <2>1. assigns' = [m \in DOMAIN assigns \ {n} |-> assigns[m]]
    BY <1>14 DEF AssignCancel, remove_assign
  <2>2. cwd' = cwd /\ dos' = dos /\ dropped' = dropped
    BY <1>14 DEF AssignCancel
  <2>3. Based'
    BY <1>0, <2>1, <2>2 DEF Based, Targets
  <2> QED BY <1>0, <1>i, <2>2, <2>3 DEF HInv
<1>15. ASSUME NEW n \in AssignNames, NEW a \in held, AssignLock(n, a) PROVE HInv'
  <2> DEFINE target == dos.locks[a].amiga
  <2>1. assigns' = [m \in DOMAIN assigns \cup {n} |-> IF m = n THEN <<target>> ELSE assigns[m]]
    BY <1>15 DEF AssignLock, set_assign
  <2>2. target \in ParsedPath
    BY <1>0, AbsoluteIsParsed DEF WellNamed
  <2>3. Home(dos', cwd, dropped') /\ cwd' = cwd
    BY <1>15, ReleasedHome DEF AssignLock
  <2> HIDE DEF target
  <2>4. <<target>> \in Seq(ParsedPath)
    BY <2>2
  <2>5. Targets'
    BY <1>0, <2>1, <2>4 DEF Based, Targets
  <2> QED BY <1>0, <1>i, <2>3, <2>5 DEF HInv, Based
<1>16. CASE ExAllEnd
  BY <1>0, <1>16, <1>s DEF ExAllEnd, vfs
<1>17. ASSUME NEW v \in DOMAIN devprocs, FreeDeviceProc(v) PROVE HInv'
  <2> DEFINE a == devprocs[v]
             u == unlock(dos, a)
  <2>1. dos' = heap_free(u, v) /\ dropped' = (dropped \/ (a # Zero /\ dos.current_dir_lock = a))
    BY <1>17 DEF FreeDeviceProc, Forgotten
  <2>2. assigns' = assigns /\ cwd' = cwd
    BY <1>17 DEF FreeDeviceProc, vfs
  <2>3. Home(u, cwd, dropped')
    <3>1. /\ dropped => dropped'
          /\ a # Zero /\ dos.current_dir_lock = a => dropped'
      BY <2>1
    <3> QED BY <3>1, HInvFacts, UnlockHome
  <2>4. IsDos(u)
    BY <1>0, UnlockFields
  <2> HIDE DEF u
  <2>5. /\ dos'.locks = u.locks /\ dos'.current_dir_lock = u.current_dir_lock
        /\ dos'.initial_cwd = u.initial_cwd
    BY <2>1, <2>4 DEF heap_free, IsDos
  <2> QED BY <1>s, <2>2, <2>3, <2>5, HomeStays
<1>18. CASE UNCHANGED vars
  BY <1>0, <1>18, <1>s DEF vars, calls, vfs
<1> QED BY <1>1, <1>2, <1>3, <1>4, <1>5, <1>6, <1>7, <1>8, <1>9, <1>10, <1>11, <1>12,
           <1>13, <1>14, <1>15, <1>16, <1>17, <1>18 DEF Next

\* For every tree, every assigns and whichever calls are refused: the current
\* directory is that of the lock CurrentDir hands back, or the one at the start,
\* and all paths that are kept are absolute (current_dir, unlock, set_cwd).
THEOREM CurrentDirIsKept == Spec => []CurrentDirKept
BY HInvInit, HStep, HInvMeans, PTL DEF Spec

-----------------------------------------------------------------------------
(* The order of a tour. *)

Item(o, b) == [at |-> o, leaving |-> b]

\* The path p leads on from q.
On(q, p) == Len(q) < Len(p) /\ \A i \in 1 .. Len(q) : p[i] = q[i]

LEMMA PrefixIs ==
  ASSUME NEW s \in Seq(Names), NEW t \in Seq(Names)
  PROVE  IsPrefix(s, t) <=> Len(s) <= Len(t) /\ \A i \in 1 .. Len(s) : s[i] = t[i]
<1>1. PICK m \in Nat : m = Len(s) /\ DOMAIN s = 1 .. m
  OBVIOUS
<1>2. PICK n \in Nat : n = Len(t) /\ DOMAIN t = 1 .. n
  OBVIOUS
<1>3. CASE m <= n
  <2>1. \A i \in 1 .. m : SubSeq(s, 1, m)[i] = s[i] /\ SubSeq(t, 1, m)[i] = t[i]
    BY <1>1, <1>2, <1>3
  <2>2. SubSeq(s, 1, m) = [i \in 1 .. m |-> s[i]] /\ SubSeq(t, 1, m) = [i \in 1 .. m |-> t[i]]
    BY <1>1, <1>2, <1>3
  <2> QED BY <1>1, <1>2, <1>3, <2>1, <2>2 DEF IsPrefix
<1>4. CASE ~ (m <= n)
  BY <1>1, <1>2, <1>4 DEF IsPrefix
<1> QED BY <1>3, <1>4

LEMMA PathInside ==
  ASSUME NEW o \in HostObject, NEW n \in Names
  PROVE  LET q == Inside(o, n).path IN
         /\ Inside(o, n) \in HostObject /\ Inside(o, n).root = o.root
         /\ o.path \in Seq(Names) /\ q \in Seq(Names)
         /\ Len(o.path) \in Nat /\ Len(q) = Len(o.path) + 1
         /\ q[Len(o.path) + 1] = n /\ \A i \in 1 .. Len(o.path) : q[i] = o.path[i]
         /\ On(o.path, q)
<1>1. PICK r \in Volumes, s \in Seq(Names) : o = [root |-> r, path |-> s]
  BY DEF HostObject
<1>2. o.path = s /\ o.root = r
  BY <1>1
<1>3. Inside(o, n) \in HostObject
  <2>1. <<n>> \in Seq(Names)
    OBVIOUS
  <2> QED BY <2>1, BelowType DEF Inside
<1> DEFINE q == s \o <<n>>
<1>4. Inside(o, n) = [o EXCEPT !.path = q]
  BY <1>2 DEF Inside, Below
<1>5. /\ q \in Seq(Names) /\ Len(s) \in Nat /\ Len(q) = Len(s) + 1
      /\ q[Len(s) + 1] = n /\ \A i \in 1 .. Len(s) : q[i] = s[i]
  OBVIOUS
<1> HIDE DEF q
<1>6. Inside(o, n).path = q /\ Inside(o, n).root = r
  BY <1>1, <1>4
<1>7. On(s, q)
  BY <1>5 DEF On
<1> QED BY <1>2, <1>3, <1>5, <1>6, <1>7

\* What differs first decides.
LEMMA BeforeBranch ==
  ASSUME NEW x, NEW y, NEW p \in Seq(Names), NEW q \in Seq(Names), x.at.path = p, y.at.path = q,
         NEW k \in Nat, k < Len(p), k < Len(q), \A i \in 1 .. k : p[i] = q[i],
         p[k + 1] < q[k + 1]
  PROVE  Before(x, y)
<1>1. k + 1 \in DOMAIN p \cap DOMAIN q
  OBVIOUS
<1>2. \A i \in 1 .. (k + 1) - 1 : p[i] = q[i]
  OBVIOUS
<1> QED BY <1>1, <1>2 DEF Before

\* A directory is left after what is below it.
LEMMA BeforeLeaving ==
  ASSUME NEW x, NEW y, NEW p \in Seq(Names), NEW q \in Seq(Names), x.at.path = p, y.at.path = q,
         y.leaving, On(q, p)
  PROVE  Before(x, y)
<1>1. IsPrefix(q, p)
  BY PrefixIs DEF On
<1>2. p # q
  BY DEF On
<1> QED BY <1>1, <1>2 DEF Before

\* and returned before that.
LEMMA BeforeBelow ==
  ASSUME NEW x, NEW y, NEW p \in Seq(Names), NEW q \in Seq(Names), x.at.path = p, y.at.path = q,
         ~ x.leaving, On(p, q) \/ (p = q /\ y.leaving)
  PROVE  Before(x, y)
<1>1. IsPrefix(p, q)
  BY PrefixIs DEF On
<1>2. p = q => y.leaving
  BY DEF On
<1> QED BY <1>1, <1>2 DEF Before

\* What comes before a directory comes before what is below it, and before its
\* leaving.
LEMMA BeforeInside ==
  ASSUME NEW x, NEW y, NEW z, NEW p \in Seq(Names), NEW q \in Seq(Names), NEW r \in Seq(Names),
         x.at.path = p, y.at.path = q, z.at.path = r, ~ y.leaving, Before(x, y),
         On(q, r) \/ (q = r /\ z.leaving)
  PROVE  Before(x, z)
<1>1. /\ p \in Seq(Names) /\ q \in Seq(Names) /\ r \in Seq(Names)
      /\ Len(q) <= Len(r) /\ \A i \in 1 .. Len(q) : r[i] = q[i]
  BY DEF On
<1>2. CASE \E k \in DOMAIN p \cap DOMAIN q :
             (\A i \in 1 .. k - 1 : p[i] = q[i]) /\ p[k] < q[k]
  <2>1. PICK k \in DOMAIN p \cap DOMAIN q :
          (\A i \in 1 .. k - 1 : p[i] = q[i]) /\ p[k] < q[k]
    BY <1>2
  <2>2. k \in 1 .. Len(p) /\ k \in 1 .. Len(q) /\ k \in DOMAIN r
    BY <1>1
  <2>3. r[k] = q[k] /\ \A i \in 1 .. k - 1 : r[i] = q[i]
    BY <1>1, <2>2
  <2>4. (\A i \in 1 .. k - 1 : p[i] = r[i]) /\ p[k] < r[k]
    BY <2>1, <2>3
  <2> QED BY <2>2, <2>4 DEF Before
<1>3. CASE IsPrefix(p, q) /\ ~ x.leaving /\ (p = q => y.leaving)
  <2>1. Len(p) <= Len(q) /\ (\A i \in 1 .. Len(p) : p[i] = q[i]) /\ p # q
    BY <1>3, PrefixIs
  <2>2. Len(p) < Len(q)
    <3>1. Len(p) = Len(q) => p = q
      BY <2>1
    <3> QED BY <2>1, <3>1
  <2>3. On(p, r)
    BY <1>1, <2>1, <2>2 DEF On
  <2> QED BY <1>3, <2>3, BeforeBelow
<1> QED BY <1>2, <1>3 DEF Before

LEMMA BeforeOneWay ==
  ASSUME NEW x, NEW y, NEW p \in Seq(Names), NEW q \in Seq(Names), x.at.path = p, y.at.path = q,
         Before(x, y), Before(y, x)
  PROVE  FALSE
<1> DEFINE D(s, t) == \E k \in DOMAIN s \cap DOMAIN t :
                        (\A i \in 1 .. k - 1 : s[i] = t[i]) /\ s[k] < t[k]
<1>1. \A k \in DOMAIN p : k \in Nat /\ k >= 1 /\ k <= Len(p) /\ p[k] \in Nat
  <2>1. \A k \in DOMAIN p : k \in Nat /\ k >= 1 /\ k <= Len(p) /\ p[k] \in Names
    OBVIOUS
  <2> QED BY <2>1, NamesAssumption
<1>2. \A k \in DOMAIN q : k \in Nat /\ k >= 1 /\ k <= Len(q) /\ q[k] \in Nat
  <2>1. \A k \in DOMAIN q : k \in Nat /\ k >= 1 /\ k <= Len(q) /\ q[k] \in Names
    OBVIOUS
  <2> QED BY <2>1, NamesAssumption
<1>3. ~ (D(p, q) /\ D(q, p))
  <2> SUFFICES ASSUME NEW k \in DOMAIN p \cap DOMAIN q, NEW m \in DOMAIN p \cap DOMAIN q,
                      \A i \in 1 .. k - 1 : p[i] = q[i], p[k] < q[k],
                      \A i \in 1 .. m - 1 : q[i] = p[i], q[m] < p[m]
               PROVE  FALSE
    OBVIOUS
  <2>0. k \in Nat /\ m \in Nat /\ k >= 1 /\ m >= 1
        /\ p[k] \in Nat /\ q[k] \in Nat /\ p[m] \in Nat /\ q[m] \in Nat
    BY <1>1, <1>2
  <2>1. CASE k < m
    <3>1. q[k] = p[k]
      BY <2>0, <2>1
    <3> QED BY <2>0, <3>1
  <2>2. CASE m < k
    <3>1. q[m] = p[m]
      BY <2>0, <2>2
    <3> QED BY <2>0, <3>1
  <2>3. CASE k = m
    BY <2>0, <2>3
  <2> QED BY <2>0, <2>1, <2>2, <2>3
<1>4. IsPrefix(p, q) => \A i \in DOMAIN p : i \in DOMAIN q /\ p[i] = q[i]
  BY PrefixIs
<1>5. IsPrefix(q, p) => \A i \in DOMAIN q : i \in DOMAIN p /\ p[i] = q[i]
  BY PrefixIs
<1>6. D(p, q) \/ D(q, p) => ~ IsPrefix(p, q) /\ ~ IsPrefix(q, p)
  <2>1. D(p, q) \/ D(q, p) => \E k \in DOMAIN p \cap DOMAIN q : p[k] # q[k]
    BY <1>1, <1>2
  <2> QED BY <1>4, <1>5, <2>1
<1>7. IsPrefix(p, q) /\ IsPrefix(q, p) => p = q
  <2> SUFFICES ASSUME IsPrefix(p, q), IsPrefix(q, p) PROVE p = q
    OBVIOUS
  <2>1. Len(p) = Len(q) /\ \A i \in 1 .. Len(p) : p[i] = q[i]
    BY PrefixIs
  <2> QED BY <2>1
<1>8. \/ D(p, q)
      \/ IsPrefix(p, q) /\ ~ x.leaving /\ (p = q => y.leaving)
      \/ IsPrefix(q, p) /\ y.leaving /\ (p = q => ~ x.leaving)
  BY DEF Before
<1>9. \/ D(q, p)
      \/ IsPrefix(q, p) /\ ~ y.leaving /\ (q = p => x.leaving)
      \/ IsPrefix(p, q) /\ x.leaving /\ (q = p => ~ y.leaving)
  BY DEF Before
<1> HIDE DEF D
<1> QED BY <1>3, <1>6, <1>7, <1>8, <1>9

-----------------------------------------------------------------------------
(* The levels of a scan, and what they have left to return.                 *)

\* The names that are left of a level, and what will be returned for them.
Ahead(l) == {l.entries[i].name : i \in l.cursor .. Len(l.entries)}
Left(l) == {Item(Inside(l.host, n), FALSE) : n \in Ahead(l)}
Remaining(L) ==
  (UNION {Left(L[i]) : i \in DOMAIN L}) \cup {Item(L[i].host, TRUE) : i \in DOMAIN L \ {1}}

\* The first level of a scan without a wildcard returns nothing any more.
Live(L, i) == i # 1 \/ L[i].entries # <<>>

\* The path p is in the level's directory, at an entry before what is left.
Under(l, p) == On(l.host.path, p) /\ \A n \in Ahead(l) : p[Len(l.host.path) + 1] < n
Above(L, p) == \A i \in DOMAIN L : Live(L, i) => Under(L[i], p)
Nested(L) == \A i, k \in DOMAIN L : i < k /\ Live(L, i) => Under(L[i], L[k].host.path)

DirIn(K, o) == o \in DOMAIN K /\ K[o] = "dir"

\* A level of a scan of the tree K.
LevelOf(K, l) ==
  /\ l.host \in HostObject
  /\ l.entries \in Seq([name : Names, is_dir : BOOLEAN])
  /\ l.cursor \in Nat /\ l.cursor >= 1
  /\ \A i, j \in DOMAIN l.entries : i < j => l.entries[i].name < l.entries[j].name
  /\ \A i \in DOMAIN l.entries : Inside(l.host, l.entries[i].name) \in DOMAIN K
  /\ l.entries # <<>> => DirIn(K, l.host)
LevelsOf(K, L) == IsLevels(L) /\ \A i \in DOMAIN L : LevelOf(K, L[i])

LEMMA AheadNames ==
  ASSUME NEW K, NEW l, LevelOf(K, l)
  PROVE  /\ Ahead(l) \subseteq Names
         /\ Ahead(l) # {} => l.entries # <<>>
<1>1. PICK n \in Nat : n = Len(l.entries) /\ DOMAIN l.entries = 1 .. n
  BY DEF LevelOf
<1>2. PICK c \in Nat : c = l.cursor /\ c >= 1
  BY DEF LevelOf
<1>3. \A i \in 1 .. n : l.entries[i].name \in Names
  <2> DEFINE E == [name : Names, is_dir : BOOLEAN]
  <2>2. l.entries \in Seq(E)
    BY DEF LevelOf
  <2>3. \A e \in E : e.name \in Names
    OBVIOUS
  <2> HIDE DEF E
  <2>1. \A i \in 1 .. n : l.entries[i] \in E
    BY <1>1, <2>2
  <2> QED BY <2>1, <2>3
<1>4. l.entries = <<>> => n = 0
  BY <1>1
<1>5. \A i \in c .. n : i \in 1 .. n /\ n # 0
  BY <1>2
<1> QED BY <1>1, <1>2, <1>3, <1>4, <1>5 DEF Ahead

LEMMA RemainingIs ==
  ASSUME NEW L, NEW x
  PROVE  x \in Remaining(L) <=> \/ \E i \in DOMAIN L : x \in Left(L[i])
                                \/ \E i \in DOMAIN L : i # 1 /\ x = Item(L[i].host, TRUE)
<1> DEFINE A == UNION {Left(L[i]) : i \in DOMAIN L}
           B == {Item(L[i].host, TRUE) : i \in DOMAIN L \ {1}}
<1>1. x \in A <=> \E i \in DOMAIN L : x \in Left(L[i])
  OBVIOUS
<1>2. x \in B <=> \E i \in DOMAIN L : i # 1 /\ x = Item(L[i].host, TRUE)
  OBVIOUS
<1>3. Remaining(L) = A \cup B
  BY DEF Remaining
<1> HIDE DEF A, B
<1> QED BY <1>1, <1>2, <1>3

LEMMA RemainingPaths ==
  ASSUME NEW K, NEW L, LevelsOf(K, L), NEW x \in Remaining(L)
  PROVE  x.at \in HostObject /\ x.at.path \in Seq(Names)
<1>1. \A o \in HostObject : o.path \in Seq(Names)
  BY DEF HostObject
<1>2. CASE \E i \in DOMAIN L : x \in Left(L[i])
  <2>1. PICK i \in DOMAIN L : x \in Left(L[i])
    BY <1>2
  <2>2. LevelOf(K, L[i])
    BY DEF LevelsOf
  <2>3. PICK n \in Ahead(L[i]) : x = Item(Inside(L[i].host, n), FALSE)
    BY <2>1 DEF Left
  <2>4. n \in Names /\ L[i].host \in HostObject
    BY <2>2, AheadNames DEF LevelOf
  <2>5. Inside(L[i].host, n) \in HostObject
    BY <2>4, PathInside
  <2> QED BY <1>1, <2>3, <2>5 DEF Item
<1>3. CASE \E i \in DOMAIN L : x = Item(L[i].host, TRUE)
  BY <1>1, <1>3 DEF Item, LevelsOf, LevelOf
<1> QED BY <1>2, <1>3, RemainingIs

\* What is left comes after a path that is above it.
LEMMA RemainingAfter ==
  ASSUME NEW K, NEW L, LevelsOf(K, L), NEW p \in Seq(Names), Above(L, p),
         NEW y, y.at.path = p, NEW x \in Remaining(L)
  PROVE  Before(y, x)
<1>1. \A o \in HostObject : o.path \in Seq(Names)
  BY DEF HostObject
<1>2. CASE \E i \in DOMAIN L : x \in Left(L[i])
  <2>1. PICK i \in DOMAIN L : x \in Left(L[i])
    BY <1>2
  <2> DEFINE l == L[i]
  <2>2. LevelOf(K, l)
    BY DEF LevelsOf
  <2>3. PICK n \in Ahead(l) : x = Item(Inside(l.host, n), FALSE)
    BY <2>1 DEF Left
  <2>4. n \in Names /\ l.host \in HostObject /\ l.entries # <<>>
    BY <2>2, AheadNames DEF LevelOf
  <2>5. Under(l, p)
    BY <2>4 DEF Above, Live
  <2> HIDE DEF l
  <2>6. PICK k \in Nat : k = Len(l.host.path)
    BY <2>4, PathInside
  <2> DEFINE q == Inside(l.host, n).path
  <2>7. /\ q \in Seq(Names) /\ Len(q) = k + 1 /\ q[k + 1] = n
        /\ \A j \in 1 .. k : q[j] = l.host.path[j]
    BY <2>4, <2>6, PathInside
  <2>8. k < Len(p) /\ p[k + 1] < n /\ \A j \in 1 .. k : p[j] = l.host.path[j]
    BY <2>5, <2>6 DEF Under, On
  <2>9. x.at.path = q
    BY <2>3 DEF Item
  <2> HIDE DEF q
  <2>10. k < Len(q) /\ p[k + 1] < q[k + 1] /\ \A j \in 1 .. k : p[j] = q[j]
    BY <2>7, <2>8
  <2> QED BY <2>7, <2>8, <2>9, <2>10, BeforeBranch
<1>3. CASE \E i \in DOMAIN L : i # 1 /\ x = Item(L[i].host, TRUE)
  <2>1. PICK i \in DOMAIN L : i # 1 /\ x = Item(L[i].host, TRUE)
    BY <1>3
  <2>2. Under(L[i], p)
    BY <2>1 DEF Above, Live
  <2>3. On(L[i].host.path, p) /\ L[i].host.path \in Seq(Names)
    BY <1>1, <2>2 DEF Under, LevelsOf, LevelOf
  <2>4. x.leaving /\ x.at.path = L[i].host.path
    BY <2>1 DEF Item
  <2> QED BY <2>3, <2>4, BeforeLeaving
<1> QED BY <1>2, <1>3, RemainingIs

\* A path further down is above as well.
LEMMA UnderFurther ==
  ASSUME NEW l, l.host \in HostObject, NEW p \in Seq(Names), NEW q \in Seq(Names),
         Under(l, p), On(p, q)
  PROVE  Under(l, q)
<1>1. PICK k \in Nat : k = Len(l.host.path)
  BY DEF HostObject
<1>2. PICK m \in Nat : m = Len(p)
  OBVIOUS
<1>3. k < m /\ \A i \in 1 .. k : p[i] = l.host.path[i]
  BY <1>1, <1>2 DEF Under, On
<1>4. m < Len(q) /\ \A i \in 1 .. m : q[i] = p[i]
  BY <1>2 DEF On
<1>5. k < Len(q) /\ q[k + 1] = p[k + 1] /\ \A i \in 1 .. k : q[i] = l.host.path[i]
  BY <1>3, <1>4
<1> QED BY <1>1, <1>5 DEF Under, On

-----------------------------------------------------------------------------
(* A tour of the tree K: w is its history, M what matches, L the levels of  *)
(* the scan, and P what a descent would enter.                              *)

Matching(K, d, M) == {n \in Names : DirIn(K, d) /\ Inside(d, n) \in DOMAIN K /\ n \in M}

\* Items, of any tree.
Belongs(K, w, x) ==
  \/ \E d, n : /\ d \in w.entered \/ (~ w.direct /\ d = w.root)
               /\ n \in Matching(K, d, w.matches) /\ x = Item(Inside(d, n), FALSE)
  \/ \E d \in w.entered : x = Item(d, TRUE)
  \/ w.direct /\ x = Item(w.root, FALSE)

Seen1 == [at : HostObject, leaving : BOOLEAN]

Walk(K, w, M, L, P) ==
  /\ LevelsOf(K, L) /\ Nested(L) /\ w.matches = M
  /\ w.got \in Seq(Seen1) /\ w.got # <<>>
  /\ \A i, j \in DOMAIN w.got : i < j => Before(w.got[i], w.got[j])
  /\ \A i \in DOMAIN w.got, x \in Remaining(L) : Before(w.got[i], x)
  /\ \A x : Belongs(K, w, x) <=> x \in Remaining(L) \/ \E i \in DOMAIN w.got : x = w.got[i]
  /\ w.done => Remaining(L) = {}
  /\ P # {} => ~ w.done /\ ~ Last(w.got).leaving /\ Above(L, Last(w.got).at.path)

SameTour(v, w) == v.root = w.root /\ v.direct = w.direct /\ v.matches = w.matches

LEMMA GotOne ==
  ASSUME NEW g \in Seq(Seen1), NEW x \in Seen1
  PROVE  LET h == g \o <<x>> n == Len(g) IN
         /\ n \in Nat /\ h \in Seq(Seen1) /\ h # <<>> /\ DOMAIN h = 1 .. n + 1 /\ DOMAIN g = 1 .. n
         /\ Last(h) = x /\ h[n + 1] = x /\ \A i \in 1 .. n : h[i] = g[i]
<1> HIDE DEF Seen1
<1> DEFINE h == g \o <<x>>
<1>1. PICK n \in Nat : n = Len(g)
  OBVIOUS
<1>2. /\ h \in Seq(Seen1) /\ Len(h) = n + 1 /\ DOMAIN h = 1 .. n + 1 /\ DOMAIN g = 1 .. n
      /\ h[n + 1] = x /\ \A i \in 1 .. n : h[i] = g[i]
  BY <1>1
<1> HIDE DEF h
<1>3. h # <<>>
  BY <1>2
<1>4. Last(h) = x
  BY <1>2 DEF Last
<1> QED BY <1>1, <1>2, <1>3, <1>4 DEF h

\* The next thing is returned: x, which was left, and what is left goes on
\* below or after it.
LEMMA WalkOn ==
  ASSUME NEW K, NEW w, NEW M, NEW L, Walk(K, w, M, L, {}),
         NEW x \in Seen1, x \in Remaining(L), NEW T, LevelsOf(K, T), Nested(T),
         \A y : y \in Remaining(L) <=> y = x \/ y \in Remaining(T),
         Above(T, x.at.path), NEW Q, Q # {} => ~ x.leaving,
         NEW v, SameTour(v, w), v.entered = w.entered, v.got = w.got \o <<x>>, v.done = w.done
  PROVE  Walk(K, v, M, T, Q)
<1> DEFINE g == w.got
           h == v.got
<1>0. x.at.path \in Seq(Names)
  BY DEF Seen1, HostObject
<1>1. g \in Seq(Seen1)
  BY DEF Walk
<1>2. PICK n \in Nat : n = Len(g)
  BY <1>1
<1>3. /\ h \in Seq(Seen1) /\ h # <<>> /\ DOMAIN h = 1 .. n + 1 /\ DOMAIN g = 1 .. n
      /\ Last(h) = x /\ h[n + 1] = x /\ \A i \in 1 .. n : h[i] = g[i]
  BY <1>1, <1>2, GotOne
<1>4. /\ \A i, j \in DOMAIN g : i < j => Before(g[i], g[j])
      /\ \A i \in DOMAIN g, y \in Remaining(L) : Before(g[i], y)
      /\ \A y : Belongs(K, w, y) <=> y \in Remaining(L) \/ \E i \in DOMAIN g : y = g[i]
      /\ w.done => Remaining(L) = {}
  BY DEF Walk
<1>5. \A y \in Remaining(T) : y \in Remaining(L) /\ Before(x, y)
  BY <1>0, RemainingAfter
<1>6. \A y : Belongs(K, v, y) <=> Belongs(K, w, y)
  BY DEF Belongs, SameTour
<1> HIDE DEF g, h
<1>7. \A i \in 1 .. n + 1 : i \in 1 .. n \/ i = n + 1
  OBVIOUS
<1>8. ASSUME NEW i \in 1 .. n + 1, NEW j \in 1 .. n + 1, i < j PROVE Before(h[i], h[j])
  <2>1. i \in 1 .. n
    BY <1>8
  <2>2. CASE j \in 1 .. n
    BY <1>3, <1>4, <1>8, <2>1, <2>2
  <2>3. CASE j = n + 1
    BY <1>3, <1>4, <2>1, <2>3
  <2> QED BY <1>7, <2>2, <2>3
<1>9. ASSUME NEW i \in 1 .. n + 1, NEW y \in Remaining(T) PROVE Before(h[i], y)
  BY <1>3, <1>4, <1>5, <1>7
<1>10. ASSUME NEW y
       PROVE  Belongs(K, v, y) <=> y \in Remaining(T) \/ \E i \in 1 .. n + 1 : y = h[i]
  <2>1. (\E i \in 1 .. n + 1 : y = h[i]) <=> y = x \/ \E i \in 1 .. n : y = g[i]
    <3>1. n + 1 \in 1 .. n + 1 /\ \A i \in 1 .. n : i \in 1 .. n + 1
      OBVIOUS
    <3> QED BY <1>3, <1>7, <3>1
  <2> QED BY <1>3, <1>4, <1>6, <2>1
<1>11. ~ v.done
  BY <1>4
<1> QED BY <1>3, <1>8, <1>9, <1>10, <1>11 DEF Walk, SameTour, h

\* The levels of a sequence of them.
LEMMA LevelsAre ==
  ASSUME NEW L, IsLevels(L)
  PROVE  /\ Len(L) \in Nat /\ Len(L) > 0 /\ DOMAIN L = 1 .. Len(L) /\ Last(L) = L[Len(L)]
         /\ DOMAIN Front(L) = 1 .. Len(L) - 1
         /\ \A i \in 1 .. Len(L) - 1 : Front(L)[i] = L[i]
<1> DEFINE R == {L[i] : i \in DOMAIN L}
<1>1. L \in Seq(R) /\ L # <<>>
  BY DEF IsLevels
<1> HIDE DEF R
<1>2. PICK n \in Nat : n = Len(L) /\ n > 0
  BY <1>1, EmptySeq
<1>3. Front(L) = SubSeq(L, 1, n - 1)
  BY <1>2 DEF Front
<1>4. DOMAIN SubSeq(L, 1, n - 1) = 1 .. n - 1
      /\ \A i \in 1 .. n - 1 : SubSeq(L, 1, n - 1)[i] = L[i]
  BY <1>1, <1>2
<1>5. DOMAIN L = 1 .. n
  BY <1>1, <1>2
<1> QED BY <1>2, <1>3, <1>4, <1>5 DEF Last

\* The entry at the cursor is returned.
LEMMA WalkReturns ==
  ASSUME NEW K, NEW w, NEW M, NEW L, NEW n \in Nat, NEW l, NEW T, NEW Q, NEW v,
         Walk(K, w, M, L, {}), n = Len(L), l = L[n], l.cursor <= Len(l.entries),
         IsLevels(T), DOMAIN T = DOMAIN L, \A i \in DOMAIN L : i # n => T[i] = L[i],
         T[n].host = l.host, T[n].entries = l.entries, T[n].cursor = l.cursor + 1,
         SameTour(v, w), v.entered = w.entered, v.done = w.done,
         v.got = w.got \o <<Item(Inside(l.host, l.entries[l.cursor].name), FALSE)>>
  PROVE  Walk(K, v, M, T, Q)
<1> DEFINE m == l.entries[l.cursor].name
           x == Item(Inside(l.host, m), FALSE)
<1>0. LevelsOf(K, L) /\ IsLevels(L) /\ Nested(L)
  BY DEF Walk, LevelsOf
<1>1. n > 0 /\ DOMAIN L = 1 .. n
  BY <1>0, LevelsAre
<1>2. LevelOf(K, l)
  BY <1>0, <1>1 DEF LevelsOf
<1>3. PICK c \in Nat : c = l.cursor /\ c >= 1
  BY <1>2 DEF LevelOf
<1>4. PICK e \in Nat : e = Len(l.entries) /\ DOMAIN l.entries = 1 .. e
  BY <1>2 DEF LevelOf
<1>5. c \in 1 .. e
  BY <1>3, <1>4
<1>6. l.entries # <<>>
  BY <1>4, <1>5
<1>7. m \in Ahead(l) /\ m \in Names
  <2>1. m \in Ahead(l)
    BY <1>3, <1>4, <1>5 DEF Ahead
  <2> QED BY <1>2, <2>1, AheadNames
<1>8. \A k \in Ahead(T[n]) : m < k
  <2> SUFFICES ASSUME NEW k \in Ahead(T[n]) PROVE m < k
    OBVIOUS
  <2>1. PICK i \in c + 1 .. e : k = l.entries[i].name
    BY <1>3, <1>4 DEF Ahead
  <2>2. i \in DOMAIN l.entries /\ c \in DOMAIN l.entries /\ c < i
    BY <1>4, <1>5
  <2> QED BY <1>2, <1>3, <2>1, <2>2 DEF LevelOf
<1>9. \A k : k \in Ahead(l) <=> k = m \/ k \in Ahead(T[n])
  BY <1>3, <1>4, <1>5 DEF Ahead
<1>10. LevelOf(K, T[n])
  BY <1>2, <1>3 DEF LevelOf
<1>11. LevelsOf(K, T)
  BY <1>0, <1>10 DEF LevelsOf
<1> HIDE DEF m
<1> DEFINE q == Inside(l.host, m).path
<1>12. /\ Inside(l.host, m) \in HostObject /\ l.host.path \in Seq(Names) /\ q \in Seq(Names)
       /\ q[Len(l.host.path) + 1] = m /\ On(l.host.path, q)
  BY <1>2, <1>7, PathInside DEF LevelOf
<1>13. x \in Seen1 /\ x.at.path = q /\ ~ x.leaving
  BY <1>12 DEF Seen1, Item
<1> HIDE DEF q
<1>14. Under(T[n], q)
  BY <1>8, <1>12 DEF Under
<1>15. ASSUME NEW i \in DOMAIN L, i # n, Live(L, i) PROVE Under(L[i], q)
  <2>1. i < n /\ n \in DOMAIN L
    BY <1>1, <1>15
  <2>2. Under(L[i], l.host.path)
    BY <1>0, <1>15, <2>1 DEF Nested
  <2>3. L[i].host \in HostObject
    BY <1>0 DEF LevelsOf, LevelOf
  <2> QED BY <1>12, <2>2, <2>3, UnderFurther
<1>16. \A i \in DOMAIN L : Live(T, i) <=> Live(L, i)
  BY <1>1 DEF Live
<1>17. Above(T, q)
  BY <1>14, <1>15, <1>16 DEF Above
<1>18. Nested(T)
  <2> SUFFICES ASSUME NEW i \in DOMAIN L, NEW k \in DOMAIN L, i < k, Live(T, i)
               PROVE  Under(T[i], T[k].host.path)
    BY DEF Nested
  <2>1. i # n
    BY <1>1
  <2>2. T[i] = L[i] /\ T[k].host = L[k].host
    BY <2>1
  <2> QED BY <1>0, <1>16, <2>2 DEF Nested
<1> HIDE DEF x
<1>19. \A y : y \in Left(l) <=> y = x \/ y \in Left(T[n])
  BY <1>9 DEF Left, x
<1>20. \A y : y \in Remaining(L) <=> y = x \/ y \in Remaining(T)
  <2> SUFFICES ASSUME NEW y PROVE y \in Remaining(L) <=> y = x \/ y \in Remaining(T)
    OBVIOUS
  <2>0. \A i \in DOMAIN L : T[i].host = L[i].host
    OBVIOUS
  <2>1. (\E i \in DOMAIN L : y \in Left(L[i])) <=> y = x \/ \E i \in DOMAIN L : y \in Left(T[i])
    <3>1. n \in DOMAIN L
      BY <1>1
    <3> QED BY <1>19, <3>1
  <2>2. (\E i \in DOMAIN L : i # 1 /\ y = Item(L[i].host, TRUE))
          <=> \E i \in DOMAIN T : i # 1 /\ y = Item(T[i].host, TRUE)
    BY <2>0
  <2>3. y \in Remaining(L) <=> \/ \E i \in DOMAIN L : y \in Left(L[i])
                               \/ \E i \in DOMAIN L : i # 1 /\ y = Item(L[i].host, TRUE)
    BY RemainingIs
  <2>4. y \in Remaining(T) <=> \/ \E i \in DOMAIN L : y \in Left(T[i])
                               \/ \E i \in DOMAIN T : i # 1 /\ y = Item(T[i].host, TRUE)
    BY RemainingIs
  <2> QED BY <2>1, <2>2, <2>3, <2>4
<1>21. x \in Remaining(L)
  BY <1>20
<1>22. v.got = w.got \o <<x>>
  BY DEF x, m
<1> QED BY <1>11, <1>13, <1>17, <1>18, <1>20, <1>21, <1>22, WalkOn

\* The innermost level has nothing left, and is left.
LEMMA WalkLeaves ==
  ASSUME NEW K, NEW w, NEW M, NEW L, Walk(K, w, M, L, {}), NEW n \in Nat, n = Len(L), n # 1,
         ~ (L[n].cursor <= Len(L[n].entries)),
         NEW T, T = Front(L), IsLevels(T),
         NEW v, SameTour(v, w), v.entered = w.entered, v.done = w.done,
         v.got = w.got \o <<Item(L[n].host, TRUE)>>
  PROVE  Walk(K, v, M, T, {})
<1> DEFINE x == Item(L[n].host, TRUE)
           p == L[n].host.path
<1>0. LevelsOf(K, L) /\ IsLevels(L) /\ Nested(L)
  BY DEF Walk, LevelsOf
<1>1. n > 1 /\ DOMAIN L = 1 .. n /\ DOMAIN T = 1 .. n - 1 /\ \A i \in 1 .. n - 1 : T[i] = L[i]
  <2> HIDE DEF p, x
  <2>1. /\ n > 0 /\ DOMAIN L = 1 .. n
        /\ DOMAIN Front(L) = 1 .. n - 1
        /\ \A i \in 1 .. n - 1 : Front(L)[i] = L[i]
    BY <1>0, LevelsAre
  <2>2. n > 1
    BY <2>1
  <2> QED BY <2>1, <2>2
<1>2. n \in DOMAIN L /\ \A i \in DOMAIN T : i \in DOMAIN L /\ i < n /\ T[i] = L[i]
  BY <1>1
<1>3. LevelOf(K, L[n])
  BY <1>0, <1>2 DEF LevelsOf
<1>4. Ahead(L[n]) = {}
  BY <1>3 DEF Ahead, LevelOf
<1>5. LevelsOf(K, T)
  BY <1>0, <1>2 DEF LevelsOf
<1>6. \A i \in DOMAIN T : Live(T, i) <=> Live(L, i)
  BY <1>2 DEF Live
<1>7. Nested(T)
  BY <1>0, <1>2, <1>6 DEF Nested
<1>8. Above(T, p)
  BY <1>0, <1>2, <1>6 DEF Above, Nested
<1>9. x \in Seen1 /\ x.at.path = p
  BY <1>3 DEF Seen1, Item, LevelOf
<1> HIDE DEF p, x
<1>10. \A y : y \in Remaining(L) <=> y = x \/ y \in Remaining(T)
  <2> SUFFICES ASSUME NEW y PROVE y \in Remaining(L) <=> y = x \/ y \in Remaining(T)
    OBVIOUS
  <2>1. y \notin Left(L[n])
    BY <1>4 DEF Left
  <2>2. \A i \in DOMAIN L : i = n \/ i \in DOMAIN T
    BY <1>1
  <2>3. (\E i \in DOMAIN L : y \in Left(L[i])) <=> \E i \in DOMAIN T : y \in Left(T[i])
    BY <1>2, <2>1, <2>2
  <2>4. (\E i \in DOMAIN L : i # 1 /\ y = Item(L[i].host, TRUE))
          <=> y = x \/ \E i \in DOMAIN T : i # 1 /\ y = Item(T[i].host, TRUE)
    BY <1>2, <2>2 DEF x
  <2>5. y \in Remaining(L) <=> \/ \E i \in DOMAIN L : y \in Left(L[i])
                               \/ \E i \in DOMAIN L : i # 1 /\ y = Item(L[i].host, TRUE)
    BY RemainingIs
  <2>6. y \in Remaining(T) <=> \/ \E i \in DOMAIN T : y \in Left(T[i])
                               \/ \E i \in DOMAIN T : i # 1 /\ y = Item(T[i].host, TRUE)
    BY RemainingIs
  <2> QED BY <2>3, <2>4, <2>5, <2>6
<1>11. x \in Remaining(L)
  BY <1>10
<1>12. v.got = w.got \o <<x>>
  BY DEF x
<1> QED BY <1>5, <1>7, <1>8, <1>9, <1>10, <1>11, <1>12, WalkOn

\* So has the only level, and the scan is done.
LEMMA WalkEnds ==
  ASSUME NEW K, NEW w, NEW M, NEW L, Walk(K, w, M, L, {}), Len(L) = 1,
         ~ (L[1].cursor <= Len(L[1].entries)),
         NEW v, SameTour(v, w), v.entered = w.entered, v.got = w.got
  PROVE  Walk(K, v, M, L, {})
<1>0. LevelsOf(K, L) /\ IsLevels(L)
  BY DEF Walk, LevelsOf
<1>1. DOMAIN L = {1}
  <2>1. DOMAIN L = 1 .. 1
    BY <1>0, LevelsAre
  <2> QED BY <2>1
<1>2. LevelOf(K, L[1])
  BY <1>0, <1>1 DEF LevelsOf
<1>3. Ahead(L[1]) = {}
  BY <1>2 DEF Ahead, LevelOf
<1>4. Remaining(L) = {}
  BY <1>1, <1>3, RemainingIs DEF Left
<1>5. \A y : Belongs(K, v, y) <=> Belongs(K, w, y)
  BY DEF Belongs, SameTour
<1> QED BY <1>4, <1>5 DEF Walk, SameTour

\* The directory returned last is entered: a level for it, with all of it left.
LEMMA WalkDescends ==
  ASSUME NEW K, NEW w, NEW M, NEW L, NEW P, Walk(K, w, M, L, P), P # {},
         NEW d, d = Last(w.got).at, NEW l, LevelOf(K, l), l.host = d,
         \A k : k \in Ahead(l) <=> k \in Matching(K, d, M),
         NEW T, IsLevels(T), NEW n \in Nat, n = Len(L), DOMAIN T = 1 .. n + 1, T[n + 1] = l,
         \A i \in 1 .. n : T[i] = L[i],
         NEW v, SameTour(v, w), v.entered = w.entered \cup {d}, v.got = w.got, v.done = w.done
  PROVE  Walk(K, v, M, T, {})
<1> DEFINE g == w.got
           p == d.path
<1>0. LevelsOf(K, L) /\ IsLevels(L) /\ Nested(L) /\ g \in Seq(Seen1) /\ g # <<>>
  BY DEF Walk, LevelsOf
<1>1. n > 0 /\ DOMAIN L = 1 .. n
  BY <1>0, LevelsAre
<1>2. /\ \A i \in DOMAIN L : i \in DOMAIN T /\ T[i] = L[i] /\ i # n + 1
      /\ n + 1 \in DOMAIN T /\ n + 1 # 1
      /\ \A i \in DOMAIN T : i \in DOMAIN L \/ i = n + 1
      /\ \A i, k \in DOMAIN T : i < k => i \in DOMAIN L
  BY <1>1
<1>3. LevelsOf(K, T)
  BY <1>0, <1>2 DEF LevelsOf
<1>4. \A i \in DOMAIN L : Live(T, i) <=> Live(L, i)
  BY <1>2 DEF Live
<1>5. ~ w.done /\ ~ Last(g).leaving /\ Above(L, p)
  BY DEF Walk
<1>6. Nested(T)
  <2> SUFFICES ASSUME NEW i \in DOMAIN T, NEW k \in DOMAIN T, i < k, Live(T, i)
               PROVE  Under(T[i], T[k].host.path)
    BY DEF Nested
  <2>1. i \in DOMAIN L /\ T[i] = L[i] /\ Live(L, i)
    BY <1>2, <1>4
  <2>2. CASE k \in DOMAIN L
    BY <1>0, <1>2, <2>1, <2>2 DEF Nested
  <2>3. CASE k = n + 1
    BY <1>5, <2>1, <2>3 DEF Above
  <2> QED BY <1>2, <2>2, <2>3
<1> DEFINE New(y) == (\E k \in Matching(K, d, M) : y = Item(Inside(d, k), FALSE))
                       \/ y = Item(d, TRUE)
<1>7. ASSUME NEW y PROVE y \in Remaining(T) <=> y \in Remaining(L) \/ New(y)
  <2>1. (\E i \in DOMAIN T : y \in Left(T[i]))
          <=> y \in Left(l) \/ \E i \in DOMAIN L : y \in Left(L[i])
    BY <1>2
  <2>2. (\E i \in DOMAIN T : i # 1 /\ y = Item(T[i].host, TRUE))
          <=> y = Item(d, TRUE) \/ \E i \in DOMAIN L : i # 1 /\ y = Item(L[i].host, TRUE)
    BY <1>2
  <2>3. y \in Left(l) <=> \E k \in Matching(K, d, M) : y = Item(Inside(d, k), FALSE)
    BY DEF Left
  <2>4. y \in Remaining(L) <=> \/ \E i \in DOMAIN L : y \in Left(L[i])
                               \/ \E i \in DOMAIN L : i # 1 /\ y = Item(L[i].host, TRUE)
    BY RemainingIs
  <2>5. y \in Remaining(T) <=> \/ \E i \in DOMAIN T : y \in Left(T[i])
                               \/ \E i \in DOMAIN T : i # 1 /\ y = Item(T[i].host, TRUE)
    BY RemainingIs
  <2> QED BY <2>1, <2>2, <2>3, <2>4, <2>5
<1>8. ASSUME NEW y PROVE Belongs(K, v, y) <=> Belongs(K, w, y) \/ New(y)
  <2>1. /\ v.root = w.root /\ v.matches = M /\ w.matches = M /\ v.direct = w.direct
        /\ v.entered = w.entered \cup {d}
    BY DEF SameTour, Walk
  <2> DEFINE At(o) == \E k \in Matching(K, o, M) : y = Item(Inside(o, k), FALSE)
             Root == ~ w.direct /\ At(w.root)
             Self == w.direct /\ y = Item(w.root, FALSE)
  <2>2. Belongs(K, w, y) <=> \/ (\E o \in w.entered : At(o)) \/ Root
                            \/ (\E o \in w.entered : y = Item(o, TRUE)) \/ Self
    BY <2>1 DEF Belongs
  <2>3. Belongs(K, v, y) <=> \/ (\E o \in v.entered : At(o)) \/ Root
                            \/ (\E o \in v.entered : y = Item(o, TRUE)) \/ Self
    BY <2>1 DEF Belongs
  <2>4. New(y) <=> At(d) \/ y = Item(d, TRUE)
    OBVIOUS
  <2> HIDE DEF New, At, Root, Self
  <2>5. (\E o \in v.entered : At(o)) <=> At(d) \/ \E o \in w.entered : At(o)
    BY <2>1
  <2>6. (\E o \in v.entered : y = Item(o, TRUE))
          <=> y = Item(d, TRUE) \/ \E o \in w.entered : y = Item(o, TRUE)
    BY <2>1
  <2> QED BY <2>2, <2>3, <2>4, <2>5, <2>6
<1>9. PICK m \in Nat : m = Len(g) /\ DOMAIN g = 1 .. m /\ m \in DOMAIN g /\ Last(g) = g[m]
  BY <1>0, EmptySeq DEF Last
<1>10. d \in HostObject /\ p \in Seq(Names)
  <2>1. g[m] \in Seen1
    BY <1>0, <1>9
  <2> QED BY <1>9, <2>1 DEF Seen1, HostObject
<1>11. ASSUME NEW i \in DOMAIN g, NEW y, New(y) PROVE Before(g[i], y)
  <2>1. y.at.path \in Seq(Names) /\ (On(p, y.at.path) \/ (p = y.at.path /\ y.leaving))
    <3>1. CASE y = Item(d, TRUE)
      BY <1>10, <3>1 DEF Item
    <3>2. CASE \E k \in Matching(K, d, M) : y = Item(Inside(d, k), FALSE)
      <4>1. PICK k \in Names : y = Item(Inside(d, k), FALSE)
        BY <3>2 DEF Matching
      <4> QED BY <1>10, <4>1, PathInside DEF Item
    <3> QED BY <1>11, <3>1, <3>2
  <2>2. g[i].at.path \in Seq(Names)
    <3>1. g[i] \in Seen1
      BY <1>0
    <3> QED BY <3>1 DEF Seen1, HostObject
  <2>3. ~ g[m].leaving /\ g[m].at.path = p
    BY <1>5, <1>9
  <2> DEFINE q == y.at.path
  <2> HIDE DEF q, p, g, New
  <2>4. CASE i = m
    BY <1>10, <2>1, <2>3, <2>4, BeforeBelow DEF q
  <2>5. CASE i # m
    <3>1. i < m
      BY <1>9, <2>5
    <3>2. Before(g[i], g[m])
      BY <1>9, <3>1 DEF Walk, g
    <3> QED BY <1>10, <2>1, <2>2, <2>3, <3>2, BeforeInside DEF q
  <2> QED BY <2>4, <2>5
<1> HIDE DEF New
<1>12. \A i \in DOMAIN g, y \in Remaining(T) : Before(g[i], y)
  BY <1>7, <1>11 DEF Walk
<1>13. \A y : Belongs(K, v, y) <=> y \in Remaining(T) \/ \E i \in DOMAIN g : y = g[i]
  BY <1>7, <1>8 DEF Walk
<1> QED BY <1>3, <1>5, <1>6, <1>12, <1>13 DEF Walk, SameTour

\* The beginning without a wildcard, and with one.
LEMMA WalkStartsPlain ==
  ASSUME NEW K, NEW h \in HostObject, NEW l, IsLevels(<<l>>), l.host = h, l.entries = <<>>,
         l.cursor = 1, NEW Q, NEW w, w.root = h, w.direct = TRUE, w.matches = Names,
         w.entered = {}, w.done = FALSE, w.got = <<Item(h, FALSE)>>
  PROVE  Walk(K, w, Names, <<l>>, Q)
<1> DEFINE L == <<l>>
           x == Item(h, FALSE)
<1>1. DOMAIN L = {1} /\ L[1] = l
  OBVIOUS
<1>2. LevelOf(K, l)
  BY DEF LevelOf
<1>3. LevelsOf(K, L)
  BY <1>1, <1>2 DEF LevelsOf
<1> HIDE DEF L
<1>4. Above(L, h.path) /\ Nested(L)
  BY <1>1 DEF Above, Nested, Live
<1>5. Ahead(l) = {}
  BY DEF Ahead
<1>6. Remaining(L) = {}
  BY <1>1, <1>5, RemainingIs DEF Left
<1>7. x \in Seen1 /\ x.at = h /\ ~ x.leaving
  BY DEF Seen1, Item
<1>8. \A y : Belongs(K, w, y) <=> y = x
  BY DEF Belongs
<1> HIDE DEF x
<1> DEFINE g == <<x>>
<1>9. g \in Seq(Seen1) /\ g # <<>> /\ DOMAIN g = {1} /\ g[1] = x /\ Last(g) = x
  BY <1>7 DEF Last
<1>10. w.got = g
  BY DEF x
<1> HIDE DEF g
<1>11. \A i, j \in DOMAIN w.got : i < j => Before(w.got[i], w.got[j])
  BY <1>9, <1>10
<1>12. \A y : Belongs(K, w, y) <=> \E i \in DOMAIN w.got : y = w.got[i]
  BY <1>8, <1>9, <1>10
<1>13. w.got \in Seq(Seen1) /\ w.got # <<>> /\ Last(w.got) = x
  BY <1>9, <1>10
<1>14. Walk(K, w, Names, L, Q)
  BY <1>3, <1>4, <1>6, <1>7, <1>11, <1>12, <1>13 DEF Walk
<1> QED BY <1>14 DEF L

LEMMA WalkStartsWild ==
  ASSUME NEW K, NEW h \in HostObject, NEW M, NEW l, IsLevels(<<l>>), LevelOf(K, l), l.host = h,
         l.cursor = 2, l.entries # <<>>,
         {l.entries[i].name : i \in DOMAIN l.entries} = Matching(K, h, M),
         NEW Q, NEW w, w.root = h, w.direct = FALSE, w.matches = M,
         w.entered = {}, w.done = FALSE,
         w.got = <<Item(Inside(h, Head(l.entries).name), FALSE)>>
  PROVE  Walk(K, w, M, <<l>>, Q)
<1> DEFINE L == <<l>>
           m == l.entries[1].name
           x == Item(Inside(h, m), FALSE)
           p == Inside(h, m).path
<1>1. DOMAIN L = {1} /\ L[1] = l
  OBVIOUS
<1>2. LevelsOf(K, L)
  BY <1>1 DEF LevelsOf
<1> HIDE DEF L
<1>3. PICK e \in Nat : e = Len(l.entries) /\ DOMAIN l.entries = 1 .. e /\ e > 0
  <2> DEFINE E == [name : Names, is_dir : BOOLEAN]
  <2>1. l.entries \in Seq(E)
    BY DEF LevelOf
  <2> HIDE DEF E
  <2> QED BY <2>1, EmptySeq
<1>4. Head(l.entries) = l.entries[1]
  BY <1>3 DEF LevelOf
<1>5. m \in Matching(K, h, M) /\ m \in Names
  BY <1>3 DEF Matching
<1>6. Ahead(l) = {l.entries[i].name : i \in 2 .. e}
  BY <1>3 DEF Ahead
<1>7. \A k \in Ahead(l) : m < k
  BY <1>3, <1>6 DEF LevelOf
<1>8. \A k : k \in Matching(K, h, M) <=> k = m \/ k \in Ahead(l)
  BY <1>3, <1>6
<1> HIDE DEF m
<1>9. /\ Inside(h, m) \in HostObject /\ h.path \in Seq(Names) /\ p \in Seq(Names)
      /\ p[Len(h.path) + 1] = m /\ On(h.path, p)
  BY <1>5, PathInside
<1>10. x \in Seen1 /\ x.at.path = p /\ ~ x.leaving
  BY <1>9 DEF Seen1, Item
<1> HIDE DEF p
<1>11. Under(l, p)
  BY <1>7, <1>9 DEF Under
<1>12. Above(L, p) /\ Nested(L)
  BY <1>1, <1>11 DEF Above, Nested
<1>13. \A y : y \in Remaining(L) <=> y \in Left(l)
  BY <1>1, RemainingIs
<1>14. ASSUME NEW y PROVE Belongs(K, w, y) <=> y = x \/ y \in Remaining(L)
  <2>1. Belongs(K, w, y) <=> \E k \in Matching(K, h, M) : y = Item(Inside(h, k), FALSE)
    BY DEF Belongs
  <2>2. y \in Left(l) <=> \E k \in Ahead(l) : y = Item(Inside(h, k), FALSE)
    BY DEF Left
  <2> QED BY <1>8, <1>13, <2>1, <2>2
<1>15. \A y \in Remaining(L) : Before(x, y)
  BY <1>2, <1>9, <1>10, <1>12, RemainingAfter
<1>16. w.got = <<x>>
  BY <1>4 DEF x, m
<1> HIDE DEF x
<1> DEFINE g == <<x>>
<1>17. g \in Seq(Seen1) /\ g # <<>> /\ DOMAIN g = {1} /\ g[1] = x /\ Last(g) = x
  BY <1>10 DEF Last
<1>18. w.got = g
  BY <1>16
<1> HIDE DEF g
<1>19. \A i, j \in DOMAIN w.got : i < j => Before(w.got[i], w.got[j])
  BY <1>17, <1>18
<1>20. \A i \in DOMAIN w.got, y \in Remaining(L) : Before(w.got[i], y)
  BY <1>15, <1>17, <1>18
<1>21. \A y : Belongs(K, w, y) <=> y \in Remaining(L) \/ \E i \in DOMAIN w.got : y = w.got[i]
  BY <1>14, <1>17, <1>18
<1>22. w.got \in Seq(Seen1) /\ w.got # <<>> /\ Last(w.got) = x
  BY <1>17, <1>18
<1>23. Walk(K, w, M, L, Q)
  BY <1>2, <1>10, <1>12, <1>19, <1>20, <1>21, <1>22 DEF Walk
<1> QED BY <1>23 DEF L

-----------------------------------------------------------------------------
(* What list_and_filter returns. *)

LEMMA Filtered ==
  ASSUME NEW host \in HostObject, NEW M
  PROVE  LET E == list_and_filter(host, M) IN
         /\ E \in Seq([name : Names, is_dir : BOOLEAN])
         /\ \A i, j \in DOMAIN E : i < j => E[i].name < E[j].name
         /\ {E[i].name : i \in DOMAIN E} = Matching(kind, host, M)
<1> DEFINE C == {n \in Children(host) \cap M : IsDir(host)}
           Q == InOrder(C)
           R == [name : Names, is_dir : BOOLEAN]
           E == [i \in DOMAIN Q |-> [name |-> Q[i], is_dir |-> IsDir(Inside(host, Q[i]))]]
<1>1. C \subseteq Names
  BY DEF Children
<1>2. C = Matching(kind, host, M)
  BY DEF Children, Matching, DirIn, IsDir, Exists
<1>3. list_and_filter(host, M) = E
  BY DEF list_and_filter
<1> HIDE DEF C
<1>4. Q \in Seq(Names) /\ Ascending(Q) /\ ToSet(Q) = C
  BY <1>1, Entries
<1> HIDE DEF Q
<1>5. PICK n \in Nat : n = Len(Q) /\ DOMAIN Q = 1 .. n
  BY <1>4
<1>6. \A i \in 1 .. n : Q[i] \in Names
  BY <1>4, <1>5
<1>7. \A i \in 1 .. n : E[i] \in R /\ E[i].name = Q[i]
  BY <1>5, <1>6 DEF IsDir
<1>8. DOMAIN E = 1 .. n
  BY <1>5
<1>12. E = [i \in 1 .. n |-> E[i]]
  BY <1>5
<1> HIDE DEF E, R
<1>9. E \in Seq(R)
  BY <1>7, <1>8, <1>12
<1>10. \A i, j \in 1 .. n : i < j => E[i].name < E[j].name
  BY <1>4, <1>5, <1>7 DEF Ascending
<1>11. {E[i].name : i \in 1 .. n} = C
  BY <1>4, <1>5, <1>7 DEF ToSet
<1> QED BY <1>2, <1>3, <1>8, <1>9, <1>10, <1>11 DEF R

\* A level with these entries.
LEMMA LevelFiltered ==
  ASSUME NEW host \in HostObject, NEW M, NEW l, l.host = host,
         l.entries = list_and_filter(host, M), l.cursor \in Nat, l.cursor >= 1
  PROVE  /\ LevelOf(kind, l)
         /\ {l.entries[i].name : i \in DOMAIN l.entries} = Matching(kind, host, M)
         /\ l.cursor = 1 => \A k : k \in Ahead(l) <=> k \in Matching(kind, host, M)
<1> DEFINE E == l.entries
           R == [name : Names, is_dir : BOOLEAN]
<1>1. /\ E \in Seq(R)
      /\ \A i, j \in DOMAIN E : i < j => E[i].name < E[j].name
      /\ {E[i].name : i \in DOMAIN E} = Matching(kind, host, M)
  <2> DEFINE F == list_and_filter(host, M)
  <2>1. E = F
    OBVIOUS
  <2>2. /\ F \in Seq(R)
        /\ \A i, j \in DOMAIN F : i < j => F[i].name < F[j].name
        /\ {F[i].name : i \in DOMAIN F} = Matching(kind, host, M)
    BY Filtered
  <2> HIDE DEF E, F, R
  <2> QED BY <2>1, <2>2
<1>2. \A i \in DOMAIN E : E[i].name \in Matching(kind, host, M)
  BY <1>1
<1>3. \A i \in DOMAIN E : Inside(host, E[i].name) \in DOMAIN kind /\ DirIn(kind, host)
  BY <1>2 DEF Matching
<1>4. E # <<>> => \E i : i \in DOMAIN E
  <2> HIDE DEF E, R
  <2> QED BY <1>1, EmptySeq
<1>5. DOMAIN E = 1 .. Len(E)
  <2> HIDE DEF E, R
  <2> QED BY <1>1
<1>6. LevelOf(kind, l)
  BY <1>1, <1>3, <1>4 DEF LevelOf
<1> QED BY <1>1, <1>5, <1>6 DEF Ahead

\* What the invariant says of a tour of the tree there is.
LEMMA ItemsAre == ASSUME NEW w, NEW x PROVE x \in Items(w) <=> Belongs(kind, w, x)
<1> DEFINE D == w.entered \cup IF w.direct THEN {} ELSE {w.root}
           New(o) == {Item(Inside(o, n), FALSE) : n \in Children(o) \cap w.matches}
           A == UNION {New(o) : o \in {d \in D : IsDir(d)}}
           B == {Item(d, TRUE) : d \in w.entered}
           C == IF w.direct THEN {Item(w.root, FALSE)} ELSE {}
<1>1. Items(w) = (A \cup B) \cup C
  BY DEF Items, Item
<1>2. ASSUME NEW o, IsDir(o)
      PROVE  x \in New(o) <=> \E n \in Matching(kind, o, w.matches) : x = Item(Inside(o, n), FALSE)
  BY <1>2 DEF Children, Matching, DirIn, IsDir, Exists
<1>3. \A o : Matching(kind, o, w.matches) # {} => IsDir(o)
  BY DEF Matching, DirIn, IsDir, Exists
<1> HIDE DEF New
<1>4. x \in A <=> \E o \in D : IsDir(o) /\ x \in New(o)
  OBVIOUS
<1>5. x \in A <=> \E o \in D : \E n \in Matching(kind, o, w.matches) : x = Item(Inside(o, n), FALSE)
  BY <1>2, <1>3, <1>4
<1>6. \A o : o \in D <=> o \in w.entered \/ (~ w.direct /\ o = w.root)
  OBVIOUS
<1>9. x \in A <=> \E o, n : /\ o \in w.entered \/ (~ w.direct /\ o = w.root)
                           /\ n \in Matching(kind, o, w.matches)
                           /\ x = Item(Inside(o, n), FALSE)
  <2> HIDE DEF A, D
  <2> QED BY <1>5, <1>6
<1>7. x \in B <=> \E d \in w.entered : x = Item(d, TRUE)
  OBVIOUS
<1>8. x \in C <=> w.direct /\ x = Item(w.root, FALSE)
  OBVIOUS
<1> HIDE DEF A, B, C, D
<1> QED BY <1>1, <1>9, <1>7, <1>8, Zenon DEF Belongs

LEMMA WalkMeans ==
  ASSUME NEW w, NEW M, NEW L, NEW P, Walk(kind, w, M, L, P)
  PROVE  LET returned == {w.got[i] : i \in DOMAIN w.got} IN
         /\ \A i, j \in DOMAIN w.got : i < j => Before(w.got[i], w.got[j])
         /\ returned \subseteq Items(w)
         /\ \A x \in Items(w), y \in returned : Before(x, y) => x \in returned
         /\ w.done => Items(w) \subseteq returned
<1> DEFINE returned == {w.got[i] : i \in DOMAIN w.got}
<1>1. \A x : x \in Items(w) <=> x \in Remaining(L) \/ x \in returned
  BY ItemsAre DEF Walk
<1>2. ASSUME NEW x \in Items(w), NEW i \in DOMAIN w.got, Before(x, w.got[i]) PROVE x \in returned
  <2> SUFFICES ASSUME x \in Remaining(L) PROVE FALSE
    BY <1>1
  <2>1. Before(w.got[i], x)
    BY DEF Walk
  <2>2. x.at.path \in Seq(Names)
    BY RemainingPaths DEF Walk
  <2>3. w.got[i].at.path \in Seq(Names)
    <3>1. w.got[i] \in Seen1
      BY DEF Walk
    <3> QED BY <3>1 DEF Seen1, HostObject
  <2> QED BY <1>2, <2>1, <2>2, <2>3, BeforeOneWay
<1>3. \A x \in Items(w), y \in returned : Before(x, y) => x \in returned
  BY <1>2
<1> HIDE DEF returned
<1>4. returned \subseteq Items(w)
  BY <1>1
<1>5. w.done => Items(w) \subseteq returned
  BY <1>1 DEF Walk
<1>6. \A i, j \in DOMAIN w.got : i < j => Before(w.got[i], w.got[j])
  BY DEF Walk
<1> QED BY <1>3, <1>4, <1>5, <1>6 DEF returned

-----------------------------------------------------------------------------
(* The way to what a scan enters: what a path resolves to, in the tree K,   *)
(* if T is what the names stand for and c the current directory.            *)

EffectiveOf(c, p) == IF p.name = NoColon THEN c.comps \o p.comps ELSE p.comps
FoundOf(K, base, named, last_must_exist) ==
  \/ named = <<>>
  \/ /\ \A i \in 1..(Len(named) - 1) : DirIn(K, Below(base, SubSeq(named, 1, i)))
     /\ \/ Below(base, named) \in DOMAIN K
        \/ ~ last_must_exist /\ (base \in DOMAIN K => DirIn(K, base))
HitsOf(K, s) == {i \in DOMAIN s[1] : FoundOf(K, s[1][i], s[2], TRUE)}
SearchesOf(T, c, p) == T[LeadOf(c.name, p)] \X apply_parent_pops(EffectiveOf(c, p))
ResolvedOf(c, p, base, named) ==
  [host |-> Below(base, named), amiga |-> [name |-> LeadOf(c.name, p), comps |-> named]]
SearchTargetsOf(K, T, c, p) ==
  {ResolvedOf(c, p, s[1][Min(HitsOf(K, s))], s[2]) :
     s \in {t \in SearchesOf(T, c, p) : HitsOf(K, t) # {}}}
MustExistOf(K, T, c, p) ==
  LET here == SearchTargetsOf(K, T, c, c)
  IN IF p.name # NoColon \/ \E r \in here : DirIn(K, r.host)
     THEN SearchTargetsOf(K, T, c, p) ELSE here
HostsOf(K, T, c, p) == {r.host : r \in MustExistOf(K, T, c, p)}

LEMMA MustExistIs ==
  \A p : resolve_must_exist(p) = MustExistOf(kind, TargetsOf(assigns, cwd.name), cwd, p)
<1>1. \A p : resolve_must_exist(p) = MustExistOf(kind, assign_targets, cwd, p)
  BY DEF resolve_must_exist, MustExistOf, search_targets, SearchTargetsOf, Searches, SearchesOf,
         Hits, HitsOf, resolve_named_components, FoundOf, IsDir, Exists, DirIn,
         Resolved, ResolvedOf, leading_name, LeadOf, effective_components, EffectiveOf
<1> QED BY <1>1, TargetsAre

LEMMA OneSearch ==
  ASSUME NEW T \in Hosts, NEW c \in AbsolutePath, NEW p \in ParsedPath
  PROVE  /\ SearchesOf(T, c, p) \subseteq Bases \X Seq(Names)
         /\ AtMostOne(SearchesOf(T, c, p))
<1>1. LeadOf(c.name, p) \in Volumes \cup AssignNames
  BY DEF LeadOf, ParsedPath, AbsolutePath
<1>2. T[LeadOf(c.name, p)] \subseteq Bases /\ AtMostOne(T[LeadOf(c.name, p)])
  BY <1>1 DEF Hosts
<1>3. EffectiveOf(c, p) \in Comps
  <2>1. c.comps \in Comps /\ p.comps \in Comps
    BY DEF AbsolutePath, ParsedPath, Comps
  <2>2. c.comps \o p.comps \in Comps
    BY <2>1 DEF Comps
  <2> QED BY <2>1, <2>2 DEF EffectiveOf
<1> DEFINE N == apply_parent_pops(EffectiveOf(c, p))
<1>4. N \subseteq Seq(Names) /\ AtMostOne(N)
  BY <1>3, PopsType, PopsOne
<1> HIDE DEF N
<1> DEFINE Q == T[LeadOf(c.name, p)]
<1>5. SearchesOf(T, c, p) = Q \X N
  BY DEF SearchesOf, N
<1>6. Q \subseteq Bases /\ AtMostOne(Q)
  BY <1>2
<1> HIDE DEF Q
<1> QED BY <1>4, <1>5, <1>6 DEF AtMostOne

LEMMA FirstHit ==
  ASSUME NEW K, NEW s \in Bases \X Seq(Names), HitsOf(K, s) # {}
  PROVE  /\ Min(HitsOf(K, s)) \in HitsOf(K, s) /\ HitsOf(K, s) \subseteq Nat
         /\ \A i \in HitsOf(K, s) : Min(HitsOf(K, s)) <= i
         /\ \A i \in HitsOf(K, s) : s[1][i] \in HostObject
<1> DEFINE H == HitsOf(K, s)
<1>1. PICK q \in Bases, named \in Seq(Names) : s = <<q, named>>
  OBVIOUS
<1>2. s[1] = q /\ q \in Seq(HostObject)
  BY <1>1 DEF Bases
<1>3. H \subseteq DOMAIN q
  BY <1>2 DEF HitsOf
<1>4. DOMAIN q \subseteq Nat /\ \A i \in DOMAIN q : q[i] \in HostObject
  BY <1>2
<1> HIDE DEF H
<1>5. H # {} /\ H \subseteq Nat
  BY <1>3, <1>4 DEF H
<1>6. \E m \in H : \A n \in H : m <= n
  BY <1>5, Least
<1>7. Min(H) \in H /\ \A i \in H : Min(H) <= i
  BY <1>6 DEF Min
<1> QED BY <1>2, <1>3, <1>4, <1>5, <1>7 DEF H

\* One object at most, and one path that names it.
LEMMA OneFound ==
  ASSUME NEW K, NEW T \in Hosts, NEW c \in AbsolutePath, NEW p \in ParsedPath
  PROVE  AtMostOne(SearchTargetsOf(K, T, c, p)) /\ AtMostOne(MustExistOf(K, T, c, p))
<1>1. ASSUME NEW q \in ParsedPath PROVE AtMostOne(SearchTargetsOf(K, T, c, q))
  <2>1. AtMostOne(SearchesOf(T, c, q))
    BY OneSearch
  <2> DEFINE F(s) == ResolvedOf(c, q, s[1][Min(HitsOf(K, s))], s[2])
             S == {t \in SearchesOf(T, c, q) : HitsOf(K, t) # {}}
  <2>2. SearchTargetsOf(K, T, c, q) = {F(s) : s \in S}
    BY DEF SearchTargetsOf
  <2>3. AtMostOne(S)
    BY <2>1 DEF AtMostOne
  <2> HIDE DEF F, S
  <2> QED BY <2>2, <2>3 DEF AtMostOne
<1>2. c \in ParsedPath
  BY AbsoluteIsParsed
<1>3. AtMostOne(SearchTargetsOf(K, T, c, p)) /\ AtMostOne(SearchTargetsOf(K, T, c, c))
  BY <1>1, <1>2
<1> QED BY <1>3 DEF MustExistOf

\* What an absolute path resolves to does not depend on the current directory.
LEMMA FoundAnywhere ==
  ASSUME NEW K, NEW T, NEW c \in AbsolutePath, NEW d, NEW p \in AbsolutePath
  PROVE  /\ MustExistOf(K, T, c, p) = MustExistOf(K, T, d, p)
         /\ MustExistOf(K, T, c, p) = SearchTargetsOf(K, T, c, p)
         /\ LeadOf(c.name, p) = p.name
         /\ SearchesOf(T, c, p) = T[p.name] \X {p.comps}
<1>1. p.name \notin {NoColon, BareColon}
  BY PathsAssumption DEF AbsolutePath
<1>2. p.comps \in Seq(Names)
  BY DEF AbsolutePath
<1>3. apply_parent_pops(p.comps) = {p.comps}
  BY <1>2, PopsNone
<1>4. \A e : LeadOf(e, p) = p.name
  BY <1>1 DEF LeadOf
<1>5. \A e : EffectiveOf(e, p) = p.comps
  BY <1>1 DEF EffectiveOf
<1>6. \A e : SearchesOf(T, e, p) = T[p.name] \X {p.comps}
  BY <1>3, <1>4, <1>5 DEF SearchesOf
<1>7. \A e, base, named : ResolvedOf(e, p, base, named) = ResolvedOf(c, p, base, named)
  BY <1>4 DEF ResolvedOf
<1>8. \A e : SearchTargetsOf(K, T, e, p) = SearchTargetsOf(K, T, c, p)
  BY <1>6, <1>7 DEF SearchTargetsOf
<1>9. \A e : MustExistOf(K, T, e, p) = SearchTargetsOf(K, T, e, p)
  BY <1>1 DEF MustExistOf
<1> QED BY <1>4, <1>6, <1>8, <1>9

\* The path of a result leads to it.
Result(K, T, c, r) == \E p \in ParsedPath : r \in MustExistOf(K, T, c, p)
Leads(K, T, c, p, h) == HostsOf(K, T, c, p) = {h}

LEMMA AbsoluteLeads ==
  ASSUME NEW K, NEW T \in Hosts, NEW c \in AbsolutePath, NEW r, Result(K, T, c, r)
  PROVE  /\ r.host \in HostObject /\ r.amiga \in AbsolutePath
         /\ Leads(K, T, c, r.amiga, r.host)
<1> USE DEF Leads
<1> PICK p \in ParsedPath : r \in MustExistOf(K, T, c, p)
  BY DEF Result
<1>1. c \in ParsedPath
  BY AbsoluteIsParsed
<1>2. PICK q \in ParsedPath : r \in SearchTargetsOf(K, T, c, q)
  BY <1>1 DEF MustExistOf
<1>3. PICK s \in SearchesOf(T, c, q) :
        HitsOf(K, s) # {} /\ r = ResolvedOf(c, q, s[1][Min(HitsOf(K, s))], s[2])
  BY <1>2 DEF SearchTargetsOf
<1>4. s \in Bases \X Seq(Names)
  BY <1>2, <1>3, OneSearch
<1>5. PICK b \in HostObject : b = s[1][Min(HitsOf(K, s))]
  BY <1>3, <1>4, FirstHit
<1>6. r.host = Below(b, s[2]) /\ r.amiga = [name |-> LeadOf(c.name, q), comps |-> s[2]]
  BY <1>3, <1>5 DEF ResolvedOf
<1>7. r.host \in HostObject
  BY <1>4, <1>6, BelowType
<1>8. LeadOf(c.name, q) \in Volumes \cup AssignNames
  BY DEF LeadOf, ParsedPath, AbsolutePath
<1>9. r.amiga \in AbsolutePath
  BY <1>4, <1>6, <1>8 DEF AbsolutePath
<1>10. r.amiga.name = LeadOf(c.name, q) /\ r.amiga.comps = s[2]
  BY <1>6
<1>11. s \in SearchesOf(T, c, r.amiga)
  <2>1. SearchesOf(T, c, r.amiga) = T[LeadOf(c.name, q)] \X {s[2]}
    <3>1. SearchesOf(T, c, r.amiga) = T[r.amiga.name] \X {r.amiga.comps}
      BY <1>9, FoundAnywhere
    <3> QED BY <1>10, <3>1, Zenon
  <2>2. s[1] \in T[LeadOf(c.name, q)] /\ s = <<s[1], s[2]>>
    BY <1>3 DEF SearchesOf
  <2> QED BY <2>1, <2>2
<1>12. ResolvedOf(c, r.amiga, b, s[2]) \in MustExistOf(K, T, c, r.amiga)
  <2>1. MustExistOf(K, T, c, r.amiga) = SearchTargetsOf(K, T, c, r.amiga)
    BY <1>9, FoundAnywhere
  <2> QED BY <1>3, <1>5, <1>11, <2>1 DEF SearchTargetsOf
<1>13. ResolvedOf(c, r.amiga, b, s[2]).host = r.host
  BY <1>6 DEF ResolvedOf
<1>14. AtMostOne(MustExistOf(K, T, c, r.amiga))
  BY <1>9, AbsoluteIsParsed, OneFound
<1> QED BY <1>7, <1>9, <1>12, <1>13, <1>14 DEF HostsOf, AtMostOne

\* Every result leads to what the path leads to.
LEMMA FoundHosts ==
  ASSUME NEW K, NEW T \in Hosts, NEW c \in AbsolutePath, NEW p \in ParsedPath,
         NEW r \in MustExistOf(K, T, c, p)
  PROVE  HostsOf(K, T, c, p) = {r.host}
BY OneFound DEF HostsOf, AtMostOne

LEMMA AppendAfter ==
  ASSUME NEW S, NEW a \in Seq(S), NEW b \in Seq(S), NEW x \in S
  PROVE  a \o Append(b, x) = Append(a \o b, x)
OBVIOUS

LEMMA BelowAppend ==
  ASSUME NEW o \in HostObject, NEW N \in Seq(Names), NEW n \in Names
  PROVE  Below(o, Append(N, n)) = Inside(Below(o, N), n)
<1>1. PICK r \in Volumes, q \in Seq(Names) : o = [root |-> r, path |-> q]
  BY DEF HostObject
<1> DEFINE u == q \o N
           v == q \o Append(N, n)
           w == u \o <<n>>
<1>2. v = w
  OBVIOUS
<1>3. Below(o, N) = [o EXCEPT !.path = u] /\ Below(o, Append(N, n)) = [o EXCEPT !.path = v]
  BY <1>1 DEF Below
<1> HIDE DEF v
<1>4. Below(o, N) = [root |-> r, path |-> u] /\ Below(o, Append(N, n)) = [root |-> r, path |-> v]
  <2> HIDE DEF u
  <2> QED BY <1>1, <1>3
<1>5. Inside(Below(o, N), n) = [root |-> r, path |-> w]
  <2> HIDE DEF u
  <2>1. Inside(Below(o, N), n) = [[root |-> r, path |-> u] EXCEPT !.path = w]
    BY <1>4 DEF Inside, Below
  <2> HIDE DEF w
  <2> QED BY <2>1
<1> QED BY <1>2, <1>4, <1>5

\* One more name is found in a directory that was.
LEMMA FoundAppend ==
  ASSUME NEW K, NEW o \in HostObject, NEW N \in Seq(Names), NEW n \in Names
  PROVE  /\ FoundOf(K, o, Append(N, n), TRUE) => FoundOf(K, o, N, TRUE)
         /\ FoundOf(K, o, N, TRUE) /\ DirIn(K, Below(o, N)) /\ Inside(Below(o, N), n) \in DOMAIN K
              => FoundOf(K, o, Append(N, n), TRUE)
<1>1. PICK m \in Nat : m = Len(N)
  OBVIOUS
<1> DEFINE A == Append(N, n)
<1>2. A # <<>> /\ Len(A) - 1 = m /\ \A i \in 1 .. m : SubSeq(A, 1, i) = SubSeq(N, 1, i)
  <2>1. A # <<>> /\ Len(A) - 1 = m
    BY <1>1, AppendProperties
  <2>2. ASSUME NEW i \in 1 .. m PROVE SubSeq(A, 1, i) = SubSeq(N, 1, i)
    <3>1. A \in Seq(Names) /\ Len(A) = m + 1 /\ \A j \in 1 .. m : A[j] = N[j]
      <4>1. A \in Seq(Names) /\ Len(A) = m + 1
        BY <1>1, AppendProperties
      <4>2. \A j \in 1 .. m : A[j] = N[j]
        BY <1>1
      <4> QED BY <4>1, <4>2
    <3>2. \A j \in 1 .. i : A[j] = N[j]
      BY <3>1
    <3> HIDE DEF A
    <3>3. SubSeq(A, 1, i) = [j \in 1 .. i |-> A[j]]
      BY <3>1
    <3>4. SubSeq(N, 1, i) = [j \in 1 .. i |-> N[j]]
      BY <1>1
    <3> QED BY <3>2, <3>3, <3>4
  <2> QED BY <2>1, <2>2
<1>3. Below(o, A) = Inside(Below(o, N), n)
  BY BelowAppend
<1> HIDE DEF A
<1>4. FoundOf(K, o, A, TRUE) <=> /\ \A i \in 1 .. m : DirIn(K, Below(o, SubSeq(N, 1, i)))
                                /\ Inside(Below(o, N), n) \in DOMAIN K
  BY <1>2, <1>3 DEF FoundOf
<1>5. FoundOf(K, o, N, TRUE) <=> \/ N = <<>>
                                \/ /\ \A i \in 1 .. m - 1 : DirIn(K, Below(o, SubSeq(N, 1, i)))
                                   /\ Below(o, N) \in DOMAIN K
  BY <1>1 DEF FoundOf
<1>6. SubSeq(N, 1, m) = N /\ (N # <<>> => m \in 1 .. m)
  BY <1>1
<1>7. \A i \in 1 .. m : i \in 1 .. m - 1 \/ i = m
  OBVIOUS
<1>8. \A i \in 1 .. m - 1 : i \in 1 .. m
  OBVIOUS
<1>9. N = <<>> => \A i \in 1 .. m : FALSE
  BY <1>1
<1>10. DirIn(K, Below(o, N)) => Below(o, N) \in DOMAIN K
  BY DEF DirIn
<1>11. FoundOf(K, o, A, TRUE) => FoundOf(K, o, N, TRUE)
  BY <1>4, <1>5, <1>6, <1>8, <1>10
<1>12. FoundOf(K, o, N, TRUE) /\ DirIn(K, Below(o, N)) /\ Inside(Below(o, N), n) \in DOMAIN K
         => FoundOf(K, o, A, TRUE)
  BY <1>4, <1>5, <1>6, <1>7, <1>9
<1> QED BY <1>11, <1>12 DEF A

\* The path of an entry of a directory, and that it leads to it.
LEMMA AppendParsed ==
  ASSUME NEW p \in ParsedPath, NEW n \in Names, NEW q, q = [p EXCEPT !.comps = Append(@, n)]
  PROVE  q \in ParsedPath /\ q.name = p.name /\ q.comps = Append(p.comps, n)
<1>1. PICK x \in Volumes \cup AssignNames \cup {NoColon, BareColon},
           y \in Seq(Names \cup {ParentStep}) : p = [name |-> x, comps |-> y]
  BY DEF ParsedPath
<1> DEFINE z == Append(y, n)
<1>2. z \in Seq(Names \cup {ParentStep})
  OBVIOUS
<1>3. q = [p EXCEPT !.comps = z]
  BY <1>1
<1>4. z = Append(p.comps, n)
  BY <1>1
<1> HIDE DEF z
<1>5. q = [name |-> x, comps |-> z]
  BY <1>1, <1>3
<1> QED BY <1>1, <1>2, <1>4, <1>5 DEF ParsedPath

LEMMA AppendLeads ==
  ASSUME NEW K, NEW T \in Hosts, NEW c \in AbsolutePath, NEW p \in ParsedPath,
         NEW h \in HostObject, HostsOf(K, T, c, p) = {h}, DirIn(K, h),
         NEW n \in Names, Inside(h, n) \in DOMAIN K,
         NEW q, q = [p EXCEPT !.comps = Append(@, n)]
  PROVE  /\ q \in ParsedPath /\ q.name = p.name
         /\ HostsOf(K, T, c, q) = {Inside(h, n)}
<1>1. q \in ParsedPath /\ q.name = p.name /\ q.comps = Append(p.comps, n)
  BY AppendParsed
<1>2. PICK r \in MustExistOf(K, T, c, p) : r.host = h
  BY DEF HostsOf
<1>3. /\ MustExistOf(K, T, c, p) = SearchTargetsOf(K, T, c, p)
      /\ MustExistOf(K, T, c, q) = SearchTargetsOf(K, T, c, q)
  BY <1>1, <1>2 DEF MustExistOf
<1>4. PICK s \in SearchesOf(T, c, p) :
        HitsOf(K, s) # {} /\ r = ResolvedOf(c, p, s[1][Min(HitsOf(K, s))], s[2])
  BY <1>2, <1>3 DEF SearchTargetsOf
<1>5. s \in Bases \X Seq(Names)
  BY <1>4, OneSearch
<1>6. PICK b, N : s = <<b, N>> /\ b \in Bases /\ N \in Seq(Names) /\ s[1] = b /\ s[2] = N
  BY <1>5
<1>7. PICK m : /\ m = Min(HitsOf(K, s)) /\ m \in HitsOf(K, s) /\ m \in Nat
               /\ \A i \in HitsOf(K, s) : i \in Nat /\ m <= i
  BY <1>4, <1>5, FirstHit
<1>8. b[m] \in HostObject /\ Below(b[m], N) = h
  BY <1>2, <1>4, <1>5, <1>6, <1>7, FirstHit DEF ResolvedOf
<1>9. EffectiveOf(c, p) \in Comps /\ EffectiveOf(c, q) = Append(EffectiveOf(c, p), n)
  <2>1. c.comps \in Comps /\ p.comps \in Comps
    BY DEF AbsolutePath, ParsedPath, Comps
  <2>2. c.comps \o p.comps \in Comps
    BY <2>1 DEF Comps
  <2>3. c.comps \o Append(p.comps, n) = Append(c.comps \o p.comps, n)
    <3> DEFINE E == Names \cup {ParentStep}
    <3>1. c.comps \in Seq(E) /\ p.comps \in Seq(E) /\ n \in E
      BY <2>1 DEF Comps
    <3> HIDE DEF E
    <3>2. PICK a \in Seq(E), y \in Seq(E) : a = c.comps /\ y = p.comps
      BY <3>1
    <3>3. a \o Append(y, n) = Append(a \o y, n)
      BY <3>1, AppendAfter
    <3> QED BY <3>2, <3>3, Zenon
  <2> QED BY <1>1, <2>1, <2>2, <2>3 DEF EffectiveOf
<1> DEFINE A == Append(N, n)
           u == <<b, A>>
<1>10. u \in SearchesOf(T, c, q)
  <2>1. apply_parent_pops(EffectiveOf(c, q))
          = {Append(t, n) : t \in apply_parent_pops(EffectiveOf(c, p))}
    BY <1>9, PopsAppend
  <2>2. LeadOf(c.name, q) = LeadOf(c.name, p)
    BY <1>1 DEF LeadOf
  <2>3. b \in T[LeadOf(c.name, p)] /\ N \in apply_parent_pops(EffectiveOf(c, p))
    BY <1>4, <1>6 DEF SearchesOf
  <2>4. A \in apply_parent_pops(EffectiveOf(c, q))
    BY <2>1, <2>3
  <2> HIDE DEF A
  <2> QED BY <2>2, <2>3, <2>4 DEF SearchesOf
<1>11. \A i \in DOMAIN b : b[i] \in HostObject
  BY <1>6 DEF Bases
<1>12. HitsOf(K, u) \subseteq HitsOf(K, s)
  <2> SUFFICES ASSUME NEW i \in DOMAIN b, FoundOf(K, b[i], A, TRUE)
               PROVE  FoundOf(K, b[i], N, TRUE)
    <3> HIDE DEF A
    <3> QED BY <1>6 DEF HitsOf
  <2> QED BY <1>6, <1>11, FoundAppend
<1>13. m \in HitsOf(K, u)
  <2>1. m \in DOMAIN b /\ FoundOf(K, b[m], N, TRUE)
    BY <1>6, <1>7 DEF HitsOf
  <2>2. FoundOf(K, b[m], A, TRUE)
    BY <1>6, <1>8, <2>1, FoundAppend
  <2> HIDE DEF A
  <2> QED BY <2>1, <2>2 DEF HitsOf
<1>14. u \in Bases \X Seq(Names)
  <2>1. A \in Seq(Names)
    BY <1>6
  <2> HIDE DEF A
  <2> QED BY <1>6, <2>1
<1> HIDE DEF u
<1>15. Min(HitsOf(K, u)) = m
  <2>1. Min(HitsOf(K, u)) \in HitsOf(K, u) /\ Min(HitsOf(K, u)) <= m
    BY <1>13, <1>14, FirstHit
  <2> QED BY <1>7, <1>12, <2>1
<1>16. ResolvedOf(c, q, b[m], A) \in MustExistOf(K, T, c, q)
  <2>1. u[1] = b /\ u[2] = A
    <3> HIDE DEF A
    <3> QED BY DEF u
  <2> HIDE DEF A
  <2>2. ResolvedOf(c, q, u[1][Min(HitsOf(K, u))], u[2]) \in SearchTargetsOf(K, T, c, q)
    BY <1>10, <1>13 DEF SearchTargetsOf
  <2> QED BY <1>3, <1>15, <2>1, <2>2
<1>17. ResolvedOf(c, q, b[m], A).host = Inside(h, n)
  <2>1. Below(b[m], A) = Inside(h, n)
    BY <1>6, <1>8, BelowAppend
  <2> HIDE DEF A
  <2> QED BY <2>1 DEF ResolvedOf
<1>18. HostsOf(K, T, c, q) = {ResolvedOf(c, q, b[m], A).host}
  BY <1>1, <1>16, FoundHosts
<1> QED BY <1>1, <1>17, <1>18

-----------------------------------------------------------------------------
(* What MatchNext may leave: s is a step of it after the descent, t after    *)
(* the rest, a the state of the scan before.                                 *)

NewLevel(a, p, r, at) ==
  [lock |-> at, amiga |-> p, host |-> r.host, cursor |-> 1,
   entries |-> list_and_filter(r.host, a.matches)]

\* No descent, one that fails with its lock kept, and one that succeeds.
Unmoved(a, s) == s.dos = dos /\ s.state.levels = a.levels /\ s.entered = {}
Refused(a, s, r, o) ==
  /\ o \in new_lock(dos, r.host, r.amiga)
  /\ s.dos = o.dos /\ s.state.levels = a.levels /\ s.entered = {}
Entered(a, s, p, r, o) ==
  /\ o \in new_lock(dos, r.host, r.amiga) /\ o.at # Zero /\ s.dos = o.dos /\ s.entered = {r.host}
  /\ s.state.levels = Append(a.levels, NewLevel(a, p, r, o.at))
Descends(a, s) ==
  /\ s.got = <<>> /\ ~ s.end /\ s.state.pending = {} /\ s.state.matches = a.matches
  /\ \/ Unmoved(a, s)
     \/ \E p \in a.pending : \E r \in resolve_must_exist(p) : \E o :
          Refused(a, s, r, o) \/ Entered(a, s, p, r, o)

LEMMA DescentCases ==
  ASSUME NEW ap, IsState(anchor_states[ap]), NEW s \in descended(ap)
  PROVE  IsStep(s) /\ Descends(anchor_states[ap], s)
<1> DEFINE a == anchor_states[ap]
           b == Start(ap)
           e == [a EXCEPT !.pending = {}]
           path == CHOOSE p \in a.pending : TRUE
           found == resolve_must_exist(path)
<1>1. e = [matches |-> a.matches, levels |-> a.levels, pending |-> {}]
  BY DEF IsState
<1>2. b = [dos |-> dos, state |-> e, dodir |-> ap \in dodir, entered |-> {},
           got |-> <<>>, on |-> TRUE, end |-> FALSE]
  BY DEF Start
<1>3. \/ s = b
      \/ s = [b EXCEPT !.on = FALSE]
      \/ /\ a.pending # {}
         /\ \E r \in found : s \in {Descent(ap, path, r, o, failed) :
              o \in new_lock(dos, r.host, r.amiga), failed \in MayFail(HeapMayFail)}
  <2> DEFINE Of(r) == {Descent(ap, path, r, o, failed) :
                         o \in new_lock(dos, r.host, r.amiga), failed \in MayFail(HeapMayFail)}
  <2>1. s \in IF ap \notin dodir \/ a.pending = {} THEN {b}
              ELSE IF found = {} THEN {[b EXCEPT !.on = FALSE]} ELSE UNION {Of(r) : r \in found}
    BY DEF descended
  <2> HIDE DEF Of, b, found, path, a
  <2>2. s = b \/ s = [b EXCEPT !.on = FALSE] \/ (a.pending # {} /\ \E r \in found : s \in Of(r))
    BY <2>1
  <2> QED BY <2>2 DEF Of
<1>4. IsStep(b)
  BY <1>2 DEF IsStep
<1>5. /\ b.dos = dos /\ b.state = e /\ b.entered = {} /\ b.got = <<>> /\ ~ b.end
      /\ e.levels = a.levels /\ e.matches = a.matches /\ e.pending = {}
  BY <1>1, <1>2
<1> HIDE DEF b, found, e, a
<1>6. CASE s = b
  BY <1>4, <1>5, <1>6 DEF Descends, Unmoved, a
<1>7. CASE s = [b EXCEPT !.on = FALSE]
  <2>1. /\ IsStep(s) /\ s.dos = b.dos /\ s.state = b.state /\ s.entered = b.entered
        /\ s.got = b.got /\ s.end = b.end
    BY <1>4, <1>7 DEF IsStep
  <2> QED BY <1>5, <2>1 DEF Descends, Unmoved, a
<1>8. ASSUME a.pending # {}, NEW r \in found, s \in {Descent(ap, path, r, o, failed) :
               o \in new_lock(dos, r.host, r.amiga), failed \in MayFail(HeapMayFail)}
      PROVE  IsStep(s) /\ Descends(a, s)
  <2>0. path \in a.pending /\ r \in resolve_must_exist(path)
    BY <1>8 DEF found
  <2>1. PICK o \in new_lock(dos, r.host, r.amiga), failed \in MayFail(HeapMayFail) :
          s = Descent(ap, path, r, o, failed)
    BY <1>8
  <2> DEFINE l == NewLevel(a, path, r, o.at)
             u == Append(a.levels, l)
             f == [e EXCEPT !.levels = u]
  <2>2. s = IF o.at = Zero \/ failed THEN [b EXCEPT !.dos = o.dos, !.on = FALSE]
            ELSE [b EXCEPT !.dos = o.dos, !.dodir = FALSE, !.entered = {r.host},
                           !.state.levels = Append(@, l)]
    BY <2>1 DEF Descent, b, NewLevel, a
  <2> HIDE DEF l, path
  <2>3. CASE o.at = Zero \/ failed
    <3>1. s = [b EXCEPT !.dos = o.dos, !.on = FALSE]
      BY <2>2, <2>3
    <3>2. /\ IsStep(s) /\ s.dos = o.dos /\ s.state = b.state /\ s.entered = b.entered
          /\ s.got = b.got /\ s.end = b.end
      BY <1>4, <3>1 DEF IsStep
    <3>3. Refused(a, s, r, o)
      BY <1>5, <2>1, <3>2 DEF Refused
    <3> QED BY <1>5, <2>0, <3>2, <3>3 DEF Descends
  <2>4. CASE ~ (o.at = Zero \/ failed)
    <3>1. s = [b EXCEPT !.dos = o.dos, !.dodir = FALSE, !.entered = {r.host},
                        !.state = [b.state EXCEPT !.levels = Append(b.state.levels, l)]]
      BY <1>4, <1>5, <1>1, <2>2, <2>4 DEF IsStep, e
    <3>2. [b.state EXCEPT !.levels = Append(b.state.levels, l)] = f
      BY <1>5
    <3> HIDE DEF f
    <3>3. /\ IsStep(s) /\ s.dos = o.dos /\ s.state = f /\ s.entered = {r.host}
          /\ s.got = b.got /\ s.end = b.end
      BY <1>4, <3>1, <3>2 DEF IsStep
    <3> HIDE DEF u
    <3>4. f.levels = u /\ f.matches = a.matches /\ f.pending = {}
      BY <1>1 DEF f, e
    <3>5. Entered(a, s, path, r, o)
      BY <2>1, <2>4, <3>3, <3>4 DEF Entered, u, l
    <3> QED BY <1>5, <2>0, <3>3, <3>4, <3>5 DEF Descends
  <2> QED BY <2>3, <2>4
<1> QED BY <1>3, <1>6, <1>7, <1>8 DEF a

\* The rest: nothing, after a failure; the next entry; the end; and a level left.
Stays1(s, t) ==
  /\ t.dos = s.dos /\ t.state.levels = s.state.levels /\ t.state.pending = {}
  /\ t.got = <<>> /\ ~ t.end
Returns(s, t, short, n, l) ==
  LET e == l.entries[l.cursor]
      T == t.state.levels
  IN /\ l.cursor <= Len(l.entries)
     /\ t.dos = s.dos /\ ~ t.end
     /\ DOMAIN T = DOMAIN s.state.levels
     /\ \A i \in DOMAIN T : i # n => T[i] = s.state.levels[i]
     /\ T[n] = [l EXCEPT !.cursor = l.cursor + 1]
     /\ t.state.pending = IF short THEN {} ELSE Enterable(l, e)
     /\ t.got = IF short THEN <<>> ELSE <<Entry(l, e)>>
Ends(s, t, n, l) ==
  /\ ~ l.cursor <= Len(l.entries) /\ n = 1
  /\ t.dos = s.dos /\ t.state.levels = s.state.levels /\ t.state.pending = {}
  /\ t.got = <<>> /\ t.end
Leaves(s, t, short, n, l) ==
  /\ ~ l.cursor <= Len(l.entries) /\ n # 1
  /\ t.dos = unlock(s.dos, l.lock) /\ t.state.levels = Front(s.state.levels)
  /\ t.state.pending = {} /\ ~ t.end
  /\ t.got = IF short THEN <<>> ELSE <<Item(l.host, TRUE)>>
Proceeds(s, t, short) ==
  LET n == Len(s.state.levels)
      l == s.state.levels[n]
  IN /\ n \in DOMAIN s.state.levels /\ t.entered = s.entered /\ t.state.matches = s.state.matches
     /\ Stays1(s, t) \/ Returns(s, t, short, n, l) \/ Ends(s, t, n, l) \/ Leaves(s, t, short, n, l)

LEMMA InnerCases ==
  ASSUME NEW s, IsStep(s), IsState(s.state), s.got = <<>>, ~ s.end, s.state.pending = {},
         NEW short
  PROVE  Proceeds(s, match_next_inner(s, short), short)
<1> DEFINE L == s.state.levels
           n == Len(L)
           l == L[n]
           e == l.entries[l.cursor]
           t == match_next_inner(s, short)
<1>1. /\ IsLevels(L)
      /\ s.state = [matches |-> s.state.matches, levels |-> L, pending |-> s.state.pending]
  BY DEF IsState
<1>2. Last(L) = l
  BY DEF Last
<1>3. \/ t = s
      \/ l.cursor <= Len(l.entries) /\ t = next_entry(s, short)
      \/ ~ l.cursor <= Len(l.entries) /\ n = 1 /\ t = [s EXCEPT !.end = TRUE]
      \/ ~ l.cursor <= Len(l.entries) /\ n # 1 /\ t = level_left(s, short)
  BY <1>2 DEF match_next_inner
<1>4. n \in DOMAIN L
  BY <1>1, LevelsAre
<1> SUFFICES Proceeds(s, t, short)
  OBVIOUS
<1> HIDE DEF t
<1>5. CASE t = s
  BY <1>4, <1>5 DEF Proceeds, Stays1
<1>6. CASE ~ l.cursor <= Len(l.entries) /\ n = 1 /\ t = [s EXCEPT !.end = TRUE]
  <2>1. t.dos = s.dos /\ t.state = s.state /\ t.got = s.got /\ t.end /\ t.entered = s.entered
    BY <1>6 DEF IsStep
  <2>2. Ends(s, t, n, l)
    BY <1>6, <2>1 DEF Ends
  <2> QED BY <1>4, <2>1, <2>2 DEF Proceeds
<1>7. CASE l.cursor <= Len(l.entries) /\ t = next_entry(s, short)
  <2> DEFINE u == [L EXCEPT ![n].cursor = l.cursor + 1]
             p == IF short THEN {} ELSE Enterable(l, e)
             g == IF short THEN <<>> ELSE <<Entry(l, e)>>
  <2>1. t = [s EXCEPT !.state = [s.state EXCEPT !.levels = u, !.pending = p], !.got = g]
    BY <1>1, <1>4, <1>7 DEF next_entry, IsStep, IsState
  <2>2. /\ DOMAIN u = DOMAIN L /\ u[n] = [l EXCEPT !.cursor = l.cursor + 1]
        /\ \A i \in DOMAIN u : i # n => u[i] = L[i]
    BY <1>4
  <2> HIDE DEF u
  <2>3. /\ t.dos = s.dos /\ t.got = g /\ t.end = s.end /\ t.entered = s.entered
        /\ t.state = [s.state EXCEPT !.levels = u, !.pending = p]
    <3> HIDE DEF p, g
    <3> QED BY <2>1 DEF IsStep
  <2>4. t.state.levels = u /\ t.state.pending = p /\ t.state.matches = s.state.matches
    <3> HIDE DEF p, g
    <3> QED BY <1>1, <2>3
  <2>5. Returns(s, t, short, n, l)
    BY <1>7, <2>2, <2>3, <2>4 DEF Returns
  <2> QED BY <1>4, <2>3, <2>4, <2>5 DEF Proceeds
<1>8. CASE ~ l.cursor <= Len(l.entries) /\ n # 1 /\ t = level_left(s, short)
  <2> DEFINE u == Front(L)
             g == IF short THEN <<>> ELSE <<Item(l.host, TRUE)>>
             d == unlock(s.dos, l.lock)
  <2>1. t = [s EXCEPT !.dos = d, !.state = [s.state EXCEPT !.levels = u], !.got = g]
    BY <1>1, <1>2, <1>8 DEF level_left, IsStep, IsState, Item
  <2> HIDE DEF u, g, d
  <2>2. /\ t.dos = d /\ t.got = g /\ t.end = s.end /\ t.entered = s.entered
        /\ t.state = [s.state EXCEPT !.levels = u]
    BY <2>1 DEF IsStep
  <2>3. t.state.levels = u /\ t.state.pending = {} /\ t.state.matches = s.state.matches
    BY <1>1, <2>2
  <2>4. Leaves(s, t, short, n, l)
    BY <1>8, <2>2, <2>3 DEF Leaves, u, g, d
  <2> QED BY <1>4, <2>2, <2>3, <2>4 DEF Proceeds
<1> QED BY <1>3, <1>5, <1>6, <1>7, <1>8

-----------------------------------------------------------------------------
(* The paths of a scan. *)

LevelTyped(l) ==
  /\ l.host \in HostObject /\ l.amiga \in ParsedPath
  /\ l.entries \in Seq([name : Names, is_dir : BOOLEAN])
  /\ l.cursor \in Nat /\ l.cursor >= 1
LevelsTyped(L) == \A i \in DOMAIN L : LevelTyped(L[i])
ScanTyped(a) == LevelsTyped(a.levels) /\ a.pending \subseteq ParsedPath

LEMMA EntryTyped ==
  ASSUME NEW l, LevelTyped(l), NEW i \in Nat, i >= 1, i <= Len(l.entries)
  PROVE  /\ i \in DOMAIN l.entries /\ l.entries[i].name \in Names
         /\ Enterable(l, l.entries[i]) \subseteq ParsedPath
<1> DEFINE R == [name : Names, is_dir : BOOLEAN]
           e == l.entries[i]
           q == [l.amiga EXCEPT !.comps = Append(@, e.name)]
<1>1. l.entries \in Seq(R)
  BY DEF LevelTyped
<1>2. \A x \in R : x.name \in Names
  OBVIOUS
<1> HIDE DEF R
<1>3. i \in DOMAIN l.entries /\ e \in R
  BY <1>1
<1>4. e.name \in Names
  BY <1>2, <1>3
<1>5. Enterable(l, e) \subseteq {q}
  BY DEF Enterable
<1>6. q \in ParsedPath
  <2> DEFINE m == e.name
             p == l.amiga
  <2>1. m \in Names /\ p \in ParsedPath
    BY <1>4 DEF LevelTyped
  <2>2. q = [p EXCEPT !.comps = Append(@, m)]
    OBVIOUS
  <2> HIDE DEF m, p, q
  <2> QED BY <2>1, <2>2, AppendParsed
<1> HIDE DEF q, e
<1> QED BY <1>3, <1>4, <1>5, <1>6 DEF e

LEMMA NewLevelTyped ==
  ASSUME NEW a, NEW p \in ParsedPath, NEW r, WellNamed(r), NEW at
  PROVE  LevelTyped(NewLevel(a, p, r, at)) /\ IsLevel(NewLevel(a, p, r, at))
<1> DEFINE E == list_and_filter(r.host, a.matches)
           h == r.host
           M == a.matches
<1>1. E \in Seq([name : Names, is_dir : BOOLEAN])
  <2>1. h \in HostObject
    BY DEF WellNamed
  <2> HIDE DEF h, M
  <2>2. list_and_filter(h, M) \in Seq([name : Names, is_dir : BOOLEAN])
    BY <2>1, Filtered
  <2> QED BY <2>2 DEF h, M
<1> HIDE DEF E
<1>2. NewLevel(a, p, r, at) =
        [lock |-> at, amiga |-> p, host |-> r.host, cursor |-> 1, entries |-> E]
  BY DEF NewLevel, E
<1> QED BY <1>1, <1>2 DEF LevelTyped, IsLevel, WellNamed

\* A level more, and one that moved on.
LEMMA LevelsAppended ==
  ASSUME NEW L, IsLevels(L), NEW l
  PROVE  /\ Len(L) \in Nat /\ DOMAIN L = 1 .. Len(L) /\ DOMAIN Append(L, l) = 1 .. Len(L) + 1
         /\ Append(L, l)[Len(L) + 1] = l /\ \A i \in 1 .. Len(L) : Append(L, l)[i] = L[i]
<1> DEFINE R == {L[i] : i \in DOMAIN L} \cup {l}
           T == Append(L, l)
<1>1. L \in Seq(R) /\ l \in R
  BY DEF IsLevels
<1> HIDE DEF R
<1>2. PICK n \in Nat : n = Len(L)
  BY <1>1
<1>3. DOMAIN L = 1 .. n /\ DOMAIN T = 1 .. n + 1 /\ T[n + 1] = l /\ \A i \in 1 .. n : T[i] = L[i]
  BY <1>1, <1>2
<1> HIDE DEF T
<1> QED BY <1>2, <1>3 DEF T

LEMMA DescendsTyped ==
  ASSUME HInv, NEW a, IsState(a), ScanTyped(a), NEW s, Descends(a, s)
  PROVE  LevelsTyped(s.state.levels)
<1>1. CASE s.state.levels = a.levels
  BY <1>1 DEF ScanTyped
<1>2. ASSUME NEW p \in a.pending, NEW r \in resolve_must_exist(p), NEW o, Entered(a, s, p, r, o)
      PROVE  LevelsTyped(s.state.levels)
  <2>1. p \in ParsedPath
    BY DEF ScanTyped
  <2>2. WellNamed(r)
    BY <2>1, HInvFacts, MustExistGood
  <2> DEFINE l == NewLevel(a, p, r, o.at)
  <2>3. LevelTyped(l)
    BY <2>1, <2>2, NewLevelTyped
  <2> HIDE DEF l
  <2>4. s.state.levels = Append(a.levels, l)
    BY <1>2 DEF Entered, l
  <2>5. \A i \in DOMAIN a.levels : LevelTyped(a.levels[i])
    BY DEF ScanTyped, LevelsTyped
  <2>6. IsLevels(a.levels)
    BY DEF IsState
  <2>7. PICK n \in Nat : n = Len(a.levels)
    BY <2>6, LevelsAppended
  <2>8. \A i \in 1 .. n + 1 : i \in 1 .. n \/ i = n + 1
    OBVIOUS
  <2> QED BY <2>3, <2>4, <2>5, <2>6, <2>7, <2>8, LevelsAppended DEF LevelsTyped
<1> QED BY <1>1, <1>2 DEF Descends, Unmoved, Refused

LEMMA ProceedsTyped ==
  ASSUME NEW s, IsState(s.state), LevelsTyped(s.state.levels), NEW t, NEW short,
         Proceeds(s, t, short)
  PROVE  LevelsTyped(t.state.levels) /\ t.state.pending \subseteq ParsedPath
<1> DEFINE L == s.state.levels
           n == Len(L)
           l == L[n]
<1>1. n \in DOMAIN L /\ LevelTyped(l) /\ IsLevels(L) /\ IsLevel(l)
  BY DEF Proceeds, LevelsTyped, IsState, IsLevels
<1>2. CASE Stays1(s, t) \/ Ends(s, t, n, l)
  BY <1>2 DEF Stays1, Ends
<1>3. CASE Returns(s, t, short, n, l)
  <2>1. \A i \in DOMAIN t.state.levels : LevelTyped(t.state.levels[i])
    <3>1. LevelTyped([l EXCEPT !.cursor = l.cursor + 1])
      BY <1>1 DEF LevelTyped, IsLevel
    <3> QED BY <1>3, <3>1 DEF Returns, LevelsTyped
  <2>2. Enterable(l, l.entries[l.cursor]) \subseteq ParsedPath
    BY <1>1, <1>3, EntryTyped DEF Returns, LevelTyped
  <2> QED BY <1>3, <2>1, <2>2 DEF Returns, LevelsTyped
<1>4. CASE Leaves(s, t, short, n, l)
  <2>1. t.state.levels = Front(L) /\ t.state.pending = {}
    BY <1>4 DEF Leaves
  <2>2. DOMAIN Front(L) = 1 .. n - 1 /\ \A i \in 1 .. n - 1 : Front(L)[i] = L[i]
    BY <1>1, LevelsAre
  <2>3. DOMAIN L = 1 .. n /\ n \in Nat
    BY <1>1, LevelsAre
  <2>4. \A i \in 1 .. n - 1 : i \in DOMAIN L
    BY <2>3
  <2> HIDE DEF L, n
  <2> QED BY <2>1, <2>2, <2>4 DEF LevelsTyped, L
<1> QED BY <1>2, <1>3, <1>4 DEF Proceeds

-----------------------------------------------------------------------------
(* The current directory of a program that scans. *)

\* A lock more for the program, or for a scan, is not the current directory's.
LEMMA FreshLock ==
  ASSUME HInv, NEW r, WellNamed(r), NEW o \in new_lock(dos, r.host, r.amiga)
  PROVE  /\ Home(o.dos, cwd, dropped) /\ IsDos(o.dos)
         /\ o.dos.current_dir_lock = dos.current_dir_lock
         /\ o.dos.current_dir_lock \in DOMAIN o.dos.locks \cup {Zero}
         /\ DOMAIN dos.locks \subseteq DOMAIN o.dos.locks
         /\ o.at # Zero => o.at \notin DOMAIN dos.locks
<1> DEFINE host == r.host
           amiga == r.amiga
           L == Put(dos.locks, o.at, [host |-> host, amiga |-> amiga])
<1>1. PICK S : Kept(dos, held, S, devprocs) /\ Owned(dos, held \cup S, devprocs)
  BY DEF HInv, Held, Kept
<1>2. host \in HostObject /\ amiga \in AbsolutePath /\ o \in new_lock(dos, host, amiga)
  BY DEF WellNamed
<1> HIDE DEF host, amiga
<1>3. Home(o.dos, cwd, dropped)
  BY <1>1, <1>2, HInvFacts, LockHome
<1>4. PICK T : Owned(o.dos, T, devprocs) /\ (o.at # Zero => o.at \notin DOMAIN dos.locks)
  <2>1. CASE o.at = Zero
    <3>1. Kept(o.dos, held, S, devprocs)
      BY <1>1, <1>2, <2>1, LockKept
    <3> QED BY <2>1, <3>1 DEF Kept
  <2>2. CASE o.at # Zero
    <3>1. Kept(o.dos, held \cup {o.at}, S, devprocs) /\ o.at \notin held /\ o.at \notin S
      BY <1>1, <1>2, <2>2, LockKept
    <3>2. Owned(o.dos, held \cup {o.at} \cup S, devprocs)
      BY <3>1 DEF Kept
    <3>3. o.at \notin Inner(devprocs)
      BY <3>2 DEF Owned
    <3>4. o.at \notin DOMAIN dos.locks
      BY <1>1, <3>1, <3>3 DEF Owned
    <3> QED BY <3>2, <3>4
  <2> QED BY <2>1, <2>2
<1>5. IsDos(o.dos) /\ o.dos.current_dir_lock \in DOMAIN o.dos.locks \cup {Zero}
  BY <1>4 DEF Owned
<1>6. /\ o.dos.current_dir_lock = dos.current_dir_lock
      /\ o.dos.locks = dos.locks \/ o.dos.locks = L
  <2>1. /\ o.dos.current_dir_lock = dos.current_dir_lock
        /\ o.dos.locks = dos.locks \/ (o.at \notin DOMAIN dos.locks /\ o.dos.locks = L)
    BY <1>1, <1>2, LockFields
  <2> QED BY <2>1
<1>7. DOMAIN dos.locks \subseteq DOMAIN o.dos.locks
  <2>1. DOMAIN L = DOMAIN dos.locks \cup {o.at}
    BY DEF Put
  <2> HIDE DEF L
  <2> QED BY <1>6, <2>1
<1> QED BY <1>3, <1>4, <1>5, <1>6, <1>7

\* Some locks are gone: if the current directory's is one of them, it is lost.
LEMMA LocksGone ==
  ASSUME NEW d, NEW c, NEW lost, Home(d, c, lost), NEW e, e.initial_cwd = d.initial_cwd,
         DOMAIN e.locks \subseteq DOMAIN d.locks, \A a \in DOMAIN e.locks : e.locks[a] = d.locks[a],
         NEW gone, lost => gone,
         \/ /\ e.current_dir_lock = d.current_dir_lock
            /\ e.current_dir_lock \in DOMAIN e.locks \cup {Zero}
         \/ e.current_dir_lock = Zero /\ (d.current_dir_lock # Zero => gone)
  PROVE  Home(e, c, gone)
<1>1. Named(e)
  BY DEF Home, Named
<1>2. Where(e, c, gone)
  BY DEF Home, Where
<1> QED BY <1>1, <1>2 DEF Home

LEMMA MatchFirstHome ==
  ASSUME HInv, NEW ap, NEW pat \in Patterns, match_first(ap, pat)
  PROVE  Home(dos', cwd', dropped') /\ assigns' = assigns /\ cwd' = cwd
<1>1. assigns' = assigns /\ cwd' = cwd /\ dropped' = dropped
  BY DEF match_first, vfs
<1>2. ASSUME NEW q \in ParsedPath, NEW r \in resolve_must_exist(q),
             NEW o \in new_lock(dos, r.host, r.amiga),
             dos' = o.dos \/ (o.at # Zero /\ dos' = unlock(o.dos, o.at))
      PROVE  Home(dos', cwd', dropped')
  <2>1. WellNamed(r)
    BY HInvFacts, MustExistGood
  <2>2. Home(o.dos, cwd, dropped) /\ IsDos(o.dos)
        /\ o.dos.current_dir_lock \in DOMAIN o.dos.locks \cup {Zero}
    BY <2>1, FreshLock
  <2>3. o.at # Zero => o.dos.current_dir_lock # o.at
    BY <2>1, FreshLock, HInvFacts
  <2>4. o.at # Zero => Home(unlock(o.dos, o.at), cwd, dropped)
    <3> DEFINE d == o.dos
               b == o.at
    <3>1. IsDos(d) /\ d.current_dir_lock \in DOMAIN d.locks \cup {Zero} /\ Home(d, cwd, dropped)
          /\ (b # Zero => d.current_dir_lock # b)
      BY <2>2, <2>3
    <3> HIDE DEF d, b
    <3>2. b # Zero => Home(unlock(d, b), cwd, dropped)
      BY <3>1, UnlockHome
    <3> QED BY <3>2 DEF d, b
  <2> QED BY <1>1, <1>2, <2>2, <2>4
<1>3. pat.text \in ParsedPath /\ dir_part(pat.text) \in ParsedPath
  <2>1. pat.text \in ParsedPath
    BY AnchorsAssumption
  <2> QED BY <2>1, HInvFacts, DirPartParsed
<1>4. CASE match_first_plain(ap, pat)
  <2>1. PICK r \in resolve_must_exist(pat.text) : \E o \in new_lock(dos, r.host, r.amiga) :
          dos' = o.dos
    BY <1>4 DEF match_first_plain
  <2> QED BY <1>1, <1>2, <1>3, <2>1
<1>5. CASE match_first_wild(ap, pat)
  <2>1. PICK r \in resolve_must_exist(dir_part(pat.text)) :
          \E o \in new_lock(dos, r.host, r.amiga) :
            dos' = o.dos \/ (o.at # Zero /\ dos' = unlock(o.dos, o.at))
    BY <1>5 DEF match_first_wild
  <2> QED BY <1>1, <1>2, <1>3, <2>1
<1> QED BY <1>1, <1>4, <1>5 DEF match_first

LEMMA MatchNextHome ==
  ASSUME HInv, AInv, NEW ap \in Anchors, match_next(ap), ScanTyped(anchor_states[ap])
  PROVE  Home(dos', cwd', dropped') /\ assigns' = assigns /\ cwd' = cwd
<1> DEFINE a == anchor_states[ap]
<1>1. assigns' = assigns /\ cwd' = cwd
  BY DEF match_next, vfs
<1>2. IsState(a)
  BY Shares DEF match_next, AInv
<1>3. PICK s \in descended(ap), short \in MayFail(BufferShort) :
        LET t == match_next_inner(s, short)
        IN dos' = t.dos /\ Forget(DOMAIN dos.locks \ DOMAIN t.dos.locks)
  BY DEF match_next
<1> DEFINE t == match_next_inner(s, short)
<1>4. IsStep(s) /\ Descends(a, s)
  BY <1>2, DescentCases
<1>5. IsState(s.state)
  <2>1. /\ IsState(a) /\ Others(anchor_states, ap) \cap Locks(a.levels) = {}
        /\ Sound(dos, held, devprocs, Others(anchor_states, ap) \cup Locks(a.levels))
    BY Shares DEF match_next, AInv
  <2> QED BY <2>1, DescendedGood DEF Good
<1>6. Proceeds(s, t, short)
  BY <1>4, <1>5, InnerCases DEF Descends
<1>7. /\ dos' = t.dos
      /\ dropped' = (dropped \/ dos.current_dir_lock \in DOMAIN dos.locks \ DOMAIN t.dos.locks)
  BY <1>3 DEF Forget
<1> HIDE DEF t
<1>8. /\ Home(s.dos, cwd, dropped) /\ IsDos(s.dos)
      /\ s.dos.current_dir_lock = dos.current_dir_lock
      /\ s.dos.current_dir_lock \in DOMAIN s.dos.locks \cup {Zero}
      /\ DOMAIN dos.locks \subseteq DOMAIN s.dos.locks
  <2>1. CASE Unmoved(a, s)
    <3>1. s.dos = dos
      BY <2>1 DEF Unmoved
    <3> QED BY <3>1, HInvFacts
  <2>2. ASSUME NEW p \in a.pending, NEW r \in resolve_must_exist(p), NEW o,
               Refused(a, s, r, o) \/ Entered(a, s, p, r, o)
        PROVE  /\ Home(s.dos, cwd, dropped) /\ IsDos(s.dos)
               /\ s.dos.current_dir_lock = dos.current_dir_lock
               /\ s.dos.current_dir_lock \in DOMAIN s.dos.locks \cup {Zero}
               /\ DOMAIN dos.locks \subseteq DOMAIN s.dos.locks
    <3>1. o \in new_lock(dos, r.host, r.amiga) /\ s.dos = o.dos
      BY <2>2 DEF Refused, Entered
    <3>2. p \in ParsedPath
      BY DEF ScanTyped
    <3>3. WellNamed(r)
      BY <3>2, HInvFacts, MustExistGood
    <3> QED BY <3>1, <3>3, FreshLock
  <2> QED BY <1>4, <2>1, <2>2 DEF Descends
<1>9. CASE t.dos = s.dos
  <2> DEFINE d == s.dos
             gone == dropped'
  <2>1. /\ Home(d, cwd, dropped) /\ (dropped => gone)
        /\ d.current_dir_lock \in DOMAIN d.locks \cup {Zero}
    BY <1>7, <1>8
  <2> HIDE DEF d, gone
  <2>2. Home(d, cwd, gone)
    BY <2>1, LocksGone
  <2>3. dos' = d /\ Home(d, cwd, dropped')
    BY <1>7, <1>9, <2>2 DEF d, gone
  <2> QED BY <1>1, <2>3
<1>10. ASSUME NEW b, t.dos = unlock(s.dos, b) PROVE Home(t.dos, cwd, dropped')
  <2>1. DOMAIN t.dos.locks = DOMAIN s.dos.locks \ {b}
    <3> DEFINE d == s.dos
    <3>1. IsDos(d) /\ t.dos = unlock(d, b)
      BY <1>8, <1>10
    <3> HIDE DEF d
    <3>2. DOMAIN unlock(d, b).locks = DOMAIN d.locks \ {b}
      <4>1. IsDos(d)
        BY <3>1
      <4> QED BY <4>1, UnlockFields
    <3>3. DOMAIN t.dos.locks = DOMAIN d.locks \ {b}
      BY <3>1, <3>2, Zenon
    <3> QED BY <3>3 DEF d
  <2>2. dropped => dropped'
    BY <1>7
  <2>3. b # Zero /\ s.dos.current_dir_lock = b => dropped'
    BY <1>7, <1>8, <2>1, HInvFacts
  <2>4. Home(unlock(s.dos, b), cwd, dropped')
    <3> DEFINE d == s.dos
    <3>1. /\ IsDos(d) /\ d.current_dir_lock \in DOMAIN d.locks \cup {Zero} /\ Home(d, cwd, dropped)
          /\ b # Zero /\ d.current_dir_lock = b => dropped'
      BY <1>8, <2>3
    <3> HIDE DEF d
    <3> DEFINE gone == dropped'
    <3>2. (dropped => gone) /\ (b # Zero /\ d.current_dir_lock = b => gone)
      BY <2>2, <3>1
    <3> HIDE DEF gone
    <3>3. Home(unlock(d, b), cwd, gone)
      BY <3>1, <3>2, UnlockHome
    <3> QED BY <3>3 DEF d, gone
  <2> QED BY <1>10, <2>4
<1> QED BY <1>1, <1>6, <1>7, <1>9, <1>10 DEF Proceeds, Stays1, Returns, Ends, Leaves

LEMMA MatchEndHome ==
  ASSUME HInv, NEW ap, match_end(ap)
  PROVE  Home(dos', cwd', dropped') /\ assigns' = assigns /\ cwd' = cwd
<1> DEFINE X == LevelLocks(ap)
           e == unlock_all(dos, X)
           L == Restrict(dos.locks, DOMAIN dos.locks \ X)
<1>1. assigns' = assigns /\ cwd' = cwd
  BY DEF match_end, vfs
<1>2. /\ dos' = e
      /\ dropped' = (dropped \/ dos.current_dir_lock \in DOMAIN dos.locks \ DOMAIN dos'.locks)
  BY DEF match_end, Forget
<1> HIDE DEF X
<1>3. /\ e.locks = L /\ e.initial_cwd = dos.initial_cwd
      /\ e.current_dir_lock = IF dos.current_dir_lock \in X THEN Zero ELSE dos.current_dir_lock
  BY HInvFacts DEF unlock_all, IsDos
<1>4. DOMAIN L = DOMAIN dos.locks \ X /\ \A a \in DOMAIN L : L[a] = dos.locks[a]
  BY DEF Restrict
<1> HIDE DEF e, L
<1>5. dropped => dropped'
  BY <1>2
<1>6. \/ /\ e.current_dir_lock = dos.current_dir_lock
         /\ e.current_dir_lock \in DOMAIN e.locks \cup {Zero}
      \/ e.current_dir_lock = Zero /\ (dos.current_dir_lock # Zero => dropped')
  BY <1>2, <1>3, <1>4, HInvFacts
<1>7. Home(e, cwd, dropped')
  <2> DEFINE gone == dropped'
  <2>1. /\ dropped => gone
        /\ \/ e.current_dir_lock = dos.current_dir_lock
              /\ e.current_dir_lock \in DOMAIN e.locks \cup {Zero}
           \/ e.current_dir_lock = Zero /\ (dos.current_dir_lock # Zero => gone)
    BY <1>5, <1>6
  <2> HIDE DEF gone
  <2>2. Home(dos, cwd, dropped) /\ e.initial_cwd = dos.initial_cwd
        /\ DOMAIN e.locks \subseteq DOMAIN dos.locks
        /\ \A a \in DOMAIN e.locks : e.locks[a] = dos.locks[a]
    BY <1>3, <1>4, HInvFacts
  <2>3. Home(e, cwd, gone)
    BY <2>1, <2>2, LocksGone
  <2> QED BY <2>3 DEF gone
<1> QED BY <1>1, <1>2, <1>7

-----------------------------------------------------------------------------
(* The paths that are kept for a scan lead to its directories: of a level   *)
(* to its own, and what a descent would enter to the last one returned, o.  *)

Ways(K, T, c, L, P, o) ==
  /\ \A i \in DOMAIN L :
       L[i].amiga.name = L[1].amiga.name /\ HostsOf(K, T, c, L[i].amiga) = {L[i].host}
  /\ \A p \in P : p.name = L[1].amiga.name /\ HostsOf(K, T, c, p) = {o}

\* Where a path with a name at its head leads does not depend on the current directory.
LEMMA FoundFixed ==
  ASSUME NEW K, NEW T, NEW c, NEW d, NEW p, ~ Relative(p)
  PROVE  HostsOf(K, T, c, p) = HostsOf(K, T, d, p)
<1>1. p.name \notin {NoColon, BareColon}
  BY DEF Relative
<1>2. \A e : LeadOf(e, p) = p.name
  BY <1>1 DEF LeadOf
<1>3. \A e : EffectiveOf(e, p) = p.comps
  BY <1>1 DEF EffectiveOf
<1>4. \A e : SearchesOf(T, e, p) = T[p.name] \X apply_parent_pops(p.comps)
  BY <1>2, <1>3 DEF SearchesOf
<1>5. \A e, base, named : ResolvedOf(e, p, base, named) = ResolvedOf(c, p, base, named)
  BY <1>2 DEF ResolvedOf
<1>6. \A e : SearchTargetsOf(K, T, e, p) = SearchTargetsOf(K, T, c, p)
  BY <1>4, <1>5 DEF SearchTargetsOf
<1>7. \A e : MustExistOf(K, T, e, p) = SearchTargetsOf(K, T, e, p)
  BY <1>1 DEF MustExistOf
<1>8. MustExistOf(K, T, c, p) = MustExistOf(K, T, d, p)
  BY <1>6, <1>7
<1> QED BY <1>8 DEF HostsOf

LEMMA WaysFixed ==
  ASSUME NEW K, NEW T, NEW c, NEW d, NEW L, NEW P, NEW o, Ways(K, T, c, L, P, o),
         ~ Relative(L[1].amiga)
  PROVE  Ways(K, T, d, L, P, o)
<1>1. \A i \in DOMAIN L : ~ Relative(L[i].amiga)
  BY DEF Ways, Relative
<1>2. \A p \in P : ~ Relative(p)
  BY DEF Ways, Relative
<1>3. \A i \in DOMAIN L : HostsOf(K, T, c, L[i].amiga) = HostsOf(K, T, d, L[i].amiga)
  BY <1>1, FoundFixed
<1>4. \A p \in P : HostsOf(K, T, c, p) = HostsOf(K, T, d, p)
  BY <1>2, FoundFixed
<1> QED BY <1>3, <1>4 DEF Ways

-----------------------------------------------------------------------------
(* A scan whose tour goes on. *)

IsTour(w) ==
  /\ w = [root |-> w.root, matches |-> w.matches, direct |-> w.direct, same |-> w.same,
          got |-> w.got, entered |-> w.entered, done |-> w.done]
  /\ w.same \in BOOLEAN /\ w.done \in BOOLEAN

Here == TargetsOf(assigns, cwd.name)
Touring(w, a) ==
  /\ Walk(kind, w, a.matches, a.levels, a.pending)
  /\ Ways(kind, Here, cwd, a.levels, a.pending, Last(w.got).at)

\* Nothing is entered any more.
LEMMA WalkRests ==
  ASSUME NEW K, NEW w, NEW M, NEW L, NEW P, Walk(K, w, M, L, P),
         NEW v, SameTour(v, w), v.entered = w.entered, v.got = w.got, v.done = w.done
  PROVE  Walk(K, v, M, L, {})
<1>1. \A x : Belongs(K, v, x) <=> Belongs(K, w, x)
  BY DEF Belongs, SameTour
<1> QED BY <1>1 DEF Walk, SameTour

LEMMA HereIs == ASSUME HInv PROVE Here \in Hosts
<1>1. AssignsIn(assigns) /\ cwd.name \in Volumes \cup AssignNames
  BY HInvFacts DEF Based, Targets, AssignsIn, AbsolutePath
<1> QED BY <1>1, TargetsType DEF Here

\* The last of what was returned does not change by a descent.
LEMMA DescendWalks ==
  ASSUME HInv, NEW w, NEW a, IsState(a), ScanTyped(a), Touring(w, a),
         NEW s, Descends(a, s), IsState(s.state),
         NEW v, SameTour(v, w), v.entered = w.entered \cup s.entered,
         v.got = w.got, v.done = w.done
  PROVE  Touring(v, s.state)
<1> DEFINE L == a.levels
           T == s.state.levels
           M == a.matches
           P == a.pending
           q == L[1].amiga
           o == Last(w.got).at
<1>1. s.state.pending = {} /\ s.state.matches = M
  BY DEF Descends
<1>2. Walk(kind, w, M, L, P) /\ Ways(kind, Here, cwd, L, P, o)
  BY DEF Touring
<1>3. SUFFICES Walk(kind, v, M, T, {}) /\ Ways(kind, Here, cwd, T, {}, Last(v.got).at)
  BY <1>1 DEF Touring
<1>4. CASE T = L /\ s.entered = {}
  <2>1. v.entered = w.entered
    BY <1>4
  <2>2. Walk(kind, v, M, L, {})
    BY <1>2, <2>1, WalkRests
  <2> QED BY <1>2, <1>4, <2>2 DEF Ways
<1>5. ASSUME NEW p \in P, NEW r \in resolve_must_exist(p), NEW x, Entered(a, s, p, r, x)
      PROVE  Walk(kind, v, M, T, {}) /\ Ways(kind, Here, cwd, T, {}, Last(v.got).at)
  <2> DEFINE l == NewLevel(a, p, r, x.at)
             h == r.host
  <2>1. p \in ParsedPath /\ WellNamed(r)
    <3>1. p \in ParsedPath
      BY DEF ScanTyped
    <3> QED BY <3>1, HInvFacts, MustExistGood
  <2>2. p.name = q.name /\ HostsOf(kind, Here, cwd, p) = {o}
    BY <1>2 DEF Ways
  <2>3. r \in MustExistOf(kind, Here, cwd, p)
    BY MustExistIs DEF Here
  <2>4. h = o
    BY <2>2, <2>3 DEF HostsOf
  <2>5. /\ l.host = h /\ l.amiga = p /\ l.entries = list_and_filter(h, M) /\ l.cursor = 1
        /\ T = Append(L, l) /\ s.entered = {h}
    BY <1>5 DEF Entered, NewLevel
  <2> HIDE DEF l, h, L, T, M
  <2>6. h \in HostObject
    BY <2>1 DEF WellNamed, h
  <2>7. LevelOf(kind, l) /\ \A k : k \in Ahead(l) <=> k \in Matching(kind, h, M)
    <3>1. l.cursor \in Nat /\ l.cursor >= 1
      BY <2>5
    <3> QED BY <2>5, <2>6, <3>1, LevelFiltered
  <2>8. IsLevels(L) /\ IsLevels(T)
    BY DEF IsState, L, T
  <2>9. PICK n \in Nat : n = Len(L)
    BY <2>8, LevelsAre
  <2>10. /\ DOMAIN L = 1 .. n /\ DOMAIN T = 1 .. n + 1 /\ T[n + 1] = l /\ n > 0
         /\ \A i \in 1 .. n : T[i] = L[i]
    BY <2>5, <2>8, <2>9, LevelsAppended, LevelsAre
  <2>11. v.entered = w.entered \cup {h} /\ P # {}
    BY <2>5
  <2>12. Walk(kind, v, M, T, {})
    <3>1. h = Last(w.got).at
      BY <2>4
    <3>2. Walk(kind, w, M, L, P)
      BY <1>2
    <3> HIDE DEF P, o
    <3>3. /\ P # {} /\ l.host = h /\ IsLevels(T) /\ DOMAIN T = 1 .. n + 1 /\ T[n + 1] = l
          /\ LevelOf(kind, l) /\ \A k : k \in Ahead(l) <=> k \in Matching(kind, h, M)
      BY <2>5, <2>7, <2>8, <2>10, <2>11
    <3> QED BY <2>9, <2>10, <2>11, <3>1, <3>2, <3>3, WalkDescends
  <2>13. HostsOf(kind, Here, cwd, l.amiga) = {l.host} /\ l.amiga.name = L[1].amiga.name
    BY <2>2, <2>4, <2>5 DEF L
  <2>14. 1 \in 1 .. n /\ \A i \in 1 .. n + 1 : i \in 1 .. n \/ i = n + 1
    BY <2>10
  <2>15. \A i \in 1 .. n + 1 :
           T[i].amiga.name = T[1].amiga.name /\ HostsOf(kind, Here, cwd, T[i].amiga) = {T[i].host}
    BY <1>2, <2>10, <2>13, <2>14 DEF Ways, L
  <2>16. Ways(kind, Here, cwd, T, {}, Last(v.got).at)
    BY <2>10, <2>15 DEF Ways
  <2> QED BY <2>12, <2>16
<1>6. Unmoved(a, s) => T = L /\ s.entered = {}
  BY DEF Unmoved
<1>7. \A r, x : Refused(a, s, r, x) => T = L /\ s.entered = {}
  BY DEF Refused
<1> HIDE DEF T, L, P
<1> QED BY <1>4, <1>5, <1>6, <1>7 DEF Descends, P

\* What is returned is the last, and where a descent would go.
LEMMA ProceedWalks ==
  ASSUME HInv, NEW w, NEW s, IsState(s.state), LevelsTyped(s.state.levels),
         Touring(w, s.state), s.state.pending = {},
         NEW t, Proceeds(s, t, FALSE), IsState(t.state),
         NEW v, SameTour(v, w), v.entered = w.entered, v.got = w.got \o t.got,
         ~ t.end => v.done = w.done
  PROVE  Touring(v, t.state)
<1> DEFINE L == s.state.levels
           T == t.state.levels
           M == s.state.matches
           n == Len(L)
           l == L[n]
           e == l.entries[l.cursor]
<1>1. /\ t.state.matches = M /\ n \in DOMAIN L
      /\ Stays1(s, t) \/ Returns(s, t, FALSE, n, l) \/ Ends(s, t, n, l) \/ Leaves(s, t, FALSE, n, l)
  BY DEF Proceeds
<1>2. Walk(kind, w, M, L, {}) /\ Ways(kind, Here, cwd, L, {}, Last(w.got).at)
  BY DEF Touring
<1>3. w.got \in Seq(Seen1) /\ LevelsOf(kind, L)
  BY <1>2 DEF Walk
<1>4. ~ t.end => v.done = w.done
  OBVIOUS
<1>5. IsLevels(L) /\ IsLevels(T)
  BY DEF IsState
<1>6. PICK m \in Nat : m = n /\ m > 0 /\ DOMAIN L = 1 .. m /\ 1 \in 1 .. m /\ m \in 1 .. m
  BY <1>1, <1>5, LevelsAre
<1>7. Here \in Hosts /\ cwd \in AbsolutePath
  BY HereIs, HInvFacts
<1>8. \A i \in DOMAIN L : /\ L[i].amiga.name = L[1].amiga.name
                          /\ HostsOf(kind, Here, cwd, L[i].amiga) = {L[i].host}
  BY <1>2 DEF Ways
<1> HIDE DEF L, T, M
<1>9. CASE Stays1(s, t)
  <2>1. v.got = w.got /\ v.done = w.done
    BY <1>3, <1>4, <1>9, ConcatEmptySeq DEF Stays1
  <2>2. T = L /\ t.state.pending = {}
    BY <1>9 DEF Stays1, T, L
  <2>3. Walk(kind, v, M, T, {})
    BY <1>2, <2>1, <2>2, WalkRests
  <2>4. Ways(kind, Here, cwd, T, {}, Last(v.got).at)
    BY <1>2, <2>1, <2>2
  <2> QED BY <1>1, <2>2, <2>3, <2>4 DEF Touring, T
<1>10. CASE Ends(s, t, n, l)
  <2>1. v.got = w.got /\ n = 1 /\ ~ l.cursor <= Len(l.entries)
    BY <1>3, <1>10, ConcatEmptySeq DEF Ends
  <2>2. T = L /\ t.state.pending = {}
    BY <1>10 DEF Ends, T, L
  <2>3. Walk(kind, v, M, T, {})
    BY <1>2, <2>1, <2>2, WalkEnds
  <2>4. Ways(kind, Here, cwd, T, {}, Last(v.got).at)
    BY <1>2, <2>1, <2>2
  <2> QED BY <1>1, <2>2, <2>3, <2>4 DEF Touring, T
<1>11. CASE Leaves(s, t, FALSE, n, l)
  <2>1. v.got = w.got \o <<Item(l.host, TRUE)>> /\ v.done = w.done
        /\ n # 1 /\ ~ l.cursor <= Len(l.entries)
    BY <1>4, <1>11 DEF Leaves
  <2>2. T = Front(L) /\ t.state.pending = {}
    BY <1>11 DEF Leaves, T, L
  <2>3. Walk(kind, v, M, T, {})
    BY <1>2, <1>5, <1>6, <2>1, <2>2, WalkLeaves
  <2>4. DOMAIN T = 1 .. m - 1 /\ \A i \in 1 .. m - 1 : T[i] = L[i]
    BY <1>5, <1>6, <2>2, LevelsAre
  <2>5. \A i \in 1 .. m - 1 : i \in 1 .. m /\ 1 \in 1 .. m - 1
    OBVIOUS
  <2>6. Ways(kind, Here, cwd, T, {}, Last(v.got).at)
    BY <1>6, <1>8, <2>4, <2>5 DEF Ways
  <2> QED BY <1>1, <2>2, <2>3, <2>6 DEF Touring, T
<1>12. CASE Returns(s, t, FALSE, n, l)
  <2> DEFINE x == Item(Inside(l.host, e.name), FALSE)
             Q == Enterable(l, e)
  <2>1. /\ v.got = w.got \o <<x>> /\ v.done = w.done /\ l.cursor <= Len(l.entries)
        /\ t.state.pending = Q
    BY <1>4, <1>12 DEF Returns, Entry, Item
  <2>2. /\ DOMAIN T = DOMAIN L /\ \A i \in DOMAIN T : i # n => T[i] = L[i]
        /\ T[n] = [l EXCEPT !.cursor = l.cursor + 1]
    BY <1>12 DEF Returns, T, L
  <2>3. IsLevel(l) /\ LevelOf(kind, l) /\ LevelTyped(l)
    BY <1>1, <1>3, <1>5 DEF IsLevels, LevelsOf, LevelsTyped, L
  <2>4. /\ T[n].host = l.host /\ T[n].entries = l.entries /\ T[n].cursor = l.cursor + 1
        /\ T[n].amiga = l.amiga
    <3> HIDE DEF l
    <3> QED BY <2>2, <2>3 DEF IsLevel
  <2> HIDE DEF x, Q
  <2>5. Walk(kind, v, M, T, Q)
    <3> DEFINE b == l
    <3>1. b = L[m] /\ Walk(kind, w, M, L, {}) /\ m = Len(L) /\ b.cursor <= Len(b.entries)
          /\ IsLevels(T) /\ DOMAIN T = DOMAIN L /\ \A i \in DOMAIN L : i # m => T[i] = L[i]
      BY <1>2, <1>5, <1>6, <2>1, <2>2
    <3>2. T[m].host = b.host /\ T[m].entries = b.entries /\ T[m].cursor = b.cursor + 1
      BY <1>6, <2>4
    <3>3. v.got = w.got \o <<Item(Inside(b.host, b.entries[b.cursor].name), FALSE)>>
      BY <2>1 DEF x
    <3>4. v.done = w.done
      BY <2>1
    <3> HIDE DEF b, n, l
    <3> QED BY <3>1, <3>2, <3>3, <3>4, WalkReturns
  <2>6. \A i \in DOMAIN T : T[i].amiga = L[i].amiga /\ T[i].host = L[i].host
    BY <2>2, <2>4
  <2>7. Last(v.got).at = Inside(l.host, e.name)
    <3>1. x \in Seen1 /\ x.at = Inside(l.host, e.name)
      <4>1. l.host \in HostObject /\ e.name \in Names
        BY <2>1, <2>3, EntryTyped DEF LevelTyped
      <4>2. Inside(l.host, e.name) \in HostObject
        BY <4>1, PathInside
      <4> QED BY <4>2 DEF x, Item, Seen1
    <3> QED BY <1>3, <2>1, <3>1, GotOne
  <2>8. \A p \in Q : /\ p.name = T[1].amiga.name
                     /\ HostsOf(kind, Here, cwd, p) = {Inside(l.host, e.name)}
    <3> SUFFICES ASSUME NEW p \in Q
                 PROVE  p.name = l.amiga.name
                        /\ HostsOf(kind, Here, cwd, p) = {Inside(l.host, e.name)}
      BY <1>6, <1>8, <2>2, <2>6
    <3>1. p = [l.amiga EXCEPT !.comps = Append(@, e.name)]
      BY DEF Q, Enterable
    <3>2. l.cursor \in DOMAIN l.entries /\ e.name \in Names
      BY <2>1, <2>3, EntryTyped DEF LevelTyped
    <3>3. DirIn(kind, l.host) /\ Inside(l.host, e.name) \in DOMAIN kind
      BY <2>3, <3>2 DEF LevelOf
    <3>4. l.amiga \in ParsedPath /\ l.host \in HostObject
          /\ HostsOf(kind, Here, cwd, l.amiga) = {l.host}
      BY <1>1, <1>8, <2>3 DEF LevelTyped
    <3> DEFINE q == l.amiga
               h == l.host
               k == e.name
    <3>5. /\ q \in ParsedPath /\ h \in HostObject /\ HostsOf(kind, Here, cwd, q) = {h}
          /\ DirIn(kind, h) /\ k \in Names /\ Inside(h, k) \in DOMAIN kind
          /\ p = [q EXCEPT !.comps = Append(@, k)]
      BY <3>1, <3>2, <3>3, <3>4
    <3> HIDE DEF q, h, k
    <3>6. p.name = q.name /\ HostsOf(kind, Here, cwd, p) = {Inside(h, k)}
      BY <1>7, <3>5, AppendLeads
    <3> QED BY <3>6 DEF q, h, k
  <2>9. Ways(kind, Here, cwd, T, Q, Last(v.got).at)
    BY <1>6, <1>8, <2>2, <2>6, <2>7, <2>8 DEF Ways
  <2> QED BY <1>1, <2>1, <2>5, <2>9 DEF Touring, T
<1> QED BY <1>1, <1>9, <1>10, <1>11, <1>12

-----------------------------------------------------------------------------
(* The invariant: with the locks and the current directory, the paths that  *)
(* are kept, and the tour of every scan that nothing has spoilt.            *)

Typed == \A ap \in DOMAIN anchor_states : ScanTyped(anchor_states[ap])
Recorded ==
  /\ DOMAIN anchor_states \subseteq Anchors
  /\ DOMAIN tour = Anchors /\ \A ap \in Anchors : IsTour(tour[ap])
Toured ==
  \A ap \in DOMAIN anchor_states : tour[ap].same => Touring(tour[ap], anchor_states[ap])

WInv == AInv /\ HInv /\ changes \in Nat /\ Typed /\ Recorded /\ Toured

LEMMA WInvMeans == WInv => WalkIsTour
<1> SUFFICES ASSUME WInv, NEW ap \in DOMAIN anchor_states, tour[ap].same
             PROVE  LET w == tour[ap]
                        returned == {w.got[i] : i \in DOMAIN w.got}
                    IN /\ \A i, j \in DOMAIN w.got : i < j => Before(w.got[i], w.got[j])
                       /\ returned \subseteq Items(w)
                       /\ \A x \in Items(w), y \in returned : Before(x, y) => x \in returned
                       /\ w.done => Items(w) \subseteq returned
                       /\ \A p \in anchor_states[ap].pending :
                            {r.host : r \in resolve_must_exist(p)} = {Last(w.got).at}
  BY DEF WalkIsTour
<1> DEFINE w == tour[ap]
           a == anchor_states[ap]
<1>1. /\ Walk(kind, w, a.matches, a.levels, a.pending)
      /\ Ways(kind, Here, cwd, a.levels, a.pending, Last(w.got).at)
  BY DEF WInv, Toured, Touring
<1>2. ASSUME NEW p \in a.pending
      PROVE  {r.host : r \in resolve_must_exist(p)} = {Last(w.got).at}
  <2>1. HostsOf(kind, Here, cwd, p) = {Last(w.got).at}
    BY <1>1 DEF Ways
  <2>2. resolve_must_exist(p) = MustExistOf(kind, Here, cwd, p)
    BY MustExistIs DEF Here
  <2> QED BY <2>1, <2>2 DEF HostsOf
<1> HIDE DEF w
<1>3. LET returned == {w.got[i] : i \in DOMAIN w.got} IN
      /\ \A i, j \in DOMAIN w.got : i < j => Before(w.got[i], w.got[j])
      /\ returned \subseteq Items(w)
      /\ \A x \in Items(w), y \in returned : Before(x, y) => x \in returned
      /\ w.done => Items(w) \subseteq returned
  BY <1>1, WalkMeans
<1> QED BY <1>2, <1>3 DEF w

LEMMA WInvInit == AInit => WInv
<1> SUFFICES ASSUME AInit PROVE WInv
  OBVIOUS
<1>1. AInv /\ HInv
  BY AInvInit, HInvInit DEF AInit
<1>2. changes \in Nat
  BY DEF AInit, Init
<1>3. DOMAIN anchor_states = {}
  BY DEF AInit
<1>4. Recorded
  <2>1. IsTour(NoTour)
    BY DEF IsTour, NoTour
  <2> QED BY <1>3, <2>1 DEF Recorded, AInit
<1> QED BY <1>1, <1>2, <1>3, <1>4 DEF WInv, Typed, Toured

\* A call of the scans leaves the tree, the assigns and the current directory.
LEMMA ScanHome ==
  ASSUME HInv, AInv', assigns' = assigns, cwd' = cwd, Home(dos', cwd', dropped') PROVE HInv'
<1>1. Held'
  BY DEF AInv, Sound, Held
<1>2. Based'
  BY HInvFacts DEF Based, Targets
<1> QED BY <1>1, <1>2 DEF HInv

LEMMA ToursOn ==
  ASSUME AInv', HInv', UNCHANGED vfs, changes' \in Nat,
         DOMAIN tour' = Anchors, \A b \in Anchors : IsTour(tour'[b]),
         \A b \in DOMAIN anchor_states' :
           /\ b \in Anchors /\ ScanTyped(anchor_states'[b])
           /\ tour'[b].same => Touring(tour'[b], anchor_states'[b])
  PROVE  WInv'
<1>1. kind' = kind /\ assigns' = assigns /\ cwd' = cwd
  BY DEF vfs
<1>2. Here' = Here
  BY <1>1 DEF Here
<1>3. Typed' /\ Recorded'
  BY DEF Typed, Recorded
<1>4. Toured'
  <2> SUFFICES ASSUME NEW b \in DOMAIN anchor_states', tour'[b].same
               PROVE  Touring(tour[b], anchor_states[b])'
    BY DEF Toured
  <2>1. Touring(tour'[b], anchor_states'[b])
    OBVIOUS
  <2> QED BY <1>1, <1>2, <2>1 DEF Touring
<1> QED BY <1>3, <1>4 DEF WInv

\* What a tour becomes in MatchNext.
Become(w, G, D, d) == [w EXCEPT !.got = G, !.entered = D, !.done = d]

LEMMA WentIs ==
  ASSUME NEW w, IsTour(w), NEW D, NEW G, NEW d,
         NEW v, v = Become(w, G, D, d)
  PROVE  /\ v = [root |-> v.root, matches |-> v.matches, direct |-> v.direct, same |-> v.same,
                 got |-> v.got, entered |-> v.entered, done |-> v.done]
         /\ SameTour(v, w) /\ v.got = G /\ v.entered = D /\ v.same = w.same /\ v.done = d
<1>1. v = [root |-> w.root, matches |-> w.matches, direct |-> w.direct, same |-> w.same,
           got |-> G, entered |-> D, done |-> d]
  BY DEF IsTour, Become
<1>2. /\ v.root = w.root /\ v.matches = w.matches /\ v.direct = w.direct /\ v.same = w.same
      /\ v.got = G /\ v.entered = D /\ v.done = d
  BY <1>1
<1> QED BY <1>1, <1>2 DEF SameTour

LEMMA OrNot ==
  ASSUME NEW d, d \in BOOLEAN, NEW e
  PROVE  (d \/ e) \in BOOLEAN /\ (~ e => (d \/ e) = d)
<1>1. CASE d = TRUE
  BY <1>1
<1>2. CASE d = FALSE
  BY <1>2
<1> QED BY <1>1, <1>2

LEMMA SpoiltIs == IsTour(NoTour) /\ IsTour(Spoilt) /\ ~ Spoilt.same
<1>1. NoTour.same \in BOOLEAN /\ NoTour.done \in BOOLEAN
  BY DEF NoTour
<1>2. IsTour(NoTour)
  BY <1>1 DEF IsTour, NoTour
<1> DEFINE no == FALSE
<1>a. Spoilt = [NoTour EXCEPT !.same = no] /\ no \in BOOLEAN /\ ~ no
  BY DEF Spoilt
<1> HIDE DEF no
<1>3. /\ Spoilt = [root |-> NoTour.root, matches |-> NoTour.matches, direct |-> NoTour.direct,
                   same |-> no, got |-> NoTour.got, entered |-> NoTour.entered,
                   done |-> NoTour.done]
      /\ Spoilt.same = no /\ Spoilt.done = NoTour.done
  BY <1>2, <1>a DEF IsTour
<1>4. IsTour(Spoilt)
  <2>1. Spoilt.same \in BOOLEAN /\ Spoilt.done \in BOOLEAN
    BY <1>1, <1>3, <1>a
  <2> QED BY <1>3, <2>1 DEF IsTour
<1> QED BY <1>2, <1>3, <1>4, <1>a

\* Both parts of MatchNext.
LEMMA NextWalks ==
  ASSUME HInv, NEW w, IsTour(w), NEW a, IsState(a), ScanTyped(a), Touring(w, a),
         NEW s, Descends(a, s), IsState(s.state), NEW t, Proceeds(s, t, FALSE), IsState(t.state)
  PROVE  /\ Touring(Longer(w, t), t.state)
         /\ IsTour(Longer(w, t))
<1> DEFINE d == w.done \/ t.end
           G == w.got \o t.got
           D == w.entered \cup t.entered
           C == w.entered \cup s.entered
           g == w.got
           c == w.done
           u == Become(w, g, C, c)
           v == Become(w, G, D, d)
<1>1. d \in BOOLEAN /\ (~ t.end => d = c)
  <2>1. c \in BOOLEAN
    BY DEF IsTour
  <2> HIDE DEF c
  <2> QED BY <2>1, OrNot DEF c
<1>2. Longer(w, t) = v
  BY DEF Longer, Become
<1>3. D = C
  BY DEF Proceeds
<1> HIDE DEF d, G, D, C, g, c
<1>4. SameTour(u, w) /\ u.got = g /\ u.entered = C /\ u.done = c
  <2>1. u = Become(w, g, C, c)
    OBVIOUS
  <2> HIDE DEF u
  <2> QED BY <2>1, WentIs
<1>5. IsTour(v) /\ SameTour(v, w) /\ v.got = G /\ v.entered = D /\ v.done = d
  <2>1. v = Become(w, G, D, d)
    OBVIOUS
  <2> HIDE DEF v
  <2>2. /\ v = [root |-> v.root, matches |-> v.matches, direct |-> v.direct, same |-> v.same,
                got |-> v.got, entered |-> v.entered, done |-> v.done]
        /\ SameTour(v, w) /\ v.got = G /\ v.entered = D /\ v.same = w.same /\ v.done = d
    BY <2>1, WentIs
  <2>3. v.same \in BOOLEAN /\ v.done \in BOOLEAN
    BY <1>1, <2>2 DEF IsTour
  <2> QED BY <2>2, <2>3 DEF IsTour
<1> HIDE DEF u, v
<1>6. Touring(u, s.state)
  <2>1. u.entered = w.entered \cup s.entered /\ u.got = w.got /\ u.done = w.done
    BY <1>4 DEF C, g, c
  <2> QED BY <1>4, <2>1, DescendWalks
<1>7. SameTour(v, u) /\ v.entered = u.entered /\ v.got = u.got \o t.got
      /\ (~ t.end => v.done = u.done)
  <2>1. v.got = u.got \o t.got
    BY <1>4, <1>5 DEF G, g
  <2>2. ~ t.end => v.done = u.done
    BY <1>1, <1>4, <1>5
  <2> QED BY <1>3, <1>4, <1>5, <2>1, <2>2 DEF SameTour
<1>8. LevelsTyped(s.state.levels) /\ s.state.pending = {}
  <2>1. LevelsTyped(s.state.levels)
    BY DescendsTyped
  <2> QED BY <2>1 DEF Descends
<1>9. Touring(v, t.state)
  BY <1>6, <1>7, <1>8, ProceedWalks
<1> QED BY <1>2, <1>5, <1>9

\* One scan has gone on: the others are as they were.
LEMMA OneTour ==
  ASSUME WInv, AInv', HInv', UNCHANGED <<vfs, changes>>, NEW ap \in Anchors, NEW b, NEW v,
         anchor_states' = Put(anchor_states, ap, b), tour' = [tour EXCEPT ![ap] = v],
         ScanTyped(b), IsTour(v), v.same => Touring(v, b)
  PROVE  WInv'
<1> DEFINE A == anchor_states'
           W == tour'
<1>1. DOMAIN A = DOMAIN anchor_states \cup {ap} /\ A[ap] = b
      /\ \A c \in DOMAIN anchor_states : c # ap => A[c] = anchor_states[c]
  BY DEF Put
<1>2. DOMAIN tour = Anchors
  BY DEF WInv, Recorded
<1>3. DOMAIN W = Anchors /\ W[ap] = v /\ \A c \in Anchors : c # ap => W[c] = tour[c]
  BY <1>2
<1> HIDE DEF A, W
<1>4. \A c \in Anchors : IsTour(W[c])
  BY <1>3 DEF WInv, Recorded
<1>5. ASSUME NEW c \in DOMAIN A
      PROVE  c \in Anchors /\ ScanTyped(A[c]) /\ (W[c].same => Touring(W[c], A[c]))
  <2>1. CASE c = ap
    BY <1>1, <1>3, <2>1
  <2>2. CASE c # ap
    <3>1. c \in DOMAIN anchor_states /\ c \in Anchors
      BY <1>1, <2>2 DEF WInv, Recorded
    <3> QED BY <1>1, <1>3, <2>2, <3>1 DEF WInv, Typed, Toured
  <2> QED BY <2>1, <2>2
<1>6. changes' \in Nat
  BY DEF WInv
<1> QED BY <1>3, <1>4, <1>5, <1>6, ToursOn DEF A, W

LEMMA MatchNextTours == ASSUME WInv, NEW ap \in Anchors, match_next(ap) PROVE WInv'
<1> DEFINE a == anchor_states[ap]
           w == tour[ap]
<1>1. /\ HInv /\ AInv /\ ap \in DOMAIN anchor_states /\ ScanTyped(a) /\ IsTour(w)
      /\ w.same => Touring(w, a)
  BY DEF WInv, Typed, Recorded, Toured, match_next
<1>2. AInv'
  BY <1>1, MatchNextKeeps
<1>3. HInv'
  <2>1. Home(dos', cwd', dropped') /\ assigns' = assigns /\ cwd' = cwd
    BY <1>1, MatchNextHome
  <2> QED BY <1>1, <1>2, <2>1, ScanHome
<1>4. PICK s \in descended(ap), short \in MayFail(BufferShort) :
        LET t == match_next_inner(s, short) IN
        /\ anchor_states' = [anchor_states EXCEPT ![ap] = t.state]
        /\ tour' = [tour EXCEPT ![ap] =
             IF tour[ap].same /\ ~ short THEN Longer(tour[ap], t) ELSE Spoilt]
  BY DEF match_next
<1> DEFINE t == match_next_inner(s, short)
           v == IF w.same /\ ~ short THEN Longer(w, t) ELSE Spoilt
<1>5. ap \in DOMAIN tour
  BY DEF WInv, Recorded
<1>6. anchor_states' = Put(anchor_states, ap, t.state) /\ tour' = [tour EXCEPT ![ap] = v]
  <2>1. anchor_states' = [anchor_states EXCEPT ![ap] = t.state]
    BY <1>4
  <2>2. tour' = [tour EXCEPT ![ap] = v]
    BY <1>4
  <2>3. Put(anchor_states, ap, t.state) = [anchor_states EXCEPT ![ap] = t.state]
    <3> HIDE DEF t
    <3> QED BY <1>1 DEF Put
  <2> QED BY <2>1, <2>2, <2>3
<1>7. IsState(a) /\ IsStep(s) /\ Descends(a, s)
  <2>1. IsState(a)
    BY <1>1, Shares DEF AInv
  <2> QED BY <2>1, DescentCases
<1>8. IsState(s.state) /\ IsState(t.state)
  <2>1. /\ Others(anchor_states, ap) \cap Locks(a.levels) = {}
        /\ Sound(dos, held, devprocs, Others(anchor_states, ap) \cup Locks(a.levels))
    BY <1>1, Shares DEF AInv
  <2>2. Good(s, Others(anchor_states, ap), held, devprocs)
    BY <1>7, <2>1, DescendedGood
  <2>3. Good(t, Others(anchor_states, ap), held, devprocs)
    BY <2>2, InnerGood
  <2> HIDE DEF t
  <2> QED BY <2>2, <2>3 DEF Good
<1>9. Proceeds(s, t, short)
  BY <1>7, <1>8, InnerCases DEF Descends
<1>10. ScanTyped(t.state)
  <2>1. LevelsTyped(s.state.levels)
    BY <1>1, <1>7, DescendsTyped
  <2> HIDE DEF t
  <2> QED BY <1>8, <1>9, <2>1, ProceedsTyped DEF ScanTyped
<1> HIDE DEF t
<1>11. IsTour(v) /\ (v.same => Touring(v, t.state))
  <2>1. CASE w.same /\ ~ short
    <3>1. short = FALSE
      BY <2>1 DEF MayFail
    <3>2. Proceeds(s, t, FALSE)
      BY <1>9, <3>1
    <3>3. Touring(w, a)
      BY <1>1, <2>1
    <3> HIDE DEF a, w
    <3>4. /\ Touring(Longer(w, t), t.state)
          /\ IsTour(Longer(w, t))
      BY <1>1, <1>7, <1>8, <3>2, <3>3, NextWalks
    <3> QED BY <2>1, <3>4
  <2>2. CASE ~ (w.same /\ ~ short)
    BY <2>2, SpoiltIs
  <2> QED BY <2>1, <2>2
<1>12. UNCHANGED <<vfs, changes>>
  BY DEF match_next
<1> HIDE DEF v
<1> QED BY <1>2, <1>3, <1>6, <1>10, <1>11, <1>12, OneTour

\* The beginning of a scan.
BeginsAt(w, h, M, direct, x) ==
  /\ w.root = h /\ w.matches = M /\ w.direct = direct /\ w.entered = {} /\ w.done = FALSE
  /\ w.got = <<x>>

LEMMA BeginsPlain ==
  ASSUME HInv, NEW p \in ParsedPath, NEW r \in resolve_must_exist(p), NEW l, IsLevel(l),
         l.amiga = r.amiga, l.host = r.host, l.entries = <<>>, l.cursor = 1,
         NEW Q, Q \subseteq {r.amiga}, NEW a, a.matches = Names, a.levels = <<l>>, a.pending = Q,
         NEW w, BeginsAt(w, r.host, Names, TRUE, Item(r.host, FALSE))
  PROVE  Touring(w, a) /\ ScanTyped(a)
<1> DEFINE h == r.host
           q == r.amiga
           x == Item(h, FALSE)
<1>1. /\ Here \in Hosts /\ cwd \in AbsolutePath /\ r \in MustExistOf(kind, Here, cwd, p)
  BY HereIs, HInvFacts, MustExistIs DEF Here
<1>2. h \in HostObject /\ q \in AbsolutePath /\ HostsOf(kind, Here, cwd, q) = {h}
  <2>1. Result(kind, Here, cwd, r)
    BY <1>1 DEF Result
  <2>2. r.host \in HostObject /\ r.amiga \in AbsolutePath
    BY <1>1, <2>1, AbsoluteLeads
  <2>3. HostsOf(kind, Here, cwd, r.amiga) = {r.host}
    <3>1. Leads(kind, Here, cwd, r.amiga, r.host)
      BY <1>1, <2>1, AbsoluteLeads
    <3> QED BY <3>1 DEF Leads
  <2> QED BY <2>2, <2>3
<1>3. q \in ParsedPath
  BY <1>2, AbsoluteIsParsed
<1> HIDE DEF h, q
<1>4. l.amiga = q /\ l.host = h /\ Q \subseteq {q} /\ BeginsAt(w, h, Names, TRUE, x)
  BY DEF h, q
<1>5. IsLevels(<<l>>)
  BY FirstLevel
<1>6. Walk(kind, w, Names, <<l>>, Q)
  <2>1. /\ w.root = h /\ w.direct = TRUE /\ w.matches = Names /\ w.entered = {}
        /\ w.done = FALSE /\ w.got = <<Item(h, FALSE)>>
    BY <1>4 DEF BeginsAt
  <2> QED BY <1>2, <1>4, <1>5, <2>1, WalkStartsPlain
<1>7. Last(w.got).at = h
  <2>1. w.got = <<x>> /\ Len(<<x>>) = 1
    BY <1>4 DEF BeginsAt
  <2>2. x.at = h
    BY DEF Item
  <2> HIDE DEF x
  <2> QED BY <2>1, <2>2 DEF Last
<1>8. Ways(kind, Here, cwd, <<l>>, Q, h)
  <2>1. DOMAIN <<l>> = {1} /\ <<l>>[1] = l
    OBVIOUS
  <2> QED BY <1>2, <1>4, <2>1 DEF Ways
<1>9. ScanTyped(a)
  <2>1. LevelTyped(l)
    BY <1>2, <1>3, <1>4 DEF LevelTyped
  <2> QED BY <1>3, <1>4, <2>1 DEF ScanTyped, LevelsTyped
<1> QED BY <1>6, <1>7, <1>8, <1>9 DEF Touring

LEMMA BeginsWild ==
  ASSUME HInv, NEW p \in ParsedPath, NEW r \in resolve_must_exist(p), NEW M, NEW l, IsLevel(l),
         l.amiga = p, l.host = r.host, l.entries = list_and_filter(r.host, M), l.cursor = 2,
         l.entries # <<>>,
         NEW a, a.matches = M, a.levels = <<l>>, a.pending = Enterable(l, Head(l.entries)),
         NEW w, BeginsAt(w, r.host, M, FALSE, Item(Inside(r.host, Head(l.entries).name), FALSE))
  PROVE  Touring(w, a) /\ ScanTyped(a)
<1> DEFINE h == r.host
           e == l.entries[1]
           k == e.name
           o == Inside(h, k)
           x == Item(o, FALSE)
           Q == Enterable(l, e)
<1>1. /\ Here \in Hosts /\ cwd \in AbsolutePath /\ r \in MustExistOf(kind, Here, cwd, p)
  BY HereIs, HInvFacts, MustExistIs DEF Here
<1>2. h \in HostObject
  <2>1. Result(kind, Here, cwd, r)
    BY <1>1 DEF Result
  <2> QED BY <1>1, <2>1, AbsoluteLeads
<1>3. HostsOf(kind, Here, cwd, p) = {h}
  BY <1>1, FoundHosts
<1>4. Head(l.entries) = e
  OBVIOUS
<1> HIDE DEF h
<1>5. l.host = h /\ l.entries = list_and_filter(h, M) /\ l.cursor \in Nat /\ l.cursor >= 1
  BY DEF h
<1>6. /\ LevelOf(kind, l)
      /\ {l.entries[i].name : i \in DOMAIN l.entries} = Matching(kind, h, M)
  BY <1>2, <1>5, LevelFiltered
<1>7. LevelTyped(l)
  BY <1>2, <1>5, <1>6 DEF LevelOf, LevelTyped
<1>8. 1 \in DOMAIN l.entries /\ k \in Names /\ Q \subseteq ParsedPath
  <2>1. 1 \in Nat /\ 1 >= 1 /\ 1 <= Len(l.entries)
    BY <1>7 DEF LevelTyped
  <2> QED BY <1>7, <2>1, EntryTyped
<1>9. DirIn(kind, h) /\ o \in DOMAIN kind
  BY <1>5, <1>6, <1>8 DEF LevelOf
<1> HIDE DEF e
<1>10. BeginsAt(w, h, M, FALSE, x) /\ a.pending = Q
  BY <1>4 DEF h
<1>11. IsLevels(<<l>>)
  BY FirstLevel
<1>12. Walk(kind, w, M, <<l>>, Q)
  <2>1. /\ w.root = h /\ w.direct = FALSE /\ w.matches = M /\ w.entered = {}
        /\ w.done = FALSE /\ w.got = <<Item(Inside(h, Head(l.entries).name), FALSE)>>
    BY <1>4, <1>10 DEF BeginsAt
  <2> HIDE DEF Q
  <2> QED BY <1>2, <1>5, <1>6, <1>11, <2>1, WalkStartsWild
<1>13. Last(w.got).at = o
  <2>1. w.got = <<x>> /\ Len(<<x>>) = 1
    BY <1>10 DEF BeginsAt
  <2>2. x.at = o
    BY DEF Item
  <2> HIDE DEF x, o
  <2> QED BY <2>1, <2>2 DEF Last
<1>14. Ways(kind, Here, cwd, <<l>>, Q, o)
  <2>1. DOMAIN <<l>> = {1} /\ <<l>>[1] = l
    OBVIOUS
  <2>2. ASSUME NEW q \in Q PROVE q.name = p.name /\ HostsOf(kind, Here, cwd, q) = {o}
    <3>1. q = [p EXCEPT !.comps = Append(@, k)]
      BY DEF Enterable
    <3> HIDE DEF k, Q
    <3> QED BY <1>1, <1>2, <1>3, <1>8, <1>9, <3>1, AppendLeads
  <2> HIDE DEF Q, o
  <2> QED BY <1>3, <1>5, <2>1, <2>2 DEF Ways
<1>15. ScanTyped(a)
  BY <1>7, <1>8, <1>10 DEF ScanTyped, LevelsTyped
<1> QED BY <1>10, <1>12, <1>13, <1>14, <1>15 DEF Touring

LEMMA NewTourIs ==
  ASSUME NEW h, NEW M, NEW direct, NEW x, NEW w, w = NewTour(h, M, direct, x)
  PROVE  IsTour(w) /\ BeginsAt(w, h, M, direct, x)
<1> DEFINE g == <<x>>
<1> HIDE DEF g
<1>1. w = [root |-> h, matches |-> M, direct |-> direct, same |-> TRUE, got |-> g,
           entered |-> {}, done |-> FALSE]
  BY DEF NewTour, NoTour, g
<1>2. /\ w.root = h /\ w.matches = M /\ w.direct = direct /\ w.same = TRUE /\ w.got = g
      /\ w.entered = {} /\ w.done = FALSE
  BY <1>1
<1>3. w.same \in BOOLEAN /\ w.done \in BOOLEAN
  BY <1>2
<1>4. IsTour(w)
  BY <1>1, <1>2, <1>3 DEF IsTour
<1> QED BY <1>2, <1>4 DEF BeginsAt, g

LEMMA SameTours ==
  ASSUME WInv, AInv', HInv', UNCHANGED <<vfs, changes, anchor_states, tour>>
  PROVE  WInv'
<1> DEFINE A == anchor_states'
           W == tour'
<1>1. A = anchor_states /\ W = tour
  OBVIOUS
<1> HIDE DEF A, W
<1>2. /\ DOMAIN W = Anchors /\ \A c \in Anchors : IsTour(W[c])
      /\ \A c \in DOMAIN A :
           c \in Anchors /\ ScanTyped(A[c]) /\ (W[c].same => Touring(W[c], A[c]))
  BY <1>1 DEF WInv, Typed, Recorded, Toured
<1>3. changes' \in Nat
  BY DEF WInv
<1> QED BY <1>2, <1>3, ToursOn DEF A, W

LEMMA MatchFirstTours ==
  ASSUME WInv, NEW ap \in Anchors, NEW pat \in Patterns, match_first(ap, pat) PROVE WInv'
<1>1. HInv /\ AInv
  BY DEF WInv
<1>2. AInv'
  BY <1>1, MatchFirstKeeps
<1>3. HInv'
  <2>1. Home(dos', cwd', dropped') /\ assigns' = assigns /\ cwd' = cwd
    BY <1>1, MatchFirstHome
  <2> QED BY <1>1, <1>2, <2>1, ScanHome
<1>4. UNCHANGED <<vfs, changes>>
  BY DEF match_first
<1>5. pat.text \in ParsedPath /\ dir_part(pat.text) \in ParsedPath
  <2>1. pat.text \in ParsedPath
    BY AnchorsAssumption
  <2> QED BY <1>1, <2>1, HInvFacts, DirPartParsed
<1>6. CASE UNCHANGED <<anchor_states, tour>>
  BY <1>2, <1>3, <1>4, <1>6, SameTours
<1>7. CASE match_first_plain(ap, pat)
  <2>1. PICK r \in resolve_must_exist(pat.text) : \E o \in new_lock(dos, r.host, r.amiga) :
          \/ UNCHANGED <<anchor_states, tour>>
          \/ /\ anchor_states' = Put(anchor_states, ap,
                  [matches |-> Names,
                   levels |-> <<[lock |-> o.at, amiga |-> r.amiga, host |-> r.host,
                                 entries |-> <<>>, cursor |-> 1]>>,
                   pending |-> IF IsDir(r.host) THEN {r.amiga} ELSE {}])
             /\ tour' = [tour EXCEPT ![ap] = NewTour(r.host, Names, TRUE, Item(r.host, FALSE))]
    BY <1>7 DEF match_first_plain, Item
  <2>2. PICK o \in new_lock(dos, r.host, r.amiga) :
          \/ UNCHANGED <<anchor_states, tour>>
          \/ /\ anchor_states' = Put(anchor_states, ap,
                  [matches |-> Names,
                   levels |-> <<[lock |-> o.at, amiga |-> r.amiga, host |-> r.host,
                                 entries |-> <<>>, cursor |-> 1]>>,
                   pending |-> IF IsDir(r.host) THEN {r.amiga} ELSE {}])
             /\ tour' = [tour EXCEPT ![ap] = NewTour(r.host, Names, TRUE, Item(r.host, FALSE))]
    BY <2>1
  <2> DEFINE l == [lock |-> o.at, amiga |-> r.amiga, host |-> r.host, entries |-> <<>>,
                   cursor |-> 1]
             Q == IF IsDir(r.host) THEN {r.amiga} ELSE {}
             a == [matches |-> Names, levels |-> <<l>>, pending |-> Q]
             v == NewTour(r.host, Names, TRUE, Item(r.host, FALSE))
  <2>3. \/ UNCHANGED <<anchor_states, tour>>
        \/ anchor_states' = Put(anchor_states, ap, a) /\ tour' = [tour EXCEPT ![ap] = v]
    BY <2>2
  <2>4. IsLevel(l) /\ l.amiga = r.amiga /\ l.host = r.host /\ l.entries = <<>> /\ l.cursor = 1
    BY DEF IsLevel
  <2>5. Q \subseteq {r.amiga}
    OBVIOUS
  <2>6. IsTour(v) /\ BeginsAt(v, r.host, Names, TRUE, Item(r.host, FALSE))
    <3>1. v = NewTour(r.host, Names, TRUE, Item(r.host, FALSE))
      OBVIOUS
    <3> HIDE DEF v
    <3> QED BY <3>1, NewTourIs
  <2> HIDE DEF l, Q, v
  <2>7. a.matches = Names /\ a.levels = <<l>> /\ a.pending = Q
    OBVIOUS
  <2> HIDE DEF a
  <2>8. Touring(v, a) /\ ScanTyped(a)
    BY <1>1, <1>5, <2>4, <2>5, <2>6, <2>7, BeginsPlain
  <2> QED BY <1>2, <1>3, <1>4, <1>6, <2>3, <2>6, <2>8, OneTour
<1>8. CASE match_first_wild(ap, pat)
  <2> DEFINE p == dir_part(pat.text)
             M == pat.matches
  <2>1. PICK r \in resolve_must_exist(p) : \E o \in new_lock(dos, r.host, r.amiga) :
          LET E == list_and_filter(r.host, M)
              l == [lock |-> o.at, amiga |-> p, host |-> r.host, entries |-> E, cursor |-> 2]
              a == [matches |-> M, levels |-> <<l>>, pending |-> Enterable(l, Head(E))]
              x == Item(Inside(r.host, Head(E).name), FALSE)
          IN \/ UNCHANGED <<anchor_states, tour>>
             \/ /\ E # <<>> /\ anchor_states' = Put(anchor_states, ap, a)
                /\ tour' = [tour EXCEPT ![ap] = NewTour(r.host, M, FALSE, x)]
    BY <1>8 DEF match_first_wild, Item, Entry
  <2>2. PICK o \in new_lock(dos, r.host, r.amiga) :
          LET E == list_and_filter(r.host, M)
              l == [lock |-> o.at, amiga |-> p, host |-> r.host, entries |-> E, cursor |-> 2]
              a == [matches |-> M, levels |-> <<l>>, pending |-> Enterable(l, Head(E))]
              x == Item(Inside(r.host, Head(E).name), FALSE)
          IN \/ UNCHANGED <<anchor_states, tour>>
             \/ /\ E # <<>> /\ anchor_states' = Put(anchor_states, ap, a)
                /\ tour' = [tour EXCEPT ![ap] = NewTour(r.host, M, FALSE, x)]
    BY <2>1
  <2> DEFINE E == list_and_filter(r.host, M)
             l == [lock |-> o.at, amiga |-> p, host |-> r.host, entries |-> E, cursor |-> 2]
             a == [matches |-> M, levels |-> <<l>>, pending |-> Enterable(l, Head(E))]
             x == Item(Inside(r.host, Head(E).name), FALSE)
             v == NewTour(r.host, M, FALSE, x)
  <2>9. \/ UNCHANGED <<anchor_states, tour>>
        \/ /\ E # <<>> /\ anchor_states' = Put(anchor_states, ap, a)
           /\ tour' = [tour EXCEPT ![ap] = v]
    BY <2>2
  <2>3. /\ l.amiga = p /\ l.host = r.host /\ l.entries = E /\ l.cursor = 2 /\ IsLevel(l)
    <3> HIDE DEF E, p
    <3> QED BY DEF IsLevel
  <2>4. v = NewTour(r.host, M, FALSE, x) /\ E = list_and_filter(r.host, M)
    OBVIOUS
  <2>5. a = [matches |-> M, levels |-> <<l>>, pending |-> Enterable(l, Head(E))]
    OBVIOUS
  <2> HIDE DEF l, v, a, p, E, x
  <2>6. IsTour(v) /\ BeginsAt(v, r.host, M, FALSE, x)
    BY <2>4, NewTourIs
  <2>7. a.matches = M /\ a.levels = <<l>> /\ a.pending = Enterable(l, Head(E))
    BY <2>5
  <2>8. ASSUME E # <<>> PROVE Touring(v, a) /\ ScanTyped(a)
    <3>1. BeginsAt(v, r.host, M, FALSE, Item(Inside(r.host, Head(l.entries).name), FALSE))
      BY <2>3, <2>6 DEF x
    <3>2. /\ a.pending = Enterable(l, Head(l.entries)) /\ l.entries # <<>>
          /\ l.entries = list_and_filter(r.host, M)
      BY <2>3, <2>4, <2>7, <2>8
    <3>3. p \in ParsedPath
      BY <1>5 DEF p
    <3> HIDE DEF M
    <3> QED BY <1>1, <2>3, <2>7, <3>1, <3>2, <3>3, BeginsWild
  <2> QED BY <1>2, <1>3, <1>4, <1>6, <2>6, <2>8, <2>9, OneTour
<1> QED BY <1>7, <1>8 DEF match_first

LEMMA MatchEndTours == ASSUME WInv, NEW ap \in Anchors, match_end(ap) PROVE WInv'
<1>1. HInv /\ AInv
  BY DEF WInv
<1>2. AInv'
  BY <1>1, MatchEndKeeps
<1>3. HInv'
  <2>1. Home(dos', cwd', dropped') /\ assigns' = assigns /\ cwd' = cwd
    BY <1>1, MatchEndHome
  <2> QED BY <1>1, <1>2, <2>1, ScanHome
<1> DEFINE A == anchor_states'
           W == tour'
<1>4. DOMAIN A = DOMAIN anchor_states \ {ap} /\ \A c \in DOMAIN A : A[c] = anchor_states[c]
  BY DEF match_end, Dropped
<1>5. DOMAIN W = Anchors /\ W[ap] = NoTour /\ \A c \in Anchors : c # ap => W[c] = tour[c]
  BY DEF match_end, WInv, Recorded
<1> HIDE DEF A, W
<1>6. \A c \in Anchors : IsTour(W[c])
  BY <1>5, SpoiltIs DEF WInv, Recorded
<1>7. \A c \in DOMAIN A :
        c \in Anchors /\ ScanTyped(A[c]) /\ (W[c].same => Touring(W[c], A[c]))
  BY <1>4, <1>5 DEF WInv, Typed, Recorded, Toured
<1>8. UNCHANGED vfs /\ changes' \in Nat
  BY DEF match_end, WInv
<1> QED BY <1>2, <1>3, <1>5, <1>6, <1>7, <1>8, ToursOn DEF A, W

\* Every change to the tree or the assigns is counted.
LEMMA ChangesTell ==
  ASSUME changes \in Nat, Next
  PROVE  changes' \in Nat /\ (changes' = changes => kind' = kind /\ assigns' = assigns)
<1>1. CASE UNCHANGED <<kind, assigns, changes>>
  BY <1>1
<1>2. CASE changes' = changes + 1
  BY <1>2
<1>3. ASSUME NEW p \in Paths,
             \/ Lock(p) \/ GetDeviceProc(p) \/ CreateDir(p) \/ NewFile(p) \/ DeleteFile(p)
             \/ \E q \in Paths : Rename(p, q)
             \/ \E a \in DOMAIN dos.locks \cup {Zero} : LocateObject(a, p)
      PROVE  UNCHANGED <<kind, assigns, changes>> \/ changes' = changes + 1
  BY <1>3 DEF Lock, GetDeviceProc, CreateDir, NewFile, DeleteFile, Rename, LocateObject, Change, vfs
<1>4. ASSUME NEW a, UnLock(a) \/ CurrentDir(a) \/ ParentDir(a) \/ DupLock(a) \/ FreeDeviceProc(a)
      PROVE  UNCHANGED <<kind, assigns, changes>>
  BY <1>4 DEF UnLock, CurrentDir, ParentDir, DupLock, FreeDeviceProc, vfs
<1>5. ASSUME NEW a, Examine(a) \/ ExNext(a) \/ ExAllEnd \/ \E fit \in Fits : ExAll(a, fit)
      PROVE  UNCHANGED <<kind, assigns, changes>>
  BY <1>5 DEF Examine, ExNext, ExAll, ExAllEnd, vfs
<1>6. ASSUME NEW n, AssignCancel(n) \/ \E a \in held : AssignLock(n, a)
      PROVE  changes' = changes + 1
  BY <1>6 DEF AssignCancel, AssignLock, Change
<1> QED BY <1>1, <1>2, <1>3, <1>4, <1>5, <1>6 DEF Next

LEMMA OtherTours == ASSUME WInv, OtherCall PROVE WInv'
<1>1. /\ HInv /\ AInv /\ Next /\ anchor_states' = anchor_states /\ changes \in Nat
      /\ tour' = [ap \in Anchors |->
           IF /\ ap \in DOMAIN anchor_states
              /\ changes' # changes \/ (cwd' # cwd /\ FollowsCwd(ap))
           THEN Spoilt ELSE tour[ap]]
  BY DEF WInv, OtherCall
<1>2. AInv'
  BY <1>1, OtherCallKeeps
<1>3. HInv'
  BY <1>1, HStep
<1>4. changes' \in Nat /\ (changes' = changes => kind' = kind /\ assigns' = assigns)
  BY <1>1, ChangesTell
<1>5. Recorded'
  <2>1. \A ap \in Anchors : IsTour(tour'[ap])
    BY <1>1, SpoiltIs DEF WInv, Recorded
  <2> QED BY <1>1, <2>1 DEF WInv, Recorded
<1>6. Typed'
  BY <1>1 DEF WInv, Typed
<1>7. Toured'
  <2> SUFFICES ASSUME NEW ap \in DOMAIN anchor_states, tour'[ap].same
               PROVE  Touring(tour[ap], anchor_states[ap])'
    BY <1>1 DEF Toured
  <2> DEFINE a == anchor_states[ap]
             w == tour[ap]
             L == a.levels
             P == a.pending
             o == Last(w.got).at
  <2>1. ap \in Anchors
    BY DEF WInv, Recorded
  <2>2. /\ tour'[ap] = w /\ changes' = changes /\ (cwd' = cwd \/ ~ FollowsCwd(ap))
        /\ anchor_states'[ap] = a
    BY <1>1, <2>1, SpoiltIs
  <2>3. kind' = kind /\ assigns' = assigns
    BY <1>4, <2>2
  <2>4. Walk(kind, w, a.matches, L, P) /\ Ways(kind, Here, cwd, L, P, o)
    BY <2>2 DEF WInv, Toured, Touring
  <2>5. Here' = TargetsOf(assigns, cwd'.name)
    BY <2>3 DEF Here
  <2>6. Ways(kind, Here', cwd', L, P, o)
    <3>1. CASE cwd' = cwd
      BY <2>4, <2>5, <3>1 DEF Here
    <3>2. CASE ~ FollowsCwd(ap)
      <4>1. ~ Relative(L[1].amiga) /\ Fixed(assigns)
        <5>1. IsLevels(L)
          BY <1>1, Shares DEF AInv, IsState
        <5>2. Head(L) = L[1]
          BY <5>1 DEF IsLevels
        <5> QED BY <3>2, <5>2 DEF FollowsCwd, Fixed
      <4>2. /\ AssignsIn(assigns) /\ cwd.name \in Volumes \cup AssignNames
            /\ cwd'.name \in Volumes \cup AssignNames
        <5>1. cwd \in AbsolutePath /\ cwd' \in AbsolutePath /\ Targets
          BY <1>1, <1>3 DEF HInv, Based
        <5> QED BY <5>1 DEF AssignsIn, Targets, AbsolutePath
      <4>3. Here' = Here
        BY <2>5, <4>1, <4>2, TargetsType DEF Here
      <4>4. Ways(kind, Here, cwd', L, P, o)
        <5> HIDE DEF L, P, o
        <5> QED BY <2>4, <4>1, WaysFixed
      <4> QED BY <4>3, <4>4
    <3> QED BY <2>2, <3>1, <3>2
  <2> QED BY <2>2, <2>3, <2>4, <2>6 DEF Touring
<1> QED BY <1>2, <1>3, <1>4, <1>5, <1>6, <1>7 DEF WInv

LEMMA WStep == WInv /\ [ANext]_avars => WInv'
<1> SUFFICES ASSUME WInv, [ANext]_avars PROVE WInv'
  OBVIOUS
<1>1. CASE OtherCall
  BY <1>1, OtherTours
<1>2. ASSUME NEW ap \in Anchors, NEW pat \in Patterns, match_first(ap, pat) PROVE WInv'
  BY <1>2, MatchFirstTours
<1>3. ASSUME NEW ap \in Anchors, match_next(ap) PROVE WInv'
  BY <1>3, MatchNextTours
<1>4. ASSUME NEW ap \in Anchors, match_end(ap) PROVE WInv'
  BY <1>4, MatchEndTours
<1>5. ASSUME UNCHANGED <<vars, anchor_states, tour>> PROVE WInv'
  <2>1. AInv' /\ HInv'
    <3>1. [Next]_vars /\ anchor_states' = anchor_states
      BY <1>5
    <3> QED BY <3>1, OtherCallKeeps, HStep DEF WInv
  <2>2. UNCHANGED <<vfs, changes, anchor_states, tour>>
    BY <1>5 DEF vars, calls
  <2> QED BY <2>1, <2>2, SameTours
<1>6. ASSUME NEW ap \in Anchors, SetDoDir(ap) PROVE WInv'
  BY <1>5, <1>6 DEF SetDoDir
<1>7. CASE UNCHANGED avars
  BY <1>5, <1>7 DEF avars, anchors
<1> QED BY <1>1, <1>2, <1>3, <1>4, <1>6, <1>7 DEF ANext

\* For every tree, every assigns, all patterns and all descents the program asks
\* for: until a change or a short buffer comes between, the calls of MatchFirst
\* and MatchNext return the tour of the tree, in order, once each and with
\* nothing left out, and a descent enters the directory returned last
\* (dosanchor.rs match_first, match_next, match_next_inner).
THEOREM ToursAreWhole == ASpec => []WalkIsTour
BY WInvInit, WStep, WInvMeans, PTL DEF ASpec

\* The current directory is as CurrentDir left it also while scans take locks,
\* give them back and end (dosanchor.rs match_next_inner, match_end).
THEOREM CurrentDirIsKeptByScans == ASpec => []CurrentDirKept
<1>1. WInv => CurrentDirKept
  BY HInvMeans DEF WInv
<1> QED BY WInvInit, WStep, <1>1, PTL DEF ASpec
=============================================================================
