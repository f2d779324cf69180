--------------------------- MODULE DosFilesProofs ---------------------------
(***************************************************************************)
(* HandlesOwned, PosInFile and NextByteOwn of DosFiles for any addresses,  *)
(* files and bounds.  The blocks and the positions are one invariant,      *)
(* FileInv: a position is in its file because a handle with a file has one *)
(* that is there.  The push-back needs that a closed address has nothing   *)
(* pushed back (PushInv), which is what a tidy guest is for; the command   *)
(* lines need only that each saved position is what was taken (LineInv).   *)
(*                                                                         *)
(* And SegmentsSound of DosSegs for any programs, overlay trees and heap.  *)
(* SegsInv says of a tree that is live that its hunks are where they are   *)
(* registered as far as nodes are resident (LiveOk), which is enough       *)
(* because the numbers go on down the tree: what is displaced or freed is  *)
(* never above a resident hunk.  Of a node's pointers to what was not      *)
(* resident it says nothing: UnloadedRefused, which would, does not hold.  *)
(***************************************************************************)
EXTENDS DosFiles, DosSegs, FiniteSetTheorems, SequenceTheorems, WellFoundedInduction, TLAPS

Record ==
  {None, Kind("stdin"), Kind("stdout"), Kind("nil")}
    \union [kind : {"file"}, file : Files, pos : Nat]

FileTypes ==
  /\ disk \in [Files -> {NULL} \union Nat]
  /\ handles \in [Addrs -> Record]
  /\ blocks \subseteq Addrs /\ objects \subseteq Addrs

\* HandlesOwned, and that the default handles are no DOS objects.
Owned ==
  /\ blocks = Open \union objects
  /\ failed = FALSE
  /\ handles[stdin].kind = "stdin" /\ handles[stdout].kind = "stdout"
  /\ {stdin, stdout} \cap objects = {}

\* A handle with a file has one that is there, and PosInFile.
PlacedAt(a) ==
  handles[a].kind = "file" =>
    /\ disk[handles[a].file] # NULL
    /\ a \notin short => handles[a].pos <= disk[handles[a].file]
Placed == \A a \in Addrs : PlacedAt(a)

FileInv == FileTypes /\ Owned /\ Placed

-----------------------------------------------------------------------------
(* Handles. *)

LEMMA HandleKinds ==
  ASSUME NEW h \in Record
  PROVE  /\ h.kind = "none" <=> h = None
         /\ h.kind = "file" <=> h.file \in Files
         /\ h.kind = "file" => /\ h.pos \in Nat
                               /\ h = [kind |-> "file", file |-> h.file, pos |-> h.pos]
<1>1. CASE h \in [kind : {"file"}, file : Files, pos : Nat]
  BY <1>1 DEF None
<1>2. CASE h \in {None, Kind("stdin"), Kind("stdout"), Kind("nil")}
  BY <1>2, NullAssumption DEF None, Kind
<1> QED BY <1>1, <1>2 DEF Record

LEMMA HostFileKind ==
  ASSUME NEW f \in Files
  PROVE  HostFile(f) \in Record /\ HostFile(f).kind = "file" /\ HostFile(f).file = f
                     /\ HostFile(f).pos = 0
BY DEF HostFile, Record

LEMMA MovedHandle ==
  ASSUME handles \in [Addrs -> Record], NEW a \in Addrs, handles[a].kind = "file", NEW n \in Nat
  PROVE  /\ Moved(a, n) \in [Addrs -> Record]
         /\ Moved(a, n)[a].kind = "file" /\ Moved(a, n)[a].file = handles[a].file
         /\ Moved(a, n)[a].pos = n
         /\ \A b \in Addrs \ {a} : Moved(a, n)[b] = handles[b]
<1>1. handles[a] \in Record
  OBVIOUS
<1>2. handles[a].file \in Files
      /\ handles[a] = [kind |-> "file", file |-> handles[a].file, pos |-> handles[a].pos]
  BY <1>1, HandleKinds
<1>3. [handles[a] EXCEPT !.pos = n] = [kind |-> "file", file |-> handles[a].file, pos |-> n]
  BY <1>2
<1>4. [handles[a] EXCEPT !.pos = n] \in Record
  BY <1>2, <1>3 DEF Record
<1>5. Moved(a, n) = [handles EXCEPT ![a] = [handles[a] EXCEPT !.pos = n]]
  BY DEF Moved
<1> QED BY <1>3, <1>4, <1>5

LEMMA LeastOfTwo ==
  ASSUME NEW x \in Nat, NEW y \in Nat
  PROVE  Least({x, y}) \in Nat /\ Least({x, y}) <= x /\ Least({x, y}) <= y
<1>1. \E i \in {x, y} : \A j \in {x, y} : i <= j
  BY SMT
<1>2. Least({x, y}) \in {x, y} /\ \A j \in {x, y} : Least({x, y}) <= j
  BY <1>1 DEF Least
<1> QED BY <1>2

LEMMA OpenedLength ==
  ASSUME FileTypes, NEW f \in Files, NEW mode \in Modes, Opened(f, mode) # NULL
  PROVE  Opened(f, mode) \in Nat
<1>1. disk[f] \in {NULL} \union Nat
  BY DEF FileTypes
<1>2. CASE mode = "old"       BY <1>1, <1>2 DEF Opened
<1>3. CASE mode = "new"       BY <1>1, <1>3 DEF Opened
<1>4. CASE mode = "readwrite" BY <1>1, <1>4 DEF Opened
<1> QED BY <1>2, <1>3, <1>4 DEF Modes

\* A file of another length: the handle that made it so is in it, the others
\* are in it, or marked.
LEMMA ResizedPlaces ==
  ASSUME FileTypes, Placed, NEW f \in Files, NEW n \in Nat, NEW a, NEW h \in [Addrs -> Record],
         \A b \in Addrs \ {a} : h[b] = handles[b],
         a \in Addrs => h[a].kind = "file" /\ h[a].file = f /\ h[a].pos <= n,
         Resized(f, n, h, a)
  PROVE  disk' \in [Files -> {NULL} \union Nat] /\ handles' = h /\ Placed'
<1>1. /\ disk' = [disk EXCEPT ![f] = n] /\ handles' = h
      /\ short' = (short \ {a}) \union {b \in Sharing(f) \ {a} : handles[b].pos > n}
  BY DEF Resized
<1>2. disk' \in [Files -> {NULL} \union Nat] /\ disk'[f] = n
      /\ \A g \in Files \ {f} : disk'[g] = disk[g]
  BY <1>1 DEF FileTypes
<1>3. Placed'
  <2> SUFFICES ASSUME NEW b \in Addrs, h[b].kind = "file"
               PROVE  /\ disk'[h[b].file] # NULL
                      /\ b \notin short' => h[b].pos <= disk'[h[b].file]
    BY <1>1 DEF Placed, PlacedAt
  <2>1. CASE b = a
    BY <2>1, <1>2, NullAssumption
  <2>2. CASE b # a
    <3>1. h[b] = handles[b] /\ handles[b] \in Record
      BY <2>2 DEF FileTypes
    <3>2. h[b].file \in Files /\ h[b].pos \in Nat
      BY <3>1, HandleKinds
    <3>3. disk[h[b].file] # NULL /\ (b \notin short => h[b].pos <= disk[h[b].file])
      BY <3>1 DEF Placed, PlacedAt
    <3>4. CASE h[b].file = f
      <4>1. b \in Sharing(f) \ {a}
        BY <2>2, <3>1, <3>4 DEF Sharing
      <4> QED BY <4>1, <3>1, <3>2, <3>4, <1>1, <1>2, NullAssumption
    <3>5. CASE h[b].file # f
      BY <2>2, <3>2, <3>3, <3>5, <1>1, <1>2
    <3> QED BY <3>4, <3>5
  <2> QED BY <2>1, <2>2
<1> QED BY <1>1, <1>2, <1>3

\* A handle that moves stays open, or shut.
LEMMA SameKinds ==
  ASSUME FileInv, NEW h \in [Addrs -> Record], handles' = h,
         \A b \in Addrs : h[b].kind = handles[b].kind,
         UNCHANGED <<blocks, objects, failed>>
  PROVE  Owned' /\ Open' = Open
<1>1. \A b \in Addrs : (h[b] = None <=> handles[b] = None)
  BY HandleKinds DEF FileInv, FileTypes
<1>2. Open' = Open
  BY <1>1 DEF Open
<1>3. stdin \in Addrs /\ stdout \in Addrs
  BY AddrAssumption
<1> QED BY <1>2, <1>3 DEF FileInv, Owned

LEMMA InvInit == Init => FileInv
<1> SUFFICES ASSUME Init PROVE FileInv
  OBVIOUS
<1>1. FileTypes
  BY AddrAssumption, BoundAssumption DEF Init, FileTypes, Record, None, Kind
<1>2. /\ handles[stdin] = Kind("stdin") /\ handles[stdout] = Kind("stdout")
      /\ \A a \in Addrs \ {stdin, stdout} : handles[a] = None
  BY AddrAssumption DEF Init
<1>3. Kind("stdin") # None /\ Kind("stdout") # None
      /\ Kind("stdin").kind = "stdin" /\ Kind("stdout").kind = "stdout"
      /\ None.kind = "none"
  BY DEF Kind, None
<1>4. Open = {stdin, stdout}
  BY <1>2, <1>3, AddrAssumption DEF Open
<1>5. Owned
  BY <1>2, <1>3, <1>4 DEF Owned, Init
<1>6. Placed
  BY <1>2, <1>3 DEF Placed, PlacedAt
<1> QED BY <1>1, <1>5, <1>6 DEF FileInv

\* A handle of a host file in a block that had none.
LEMMA Placing ==
  ASSUME FileInv, NEW a \in Addrs, handles[a] = None, NEW h \in Record, h.kind # "none",
         handles' = [handles EXCEPT ![a] = h], UNCHANGED <<objects, failed>>,
         blocks' = blocks \union {a}
  PROVE  Owned'
<1>1. handles \in [Addrs -> Record] /\ stdin \in Addrs /\ stdout \in Addrs
  BY AddrAssumption DEF FileInv, FileTypes
<1>2. h # None
  BY HandleKinds
<1>3. handles'[a] = h /\ \A b \in Addrs \ {a} : handles'[b] = handles[b]
  BY <1>1
<1>4. Open' = Open \union {a}
  BY <1>2, <1>3 DEF Open
<1>5. a # stdin /\ a # stdout
  BY DEF FileInv, Owned, None
<1> QED BY <1>1, <1>3, <1>4, <1>5 DEF FileInv, Owned

\* A handle goes.
LEMMA Clearing ==
  ASSUME FileInv, NEW a \in Addrs \ {stdin, stdout},
         handles' = [handles EXCEPT ![a] = None], disk' = disk, short' = short \ {a}
  PROVE  /\ handles' \in [Addrs -> Record] /\ Placed'
         /\ Open' = Open \ {a}
         /\ handles'[stdin] = handles[stdin] /\ handles'[stdout] = handles[stdout]
<1>1. handles \in [Addrs -> Record] /\ stdin \in Addrs /\ stdout \in Addrs /\ None \in Record
      /\ None.kind = "none"
  BY AddrAssumption DEF FileInv, FileTypes, Record, None
<1>2. handles'[a] = None /\ \A b \in Addrs \ {a} : handles'[b] = handles[b]
  BY <1>1
<1>3. Placed'
  BY <1>1, <1>2 DEF FileInv, Placed, PlacedAt
<1> QED BY <1>1, <1>2, <1>3 DEF Open

\* A handle is moved in its file.
LEMMA Moving ==
  ASSUME FileInv, NEW a \in Addrs, handles[a].kind = "file", NEW n \in Nat,
         handles' = Moved(a, n), a \notin short' => n <= disk[handles[a].file],
         short' \in {short, short \ {a}},
         UNCHANGED <<disk, blocks, objects, failed>>
  PROVE  FileInv'
<1>1. /\ Moved(a, n) \in [Addrs -> Record]
      /\ Moved(a, n)[a].kind = "file" /\ Moved(a, n)[a].file = handles[a].file
      /\ Moved(a, n)[a].pos = n
      /\ \A b \in Addrs \ {a} : Moved(a, n)[b] = handles[b]
  BY MovedHandle DEF FileInv, FileTypes
<1>2. Owned'
  <2>1. \A b \in Addrs : Moved(a, n)[b].kind = handles[b].kind
    BY <1>1
  <2> QED BY <1>1, <2>1, SameKinds
<1>3. Placed'
  BY <1>1 DEF FileInv, Placed, PlacedAt
<1> QED BY <1>1, <1>2, <1>3 DEF FileInv, FileTypes

\* A step that is about neither.
LEMMA NotMoving ==
  FileInv /\ UNCHANGED <<disk, handles, blocks, objects, short, failed>> => FileInv'
BY DEF FileInv, FileTypes, Owned, Open, Placed, PlacedAt

\* A byte read from the file or the command line.
LEMMA ReadingByte ==
  ASSUME FileInv, NEW a \in Addrs, read_buffered_byte(a),
         UNCHANGED <<disk, blocks, objects, short, failed>>
  PROVE  FileInv'
<1>1. CASE ~FromLine(a) /\ InHostFile(a)
  <2>1. handles[a].kind = "file" /\ handles[a].pos < disk[handles[a].file]
        /\ handles' = Moved(a, handles[a].pos + 1)
    BY <1>1 DEF InHostFile, read_buffered_byte
  <2>2. handles[a] \in Record
    BY DEF FileInv, FileTypes
  <2>3. handles[a].pos \in Nat /\ handles[a].file \in Files
    BY <2>1, <2>2, HandleKinds
  <2>4. disk[handles[a].file] \in Nat
    BY <2>1, <2>3 DEF FileInv, FileTypes, Placed, PlacedAt
  <2>5. handles[a].pos + 1 \in Nat /\ handles[a].pos + 1 <= disk[handles[a].file]
    BY <2>1, <2>3, <2>4
  <2> QED BY <2>1, <2>5, Moving
<1>2. CASE FromLine(a) \/ ~InHostFile(a)
  <2>1. handles' = handles
    BY <1>2 DEF read_buffered_byte
  <2> QED BY <2>1, NotMoving
<1> QED BY <1>1, <1>2

LEMMA OpenStep ==
  ASSUME FileInv, NEW f \in Files, NEW mode \in Modes, open(f, mode)
  PROVE  FileInv'
<1> DEFINE n == Opened(f, mode)
<1>1. n \in Nat
  BY OpenedLength DEF open, FileInv
<1>2. FileTypes /\ Placed /\ handles \in [Addrs -> Record] /\ UNCHANGED <<objects, failed>>
  BY DEF FileInv, FileTypes, open
<1>3. HostFile(f) \in Record /\ HostFile(f).kind = "file" /\ HostFile(f).file = f
      /\ HostFile(f).pos = 0
  BY HostFileKind
<1>4. ASSUME NEW a \in Addrs, alloc_file_handle(a),
             Resized(f, n, [handles EXCEPT ![a] = HostFile(f)], a)
      PROVE  FileInv'
  <2> DEFINE h == [handles EXCEPT ![a] = HostFile(f)]
  <2>1. h \in [Addrs -> Record] /\ h[a] = HostFile(f) /\ \A b \in Addrs \ {a} : h[b] = handles[b]
    BY <1>2, <1>3
  <2>2. blocks' = blocks \union {a} /\ handles[a] = None
    BY <1>4 DEF alloc_file_handle, FileInv, Owned, Open
  <2>3. Resized(f, n, h, a)
    BY <1>4
  <2> HIDE DEF h, n
  <2>4. h[a].kind = "file" /\ h[a].file = f /\ h[a].pos <= n
    BY <1>1, <1>3, <2>1
  <2>5. disk' \in [Files -> {NULL} \union Nat] /\ handles' = h /\ Placed'
    BY <1>1, <1>2, <2>1, <2>3, <2>4, ResizedPlaces
  <2>6. HostFile(f).kind # "none" /\ handles' = [handles EXCEPT ![a] = HostFile(f)]
    BY <1>3, <2>5 DEF h
  <2>7. Owned'
    BY <1>2, <1>3, <2>2, <2>6, Placing
  <2> QED BY <1>2, <2>1, <2>2, <2>5, <2>7 DEF FileInv, FileTypes
<1>5. ASSUME Resized(f, n, handles, NULL), UNCHANGED blocks
      PROVE  FileInv'
  <2>1. Resized(f, n, handles, NULL)
    BY <1>5
  <2> HIDE DEF n
  <2>2. disk' \in [Files -> {NULL} \union Nat] /\ handles' = handles /\ Placed'
    BY <1>1, <1>2, <2>1, NullAssumption, ResizedPlaces
  <2> QED BY <1>2, <1>5, <2>2 DEF FileInv, FileTypes, Owned, Open
<1> QED BY <1>4, <1>5 DEF open

LEMMA OpenNilStep == ASSUME FileInv, open_nil PROVE FileInv'
<1>1. PICK a \in Addrs : /\ alloc_file_handle(a)
                         /\ handles' = [handles EXCEPT ![a] = Kind("nil")]
                         /\ short' = short \ {a}
  BY DEF open_nil
<1>2. UNCHANGED <<disk, objects, failed>>
  BY DEF open_nil
<1>3. Kind("nil") \in Record /\ Kind("nil").kind = "nil"
  BY DEF Record, Kind
<1>4. handles[a] = None /\ blocks' = blocks \union {a}
  BY <1>1 DEF alloc_file_handle, FileInv, Owned, Open
<1>5. Owned'
  BY <1>1, <1>2, <1>3, <1>4, Placing
<1>6. FileTypes'
  BY <1>1, <1>2, <1>3, <1>4 DEF FileInv, FileTypes
<1>7. Placed'
  BY <1>1, <1>2, <1>3 DEF FileInv, FileTypes, Placed, PlacedAt
<1> QED BY <1>5, <1>6, <1>7 DEF FileInv

LEMMA OpenIntoStep ==
  ASSUME FileInv, NEW a \in Addrs, NEW f \in Files, NEW mode \in Modes,
         open_into_handle(a, f, mode)
  PROVE  FileInv'
<1> DEFINE n == Opened(f, mode)
           h == [handles EXCEPT ![a] = HostFile(f)]
<1>1. n \in Nat
  BY OpenedLength DEF open_into_handle, FileInv
<1>2. /\ FileTypes /\ Placed /\ handles \in [Addrs -> Record]
      /\ UNCHANGED <<blocks, objects, failed>>
      /\ a \in objects /\ handles[a] = None /\ Resized(f, n, h, a)
  BY DEF FileInv, FileTypes, open_into_handle
<1>3. HostFile(f) \in Record /\ HostFile(f).kind = "file" /\ HostFile(f).file = f
      /\ HostFile(f).pos = 0
  BY HostFileKind
<1>4. h \in [Addrs -> Record] /\ h[a] = HostFile(f) /\ \A b \in Addrs \ {a} : h[b] = handles[b]
  BY <1>2, <1>3
<1> HIDE DEF h, n
<1>5. disk' \in [Files -> {NULL} \union Nat] /\ handles' = h /\ Placed'
  BY <1>1, <1>2, <1>3, <1>4, ResizedPlaces
<1>6. blocks' = blocks \union {a}
  BY <1>2 DEF FileInv, Owned
<1>7. HostFile(f).kind # "none" /\ handles' = [handles EXCEPT ![a] = HostFile(f)]
  BY <1>3, <1>5 DEF h
<1>8. Owned'
  BY <1>2, <1>3, <1>6, <1>7, Placing
<1> QED BY <1>2, <1>4, <1>5, <1>8 DEF FileInv, FileTypes

LEMMA CloseStep == ASSUME FileInv, NEW a \in Addrs, close(a) PROVE FileInv'
<1>1. CASE a \in {stdin, stdout}
  <2>1. UNCHANGED <<disk, handles, blocks, objects, short, failed>>
    BY <1>1 DEF close
  <2> QED BY <2>1, NotMoving
<1>2. CASE a \notin {stdin, stdout}
  <2>1. /\ handles' = [handles EXCEPT ![a] = None] /\ short' = short \ {a}
        /\ blocks' = FreedBlocks(a) /\ UNCHANGED <<disk, objects, failed>>
    BY <1>2 DEF close
  <2>2. /\ handles' \in [Addrs -> Record] /\ Placed' /\ Open' = Open \ {a}
        /\ handles'[stdin] = handles[stdin] /\ handles'[stdout] = handles[stdout]
    BY <1>2, <2>1, Clearing
  <2>3. blocks' = Open' \union objects'
    BY <2>1, <2>2 DEF FreedBlocks, FileInv, Owned
  <2>4. blocks' \subseteq Addrs
    BY <2>1 DEF FreedBlocks, FileInv, FileTypes
  <2> QED BY <2>1, <2>2, <2>3, <2>4 DEF FileInv, FileTypes, Owned
<1> QED BY <1>1, <1>2

LEMMA FreeObjectStep ==
  ASSUME FileInv, NEW a \in Addrs, free_dos_object_handler(a)
  PROVE  FileInv'
<1>1. a \in objects /\ a \in blocks /\ a \notin {stdin, stdout}
  BY DEF free_dos_object_handler, FileInv, Owned
<1>2. /\ handles' = [handles EXCEPT ![a] = None] /\ short' = short \ {a}
      /\ objects' = objects \ {a} /\ blocks' = blocks \ {a} /\ UNCHANGED <<disk, failed>>
  BY <1>1 DEF free_dos_object_handler
<1>3. /\ handles' \in [Addrs -> Record] /\ Placed' /\ Open' = Open \ {a}
      /\ handles'[stdin] = handles[stdin] /\ handles'[stdout] = handles[stdout]
  BY <1>1, <1>2, Clearing
<1> QED BY <1>2, <1>3 DEF FileInv, FileTypes, Owned

LEMMA AllocObjectStep == ASSUME FileInv, alloc_dos_object_handler PROVE FileInv'
<1>1. PICK a \in Addrs : alloc_file_handle(a) /\ objects' = objects \union {a}
  BY DEF alloc_dos_object_handler
<1>2. a \notin blocks /\ blocks' = blocks \union {a} /\ UNCHANGED <<disk, handles, short, failed>>
  BY <1>1 DEF alloc_file_handle, alloc_dos_object_handler
<1>3. stdin \in blocks /\ stdout \in blocks
  BY AddrAssumption DEF FileInv, Owned, Open, None
<1>4. Owned'
  BY <1>1, <1>2, <1>3 DEF FileInv, Owned, Open
<1> QED BY <1>1, <1>2, <1>4 DEF FileInv, FileTypes, Placed, PlacedAt

\* The length of the file of a handle, and its position.
LEMMA HandleOnFile ==
  ASSUME FileInv, NEW a \in Addrs, handles[a].kind = "file"
  PROVE  /\ handles[a].file \in Files /\ handles[a].pos \in Nat
         /\ disk[handles[a].file] \in Nat
         /\ a \notin short => handles[a].pos <= disk[handles[a].file]
<1>1. handles[a] \in Record
  BY DEF FileInv, FileTypes
<1>2. handles[a].file \in Files /\ handles[a].pos \in Nat
  BY <1>1, HandleKinds
<1> QED BY <1>2 DEF FileInv, FileTypes, Placed, PlacedAt

LEMMA ReadStep ==
  ASSUME FileInv, NEW a \in Addrs, NEW n \in 0 .. MaxLen, read(a, n)
  PROVE  FileInv'
<1> DEFINE p == handles[a].pos
           len == disk[handles[a].file]
           left == IF len > p THEN len - p ELSE 0
<1>1. handles[a].kind = "file" /\ handles' = Moved(a, p + Least({n, left}))
      /\ UNCHANGED <<disk, blocks, objects, short, failed>>
  BY DEF read
<1>2. p \in Nat /\ len \in Nat /\ (a \notin short => p <= len)
  BY <1>1, HandleOnFile
<1>3. n \in Nat
  BY BoundAssumption
<1>4. left \in Nat /\ (p <= len => left = len - p)
  BY <1>2
<1>5. Least({n, left}) \in Nat /\ Least({n, left}) <= left
  BY <1>3, <1>4, LeastOfTwo
<1> HIDE DEF p, left
<1>6. p + Least({n, left}) \in Nat /\ (a \notin short => p + Least({n, left}) <= len)
  BY <1>2, <1>4, <1>5
<1> QED BY <1>1, <1>6, Moving

LEMMA SeekStep ==
  ASSUME FileInv, NEW a \in Addrs, NEW t \in -1 .. MaxLen + 1, seek(a, t)
  PROVE  FileInv'
<1>1. /\ handles[a].kind = "file" /\ InFile(t, disk[handles[a].file]) /\ handles' = Moved(a, t)
      /\ short' = short \ {a} /\ UNCHANGED <<disk, blocks, objects, failed>>
  BY DEF seek
<1>2. t \in Nat /\ t <= disk[handles[a].file]
  BY <1>1, BoundAssumption DEF InFile
<1> QED BY <1>1, <1>2, Moving

LEMMA SetSizeStep ==
  ASSUME FileInv, NEW a \in Addrs, NEW t \in -1 .. MaxLen + 1, set_file_size(a, t)
  PROVE  FileInv'
<1> DEFINE f == handles[a].file
           p == Least({handles[a].pos, t})
           h == Moved(a, p)
<1>1. /\ handles[a].kind = "file" /\ Resized(f, t, h, a)
      /\ t \in Nat /\ UNCHANGED <<blocks, objects, failed>>
  BY BoundAssumption DEF set_file_size
<1>2. f \in Files /\ handles[a].pos \in Nat
  BY <1>1, HandleOnFile
<1>3. p \in Nat /\ p <= t
  BY <1>1, <1>2, LeastOfTwo
<1> HIDE DEF p
<1>4. handles \in [Addrs -> Record] /\ FileTypes /\ Placed
  BY DEF FileInv, FileTypes
<1>5. /\ h \in [Addrs -> Record] /\ h[a].kind = "file" /\ h[a].file = f /\ h[a].pos = p
      /\ \A b \in Addrs \ {a} : h[b] = handles[b]
  BY <1>1, <1>3, <1>4, MovedHandle
<1> HIDE DEF h, f
<1>6. disk' \in [Files -> {NULL} \union Nat] /\ handles' = h /\ Placed'
  BY <1>1, <1>2, <1>3, <1>4, <1>5, ResizedPlaces
<1>7. \A b \in Addrs : h[b].kind = handles[b].kind
  BY <1>1, <1>5
<1>8. Owned'
  BY <1>1, <1>5, <1>6, <1>7, SameKinds
<1> QED BY <1>1, <1>4, <1>5, <1>6, <1>8 DEF FileInv, FileTypes

LEMMA WriteStep ==
  ASSUME FileInv, NEW a \in Addrs, NEW n \in 0 .. MaxLen, write(a, n)
  PROVE  FileInv'
<1> DEFINE f == handles[a].file
           end == handles[a].pos + n
           len == IF end > disk[f] THEN end ELSE disk[f]
<1>1. /\ handles[a].kind = "file" /\ handles' = Moved(a, end) /\ n \in Nat
      /\ disk' = [disk EXCEPT ![f] = len]
      /\ short' = {b \in short \ {a} : handles[b].file = f => handles[b].pos > disk'[f]}
      /\ UNCHANGED <<blocks, objects, failed>>
  BY BoundAssumption DEF write
<1>2. f \in Files /\ handles[a].pos \in Nat /\ disk[f] \in Nat
  BY <1>1, HandleOnFile
<1>3. end \in Nat /\ len \in Nat /\ end <= len /\ disk[f] <= len
  BY <1>1, <1>2
<1>4. handles \in [Addrs -> Record] /\ disk \in [Files -> {NULL} \union Nat]
  BY DEF FileInv, FileTypes
<1> HIDE DEF end, len, f
<1>5. disk' \in [Files -> {NULL} \union Nat] /\ disk'[f] = len
      /\ \A g \in Files \ {f} : disk'[g] = disk[g]
  BY <1>1, <1>2, <1>3, <1>4
<1>6. /\ handles' \in [Addrs -> Record]
      /\ handles'[a].kind = "file" /\ handles'[a].file = f /\ handles'[a].pos = end
      /\ \A b \in Addrs \ {a} : handles'[b] = handles[b]
  BY <1>1, <1>3, <1>4, MovedHandle DEF f
<1>7. Owned'
  <2>1. \A b \in Addrs : handles'[b].kind = handles[b].kind
    BY <1>1, <1>6
  <2> QED BY <1>1, <1>6, <2>1, SameKinds
<1>8. Placed'
  <2> SUFFICES ASSUME NEW b \in Addrs, handles'[b].kind = "file"
               PROVE  /\ disk'[handles'[b].file] # NULL
                      /\ b \notin short' => handles'[b].pos <= disk'[handles'[b].file]
    BY DEF Placed, PlacedAt
  <2>1. CASE b = a
    BY <2>1, <1>3, <1>5, <1>6, NullAssumption
  <2>2. CASE b # a
    <3>1. handles'[b] = handles[b] /\ handles[b].kind = "file"
      BY <2>2, <1>6
    <3>2. /\ handles[b].file \in Files /\ handles[b].pos \in Nat
          /\ disk[handles[b].file] \in Nat
          /\ b \notin short => handles[b].pos <= disk[handles[b].file]
      BY <3>1, HandleOnFile
    <3>3. CASE handles[b].file = f
      BY <2>2, <3>1, <3>2, <3>3, <1>1, <1>2, <1>3, <1>5, NullAssumption
    <3>4. CASE handles[b].file # f
      BY <2>2, <3>1, <3>2, <3>4, <1>1, <1>5, NullAssumption
    <3> QED BY <3>3, <3>4
  <2> QED BY <2>1, <2>2
<1> QED BY <1>1, <1>5, <1>6, <1>7, <1>8 DEF FileInv, FileTypes

LEMMA BufferedStep == ASSUME FileInv, Buffered PROVE FileInv'
<1>1. ASSUME NEW a \in Addrs, fgetc_handler(a) PROVE FileInv'
  <2>1. UNCHANGED <<disk, blocks, objects, short, failed>>
    BY <1>1 DEF fgetc_handler
  <2>2. read_buffered_byte(a) \/ UNCHANGED handles
    BY <1>1 DEF fgetc_handler, fgetc
  <2> QED BY <2>1, <2>2, ReadingByte, NotMoving
<1>2. ASSUME NEW a \in Addrs, fread_handler(a) PROVE FileInv'
  BY <1>2, ReadingByte DEF fread_handler
<1>3. ASSUME UNCHANGED <<hostVars, failed>> PROVE FileInv'
  BY <1>3, NotMoving DEF hostVars
<1> QED BY <1>1, <1>2, <1>3
        DEF Buffered, ungetc_handler, select_input, read_args, run_command_handler, CommandReturns

LEMMA FileStep == FileInv /\ [Next]_vars => FileInv'
<1> SUFFICES ASSUME FileInv, [Next]_vars PROVE FileInv'
  OBVIOUS
<1>1. CASE Handles
  BY <1>1, OpenStep, OpenNilStep, OpenIntoStep, CloseStep, FreeObjectStep, AllocObjectStep
     DEF Handles
<1>2. CASE Positions
  BY <1>2, ReadStep, WriteStep, SeekStep, SetSizeStep DEF Positions
<1>3. CASE Buffered
  BY <1>3, BufferedStep
<1>4. CASE UNCHANGED vars
  BY <1>4, NotMoving DEF vars
<1> QED BY <1>1, <1>2, <1>3, <1>4 DEF Next

LEMMA FileAlways == Spec => []FileInv
BY InvInit, FileStep, PTL DEF Spec

(* Every block with a FileHandle is that of an open handle or of a DOS      *)
(* object, whichever call ends it; none is freed twice, and Input() and     *)
(* Output() of the host stay open (close, free_dos_object_handler).         *)
THEOREM HandlesNeverLeak == Spec => []HandlesOwned
<1>1. FileInv => HandlesOwned
  BY DEF FileInv, Owned, HandlesOwned
<1> QED BY FileAlways, <1>1, PTL

(* A position is past the end of its file only when another handle on the   *)
(* same file made that shorter (seek, write, set_file_size, read).          *)
THEOREM PositionsInFiles == Spec => []PosInFile
<1>1. FileInv => PosInFile
  BY DEF FileInv, Placed, PlacedAt, PosInFile
<1> QED BY FileAlways, <1>1, PTL

-----------------------------------------------------------------------------
(* Bytes taken before the file. *)

Bytes == {NULL, EOF, Byte}

\* What is pushed back at an address is the open handle's own; nothing is at
\* a closed one.
PushInv ==
  /\ ungetc_buf \in [Addrs -> Bytes] /\ own \in [Addrs -> Bytes]
  /\ last_getc \in [Addrs -> Bytes]
  /\ ungetc_buf = own
  /\ \A a \in Addrs \ Open : own[a] = NULL

\* Each command's own bytes are those before its position, the saved ones'
\* before theirs.
LineInv ==
  /\ frames \in Seq([buf : Nat, pos : Nat]) /\ taken \in Seq(Nat)
  /\ input_buf \in Nat /\ input_pos \in Nat
  /\ Len(taken) = Len(frames) + 1
  /\ \A i \in 1 .. Len(frames) : frames[i].pos = taken[i]
  /\ input_pos = taken[Len(frames) + 1]

LEMMA PushInit == Init => PushInv /\ LineInv
<1> SUFFICES ASSUME Init PROVE PushInv /\ LineInv
  OBVIOUS
<1>1. PushInv
  BY DEF Init, PushInv, Bytes
<1>2. LineInv
  BY BoundAssumption DEF Init, LineInv
<1> QED BY <1>1, <1>2

\* A handle opens at an address that was closed.
LEMMA Opening ==
  ASSUME PushInv, NEW a \in Addrs \ Open, own' = [own EXCEPT ![a] = NULL],
         \A b \in Addrs \ {a} : handles'[b] = handles[b], UNCHANGED <<ungetc_buf, last_getc>>
  PROVE  PushInv'
<1>1. own[a] = NULL /\ own \in [Addrs -> Bytes]
  BY DEF PushInv
<1>2. own' = own
  BY <1>1
<1>3. \A b \in Addrs \ Open' : own[b] = NULL
  BY <1>1 DEF PushInv, Open
<1> QED BY <1>2, <1>3 DEF PushInv

\* One that is closed has been read back.
LEMMA Closing ==
  ASSUME PushInv, NEW a \in Addrs, ungetc_buf[a] = NULL, own' = [own EXCEPT ![a] = NULL],
         \A b \in Addrs \ {a} : handles'[b] = handles[b], UNCHANGED <<ungetc_buf, last_getc>>
  PROVE  PushInv'
<1>1. own[a] = NULL /\ own \in [Addrs -> Bytes]
  BY DEF PushInv
<1>2. own' = own
  BY <1>1
<1>3. \A b \in Addrs \ Open' : own[b] = NULL
  BY <1>1 DEF PushInv, Open
<1> QED BY <1>2, <1>3 DEF PushInv

\* What is pushed back changes on a handle that is open.
LEMMA Pushing ==
  ASSUME PushInv, Open' = Open, NEW a \in Open, NEW c \in Bytes, NEW d \in Bytes,
         ungetc_buf' = [ungetc_buf EXCEPT ![a] = c], own' = [own EXCEPT ![a] = c],
         last_getc' \in {last_getc, [last_getc EXCEPT ![a] = d]}
  PROVE  PushInv'
<1>1. a \in Addrs
  BY DEF Open
<1>2. ungetc_buf' = own' /\ ungetc_buf' \in [Addrs -> Bytes] /\ own' \in [Addrs -> Bytes]
      /\ last_getc' \in [Addrs -> Bytes]
  BY <1>1 DEF PushInv
<1>3. \A b \in Addrs \ Open : own'[b] = NULL
  BY DEF PushInv
<1> QED BY <1>2, <1>3 DEF PushInv

LEMMA HandlesPush == ASSUME Tidy, FileInv, PushInv, Handles PROVE PushInv'
<1>1. \A a \in Addrs \ blocks : a \notin Open
  BY DEF FileInv, Owned
<1>2. ASSUME NEW f \in Files, NEW mode \in Modes, open(f, mode) PROVE PushInv'
  <2>1. UNCHANGED <<ungetc_buf, last_getc>>
    BY <1>2 DEF open
  <2>2. CASE \E a \in Addrs :
               /\ alloc_file_handle(a)
               /\ Resized(f, Opened(f, mode), [handles EXCEPT ![a] = HostFile(f)], a)
               /\ own' = [own EXCEPT ![a] = NULL]
    <3>1. PICK a \in Addrs :
               /\ alloc_file_handle(a)
               /\ Resized(f, Opened(f, mode), [handles EXCEPT ![a] = HostFile(f)], a)
               /\ own' = [own EXCEPT ![a] = NULL]
      BY <2>2
    <3>2. a \notin Open /\ \A b \in Addrs \ {a} : handles'[b] = handles[b]
      BY <1>1, <3>1 DEF alloc_file_handle, Resized, FileInv, FileTypes
    <3> QED BY <2>1, <3>1, <3>2, Opening
  <2>3. CASE Resized(f, Opened(f, mode), handles, NULL) /\ UNCHANGED <<blocks, own>>
    BY <2>1, <2>3 DEF Resized, PushInv, Open
  <2> QED BY <1>2, <2>2, <2>3 DEF open
<1>3. ASSUME open_nil PROVE PushInv'
  <2>1. PICK a \in Addrs : /\ alloc_file_handle(a)
                           /\ handles' = [handles EXCEPT ![a] = Kind("nil")]
                           /\ own' = [own EXCEPT ![a] = NULL]
    BY <1>3 DEF open_nil
  <2>2. a \notin Open /\ \A b \in Addrs \ {a} : handles'[b] = handles[b]
    BY <1>1, <2>1 DEF alloc_file_handle, FileInv, FileTypes
  <2>3. UNCHANGED <<ungetc_buf, last_getc>>
    BY <1>3 DEF open_nil
  <2> QED BY <2>1, <2>2, <2>3, Opening
<1>4. ASSUME NEW a \in Addrs, NEW f \in Files, NEW mode \in Modes, open_into_handle(a, f, mode)
      PROVE  PushInv'
  <2>1. handles[a] = None /\ own' = [own EXCEPT ![a] = NULL]
        /\ Resized(f, Opened(f, mode), [handles EXCEPT ![a] = HostFile(f)], a)
        /\ UNCHANGED <<ungetc_buf, last_getc>>
    BY <1>4 DEF open_into_handle
  <2>2. a \notin Open /\ \A b \in Addrs \ {a} : handles'[b] = handles[b]
    BY <2>1 DEF Resized, Open, FileInv, FileTypes
  <2> QED BY <2>1, <2>2, Opening
<1>5. ASSUME alloc_dos_object_handler PROVE PushInv'
  BY <1>5 DEF alloc_dos_object_handler, pushVars, PushInv, Open
<1>6. ASSUME NEW a \in Addrs, close(a) PROVE PushInv'
  <2>1. ungetc_buf[a] = NULL /\ UNCHANGED <<ungetc_buf, last_getc>>
    BY <1>6 DEF close
  <2>2. CASE a \in {stdin, stdout}
    <3>1. UNCHANGED <<handles, own>>
      BY <1>6, <2>2 DEF close
    <3> QED BY <2>1, <3>1 DEF PushInv, Open
  <2>3. CASE a \notin {stdin, stdout}
    <3>1. own' = [own EXCEPT ![a] = NULL] /\ \A b \in Addrs \ {a} : handles'[b] = handles[b]
      BY <1>6, <2>3 DEF close, FileInv, FileTypes
    <3> QED BY <2>1, <3>1, Closing
  <2> QED BY <2>2, <2>3
<1>7. ASSUME NEW a \in Addrs, free_dos_object_handler(a) PROVE PushInv'
  <2>1. /\ ungetc_buf[a] = NULL /\ UNCHANGED <<ungetc_buf, last_getc>>
        /\ own' = [own EXCEPT ![a] = NULL] /\ \A b \in Addrs \ {a} : handles'[b] = handles[b]
    BY <1>7 DEF free_dos_object_handler, FileInv, FileTypes
  <2> QED BY <2>1, Closing
<1> QED BY <1>2, <1>3, <1>4, <1>5, <1>6, <1>7 DEF Handles

LEMMA PositionsPush == ASSUME FileInv, PushInv, Positions PROVE PushInv'
<1>1. UNCHANGED pushVars /\ \A a \in Addrs : handles'[a].kind = handles[a].kind
  <2>1. ASSUME NEW a \in Addrs, handles[a].kind = "file", NEW n, handles' = Moved(a, n)
        PROVE  \A b \in Addrs : handles'[b].kind = handles[b].kind
    <3>1. handles[a] \in Record /\ handles \in [Addrs -> Record]
      BY DEF FileInv, FileTypes
    <3>2. handles[a] = [kind |-> "file", file |-> handles[a].file, pos |-> handles[a].pos]
      BY <2>1, <3>1, HandleKinds
    <3>3. [handles[a] EXCEPT !.pos = n].kind = "file"
      BY <3>2
    <3>4. handles' = [handles EXCEPT ![a] = [handles[a] EXCEPT !.pos = n]]
      BY <2>1 DEF Moved
    <3> QED BY <2>1, <3>1, <3>3, <3>4
  <2>2. \E a \in Addrs : \E n : handles[a].kind = "file" /\ handles' = Moved(a, n)
    BY DEF Positions, read, write, seek, set_file_size, Resized
  <2>3. UNCHANGED pushVars
    BY DEF Positions, read, write, seek, set_file_size
  <2> QED BY <2>1, <2>2, <2>3
<1>2. FileInv'
  BY ReadStep, WriteStep, SeekStep, SetSizeStep DEF Positions
<1>3. Open' = Open
  <2>1. \A a \in Addrs : handles[a] \in Record /\ handles'[a] \in Record
    BY <1>2 DEF FileInv, FileTypes
  <2>2. \A a \in Addrs : handles'[a] = None <=> handles[a] = None
    BY <1>1, <2>1, HandleKinds
  <2> QED BY <2>2 DEF Open
<1> QED BY <1>1, <1>3 DEF PushInv, pushVars

LEMMA ReadKeepsOpen ==
  ASSUME FileInv, NEW a \in Addrs, read_buffered_byte(a)
  PROVE  Open' = Open
<1>1. CASE handles' = handles
  BY <1>1 DEF Open
<1>2. CASE InHostFile(a) /\ handles' = Moved(a, handles[a].pos + 1)
  <2>1. handles[a].kind = "file" /\ handles \in [Addrs -> Record]
    BY <1>2 DEF InHostFile, FileInv, FileTypes
  <2>2. handles[a].pos + 1 \in Nat
    BY <2>1, HandleOnFile
  <2>3. /\ handles'[a].kind = "file" /\ \A b \in Addrs \ {a} : handles'[b] = handles[b]
    BY <1>2, <2>1, <2>2, MovedHandle
  <2> QED BY <2>1, <2>3 DEF Open, None
<1> QED BY <1>1, <1>2 DEF read_buffered_byte

LEMMA BufferedPush == ASSUME FileInv, PushInv, Buffered PROVE PushInv'
<1>1. ASSUME NEW a \in Addrs, fgetc_handler(a) PROVE PushInv'
  <2>1. a \in Open /\ fgetc(a)
    BY <1>1 DEF fgetc_handler
  <2>2. ungetc_buf[a] \in Bytes /\ NextByte(a) \in Bytes /\ NULL \in Bytes
    BY <1>1 DEF PushInv, NextByte, Bytes
  <2>3. Open' = Open
    BY <2>1, ReadKeepsOpen DEF fgetc, Open
  <2>4. ungetc_buf' = [ungetc_buf EXCEPT ![a] = NULL] /\ own' = [own EXCEPT ![a] = NULL]
    <3>1. CASE ungetc_buf[a] # NULL
      BY <2>1, <3>1 DEF fgetc
    <3>2. CASE ungetc_buf[a] = NULL
      <4>1. ungetc_buf' = ungetc_buf /\ own' = [own EXCEPT ![a] = NULL]
        BY <2>1, <3>2 DEF fgetc
      <4>2. ungetc_buf = [ungetc_buf EXCEPT ![a] = NULL]
        BY <3>2 DEF PushInv
      <4> QED BY <4>1, <4>2
    <3> QED BY <3>1, <3>2
  <2>5. \/ last_getc' = [last_getc EXCEPT ![a] = ungetc_buf[a]]
        \/ last_getc' = [last_getc EXCEPT ![a] = NextByte(a)]
    BY <2>1 DEF fgetc
  <2> QED BY <2>1, <2>2, <2>3, <2>4, <2>5, Pushing
<1>2. ASSUME NEW a \in Addrs, fread_handler(a) PROVE PushInv'
  <2>1. Open' = Open /\ UNCHANGED pushVars
    BY <1>2, ReadKeepsOpen DEF fread_handler
  <2> QED BY <2>1 DEF PushInv, pushVars
<1>3. ASSUME NEW a \in Addrs, NEW ch \in {Byte, EOF}, ungetc_handler(a, ch) PROVE PushInv'
  <2> DEFINE c == Pushed(a, ch)
  <2>1. a \in Open /\ Open' = Open /\ last_getc' = last_getc
        /\ ungetc_buf' = PushedBuf(a, c)
        /\ own' = IF own[a] # NULL THEN own ELSE [own EXCEPT ![a] = c]
    BY <1>3 DEF ungetc_handler, hostVars, Open
  <2>2. c \in Bytes
    BY DEF Pushed, PushInv, Bytes
  <2>3. ungetc_buf[a] = own[a]
    BY DEF PushInv
  <2> HIDE DEF c
  <2>4. CASE own[a] # NULL
    <3>1. UNCHANGED <<ungetc_buf, own>>
      BY <2>1, <2>3, <2>4 DEF PushedBuf
    <3> QED BY <2>1, <3>1 DEF PushInv
  <2>5. CASE own[a] = NULL
    <3>1. ungetc_buf' = [ungetc_buf EXCEPT ![a] = c] /\ own' = [own EXCEPT ![a] = c]
      BY <2>1, <2>3, <2>5 DEF PushedBuf
    <3> QED BY <2>1, <2>2, <3>1, Pushing
  <2> QED BY <2>4, <2>5
<1>4. ASSUME UNCHANGED <<handles, pushVars>> PROVE PushInv'
  BY <1>4 DEF PushInv, pushVars, Open
<1> QED BY <1>1, <1>2, <1>3, <1>4
        DEF Buffered, select_input, read_args, run_command_handler, CommandReturns, hostVars

\* n more bytes are taken of the line of the command that runs.
LEMMA Taking ==
  ASSUME LineInv, NEW n \in Nat, input_pos' = input_pos + n,
         taken' = [taken EXCEPT ![Level + 1] = @ + n], UNCHANGED <<input_buf, frames>>
  PROVE  LineInv'
<1> DEFINE k == Len(frames)
<1>1. k \in Nat /\ Len(taken) = k + 1 /\ taken \in Seq(Nat)
  BY DEF LineInv
<1>2. /\ taken' \in Seq(Nat) /\ Len(taken') = k + 1 /\ taken'[k + 1] = taken[k + 1] + n
      /\ \A i \in 1 .. k : taken'[i] = taken[i]
  BY <1>1 DEF Level
<1> QED BY <1>2 DEF LineInv

LEMMA WithoutLast ==
  ASSUME NEW S, NEW s \in Seq(S), Len(s) > 0
  PROVE  /\ SubSeq(s, 1, Len(s) - 1) \in Seq(S)
         /\ Len(SubSeq(s, 1, Len(s) - 1)) = Len(s) - 1 /\ Len(s) - 1 \in Nat
         /\ \A i \in 1 .. Len(s) - 1 : SubSeq(s, 1, Len(s) - 1)[i] = s[i]
         /\ s[Len(s)] \in S
OBVIOUS

LEMMA LineStep == LineInv /\ [Next]_vars => LineInv'
<1> SUFFICES ASSUME LineInv, [Next]_vars PROVE LineInv'
  OBVIOUS
<1>1. ASSUME UNCHANGED lineVars PROVE LineInv'
  BY <1>1 DEF LineInv, lineVars
<1>2. ASSUME NEW a \in Addrs, read_buffered_byte(a), UNCHANGED <<input_buf, frames>>
      PROVE  LineInv'
  <2>1. CASE FromLine(a)
    BY <1>2, <2>1, Taking DEF read_buffered_byte
  <2>2. CASE ~FromLine(a)
    <3>1. UNCHANGED lineVars
      BY <1>2, <2>2 DEF read_buffered_byte, lineVars
    <3> QED BY <1>1, <3>1
  <2> QED BY <2>1, <2>2
<1>3. ASSUME NEW a \in Addrs, fgetc_handler(a) PROVE LineInv'
  <2>1. UNCHANGED <<input_buf, frames>>
    BY <1>3 DEF fgetc_handler
  <2>2. read_buffered_byte(a) \/ UNCHANGED <<input_pos, taken>>
    BY <1>3 DEF fgetc_handler, fgetc
  <2> QED BY <1>1, <1>2, <2>1, <2>2 DEF lineVars
<1>4. ASSUME NEW a \in Addrs, fread_handler(a) PROVE LineInv'
  BY <1>2, <1>4 DEF fread_handler
<1>5. ASSUME NEW n \in 0 .. MaxArgs, read_args(n) PROVE LineInv'
  <2>1. n \in Nat
    BY BoundAssumption
  <2> QED BY <1>5, <2>1, Taking DEF read_args
<1>6. ASSUME NEW n \in 0 .. MaxArgs, run_command_handler(n) PROVE LineInv'
  <2> DEFINE k == Len(frames)
             fr == [buf |-> input_buf, pos |-> input_pos]
  <2>1. /\ k \in Nat /\ Len(taken) = k + 1 /\ taken \in Seq(Nat) /\ n \in Nat
        /\ frames \in Seq([buf : Nat, pos : Nat]) /\ fr \in [buf : Nat, pos : Nat]
        /\ fr.pos = taken[k + 1]
    BY BoundAssumption DEF LineInv
  <2>2. frames' = Append(frames, fr) /\ taken' = Append(taken, 0)
        /\ input_buf' = n /\ input_pos' = 0
    BY <1>6 DEF run_command_handler
  <2> HIDE DEF fr
  <2>3. /\ frames' \in Seq([buf : Nat, pos : Nat]) /\ Len(frames') = k + 1
        /\ frames'[k + 1] = fr /\ \A i \in 1 .. k : frames'[i] = frames[i]
    BY <2>1, <2>2
  <2>4. /\ taken' \in Seq(Nat) /\ Len(taken') = k + 2 /\ taken'[k + 2] = 0
        /\ \A i \in 1 .. k + 1 : taken'[i] = taken[i]
    BY <2>1, <2>2
  <2> HIDE DEF k
  <2>5. \A i \in 1 .. k + 1 : frames'[i].pos = taken'[i]
    <3> SUFFICES ASSUME NEW i \in 1 .. k + 1 PROVE frames'[i].pos = taken'[i]
      OBVIOUS
    <3>1. CASE i = k + 1
      BY <2>1, <2>3, <2>4, <3>1
    <3>2. CASE i \in 1 .. k
      <4>1. frames[i].pos = taken[i]
        BY <3>2 DEF LineInv, k
      <4> QED BY <2>1, <2>3, <2>4, <3>2, <4>1
    <3> QED BY <2>1, <3>1, <3>2
  <2>6. (k + 1) + 1 = k + 2
    BY <2>1
  <2>7. /\ Len(taken') = Len(frames') + 1 /\ input_pos' = taken'[Len(frames') + 1]
        /\ \A i \in 1 .. Len(frames') : frames'[i].pos = taken'[i]
    BY <2>2, <2>3, <2>4, <2>5, <2>6
  <2>8. input_buf' \in Nat /\ input_pos' \in Nat
    BY <2>1, <2>2
  <2> QED BY <2>3, <2>4, <2>7, <2>8 DEF LineInv
<1>7. ASSUME CommandReturns PROVE LineInv'
  <2> DEFINE k == Len(frames)
             R == [buf : Nat, pos : Nat]
  <2>1. frames \in Seq(R) /\ taken \in Seq(Nat) /\ Len(taken) = k + 1
        /\ \A i \in 1 .. k : frames[i].pos = taken[i]
    BY DEF LineInv
  <2>2. /\ k > 0 /\ frames' = SubSeq(frames, 1, k - 1) /\ taken' = SubSeq(taken, 1, k)
        /\ input_buf' = frames[k].buf /\ input_pos' = frames[k].pos
    BY <1>7 DEF CommandReturns, Saved, Level
  <2> HIDE DEF R
  <2>3. /\ frames' \in Seq(R) /\ Len(frames') = k - 1 /\ k - 1 \in Nat /\ frames[k] \in R
        /\ \A i \in 1 .. k - 1 : frames'[i] = frames[i]
    BY <2>1, <2>2, WithoutLast
  <2>4. k \in Nat /\ k = Len(taken) - 1
    BY <2>1, <2>3
  <2>5. /\ taken' \in Seq(Nat) /\ Len(taken') = k
        /\ \A i \in 1 .. k : taken'[i] = taken[i]
    BY <2>1, <2>2, <2>4, WithoutLast
  <2>6. input_buf' \in Nat /\ input_pos' \in Nat
    BY <2>2, <2>3 DEF R
  <2> HIDE DEF k
  <2>7. /\ Len(taken') = Len(frames') + 1 /\ input_pos' = taken'[Len(frames') + 1]
        /\ \A i \in 1 .. Len(frames') : frames'[i].pos = taken'[i]
    <3>1. Len(frames') + 1 = k /\ k \in 1 .. k
      BY <2>2, <2>3, <2>4
    <3>2. \A i \in 1 .. k - 1 : i \in 1 .. k
      BY <2>4
    <3>3. \A i \in 1 .. k - 1 : frames'[i].pos = taken'[i]
      BY <2>1, <2>3, <2>5, <3>2
    <3>4. frames[k].pos = taken[k] /\ taken'[k] = taken[k]
      BY <2>1, <2>5, <3>1
    <3> QED BY <2>2, <2>3, <2>5, <3>1, <3>3, <3>4
  <2> QED BY <2>3, <2>5, <2>6, <2>7 DEF LineInv, R
<1>8. CASE Handles
  <2>1. UNCHANGED lineVars
    BY <1>8 DEF Handles, open, open_nil, open_into_handle, alloc_dos_object_handler, close,
                free_dos_object_handler
  <2> QED BY <1>1, <2>1
<1>9. CASE Positions
  <2>1. UNCHANGED lineVars
    BY <1>9 DEF Positions, read, write, seek, set_file_size
  <2> QED BY <1>1, <2>1
<1>10. CASE Buffered
  BY <1>1, <1>3, <1>4, <1>5, <1>6, <1>7, <1>10 DEF Buffered, ungetc_handler, select_input
<1>11. CASE UNCHANGED vars
  BY <1>1, <1>11 DEF vars, lineVars
<1> QED BY <1>8, <1>9, <1>10, <1>11 DEF Next

(* What FGetC takes before the file is the byte pushed back on that handle  *)
(* since it is open, and the command line of the program running now, from  *)
(* where that program left off, however many commands it ran since (fgetc,  *)
(* ungetc_handler, run_command_handler).                                    *)
THEOREM NextByteIsOwn == ASSUME Tidy PROVE Spec => []NextByteOwn
<1>1. Init => FileInv /\ PushInv /\ LineInv
  BY InvInit, PushInit
<1>2. FileInv /\ PushInv /\ [Next]_vars => PushInv'
  <2>1. ASSUME PushInv, UNCHANGED vars PROVE PushInv'
    BY <2>1 DEF vars, PushInv, Open
  <2> QED BY <2>1, HandlesPush, PositionsPush, BufferedPush DEF Next
<1>3. PushInv /\ LineInv => NextByteOwn
  BY DEF PushInv, LineInv, NextByteOwn, Open, Level
<1> QED BY <1>1, <1>2, <1>3, FileStep, LineStep, PTL DEF Spec

-----------------------------------------------------------------------------
(* Segments: what the blocks hold. *)

Link == (Nat \ {0}) \X Blocks
Contents ==
  {Unused, Handle, Table}
    \union [kind : {"hunk"}, tree : Blocks, index : Nat, points : SUBSET Link]

\* Block b holds hunk i of the tree; all its pointers lead to hunks 1 to n; or
\* those that name such a hunk lead there.
Has(m, tree, i, b) ==
  b \in Blocks /\ m[b].kind = "hunk" /\ m[b].tree = tree /\ m[b].index = i
Leads(m, b, tree, n) ==
  \A p \in m[b].points : p[1] \in 1 .. n /\ Has(m, tree, p[1], p[2])
LeadsUp(m, b, tree, n) ==
  \A p \in m[b].points : p[1] \in 1 .. n => Has(m, tree, p[1], p[2])

\* A step of a call: what changes was unused, or hunks lo to hi of one tree.
Change(m, w, tree, lo, hi) ==
  \A b \in Blocks :
    \/ w[b] = m[b]
    \/ m[b].kind = "unused"
    \/ m[b].kind = "hunk" /\ m[b].tree = tree /\ lo <= m[b].index /\ m[b].index <= hi

LEMMA HasStays ==
  ASSUME NEW m, NEW w, NEW t, NEW lo, NEW hi, Change(m, w, t, lo, hi),
         NEW u, NEW i, NEW b, Has(m, u, i, b), u # t \/ ~ (lo <= i /\ i <= hi)
  PROVE  w[b] = m[b] /\ Has(w, u, i, b)
BY DEF Change, Has

LEMMA LeadsStays ==
  ASSUME NEW m, NEW w, NEW t, NEW lo, NEW hi, Change(m, w, t, lo, hi),
         NEW u, NEW b, NEW n \in Nat, w[b] = m[b], Leads(m, b, u, n),
         u # t \/ (lo \in Nat /\ n < lo)
  PROVE  Leads(w, b, u, n)
<1> SUFFICES ASSUME NEW p \in m[b].points PROVE p[1] \in 1 .. n /\ Has(w, u, p[1], p[2])
  BY DEF Leads
<1>1. p[1] \in 1 .. n /\ Has(m, u, p[1], p[2])
  BY DEF Leads
<1>2. u # t \/ ~ (lo <= p[1] /\ p[1] <= hi)
  BY <1>1
<1> QED BY <1>1, <1>2, HasStays

LEMMA LeadsUpStays ==
  ASSUME NEW m, NEW w, NEW t, NEW lo, NEW hi, Change(m, w, t, lo, hi),
         NEW u, NEW b, NEW n \in Nat, w[b] = m[b], LeadsUp(m, b, u, n),
         u # t \/ (lo \in Nat /\ n < lo)
  PROVE  LeadsUp(w, b, u, n)
<1> SUFFICES ASSUME NEW p \in m[b].points, p[1] \in 1 .. n PROVE Has(w, u, p[1], p[2])
  BY DEF LeadsUp
<1>1. Has(m, u, p[1], p[2])
  BY DEF LeadsUp
<1>2. u # t \/ ~ (lo <= p[1] /\ p[1] <= hi)
  OBVIOUS
<1> QED BY <1>1, <1>2, HasStays

-----------------------------------------------------------------------------
(* Seglists, and the trees of overlay programs. *)

Root ==
  [program : Overlaid, ovtab : Blocks,
   payload_addrs : [1 .. total_hunks -> Blocks \union {NoBlock}]]
NodeLevel == [node : Nodes, blocks : Seq(Blocks)]

Tag(m, s) == m[s[1]].tree
Run(m, S, t) == \E s \in S : Tag(m, s) = t

\* A seglist: the hunks of a program, in order, which name one another.
SegOk(m, R, s) ==
  /\ s \in Seq(Blocks) /\ s # <<>>
  /\ Tag(m, s) \in DOMAIN R \/ Tag(m, s) = s[1]
  /\ Tag(m, s) \in DOMAIN R => Len(s) = Len(Hunks[R[Tag(m, s)].program])
  /\ \A k \in DOMAIN s : Has(m, Tag(m, s), k, s[k]) /\ Leads(m, s[k], Tag(m, s), Len(s))

\* The number after the last hunk that is resident.
End(r, d) == IF d = <<>> THEN Follow(r.program) ELSE Follow(Last(d).node)

LevelOk(m, t, l) ==
  /\ l \in NodeLevel /\ Len(l.blocks) = Len(Hunks[l.node])
  /\ \A j \in DOMAIN l.blocks : Has(m, t, first_hunk[l.node] + j - 1, l.blocks[j])
Rising(r, d) ==
  /\ \A k \in DOMAIN d : Follow(r.program) <= first_hunk[d[k].node]
  /\ \A k, j \in DOMAIN d : k < j => Follow(d[k].node) <= first_hunk[d[j].node]

\* What the code keeps of a tree, and the manager.
TreeOk(m, t, r, d) ==
  /\ t \in Blocks /\ r \in Root /\ d \in Seq(NodeLevel) /\ Rising(r, d)
  /\ m[t].kind = "table" /\ m[r.ovtab].kind = "table"
  /\ \A k \in DOMAIN d : LevelOk(m, t, d[k])

\* Of one that is live: its hunks are where they are registered, and a node's
\* pointers to what is above it and its own lead there.
LevelLeads(m, t, l) == \A j \in DOMAIN l.blocks : LeadsUp(m, l.blocks[j], t, Follow(l.node) - 1)
LiveOk(m, t, r, d) ==
  /\ End(r, d) - 1 <= total_hunks
  /\ \A i \in 1 .. End(r, d) - 1 : Has(m, t, i, r.payload_addrs[i])
  /\ \A k \in DOMAIN d : LevelLeads(m, t, d[k])

\* No two programs have one name, no two trees one table, and every hunk and
\* table is somebody's.
Apart(m, S, R) ==
  /\ \A s, u \in S : Tag(m, s) = Tag(m, u) => s = u
  /\ \A t, u \in DOMAIN R : t # R[u].ovtab /\ (R[t].ovtab = R[u].ovtab => t = u)
InSeg(S, b) == \E s \in S : b \in Range(s)
InLevel(d, b) == \E k \in DOMAIN d : b \in Range(d[k].blocks)
HasOwner(m, S, R, D, b) ==
  /\ m[b].kind = "hunk" => InSeg(S, b) \/ \E t \in DOMAIN R : InLevel(D[t], b)
  /\ m[b].kind = "table" => \E t \in DOMAIN R : b = t \/ b = R[t].ovtab

Segs(m, S, R) == \A s \in S : SegOk(m, R, s)
TreesOk(m, S, R, D) ==
  \A t \in DOMAIN R : TreeOk(m, t, R[t], D[t]) /\ (Run(m, S, t) => LiveOk(m, t, R[t], D[t]))
Books(m, S, R, D) ==
  /\ m \in [Blocks -> Contents]
  /\ DOMAIN D = DOMAIN R /\ R = [t \in DOMAIN R |-> R[t]] /\ D = [t \in DOMAIN R |-> D[t]]
  /\ Segs(m, S, R) /\ TreesOk(m, S, R, D) /\ Apart(m, S, R)
  /\ \A b \in Blocks : HasOwner(m, S, R, D, b)

SegsInv == Books(memory, seglists, overlay_roots, resident)

-----------------------------------------------------------------------------
(* Numbers. *)

LEMMA HunksNumbered ==
  ASSUME NEW p \in Programs \union Nodes
  PROVE  /\ Len(Hunks[p]) \in Nat /\ Len(Hunks[p]) > 0 /\ DOMAIN Hunks[p] = 1 .. Len(Hunks[p])
         /\ first_hunk[p] \in Nat /\ first_hunk[p] > 0
         /\ Follow(p) \in Nat /\ Follow(p) = first_hunk[p] + Len(Hunks[p])
         /\ Numbers(p) = first_hunk[p] .. Follow(p) - 1
         /\ \A k \in DOMAIN Hunks[p] :
              Hunks[p][k] \subseteq Named(p) /\ Hunks[p][k] \subseteq Nat \ {0}
<1>1. Hunks[p] \in Seq(SUBSET (Nat \ {0})) /\ Hunks[p] # <<>> /\ first_hunk[p] \in Nat \ {0}
  BY SegsAssumption
<1>2. PICK n \in Nat : n = Len(Hunks[p]) /\ n > 0 /\ DOMAIN Hunks[p] = 1 .. n
  BY <1>1, EmptySeq
<1>3. \A k \in DOMAIN Hunks[p] : Hunks[p][k] \subseteq Named(p) /\ Hunks[p][k] \subseteq Nat \ {0}
  BY <1>1, <1>2 DEF Named, Range
<1>4. PICK f \in Nat : f = first_hunk[p] /\ f > 0
  BY <1>1
<1>5. Follow(p) = f + n
  BY <1>2, <1>4 DEF Follow
<1>6. f + n \in Nat /\ f .. f + n - 1 = f .. (f + n) - 1
  OBVIOUS
<1>7. Numbers(p) = f .. f + n - 1
  BY <1>2, <1>4 DEF Numbers
<1> QED BY <1>2, <1>3, <1>4, <1>5, <1>6, <1>7

LEMMA ProgramNumbered ==
  ASSUME NEW p \in Programs
  PROVE  /\ first_hunk[p] = 1 /\ Follow(p) = Len(Hunks[p]) + 1 /\ Follow(p) - 1 <= total_hunks
         /\ Numbers(p) = 1 .. Len(Hunks[p])
         /\ \A k \in DOMAIN Hunks[p] : Hunks[p][k] \subseteq 1 .. Len(Hunks[p])
<1>1. first_hunk[p] = 1 /\ Named(p) \subseteq Numbers(p) /\ Numbers(p) \subseteq 1 .. total_hunks
      /\ total_hunks \in Nat
  BY SegsAssumption
<1>2. /\ Len(Hunks[p]) \in Nat /\ Len(Hunks[p]) > 0
      /\ Follow(p) = first_hunk[p] + Len(Hunks[p]) /\ Numbers(p) = first_hunk[p] .. Follow(p) - 1
      /\ \A k \in DOMAIN Hunks[p] : Hunks[p][k] \subseteq Named(p)
  BY HunksNumbered DEF Programs
<1>3. PICK n \in Nat : n = Len(Hunks[p]) /\ n > 0
  BY <1>2
<1>4. Follow(p) = n + 1 /\ Numbers(p) = 1 .. n
  BY <1>1, <1>2, <1>3
<1>5. n \in 1 .. total_hunks
  BY <1>1, <1>3, <1>4
<1> QED BY <1>1, <1>2, <1>3, <1>4, <1>5

LEMMA EndNumber ==
  ASSUME NEW m, NEW t, NEW r, NEW d, TreeOk(m, t, r, d)
  PROVE  /\ End(r, d) \in Nat /\ Follow(r.program) <= End(r, d) /\ Follow(r.program) \in Nat
         /\ Follow(r.program) > 1
         /\ \A k \in DOMAIN d : /\ Follow(d[k].node) \in Nat /\ Follow(d[k].node) <= End(r, d)
                                /\ Follow(r.program) <= first_hunk[d[k].node]
                                /\ first_hunk[d[k].node] \in Nat /\ d[k] \in NodeLevel
                                /\ first_hunk[d[k].node] < Follow(d[k].node)
<1>0. r \in Root /\ d \in Seq(NodeLevel) /\ Rising(r, d)
  BY DEF TreeOk
<1>1. r.program \in Programs
  BY <1>0 DEF Root, Programs
<1>2. Follow(r.program) \in Nat /\ Follow(r.program) > 1
  BY <1>1, HunksNumbered, ProgramNumbered
<1>3. ASSUME NEW k \in DOMAIN d
      PROVE  /\ d[k] \in NodeLevel /\ first_hunk[d[k].node] \in Nat /\ Follow(d[k].node) \in Nat
             /\ first_hunk[d[k].node] < Follow(d[k].node)
             /\ Follow(r.program) <= first_hunk[d[k].node]
  <2>1. d[k] \in NodeLevel
    BY <1>0
  <2>2. d[k].node \in Nodes
    BY <2>1 DEF NodeLevel
  <2> QED BY <1>0, <2>1, <2>2, HunksNumbered DEF Rising
<1>4. CASE d = <<>>
  BY <1>2, <1>4 DEF End
<1>5. CASE d # <<>>
  <2>1. PICK n \in Nat : n = Len(d) /\ n > 0 /\ DOMAIN d = 1 .. n
    BY <1>0, <1>5, EmptySeq
  <2>2. Last(d) = d[n] /\ n \in DOMAIN d /\ End(r, d) = Follow(d[n].node)
    BY <2>1, <1>5 DEF Last, End
  <2>3. Follow(d[n].node) \in Nat /\ first_hunk[d[n].node] < Follow(d[n].node)
        /\ Follow(r.program) <= first_hunk[d[n].node] /\ first_hunk[d[n].node] \in Nat
    BY <2>2, <1>3
  <2>4. \A k \in DOMAIN d : Follow(d[k].node) <= Follow(d[n].node)
    <3> SUFFICES ASSUME NEW k \in DOMAIN d PROVE Follow(d[k].node) <= Follow(d[n].node)
      OBVIOUS
    <3>1. CASE k = n
      BY <3>1, <2>3
    <3>2. CASE k # n
      <4>1. k < n
        BY <3>2, <2>1
      <4>2. Follow(d[k].node) <= first_hunk[d[n].node]
        BY <4>1, <2>2, <1>0 DEF Rising
      <4> QED BY <4>2, <2>3, <1>3
    <3> QED BY <3>1, <3>2
  <2> QED BY <1>2, <1>3, <2>2, <2>3, <2>4
<1> QED BY <1>4, <1>5

-----------------------------------------------------------------------------
(* What stays when something else changes. *)

Extends(m, R, Q) ==
  /\ DOMAIN R \subseteq DOMAIN Q
  /\ \A u \in DOMAIN R : Q[u].program = R[u].program /\ Q[u].ovtab = R[u].ovtab
  /\ \A u \in DOMAIN Q \ DOMAIN R : m[u].kind = "unused"

LEMMA SegStays ==
  ASSUME NEW m, NEW w, NEW t, NEW lo, NEW hi, Change(m, w, t, lo, hi),
         NEW R, NEW Q, Extends(m, R, Q), NEW s, SegOk(m, R, s),
         Tag(m, s) # t \/ (lo \in Nat /\ Len(s) < lo)
  PROVE  SegOk(w, Q, s) /\ Tag(w, s) = Tag(m, s)
<1> DEFINE u == Tag(m, s)
<1>1. PICK n \in Nat : n = Len(s) /\ n > 0 /\ DOMAIN s = 1 .. n /\ s \in Seq(Blocks)
  BY EmptySeq DEF SegOk
<1>2. \A k \in DOMAIN s : Has(m, u, k, s[k]) /\ Leads(m, s[k], u, n)
  BY <1>1 DEF SegOk
<1> HIDE DEF u
<1>3. \A k \in DOMAIN s : w[s[k]] = m[s[k]] /\ Has(w, u, k, s[k])
  <2> SUFFICES ASSUME NEW k \in DOMAIN s PROVE w[s[k]] = m[s[k]] /\ Has(w, u, k, s[k])
    OBVIOUS
  <2>1. u # t \/ ~ (lo <= k /\ k <= hi)
    BY <1>1 DEF u
  <2> QED BY <1>2, <2>1, HasStays
<1>4. \A k \in DOMAIN s : Leads(w, s[k], u, n)
  BY <1>1, <1>2, <1>3, LeadsStays DEF u
<1>5. Tag(w, s) = u
  BY <1>1, <1>3 DEF Tag, Has
<1>6. u \in DOMAIN Q => u \in DOMAIN R
  <2> SUFFICES ASSUME u \in DOMAIN Q, u \notin DOMAIN R PROVE FALSE
    OBVIOUS
  <2>1. m[u].kind = "unused" /\ u = s[1]
    BY DEF Extends, SegOk, u
  <2> QED BY <2>1, <1>1, <1>2 DEF Has
<1>7. u \in DOMAIN Q \/ u = s[1]
  BY DEF Extends, SegOk, u
<1>8. u \in DOMAIN Q => n = Len(Hunks[Q[u].program])
  BY <1>1, <1>6 DEF Extends, SegOk, u
<1>9. s # <<>>
  BY DEF SegOk
<1> QED BY <1>1, <1>3, <1>4, <1>5, <1>7, <1>8, <1>9 DEF SegOk, u

LEMMA TreeStays ==
  ASSUME NEW m, NEW w, NEW t, NEW lo, NEW hi, Change(m, w, t, lo, hi),
         NEW u, NEW r, NEW d, TreeOk(m, u, r, d),
         \/ u # t
         \/ \A k \in DOMAIN d : \A j \in DOMAIN d[k].blocks :
              ~ (lo <= first_hunk[d[k].node] + j - 1 /\ first_hunk[d[k].node] + j - 1 <= hi)
  PROVE  TreeOk(w, u, r, d)
<1>1. r.ovtab \in Blocks /\ u \in Blocks /\ m[u].kind = "table" /\ m[r.ovtab].kind = "table"
  BY DEF TreeOk, Root
<1>2. w[u] = m[u] /\ w[r.ovtab] = m[r.ovtab]
  BY <1>1 DEF Change
<1>3. ASSUME NEW k \in DOMAIN d PROVE LevelOk(w, u, d[k])
  <2>1. LevelOk(m, u, d[k])
    BY DEF TreeOk
  <2>2. \A j \in DOMAIN d[k].blocks : Has(w, u, first_hunk[d[k].node] + j - 1, d[k].blocks[j])
    BY <2>1, HasStays DEF LevelOk
  <2> QED BY <2>1, <2>2 DEF LevelOk
<1> QED BY <1>1, <1>2, <1>3 DEF TreeOk

LEMMA LiveStays ==
  ASSUME NEW m, NEW w, NEW t, NEW lo, NEW hi, Change(m, w, t, lo, hi),
         NEW u, NEW r, NEW d, TreeOk(m, u, r, d), LiveOk(m, u, r, d),
         u # t \/ (lo \in Nat /\ End(r, d) <= lo)
  PROVE  LiveOk(w, u, r, d)
<1>1. PICK e \in Nat : e = End(r, d)
  BY EndNumber
<1>2. \A i \in 1 .. e - 1 : Has(w, u, i, r.payload_addrs[i])
  <2> SUFFICES ASSUME NEW i \in 1 .. e - 1 PROVE Has(w, u, i, r.payload_addrs[i])
    OBVIOUS
  <2>1. Has(m, u, i, r.payload_addrs[i])
    BY <1>1 DEF LiveOk
  <2>2. u # t \/ ~ (lo <= i /\ i <= hi)
    BY <1>1
  <2> QED BY <2>1, <2>2, HasStays
<1>3. ASSUME NEW k \in DOMAIN d, NEW j \in DOMAIN d[k].blocks
      PROVE  LeadsUp(w, d[k].blocks[j], u, Follow(d[k].node) - 1)
  <2>1. /\ Follow(d[k].node) \in Nat /\ Follow(d[k].node) <= e /\ d[k] \in NodeLevel
        /\ first_hunk[d[k].node] \in Nat /\ first_hunk[d[k].node] < Follow(d[k].node)
    BY <1>1, EndNumber
  <2>2. /\ LevelOk(m, u, d[k]) /\ LeadsUp(m, d[k].blocks[j], u, Follow(d[k].node) - 1)
    BY DEF TreeOk, LiveOk, LevelLeads
  <2>3. Has(m, u, first_hunk[d[k].node] + j - 1, d[k].blocks[j])
    BY <2>2 DEF LevelOk
  <2>4. PICK n \in Nat : n = Len(d[k].blocks) /\ n = Len(Hunks[d[k].node]) /\ j \in 1 .. n
    BY <2>1, <2>2 DEF LevelOk, NodeLevel
  <2>5. first_hunk[d[k].node] + j - 1 \in Nat /\ first_hunk[d[k].node] + j - 1 < Follow(d[k].node)
    BY <2>1, <2>4 DEF Follow
  <2>6. u # t \/ ~ (lo <= first_hunk[d[k].node] + j - 1 /\ first_hunk[d[k].node] + j - 1 <= hi)
    BY <1>1, <2>1, <2>5
  <2>7. w[d[k].blocks[j]] = m[d[k].blocks[j]]
    BY <2>3, <2>6, HasStays
  <2>8. Follow(d[k].node) - 1 \in Nat /\ (u # t \/ (lo \in Nat /\ Follow(d[k].node) - 1 < lo))
    BY <1>1, <2>1
  <2> QED BY <2>2, <2>7, <2>8, LeadsUpStays
<1> QED BY <1>1, <1>2, <1>3 DEF LiveOk, LevelLeads

-----------------------------------------------------------------------------
(* Free blocks. *)

LEMMA LeastNumber ==
  ASSUME NEW T, T \subseteq Nat, T # {} PROVE \E m \in T : \A n \in T : m <= n
<1> DEFINE R == {ss \in Nat \X Nat : ss[1] < ss[2]}
<1>1. IsWellFoundedOn(R, Nat)
  BY NatLessThanWellFounded DEF OpToRel
<1>2. PICK m \in T : \A n \in T : ~ (<<n, m>> \in R)
  <2> HIDE DEF R
  <2> QED BY <1>1, WFMin
<1>3. ASSUME NEW n \in T PROVE m <= n
  <2>1. m \in Nat /\ n \in Nat
    OBVIOUS
  <2>2. n < m => <<n, m>> \in R
    BY <2>1
  <2> HIDE DEF R
  <2> QED BY <1>2, <2>1, <2>2
<1> QED BY <1>3

Upto(F, b) == {c \in F : c <= b}

\* Among numbers there is one with k - 1 below it.
LEMMA Ranks ==
  ASSUME NEW F, F \subseteq Nat, IsFiniteSet(F), NEW k \in 1 .. Cardinality(F)
  PROVE  \E b \in F : Cardinality(Upto(F, b)) = k
<1>0. Cardinality(F) \in Nat
  BY FS_CardinalityType
<1> DEFINE T == {i \in 1 .. Cardinality(F) : ~ \E b \in F : Cardinality(Upto(F, b)) = i}
<1> SUFFICES ASSUME T # {} PROVE FALSE
  OBVIOUS
<1>1. T \subseteq Nat
  BY <1>0
<1>2. PICK i \in T : \A n \in T : i <= n
  <2> HIDE DEF T
  <2> QED BY <1>1, LeastNumber
<1>3. i \in 1 .. Cardinality(F) /\ ~ \E b \in F : Cardinality(Upto(F, b)) = i
  OBVIOUS
<1>4. \A j \in 1 .. i - 1 : \E b \in F : Cardinality(Upto(F, b)) = j
  BY <1>0, <1>2, <1>3
<1> HIDE DEF T
<1>5. PICK B : /\ B \subseteq F /\ B # F /\ IsFiniteSet(B) /\ Cardinality(B) = i - 1
               /\ \A b \in F \ B, c \in B : c < b
  <2>1. CASE i = 1
    <3>1. {} \subseteq F /\ {} # F /\ IsFiniteSet({}) /\ Cardinality({}) = i - 1
      BY <2>1, <1>3, FS_EmptySet
    <3> QED BY <3>1
  <2>2. CASE i # 1
    <3>1. i - 1 \in 1 .. i - 1
      BY <2>2, <1>0, <1>3
    <3>2. PICK b \in F : Cardinality(Upto(F, b)) = i - 1
      BY <3>1, <1>4
    <3>3. Upto(F, b) \subseteq F /\ IsFiniteSet(Upto(F, b))
      BY FS_Subset DEF Upto
    <3>4. Upto(F, b) # F
      BY <3>2, <1>0, <1>3
    <3>5. \A a \in F \ Upto(F, b), c \in Upto(F, b) : c < a
      BY DEF Upto
    <3> QED BY <3>2, <3>3, <3>4, <3>5
  <2> QED BY <2>1, <2>2
<1>6. PICK a \in F \ B : \A n \in F \ B : a <= n
  <2>1. F \ B \subseteq Nat /\ F \ B # {}
    BY <1>5
  <2> QED BY <2>1, LeastNumber
<1>7. Upto(F, a) = B \union {a}
  <2>1. ASSUME NEW c \in Upto(F, a) PROVE c \in B \union {a}
    <3>1. c \in Nat /\ a \in Nat /\ c <= a /\ c \in F
      BY DEF Upto
    <3>2. c \in F \ B => a <= c
      BY <1>6
    <3> QED BY <3>1, <3>2
  <2>2. ASSUME NEW c \in B \union {a} PROVE c \in Upto(F, a)
    <3>1. c \in F /\ c \in Nat /\ a \in Nat /\ (c \in B => c < a)
      BY <1>5, <1>6
    <3> QED BY <3>1 DEF Upto
  <2> QED BY <2>1, <2>2
<1>8. Cardinality(Upto(F, a)) = i - 1 + 1
  BY <1>5, <1>6, <1>7, FS_AddElement
<1> QED BY <1>0, <1>3, <1>6, <1>8

LEMMA BlocksFinite ==
  /\ MaxBlock \in Nat /\ Blocks \subseteq Nat /\ IsFiniteSet(Blocks)
  /\ \A B : B \subseteq Blocks => IsFiniteSet(B) /\ Cardinality(B) \in Nat
<1>1. MaxBlock \in Nat /\ Blocks = 1 .. MaxBlock
  BY SegsAssumption DEF Blocks
<1>2. IsFiniteSet(1 .. MaxBlock)
  BY <1>1, FS_Interval
<1> QED BY <1>1, <1>2, FS_Subset, FS_CardinalityType

Injective(s) == \A i, j \in DOMAIN s : s[i] = s[j] => i = j

\* What is allocated was unused, and each block is allocated once.
LEMMA FreshBlocks ==
  ASSUME NEW n \in Nat, Fits(n)
  PROVE  /\ Fresh(n) \in Seq(Blocks) /\ Len(Fresh(n)) = n /\ DOMAIN Fresh(n) = 1 .. n
         /\ Injective(Fresh(n))
         /\ \A k \in 1 .. n : Fresh(n)[k] \in Blocks /\ memory[Fresh(n)[k]] = Unused
<1>1. Free \subseteq Nat /\ IsFiniteSet(Free) /\ Cardinality(Free) \in Nat /\ Free \subseteq Blocks
      /\ n <= Cardinality(Free)
  BY BlocksFinite DEF Free, Fits
<1>2. ASSUME NEW k \in 1 .. n
      PROVE  Fresh(n)[k] \in Free /\ Cardinality(Upto(Free, Fresh(n)[k])) = k
  <2>1. k \in 1 .. Cardinality(Free)
    BY <1>1
  <2>2. \E b \in Free : Cardinality({c \in Free : c <= b}) = k
    BY <1>1, <2>1, Ranks DEF Upto
  <2>3. Fresh(n)[k] = CHOOSE b \in Free : Cardinality({c \in Free : c <= b}) = k
    BY DEF Fresh
  <2> QED BY <2>2, <2>3 DEF Upto
<1>3. DOMAIN Fresh(n) = 1 .. n
  BY DEF Fresh
<1>4. Fresh(n) \in [1 .. n -> Blocks]
  <2>1. Fresh(n) = [k \in 1 .. n |-> Fresh(n)[k]]
    BY DEF Fresh
  <2> QED BY <1>1, <1>2, <2>1
<1>5. Fresh(n) \in Seq(Blocks) /\ Len(Fresh(n)) = n
  BY <1>4, SeqDef
<1>6. Injective(Fresh(n))
  BY <1>2, <1>3 DEF Injective
<1>7. \A k \in 1 .. n : Fresh(n)[k] \in Blocks /\ memory[Fresh(n)[k]] = Unused
  BY <1>2 DEF Free
<1> QED BY <1>3, <1>5, <1>6, <1>7

-----------------------------------------------------------------------------
(* Linking. *)

Points(at, p, k) == {<<i, at[i]>> : i \in Hunks[p][k]}
Written(w, p, bs, tree, at) ==
  \A k \in DOMAIN bs : w[bs[k]] = Hunk(tree, first_hunk[p] + k - 1, Points(at, p, k))

LEMMA LinkedMemory ==
  ASSUME NEW p \in Programs \union Nodes, NEW bs \in Seq(Blocks), Injective(bs),
         NEW m, NEW tree, NEW at
  PROVE  LET w == Linked(m, p, bs, tree, at) IN
         /\ w = [b \in Blocks |-> w[b]]
         /\ \A b \in Blocks : b \notin Range(bs) => w[b] = m[b]
         /\ Written(w, p, bs, tree, at)
<1> DEFINE w == Linked(m, p, bs, tree, at)
<1>1. w = [b \in Blocks |-> w[b]]
  BY DEF Linked
<1>2. \A b \in Blocks : b \notin Range(bs) => w[b] = m[b]
  BY DEF Linked
<1>3. ASSUME NEW k \in DOMAIN bs
      PROVE  w[bs[k]] = Hunk(tree, first_hunk[p] + k - 1, Points(at, p, k))
  <2>1. bs[k] \in Blocks /\ bs[k] \in Range(bs)
    BY DEF Range
  <2>2. (CHOOSE j \in DOMAIN bs : bs[j] = bs[k]) = k
    BY DEF Injective
  <2> QED BY <2>1, <2>2 DEF Linked, Points
<1> QED BY <1>1, <1>2, <1>3 DEF Written

\* A hunk that is written.
LEMMA HunkWritten ==
  ASSUME NEW w, NEW b \in Blocks, NEW tree \in Blocks, NEW i \in Nat, NEW P \in SUBSET Link,
         w[b] = Hunk(tree, i, P)
  PROVE  Has(w, tree, i, b) /\ w[b].points = P /\ w[b] \in Contents
BY DEF Has, Hunk, Contents

LEMMA ContentKinds ==
  ASSUME NEW c \in Contents
  PROVE  /\ c.kind = "unused" <=> c = Unused
         /\ c.kind = "table" <=> c = Table
         /\ c.kind = "hunk" => c.tree \in Blocks /\ c.index \in Nat /\ c.points \in SUBSET Link
BY DEF Contents, Unused, Handle, Table

LEMMA KindsApart ==
  /\ Unused.kind = "unused" /\ Handle.kind = "FileHandle" /\ Table.kind = "table"
  /\ {Unused, Handle, Table} \subseteq Contents
BY DEF Contents, Unused, Handle, Table

-----------------------------------------------------------------------------
(* A step that only takes unused blocks. *)

Grow(m, w) == \A b \in Blocks : w[b] = m[b] \/ m[b].kind = "unused"

LEMMA GrownChange ==
  ASSUME NEW m, NEW w, Grow(m, w)
  PROVE  Change(m, w, NoBlock, 1, 0)
BY DEF Grow, Change

LEMMA TagUsed ==
  ASSUME NEW m, NEW S, NEW R, NEW D, Books(m, S, R, D), NEW s \in S
  PROVE  /\ Tag(m, s) \in Blocks /\ m[Tag(m, s)].kind # "unused" /\ Tag(m, s) # NoBlock
         /\ s[1] \in Blocks /\ m[s[1]].kind = "hunk" /\ 1 \in DOMAIN s
         /\ Tag(m, s) \in DOMAIN R <=> m[Tag(m, s)].kind = "table"
         /\ Tag(m, s) \in DOMAIN R \/ Tag(m, s) = s[1]
<1>1. SegOk(m, R, s) /\ NoBlock \notin Blocks
  BY SegsAssumption DEF Books, Segs
<1>2. PICK n \in Nat : n = Len(s) /\ n > 0 /\ DOMAIN s = 1 .. n
  BY <1>1, EmptySeq DEF SegOk
<1>3. s[1] \in Blocks /\ m[s[1]].kind = "hunk" /\ 1 \in DOMAIN s
  BY <1>1, <1>2 DEF SegOk, Has
<1>4. \A t \in DOMAIN R : t \in Blocks /\ m[t].kind = "table"
  BY DEF Books, TreesOk, TreeOk
<1> QED BY <1>1, <1>3, <1>4 DEF SegOk

LEMMA Grown ==
  ASSUME NEW m, NEW S, NEW R, NEW D, NEW w, NEW Q, Books(m, S, R, D), Grow(m, w), Extends(m, R, Q)
  PROVE  /\ \A s \in S : SegOk(w, Q, s) /\ Tag(w, s) = Tag(m, s)
         /\ \A u \in DOMAIN R : /\ TreeOk(w, u, R[u], D[u])
                                /\ Run(m, S, u) => LiveOk(w, u, R[u], D[u])
                                /\ Run(w, S, u) <=> Run(m, S, u)
<1>1. Change(m, w, NoBlock, 1, 0)
  BY GrownChange
<1>2. ASSUME NEW s \in S PROVE SegOk(w, Q, s) /\ Tag(w, s) = Tag(m, s)
  <2>1. SegOk(m, R, s)
    BY DEF Books, Segs
  <2>2. Tag(m, s) # NoBlock
    BY TagUsed
  <2> QED BY <1>1, <2>1, <2>2, SegStays
<1>3. ASSUME NEW u \in DOMAIN R
      PROVE  /\ TreeOk(w, u, R[u], D[u])
             /\ Run(m, S, u) => LiveOk(w, u, R[u], D[u])
             /\ Run(w, S, u) <=> Run(m, S, u)
  <2>1. TreeOk(m, u, R[u], D[u]) /\ (Run(m, S, u) => LiveOk(m, u, R[u], D[u]))
    BY DEF Books, TreesOk
  <2>2. u # NoBlock
    BY <2>1, SegsAssumption DEF TreeOk
  <2>3. TreeOk(w, u, R[u], D[u])
    BY <1>1, <2>1, <2>2, TreeStays
  <2>4. Run(m, S, u) => LiveOk(w, u, R[u], D[u])
    BY <1>1, <2>1, <2>2, LiveStays
  <2>5. Run(w, S, u) <=> Run(m, S, u)
    BY <1>2 DEF Run
  <2> QED BY <2>3, <2>4, <2>5
<1> QED BY <1>2, <1>3

LEMMA OwnerStays ==
  ASSUME NEW m, NEW S, NEW R, NEW D, NEW w, NEW T, NEW Q, NEW E, NEW b, HasOwner(m, S, R, D, b),
         w[b] = m[b], InSeg(S, b) => InSeg(T, b),
         DOMAIN R \subseteq DOMAIN Q, \A u \in DOMAIN R : Q[u].ovtab = R[u].ovtab,
         \A u \in DOMAIN R : InLevel(D[u], b) => InLevel(E[u], b)
  PROVE  HasOwner(w, T, Q, E, b)
BY DEF HasOwner

LEMMA NewSeg ==
  ASSUME NEW p \in Programs, NEW bs \in Seq(Blocks), Len(bs) = Len(Hunks[p]),
         NEW w, NEW t \in Blocks, NEW R, t \in DOMAIN R \/ t = bs[1],
         t \in DOMAIN R => R[t].program = p, NEW at, at = Targets(Nothing, p, bs),
         Written(w, p, bs, t, at)
  PROVE  /\ SegOk(w, R, bs) /\ Tag(w, bs) = t
         /\ \A i \in 1 .. Len(Hunks[p]) : i \in 1 .. total_hunks /\ Has(w, t, i, at[i])
         /\ \A k \in DOMAIN bs : w[bs[k]] \in Contents /\ w[bs[k]].kind = "hunk"
<1>1. PICK n \in Nat : n = Len(Hunks[p]) /\ n > 0 /\ DOMAIN bs = 1 .. n
  BY HunksNumbered DEF Programs
<1>2. first_hunk[p] = 1 /\ n <= total_hunks /\ Numbers(p) = 1 .. n /\ total_hunks \in Nat
      /\ \A k \in 1 .. n : Hunks[p][k] \subseteq 1 .. n
  BY <1>1, ProgramNumbered, SegsAssumption, HunksNumbered DEF Programs
<1>3. ASSUME NEW i \in 1 .. n PROVE i \in 1 .. total_hunks /\ at[i] = bs[i]
  <2>1. i \in 1 .. total_hunks /\ i - 1 + 1 = i
    BY <1>2
  <2> QED BY <1>2, <2>1 DEF Targets, Registered, Nothing
<1>4. ASSUME NEW k \in 1 .. n
      PROVE  /\ Has(w, t, k, bs[k]) /\ w[bs[k]] \in Contents
             /\ \A q \in w[bs[k]].points : q[1] \in 1 .. n /\ q[2] = bs[q[1]]
  <2> DEFINE P == Points(at, p, k)
  <2>1. \A q \in P : q \in Link /\ q[1] \in 1 .. n /\ q[2] = bs[q[1]]
    <3> SUFFICES ASSUME NEW i \in Hunks[p][k]
                 PROVE  LET q == <<i, at[i]>> IN q \in Link /\ q[1] \in 1 .. n /\ q[2] = bs[q[1]]
      BY DEF Points
    <3>1. i \in 1 .. n /\ at[i] = bs[i] /\ bs[i] \in Blocks
      BY <1>1, <1>2, <1>3
    <3> QED BY <3>1 DEF Link
  <2>2. bs[k] \in Blocks /\ w[bs[k]] = Hunk(t, k, P)
    <3>1. 1 + k - 1 = k /\ k \in DOMAIN bs
      BY <1>1
    <3> QED BY <1>2, <3>1 DEF Written
  <2> HIDE DEF P
  <2>3. P \in SUBSET Link /\ k \in Nat
    BY <2>1
  <2>4. Has(w, t, k, bs[k]) /\ w[bs[k]].points = P /\ w[bs[k]] \in Contents
    BY <2>2, <2>3, HunkWritten
  <2> QED BY <2>1, <2>4
<1>5. \A k \in 1 .. n : Leads(w, bs[k], t, n)
  BY <1>4 DEF Leads
<1>6. Tag(w, bs) = t
  BY <1>1, <1>4 DEF Tag, Has
<1>7. bs # <<>>
  BY <1>1
<1>8. \A k \in 1 .. n : w[bs[k]].kind = "hunk"
  BY <1>4 DEF Has
<1> QED BY <1>1, <1>3, <1>4, <1>5, <1>6, <1>7, <1>8 DEF SegOk

LEMMA LoadSegKeeps ==
  ASSUME SegsInv, NEW p \in Plain, load_seg(p)
  PROVE  SegsInv'
<1> DEFINE m == memory w == memory' S == seglists T == seglists' R == overlay_roots D == resident
           n == Len(Hunks[p]) bs == Fresh(n) at == Targets(Nothing, p, bs)
<1>0. p \in Programs /\ n \in Nat /\ n > 0
  BY HunksNumbered DEF Programs
<1>1. CASE UNCHANGED segsVars
  BY <1>1 DEF SegsInv, segsVars
<1>2. CASE /\ Fits(n) /\ w = Linked(m, p, bs, bs[1], at) /\ T = S \union {bs}
           /\ UNCHANGED <<overlay_roots, resident>>
  <2>1. /\ bs \in Seq(Blocks) /\ Len(bs) = n /\ DOMAIN bs = 1 .. n /\ Injective(bs)
        /\ \A k \in 1 .. n : bs[k] \in Blocks /\ m[bs[k]] = Unused
    BY <1>0, <1>2, FreshBlocks
  <2> HIDE DEF bs
  <2>2. /\ w = [b \in Blocks |-> w[b]]
        /\ \A b \in Blocks : b \notin Range(bs) => w[b] = m[b]
        /\ Written(w, p, bs, bs[1], at)
    BY <1>0, <1>2, <2>1, LinkedMemory
  <2> DEFINE t == bs[1]
  <2>3. t \in Blocks /\ m[t].kind = "unused"
    BY <1>0, <2>1, KindsApart
  <2>4. Books(m, S, R, D)
    BY DEF SegsInv
  <2>5. t \notin DOMAIN R
    BY <2>3, <2>4 DEF Books, TreesOk, TreeOk
  <2>a. at = Targets(Nothing, p, bs)
    OBVIOUS
  <2> HIDE DEF at
  <2>6. /\ SegOk(w, R, bs) /\ Tag(w, bs) = t
        /\ \A k \in DOMAIN bs : w[bs[k]] \in Contents /\ w[bs[k]].kind = "hunk"
    <3> HIDE DEF w, R, t
    <3>1. Len(bs) = Len(Hunks[p])
      BY <2>1
    <3>2. t = bs[1]
      BY DEF t
    <3>3. Written(w, p, bs, t, at)
      BY <2>2, <3>2
    <3> QED BY <1>0, <2>1, <2>3, <2>5, <2>a, <3>1, <3>2, <3>3, NewSeg
  <2> HIDE DEF m, w, S, T, R, D, t
  <2>7. Grow(m, w)
    BY <2>1, <2>2, KindsApart DEF Grow, Range
  <2>8. Extends(m, R, R)
    BY DEF Extends
  <2>9. /\ \A s \in S : SegOk(w, R, s) /\ Tag(w, s) = Tag(m, s)
        /\ \A u \in DOMAIN R : /\ TreeOk(w, u, R[u], D[u])
                               /\ Run(m, S, u) => LiveOk(w, u, R[u], D[u])
    BY <2>4, <2>7, <2>8, Grown
  <2>10. w \in [Blocks -> Contents]
    <3>1. \A b \in Blocks : w[b] \in Contents
      BY <2>2, <2>4, <2>6 DEF Books, Range
    <3> QED BY <2>2, <3>1
  <2>11. T = S \union {bs}
    BY <1>2 DEF T, S
  <2>12. Segs(w, T, R)
    BY <2>6, <2>9, <2>11 DEF Segs
  <2>13. TreesOk(w, T, R, D)
    <3> SUFFICES ASSUME NEW u \in DOMAIN R PROVE Run(w, T, u) => Run(m, S, u)
      BY <2>9 DEF TreesOk
    <3> QED BY <2>5, <2>6, <2>9, <2>11 DEF Run
  <2>14. Apart(w, T, R)
    <3>1. \A s \in S : Tag(w, s) # t
      BY <2>3, <2>4, <2>9, TagUsed
    <3> QED BY <2>4, <2>6, <2>9, <2>11, <3>1 DEF Apart, Books
  <2>15. ASSUME NEW b \in Blocks PROVE HasOwner(w, T, R, D, b)
    <3>1. CASE b \in Range(bs)
      <4>1. w[b].kind = "hunk" /\ InSeg(T, b)
        <5>1. PICK k \in DOMAIN bs : b = bs[k]
          BY <3>1 DEF Range
        <5>2. w[b].kind = "hunk"
          BY <2>6, <5>1
        <5> QED BY <2>11, <3>1, <5>2 DEF InSeg
      <4> QED BY <4>1 DEF HasOwner
    <3>2. CASE b \notin Range(bs)
      <4>1. HasOwner(m, S, R, D, b) /\ w[b] = m[b]
        BY <2>2, <2>4, <3>2 DEF Books
      <4>2. InSeg(S, b) => InSeg(T, b)
        BY <2>11 DEF InSeg
      <4> QED BY <4>1, <4>2, OwnerStays
    <3> QED BY <3>1, <3>2
  <2>16. Books(w, T, R, D)
    BY <2>4, <2>10, <2>12, <2>13, <2>14, <2>15 DEF Books
  <2>17. overlay_roots' = R /\ resident' = D
    BY <1>2 DEF R, D
  <2> QED BY <2>16, <2>17 DEF SegsInv, w, T
<1>3. CASE OutOfMemory(n)
  BY <1>1, <1>3 DEF OutOfMemory, Unwound, segsVars
<1> QED BY <1>2, <1>3 DEF load_seg

\* A tree of which only the root is loaded.
LEMMA NewTree ==
  ASSUME NEW p \in Overlaid, NEW hs \in Seq(Blocks), Len(hs) = Len(Hunks[p]),
         NEW at, at = Targets(Nothing, p, hs), NEW w, NEW t \in Blocks, NEW v \in Blocks,
         w[t].kind = "table", w[v].kind = "table",
         \A i \in 1 .. Len(Hunks[p]) : i \in 1 .. total_hunks /\ Has(w, t, i, at[i]),
         NEW r, r = [program |-> p, ovtab |-> v, payload_addrs |-> at]
  PROVE  TreeOk(w, t, r, <<>>) /\ LiveOk(w, t, r, <<>>)
<1>1. PICK n \in Nat : n = Len(Hunks[p]) /\ n > 0 /\ Follow(p) = n + 1 /\ n <= total_hunks
                       /\ Numbers(p) = 1 .. n /\ first_hunk[p] = 1
  BY HunksNumbered, ProgramNumbered DEF Programs
<1>2. total_hunks \in Nat
  BY SegsAssumption
<1>3. at = [i \in 1 .. total_hunks |-> IF i \in 1 .. n THEN hs[i - 1 + 1] ELSE NoBlock]
  BY <1>1 DEF Targets, Registered, Nothing
<1>4. at \in [1 .. total_hunks -> Blocks \union {NoBlock}]
  <2> SUFFICES ASSUME NEW i \in 1 .. total_hunks PROVE at[i] \in Blocks \union {NoBlock}
    BY <1>3
  <2>1. CASE i \in 1 .. n
    BY <1>1, <2>1 DEF Has
  <2>2. CASE i \notin 1 .. n
    BY <1>3, <2>2
  <2> QED BY <2>1, <2>2
<1>5. r \in Root
  BY <1>4 DEF Root
<1>6. <<>> \in Seq(NodeLevel) /\ DOMAIN <<>> = {}
  OBVIOUS
<1>7. r.program = p /\ r.payload_addrs = at /\ r.ovtab = v
  OBVIOUS
<1>8. TreeOk(w, t, r, <<>>)
  BY <1>5, <1>6, <1>7 DEF TreeOk, Rising
<1>9. End(r, <<>>) = n + 1
  BY <1>1, <1>7 DEF End
<1>10. /\ n + 1 - 1 <= total_hunks
       /\ \A i \in 1 .. n + 1 - 1 : Has(w, t, i, at[i])
  BY <1>1, <1>2
<1> QED BY <1>6, <1>7, <1>8, <1>9, <1>10 DEF LiveOk

LEMMA LoadRootKeeps ==
  ASSUME SegsInv, NEW p \in Overlaid, load_overlay_root(p)
  PROVE  SegsInv'
<1> DEFINE m == memory w == memory' S == seglists T == seglists' R == overlay_roots
           Q == overlay_roots' D == resident E == resident'
           n == Len(Hunks[p]) bs == Fresh(n + 3) hs == SubSeq(bs, 2, n + 1)
           v == bs[n + 2] t == bs[n + 3] at == Targets(Nothing, p, hs)
           tables == [b \in Blocks |-> IF b \in {v, t} THEN Table ELSE m[b]]
           r == [program |-> p, ovtab |-> v, payload_addrs |-> at]
<1>0. p \in Programs /\ n \in Nat /\ n > 0
  BY HunksNumbered DEF Programs
<1>1. /\ Fits(n + 3) /\ w = [Linked(tables, p, hs, t, at) EXCEPT ![bs[1]] = Handle]
      /\ T = S \union {hs}
      /\ Q = [u \in DOMAIN R \union {t} |-> IF u \in DOMAIN R THEN R[u] ELSE r]
      /\ E = [u \in DOMAIN R \union {t} |-> IF u \in DOMAIN R THEN D[u] ELSE <<>>]
  BY DEF load_overlay_root, Trees
<1>2. /\ bs \in Seq(Blocks) /\ Len(bs) = n + 3 /\ DOMAIN bs = 1 .. n + 3 /\ Injective(bs)
      /\ \A k \in 1 .. n + 3 : bs[k] \in Blocks /\ m[bs[k]] = Unused
  <2>1. n + 3 \in Nat
    BY <1>0
  <2> QED BY <1>1, <2>1, FreshBlocks
<1> HIDE DEF bs
<1>3. /\ hs \in Seq(Blocks) /\ Len(hs) = n /\ DOMAIN hs = 1 .. n
      /\ \A k \in 1 .. n : hs[k] = bs[k + 1]
  BY <1>0, <1>2
<1> HIDE DEF hs
<1>4. /\ Injective(hs) /\ \A k \in 1 .. n : hs[k] \notin {bs[1], v, t}
      /\ v # t /\ bs[1] \notin {v, t} /\ bs[1] \in Blocks /\ v \in Blocks /\ t \in Blocks
  <2>1. \A k \in 1 .. n : k + 1 \in 1 .. n + 3 /\ k + 1 \notin {1, n + 2, n + 3}
    BY <1>0
  <2>2. {1, n + 2, n + 3} \subseteq 1 .. n + 3 /\ n + 2 # n + 3 /\ 1 # n + 2 /\ 1 # n + 3
    BY <1>0
  <2>3. \A j, k \in 1 .. n : j + 1 = k + 1 => j = k
    BY <1>0
  <2>4. Injective(hs)
    <3> SUFFICES ASSUME NEW i \in 1 .. n, NEW j \in 1 .. n, hs[i] = hs[j] PROVE i = j
      BY <1>3 DEF Injective
    <3>1. i + 1 \in DOMAIN bs /\ j + 1 \in DOMAIN bs /\ bs[i + 1] = bs[j + 1]
      BY <1>2, <1>3, <2>1
    <3>2. i + 1 = j + 1
      BY <1>2, <3>1 DEF Injective
    <3> QED BY <2>3, <3>2
  <2> QED BY <1>2, <1>3, <2>1, <2>2, <2>4 DEF Injective
<1>5. /\ Linked(tables, p, hs, t, at) = [b \in Blocks |-> Linked(tables, p, hs, t, at)[b]]
      /\ \A b \in Blocks : b \notin Range(hs) => Linked(tables, p, hs, t, at)[b] = tables[b]
      /\ Written(Linked(tables, p, hs, t, at), p, hs, t, at)
  <2> HIDE DEF tables, t, at
  <2> QED BY <1>0, <1>3, <1>4, LinkedMemory
<1> HIDE DEF at
<1>6. /\ w = [b \in Blocks |-> w[b]]
      /\ w[bs[1]] = Handle /\ w[v] = Table /\ w[t] = Table
      /\ Written(w, p, hs, t, at)
      /\ \A b \in Blocks : b \notin Range(hs) \union {bs[1], v, t} => w[b] = m[b]
  <2> DEFINE l == Linked(tables, p, hs, t, at)
  <2>1. l = [b \in Blocks |-> l[b]] /\ \A b \in Blocks : b \notin Range(hs) => l[b] = tables[b]
    BY <1>5
  <2>2. Written(l, p, hs, t, at)
    BY <1>5
  <2>3. w = [l EXCEPT ![bs[1]] = Handle]
    BY <1>1
  <2>4. tables[v] = Table /\ tables[t] = Table
        /\ \A b \in Blocks : b \notin {v, t} => tables[b] = m[b]
    BY <1>4
  <2> HIDE DEF l, tables, w, m
  <2>5. /\ w = [b \in Blocks |-> w[b]] /\ w[bs[1]] = Handle
        /\ \A b \in Blocks : b # bs[1] => w[b] = l[b]
    BY <1>4, <2>1, <2>3
  <2>6. v \notin Range(hs) /\ t \notin Range(hs)
    BY <1>3, <1>4 DEF Range
  <2>7. Written(w, p, hs, t, at)
    <3>1. \A k \in DOMAIN hs : w[hs[k]] = l[hs[k]]
      BY <1>3, <1>4, <2>5
    <3> QED BY <2>2, <3>1 DEF Written
  <2> QED BY <1>4, <2>1, <2>4, <2>5, <2>6, <2>7
<1>7. m[t].kind = "unused" /\ m[v].kind = "unused" /\ m[bs[1]].kind = "unused"
      /\ \A b \in Range(hs) : m[b].kind = "unused"
  <2>1. {1, n + 2, n + 3} \subseteq 1 .. n + 3 /\ \A k \in 1 .. n : k + 1 \in 1 .. n + 3
    BY <1>0
  <2>2. \A b \in Range(hs) : m[b] = Unused
    BY <1>2, <1>3, <2>1 DEF Range
  <2> QED BY <1>2, <2>1, <2>2, KindsApart
<1>8. Books(m, S, R, D)
  BY DEF SegsInv
<1>9. t \notin DOMAIN R
  BY <1>7, <1>8 DEF Books, TreesOk, TreeOk
<1>10. /\ DOMAIN Q = DOMAIN R \union {t} /\ Q[t] = r /\ E[t] = <<>>
       /\ \A u \in DOMAIN R : Q[u] = R[u] /\ E[u] = D[u]
       /\ DOMAIN E = DOMAIN Q /\ Q = [u \in DOMAIN Q |-> Q[u]] /\ E = [u \in DOMAIN Q |-> E[u]]
  BY <1>1, <1>9
<1>a. at = Targets(Nothing, p, hs) /\ Len(hs) = Len(Hunks[p]) /\ r.program = p /\ r.ovtab = v
  BY <1>3 DEF at
<1> HIDE DEF m, w, S, T, R, Q, D, E, t, v, tables, r, n
<1>11. /\ SegOk(w, Q, hs) /\ Tag(w, hs) = t
       /\ \A i \in 1 .. Len(Hunks[p]) : i \in 1 .. total_hunks /\ Has(w, t, i, at[i])
       /\ \A k \in DOMAIN hs : w[hs[k]] \in Contents /\ w[hs[k]].kind = "hunk"
  <2>1. t \in DOMAIN Q /\ Q[t].program = p
    BY <1>10, <1>a
  <2>2. /\ hs \in Seq(Blocks) /\ Len(hs) = Len(Hunks[p]) /\ t \in Blocks
        /\ Written(w, p, hs, t, at) /\ p \in Programs /\ at = Targets(Nothing, p, hs)
    BY <1>0, <1>3, <1>4, <1>6, <1>a
  <2> QED BY <2>1, <2>2, NewSeg
<1>12. w[t].kind = "table" /\ w[v].kind = "table"
  BY <1>6, KindsApart
<1>13. TreeOk(w, t, r, <<>>) /\ LiveOk(w, t, r, <<>>)
  <2>1. r = [program |-> p, ovtab |-> v, payload_addrs |-> at]
    BY DEF r
  <2> QED BY <1>3, <1>4, <1>11, <1>12, <1>a, <2>1, NewTree
<1>14. Grow(m, w)
  BY <1>6, <1>7 DEF Grow
<1>15. Extends(m, R, Q)
  BY <1>7, <1>10 DEF Extends
<1>16. /\ \A s \in S : SegOk(w, Q, s) /\ Tag(w, s) = Tag(m, s)
       /\ \A u \in DOMAIN R : /\ TreeOk(w, u, R[u], D[u])
                              /\ Run(m, S, u) => LiveOk(w, u, R[u], D[u])
  BY <1>8, <1>14, <1>15, Grown
<1>17. w \in [Blocks -> Contents]
  <2>1. ASSUME NEW b \in Blocks PROVE w[b] \in Contents
    <3>1. CASE b \in Range(hs)
      BY <3>1, <1>11 DEF Range
    <3>2. CASE b \in {bs[1], v, t}
      BY <3>2, <1>6, KindsApart
    <3>3. CASE b \notin Range(hs) \union {bs[1], v, t}
      BY <3>3, <1>6, <1>8 DEF Books
    <3> QED BY <3>1, <3>2, <3>3
  <2> QED BY <1>6, <2>1
<1>18. T = S \union {hs}
  BY <1>1 DEF T, S
<1>19. Segs(w, T, Q)
  BY <1>11, <1>16, <1>18 DEF Segs
<1>20. TreesOk(w, T, Q, E)
  <2>1. ASSUME NEW u \in DOMAIN R
        PROVE  TreeOk(w, u, Q[u], E[u]) /\ (Run(w, T, u) => LiveOk(w, u, Q[u], E[u]))
    <3>1. Run(w, T, u) => Run(m, S, u)
      BY <1>9, <1>11, <1>16, <1>18 DEF Run
    <3> QED BY <1>10, <1>16, <3>1
  <2> QED BY <1>10, <1>13, <2>1 DEF TreesOk
<1>21. Apart(w, T, Q)
  <2>1. \A s \in S : Tag(w, s) # t
    BY <1>7, <1>8, <1>16, TagUsed
  <2>2. \A s, u \in T : Tag(w, s) = Tag(w, u) => s = u
    BY <1>8, <1>11, <1>16, <1>18, <2>1 DEF Apart, Books
  <2>3. \A u \in DOMAIN R : /\ R[u].ovtab \notin {t, v} /\ u \notin {t, v}
    BY <1>7, <1>8 DEF Books, TreesOk, TreeOk
  <2>4. Q[t].ovtab = v /\ t # v /\ \A u \in DOMAIN R : Q[u].ovtab = R[u].ovtab
    BY <1>4, <1>10, <1>a
  <2>5. Apart(m, S, R)
    BY <1>8 DEF Books
  <2>6. \A u, x \in DOMAIN Q : u # Q[x].ovtab /\ (Q[u].ovtab = Q[x].ovtab => u = x)
    BY <1>10, <2>3, <2>4, <2>5 DEF Apart
  <2> QED BY <2>2, <2>6 DEF Apart
<1>22. ASSUME NEW b \in Blocks PROVE HasOwner(w, T, Q, E, b)
  <2>1. CASE b \in Range(hs)
    <3>1. w[b].kind = "hunk"
      BY <2>1, <1>11 DEF Range
    <3> QED BY <2>1, <3>1, <1>18 DEF HasOwner, InSeg
  <2>2. CASE b = bs[1]
    BY <2>2, <1>6, KindsApart DEF HasOwner
  <2>3. CASE b \in {v, t}
    <3>1. w[b].kind = "table" /\ t \in DOMAIN Q /\ Q[t].ovtab = v
      BY <2>3, <1>10, <1>12, <1>a
    <3> QED BY <2>3, <3>1 DEF HasOwner
  <2>4. CASE b \notin Range(hs) \union {bs[1], v, t}
    <3>1. HasOwner(m, S, R, D, b) /\ w[b] = m[b]
      BY <1>6, <1>8, <2>4 DEF Books
    <3>2. InSeg(S, b) => InSeg(T, b)
      BY <1>18 DEF InSeg
    <3>3. /\ DOMAIN R \subseteq DOMAIN Q /\ \A u \in DOMAIN R : Q[u].ovtab = R[u].ovtab
          /\ \A u \in DOMAIN R : InLevel(D[u], b) => InLevel(E[u], b)
      BY <1>10
    <3> QED BY <3>1, <3>2, <3>3, OwnerStays
  <2> QED BY <2>1, <2>2, <2>3, <2>4
<1>23. Books(w, T, Q, E)
  BY <1>10, <1>17, <1>19, <1>20, <1>21, <1>22 DEF Books
<1> QED BY <1>23 DEF SegsInv, w, T, Q, E

\* Only the FileHandle stays.
LEMMA HandleStays ==
  ASSUME SegsInv, NEW p \in Overlaid, OverlayOutOfMemory(p)
  PROVE  SegsInv'
<1> DEFINE m == memory w == memory' S == seglists R == overlay_roots D == resident
           h == Fresh(1)[1]
<1>1. PICK k \in 1 .. Len(Hunks[p]) + 2 : Fits(k) /\ w = [m EXCEPT ![h] = Handle]
  BY DEF OverlayOutOfMemory, Unwound
<1>2. UNCHANGED <<seglists, overlay_roots, resident>>
  BY DEF OverlayOutOfMemory
<1>3. Fits(1)
  <2>1. Len(Hunks[p]) \in Nat
    BY HunksNumbered DEF Programs
  <2>2. k \in Nat /\ k >= 1
    BY <2>1
  <2>3. Cardinality(Free) \in Nat
    BY BlocksFinite DEF Free
  <2> QED BY <1>1, <2>2, <2>3 DEF Fits
<1>4. h \in Blocks /\ m[h] = Unused
  BY <1>3, FreshBlocks
<1>5. Books(m, S, R, D)
  BY DEF SegsInv
<1> HIDE DEF m, w, S, R, D, h
<1>6. w \in [Blocks -> Contents] /\ w[h] = Handle /\ \A b \in Blocks : b # h => w[b] = m[b]
  BY <1>1, <1>4, <1>5, KindsApart DEF Books
<1>7. Grow(m, w) /\ Extends(m, R, R)
  BY <1>4, <1>6, KindsApart DEF Grow, Extends
<1>8. /\ \A s \in S : SegOk(w, R, s) /\ Tag(w, s) = Tag(m, s)
      /\ \A u \in DOMAIN R : /\ TreeOk(w, u, R[u], D[u])
                             /\ Run(m, S, u) => LiveOk(w, u, R[u], D[u])
                             /\ Run(w, S, u) <=> Run(m, S, u)
  BY <1>5, <1>7, Grown
<1>9. Segs(w, S, R) /\ TreesOk(w, S, R, D) /\ Apart(w, S, R)
  <2>1. Apart(m, S, R)
    BY <1>5 DEF Books
  <2>2. Apart(w, S, R)
    BY <1>8, <2>1 DEF Apart
  <2> QED BY <1>8, <2>2 DEF Segs, TreesOk
<1>10. ASSUME NEW b \in Blocks PROVE HasOwner(w, S, R, D, b)
  <2>1. CASE b = h
    BY <2>1, <1>6, KindsApart DEF HasOwner
  <2>2. CASE b # h
    <3>1. HasOwner(m, S, R, D, b) /\ w[b] = m[b]
      BY <1>5, <1>6, <2>2 DEF Books
    <3> QED BY <3>1 DEF HasOwner
  <2> QED BY <2>1, <2>2
<1>11. Books(w, S, R, D)
  BY <1>5, <1>6, <1>9, <1>10 DEF Books
<1>12. seglists' = S /\ overlay_roots' = R /\ resident' = D
  BY <1>2 DEF S, R, D
<1> QED BY <1>11, <1>12 DEF SegsInv, w

-----------------------------------------------------------------------------
(* UnLoadSeg. *)

LEMMA UnloadKeeps ==
  ASSUME SegsInv, NEW s \in seglists, unload_seg(s)
  PROVE  SegsInv'
<1> DEFINE m == memory w == memory' S == seglists T == seglists' R == overlay_roots D == resident
           t == Tag(m, s) n == Len(s)
<1>1. /\ w = [b \in Blocks |-> IF b \in Range(s) THEN Unused ELSE m[b]]
      /\ T = S \ {s} /\ overlay_roots' = R /\ resident' = D
  BY DEF unload_seg, Released
<1>2. Books(m, S, R, D) /\ s \in S
  BY DEF SegsInv
<1> HIDE DEF m, w, S, T, R, D
<1>3. /\ w \in [Blocks -> Contents]
      /\ \A b \in Blocks : b \notin Range(s) => w[b] = m[b]
      /\ \A b \in Blocks : b \in Range(s) => w[b] = Unused
  BY <1>1, <1>2, KindsApart DEF Books
<1>4. SegOk(m, R, s)
  BY <1>2 DEF Books, Segs
<1>5. n \in Nat /\ DOMAIN s = 1 .. n
  BY <1>4 DEF SegOk
<1>6. \A b \in Range(s) : m[b].kind = "hunk" /\ m[b].tree = t /\ 1 <= m[b].index /\ m[b].index <= n
  <2> SUFFICES ASSUME NEW k \in DOMAIN s
               PROVE  /\ m[s[k]].kind = "hunk" /\ m[s[k]].tree = t
                      /\ 1 <= m[s[k]].index /\ m[s[k]].index <= n
    BY DEF Range
  <2>1. Has(m, t, k, s[k])
    BY <1>4 DEF SegOk
  <2> QED BY <1>5, <2>1 DEF Has
<1>7. Change(m, w, t, 1, n)
  BY <1>3, <1>6 DEF Change
<1>8. Extends(m, R, R)
  BY DEF Extends
<1>9. ASSUME NEW u \in T PROVE SegOk(w, R, u) /\ Tag(w, u) = Tag(m, u) /\ Tag(m, u) # t
  <2>1. u \in S /\ u # s
    BY <1>1 DEF T, S
  <2>2. SegOk(m, R, u)
    BY <1>2, <2>1 DEF Books, Segs
  <2>3. Tag(m, u) # t
    BY <1>2, <2>1 DEF Books, Apart
  <2> QED BY <1>7, <1>8, <2>2, <2>3, SegStays
<1>10. ASSUME NEW u \in DOMAIN R
       PROVE  TreeOk(w, u, R[u], D[u]) /\ (Run(w, T, u) => LiveOk(w, u, R[u], D[u]))
  <2>1. TreeOk(m, u, R[u], D[u]) /\ (Run(m, S, u) => LiveOk(m, u, R[u], D[u]))
    BY <1>2 DEF Books, TreesOk
  <2>2. ASSUME u = t, NEW k \in DOMAIN D[u], NEW j \in DOMAIN D[u][k].blocks
        PROVE  ~ (1 <= first_hunk[D[u][k].node] + j - 1 /\ first_hunk[D[u][k].node] + j - 1 <= n)
    <3>1. /\ Follow(R[u].program) \in Nat /\ first_hunk[D[u][k].node] \in Nat
          /\ Follow(R[u].program) <= first_hunk[D[u][k].node] /\ D[u][k] \in NodeLevel
      BY <2>1, EndNumber
    <3>2. n = Len(Hunks[R[u].program])
      BY <1>4, <2>2 DEF SegOk
    <3>3. R[u].program \in Programs
      BY <2>1 DEF TreeOk, Root, Programs
    <3>4. Follow(R[u].program) = n + 1
      BY <3>2, <3>3, ProgramNumbered
    <3>5. j \in Nat /\ j >= 1
      BY <3>1 DEF NodeLevel
    <3> QED BY <1>5, <3>1, <3>4, <3>5
  <2>3. TreeOk(w, u, R[u], D[u])
    BY <1>7, <2>1, <2>2, TreeStays
  <2>4. Run(w, T, u) => Run(m, S, u) /\ u # t
    BY <1>1, <1>9 DEF Run, T, S
  <2>5. u # t /\ Run(m, S, u) => LiveOk(w, u, R[u], D[u])
    BY <1>7, <2>1, LiveStays
  <2> QED BY <2>3, <2>4, <2>5
<1>11. Segs(w, T, R) /\ TreesOk(w, T, R, D)
  BY <1>9, <1>10 DEF Segs, TreesOk
<1>12. Apart(w, T, R)
  <2>1. T \subseteq S
    BY <1>1 DEF T, S
  <2> QED BY <1>2, <1>9, <2>1 DEF Apart, Books
<1>13. ASSUME NEW b \in Blocks PROVE HasOwner(w, T, R, D, b)
  <2>1. CASE b \in Range(s)
    BY <2>1, <1>3, KindsApart DEF HasOwner
  <2>2. CASE b \notin Range(s)
    <3>1. HasOwner(m, S, R, D, b) /\ w[b] = m[b]
      BY <1>2, <1>3, <2>2 DEF Books
    <3>2. InSeg(S, b) => InSeg(T, b)
      BY <1>1, <2>2 DEF InSeg, T, S
    <3> QED BY <3>1, <3>2, OwnerStays
  <2> QED BY <2>1, <2>2
<1>14. Books(w, T, R, D)
  BY <1>2, <1>3, <1>11, <1>12, <1>13 DEF Books
<1>15. overlay_roots' = R /\ resident' = D
  BY <1>1
<1> QED BY <1>14, <1>15 DEF SegsInv, w, T

-----------------------------------------------------------------------------
(* The manager frees a node. *)

LEMMA FrontOf ==
  ASSUME NEW d \in Seq(NodeLevel), d # <<>>
  PROVE  \E n \in Nat : /\ n = Len(d) /\ n > 0 /\ DOMAIN d = 1 .. n /\ Last(d) = d[n]
                        /\ Front(d) \in Seq(NodeLevel) /\ DOMAIN Front(d) = 1 .. n - 1
                        /\ Len(Front(d)) = n - 1
                        /\ \A k \in 1 .. n - 1 : Front(d)[k] = d[k]
<1>1. PICK n \in Nat : n = Len(d) /\ n > 0 /\ DOMAIN d = 1 .. n
  BY EmptySeq
<1>2. Front(d) = SubSeq(d, 1, n - 1) /\ Last(d) = d[n]
  BY <1>1 DEF Front, Last
<1>3. /\ SubSeq(d, 1, n - 1) \in Seq(NodeLevel) /\ Len(SubSeq(d, 1, n - 1)) = n - 1
      /\ DOMAIN SubSeq(d, 1, n - 1) = 1 .. n - 1
      /\ \A k \in 1 .. n - 1 : SubSeq(d, 1, n - 1)[k] = d[k]
  BY <1>1
<1> QED BY <1>1, <1>2, <1>3

\* Without the innermost level the rest is as it was.
LEMMA Above ==
  ASSUME NEW m, NEW t, NEW r, NEW d, TreeOk(m, t, r, d), d # <<>>
  PROVE  /\ TreeOk(m, t, r, Front(d)) /\ End(r, Front(d)) <= first_hunk[Last(d).node]
         /\ LiveOk(m, t, r, d) => LiveOk(m, t, r, Front(d))
         /\ \A k \in DOMAIN Front(d) : k \in DOMAIN d /\ Front(d)[k] = d[k]
         /\ \A k \in DOMAIN d : k \in DOMAIN Front(d) \/ d[k] = Last(d)
         /\ Last(d) \in NodeLevel /\ LevelOk(m, t, Last(d))
<1> DEFINE c == Front(d)
<1>0. d \in Seq(NodeLevel) /\ Rising(r, d)
  BY DEF TreeOk
<1>1. PICK n \in Nat : /\ n = Len(d) /\ n > 0 /\ DOMAIN d = 1 .. n /\ Last(d) = d[n]
                       /\ c \in Seq(NodeLevel) /\ DOMAIN c = 1 .. n - 1 /\ Len(c) = n - 1
                       /\ \A k \in 1 .. n - 1 : c[k] = d[k]
  BY <1>0, FrontOf
<1> HIDE DEF c
<1>2. \A k \in DOMAIN c : k \in DOMAIN d /\ c[k] = d[k] /\ k < n
  BY <1>1
<1>3. n \in DOMAIN d /\ \A k \in DOMAIN d : k \in DOMAIN c \/ k = n
  BY <1>1
<1>4. Rising(r, c)
  BY <1>0, <1>2 DEF Rising
<1>5. TreeOk(m, t, r, c)
  BY <1>1, <1>2, <1>4 DEF TreeOk
<1>6. End(r, c) <= first_hunk[d[n].node]
  <2>1. CASE c = <<>>
    BY <2>1, <1>0, <1>3 DEF End, Rising
  <2>2. CASE c # <<>>
    <3>1. n - 1 \in DOMAIN c /\ Last(c) = c[n - 1]
      BY <2>2, <1>1, EmptySeq DEF Last
    <3> QED BY <2>2, <3>1, <1>0, <1>2, <1>3 DEF End, Rising
  <2> QED BY <2>1, <2>2
<1>7. PICK e \in Nat : e = End(r, c)
  BY <1>5, EndNumber
<1>8. PICK f \in Nat : f = End(r, d)
  BY EndNumber
<1>9. e <= f
  <2>1. first_hunk[d[n].node] \in Nat /\ Follow(d[n].node) \in Nat
        /\ first_hunk[d[n].node] < Follow(d[n].node) /\ Follow(d[n].node) <= f
    BY <1>3, <1>8, EndNumber
  <2> QED BY <1>6, <1>7, <2>1
<1>10. ASSUME LiveOk(m, t, r, d) PROVE LiveOk(m, t, r, c)
  <2>1. /\ f - 1 <= total_hunks /\ \A i \in 1 .. f - 1 : Has(m, t, i, r.payload_addrs[i])
        /\ \A k \in DOMAIN d : LevelLeads(m, t, d[k])
    BY <1>8, <1>10 DEF LiveOk
  <2>2. e - 1 <= total_hunks /\ \A i \in 1 .. e - 1 : Has(m, t, i, r.payload_addrs[i])
    BY <1>9, <2>1, SegsAssumption
  <2> QED BY <1>2, <1>7, <2>1, <2>2 DEF LiveOk
<1>11. LevelOk(m, t, d[n]) /\ d[n] \in NodeLevel
  BY <1>0, <1>3 DEF TreeOk
<1> QED BY <1>1, <1>2, <1>3, <1>5, <1>6, <1>10, <1>11 DEF c

LEMMA DisplaceKeeps ==
  ASSUME SegsInv, NEW t \in Trees, Live(t), Displace(t)
  PROVE  SegsInv'
<1> DEFINE m == memory w == memory' S == seglists R == overlay_roots D == resident E == resident'
           d == D[t] l == Last(d) lo == first_hunk[l.node] hi == Follow(l.node) - 1
<1>1. /\ d # <<>> /\ w = [b \in Blocks |-> IF b \in Range(l.blocks) THEN Unused ELSE m[b]]
      /\ E = [D EXCEPT ![t] = Front(d)] /\ seglists' = S /\ overlay_roots' = R /\ t \in DOMAIN R
  BY DEF Displace, Trees
<1>2. Books(m, S, R, D)
  BY DEF SegsInv
<1>3. Run(m, S, t)
  BY DEF Live, Run, Tag
<1> HIDE DEF m, w, S, R, E, D
<1>4. TreeOk(m, t, R[t], d) /\ LiveOk(m, t, R[t], d)
  BY <1>1, <1>2, <1>3 DEF Books, TreesOk
<1>5. /\ TreeOk(m, t, R[t], Front(d)) /\ End(R[t], Front(d)) <= lo
      /\ LiveOk(m, t, R[t], Front(d))
      /\ \A k \in DOMAIN Front(d) : k \in DOMAIN d /\ Front(d)[k] = d[k]
      /\ \A k \in DOMAIN d : k \in DOMAIN Front(d) \/ d[k] = l
      /\ l \in NodeLevel /\ LevelOk(m, t, l)
  <2> DEFINE r == R[t]
  <2> HIDE DEF d, r
  <2>1. TreeOk(m, t, r, d) /\ LiveOk(m, t, r, d) /\ d # <<>>
    BY <1>1, <1>4 DEF r
  <2>2. /\ TreeOk(m, t, r, Front(d)) /\ End(r, Front(d)) <= first_hunk[Last(d).node]
        /\ LiveOk(m, t, r, d) => LiveOk(m, t, r, Front(d))
        /\ \A k \in DOMAIN Front(d) : k \in DOMAIN d /\ Front(d)[k] = d[k]
        /\ \A k \in DOMAIN d : k \in DOMAIN Front(d) \/ d[k] = Last(d)
        /\ Last(d) \in NodeLevel /\ LevelOk(m, t, Last(d))
    BY <2>1, Above
  <2> QED BY <2>1, <2>2 DEF r
<1>6. /\ DOMAIN E = DOMAIN R /\ E = [u \in DOMAIN R |-> E[u]] /\ E[t] = Front(d)
      /\ \A u \in DOMAIN R : u # t => E[u] = D[u]
  BY <1>1, <1>2 DEF Books
<1> HIDE DEF d, l
<1>7. lo \in Nat /\ hi \in Nat /\ lo > 1
  <2>1. l.node \in Nodes
    BY <1>5 DEF NodeLevel
  <2>2. End(R[t], Front(d)) \in Nat /\ Follow(R[t].program) <= End(R[t], Front(d))
        /\ Follow(R[t].program) \in Nat /\ Follow(R[t].program) > 1
    BY <1>5, EndNumber
  <2>3. /\ first_hunk[l.node] \in Nat /\ Follow(l.node) \in Nat
        /\ Follow(l.node) > first_hunk[l.node]
    BY <2>1, HunksNumbered
  <2> QED BY <1>5, <2>2, <2>3
<1>8. /\ w \in [Blocks -> Contents]
      /\ \A b \in Blocks : b \notin Range(l.blocks) => w[b] = m[b]
      /\ \A b \in Blocks : b \in Range(l.blocks) => w[b] = Unused
  BY <1>1, <1>2, KindsApart DEF Books
<1>9. \A b \in Range(l.blocks) : m[b].kind = "hunk" /\ m[b].tree = t
                                 /\ lo <= m[b].index /\ m[b].index <= hi
  <2> SUFFICES ASSUME NEW j \in DOMAIN l.blocks
               PROVE  /\ m[l.blocks[j]].kind = "hunk" /\ m[l.blocks[j]].tree = t
                      /\ lo <= m[l.blocks[j]].index /\ m[l.blocks[j]].index <= hi
    BY DEF Range
  <2>1. Has(m, t, lo + j - 1, l.blocks[j])
    BY <1>5 DEF LevelOk
  <2>2. PICK n \in Nat : n = Len(l.blocks) /\ n = Len(Hunks[l.node]) /\ j \in 1 .. n
    BY <1>5 DEF LevelOk, NodeLevel
  <2>3. hi = lo + n - 1
    BY <1>7, <2>2 DEF Follow
  <2> QED BY <1>7, <2>1, <2>2, <2>3 DEF Has
<1>10. Change(m, w, t, lo, hi) /\ Extends(m, R, R)
  BY <1>8, <1>9 DEF Change, Extends
<1> HIDE DEF lo, hi
<1>11. ASSUME NEW s \in S PROVE SegOk(w, R, s) /\ Tag(w, s) = Tag(m, s)
  <2>1. SegOk(m, R, s)
    BY <1>2 DEF Books, Segs
  <2>2. ASSUME Tag(m, s) = t PROVE Len(s) < lo
    <3>1. Len(s) = Len(Hunks[R[t].program])
      BY <1>1, <2>1, <2>2 DEF SegOk
    <3>2. R[t].program \in Programs
      BY <1>4 DEF TreeOk, Root, Programs
    <3>3. Follow(R[t].program) = Len(s) + 1
      BY <3>1, <3>2, ProgramNumbered
    <3>4. Len(s) \in Nat
      BY <2>1 DEF SegOk
    <3>5. End(R[t], Front(d)) \in Nat /\ Follow(R[t].program) <= End(R[t], Front(d))
      BY <1>5, EndNumber
    <3> QED BY <1>5, <1>7, <3>3, <3>4, <3>5
  <2> QED BY <1>7, <1>10, <2>1, <2>2, SegStays
<1>12. ASSUME NEW u \in DOMAIN R, u # t
       PROVE  TreeOk(w, u, R[u], E[u]) /\ (Run(m, S, u) => LiveOk(w, u, R[u], E[u]))
  <2>1. TreeOk(m, u, R[u], D[u]) /\ (Run(m, S, u) => LiveOk(m, u, R[u], D[u])) /\ E[u] = D[u]
    BY <1>2, <1>6, <1>12 DEF Books, TreesOk
  <2> QED BY <1>10, <1>12, <2>1, TreeStays, LiveStays
<1>13. TreeOk(w, t, R[t], E[t]) /\ LiveOk(w, t, R[t], E[t])
  <2> DEFINE c == Front(d)
  <2>1. ASSUME NEW k \in DOMAIN c, NEW j \in DOMAIN c[k].blocks
        PROVE  ~ (lo <= first_hunk[c[k].node] + j - 1 /\ first_hunk[c[k].node] + j - 1 <= hi)
    <3>1. /\ Follow(c[k].node) \in Nat /\ Follow(c[k].node) <= End(R[t], c) /\ End(R[t], c) \in Nat
          /\ first_hunk[c[k].node] \in Nat /\ c[k] \in NodeLevel
      BY <1>5, EndNumber
    <3>2. LevelOk(m, t, c[k])
      BY <1>5 DEF TreeOk
    <3>3. PICK n \in Nat : n = Len(Hunks[c[k].node]) /\ j \in 1 .. n
      BY <3>1, <3>2 DEF LevelOk, NodeLevel
    <3>4. Follow(c[k].node) = first_hunk[c[k].node] + n
      BY <3>3 DEF Follow
    <3> QED BY <1>5, <1>7, <3>1, <3>3, <3>4
  <2> HIDE DEF c
  <2>2. TreeOk(m, t, R[t], c) /\ LiveOk(m, t, R[t], c) /\ End(R[t], c) <= lo /\ E[t] = c
    BY <1>5, <1>6 DEF c
  <2>3. TreeOk(w, t, R[t], c)
    BY <1>10, <2>1, <2>2, TreeStays
  <2>4. LiveOk(w, t, R[t], c)
    BY <1>7, <1>10, <2>2, LiveStays
  <2> QED BY <2>2, <2>3, <2>4
<1>14. Segs(w, S, R) /\ TreesOk(w, S, R, E)
  <2>1. \A u \in DOMAIN R : Run(w, S, u) => Run(m, S, u)
    BY <1>11 DEF Run
  <2> QED BY <1>11, <1>12, <1>13, <2>1 DEF Segs, TreesOk
<1>15. Apart(w, S, R)
  BY <1>2, <1>11 DEF Apart, Books
<1>16. ASSUME NEW b \in Blocks PROVE HasOwner(w, S, R, E, b)
  <2>1. CASE b \in Range(l.blocks)
    BY <2>1, <1>8, KindsApart DEF HasOwner
  <2>2. CASE b \notin Range(l.blocks)
    <3>1. HasOwner(m, S, R, D, b) /\ w[b] = m[b]
      BY <1>2, <1>8, <2>2 DEF Books
    <3>2. InLevel(D[t], b) => InLevel(E[t], b)
      BY <1>5, <1>6, <2>2 DEF InLevel, d
    <3>3. \A u \in DOMAIN R : InLevel(D[u], b) => InLevel(E[u], b)
      BY <1>6, <3>2
    <3> QED BY <3>1, <3>3, OwnerStays
  <2> QED BY <2>1, <2>2
<1>17. Books(w, S, R, E)
  BY <1>2, <1>6, <1>8, <1>14, <1>15, <1>16 DEF Books
<1>18. seglists' = S /\ overlay_roots' = R
  BY <1>1
<1> QED BY <1>17, <1>18 DEF SegsInv, w, E

-----------------------------------------------------------------------------
(* The manager loads a node. *)

\* Root q is root r after the hunks of the node were registered at bs.
Enters(r, q, node, bs) ==
  q = [r EXCEPT !.payload_addrs = Registered(r.payload_addrs, node, bs)]

InTable(at, node, bs) ==
  /\ DOMAIN at = 1 .. total_hunks
  /\ \A i \in 1 .. total_hunks : i \in Numbers(node) => at[i] = bs[i - first_hunk[node] + 1]
Found(at, node) ==
  /\ Numbers(node) \subseteq DOMAIN at
  /\ \A i \in Named(node) : i \in DOMAIN at /\ at[i] # NoBlock

\* What is resident is registered as before.
LEMMA NodeRegistered ==
  ASSUME NEW m, NEW t, NEW r, NEW d, NEW q, NEW node \in Nodes, NEW bs \in Seq(Blocks),
         TreeOk(m, t, r, d), Len(bs) = Len(Hunks[node]), Enters(r, q, node, bs),
         End(r, d) = first_hunk[node]
  PROVE  /\ TreeOk(m, t, q, d) /\ q.program = r.program /\ q.ovtab = r.ovtab
         /\ End(q, d) = End(r, d)
         /\ LiveOk(m, t, r, d) => LiveOk(m, t, q, d)
         /\ InTable(q.payload_addrs, node, bs)
<1>1. r \in Root
  BY DEF TreeOk
<1>2. PICK n \in Nat : n = Len(Hunks[node]) /\ n > 0 /\ DOMAIN bs = 1 .. n
  BY HunksNumbered
<1>3. PICK f \in Nat : /\ f = first_hunk[node] /\ Follow(node) = f + n
                       /\ Numbers(node) = f .. f + n - 1
  BY <1>2, HunksNumbered
<1>4. PICK at : at = Registered(r.payload_addrs, node, bs)
  OBVIOUS
<1>5. q.program = r.program /\ q.ovtab = r.ovtab /\ q.payload_addrs = at
      /\ q = [program |-> r.program, ovtab |-> r.ovtab, payload_addrs |-> at]
  BY <1>1, <1>4 DEF Enters, Root
<1>6. r.payload_addrs \in [1 .. total_hunks -> Blocks \union {NoBlock}]
  BY <1>1 DEF Root
<1>7. /\ DOMAIN at = 1 .. total_hunks
      /\ at = [i \in 1 .. total_hunks |->
                 IF i \in Numbers(node) THEN bs[i - f + 1] ELSE r.payload_addrs[i]]
  BY <1>3, <1>4, <1>6 DEF Registered
<1>8. ASSUME NEW i \in 1 .. total_hunks
      PROVE  /\ i \in Numbers(node) => at[i] = bs[i - f + 1] /\ at[i] \in Blocks
             /\ i \notin Numbers(node) => at[i] = r.payload_addrs[i]
  <2>1. CASE i \in Numbers(node)
    <3>1. i - f + 1 \in 1 .. n
      BY <1>3, <2>1
    <3> QED BY <1>2, <1>7, <2>1, <3>1
  <2>2. CASE i \notin Numbers(node)
    BY <1>7, <2>2
  <2> QED BY <2>1, <2>2
<1>9. at \in [1 .. total_hunks -> Blocks \union {NoBlock}]
  BY <1>6, <1>7, <1>8
<1>10. q \in Root
  BY <1>1, <1>5, <1>9 DEF Root
<1>11. End(q, d) = End(r, d)
  BY <1>5 DEF End
<1>12. TreeOk(m, t, q, d)
  <2>1. /\ t \in Blocks /\ d \in Seq(NodeLevel) /\ Rising(r, d)
        /\ m[t].kind = "table" /\ m[r.ovtab].kind = "table"
        /\ \A k \in DOMAIN d : LevelOk(m, t, d[k])
    BY DEF TreeOk
  <2>2. Rising(q, d)
    BY <1>5, <2>1 DEF Rising
  <2> QED BY <1>5, <1>10, <2>1, <2>2 DEF TreeOk
<1>13. ASSUME LiveOk(m, t, r, d) PROVE LiveOk(m, t, q, d)
  <2>1. /\ f - 1 <= total_hunks
        /\ \A i \in 1 .. f - 1 : Has(m, t, i, r.payload_addrs[i])
        /\ \A k \in DOMAIN d : LevelLeads(m, t, d[k])
    BY <1>3, <1>13 DEF LiveOk
  <2>2. \A i \in 1 .. f - 1 : i \in 1 .. total_hunks /\ i \notin Numbers(node)
    BY <1>3, <2>1, SegsAssumption
  <2>3. \A i \in 1 .. f - 1 : Has(m, t, i, at[i])
    BY <1>8, <2>1, <2>2
  <2> QED BY <1>3, <1>5, <1>11, <2>1, <2>3 DEF LiveOk
<1>14. InTable(at, node, bs)
  BY <1>3, <1>7, <1>8 DEF InTable
<1> QED BY <1>5, <1>11, <1>12, <1>13, <1>14

\* Every relocation of the node was found: the new level is sound.
LEMMA NodeLinked ==
  ASSUME NEW w, NEW t, NEW q, NEW d, NEW node \in Nodes, NEW bs \in Seq(Blocks),
         NEW at, NEW l, TreeOk(w, t, q, d), LiveOk(w, t, q, d), Len(bs) = Len(Hunks[node]),
         End(q, d) = first_hunk[node], at = q.payload_addrs, InTable(at, node, bs),
         Found(at, node), Written(w, node, bs, t, at), l = [node |-> node, blocks |-> bs]
  PROVE  /\ TreeOk(w, t, q, Append(d, l)) /\ LiveOk(w, t, q, Append(d, l))
         /\ \A k \in DOMAIN bs : w[bs[k]] \in Contents /\ w[bs[k]].kind = "hunk"
<1>a. /\ Len(Hunks[node]) \in Nat /\ Len(Hunks[node]) > 0
      /\ DOMAIN Hunks[node] = 1 .. Len(Hunks[node])
      /\ first_hunk[node] \in Nat /\ first_hunk[node] > 0
      /\ Follow(node) = first_hunk[node] + Len(Hunks[node])
      /\ Numbers(node) = first_hunk[node] .. Follow(node) - 1
      /\ \A k \in DOMAIN Hunks[node] :
           Hunks[node][k] \subseteq Named(node) /\ Hunks[node][k] \subseteq Nat \ {0}
  BY HunksNumbered
<1>1. PICK n \in Nat : /\ n = Len(Hunks[node]) /\ n > 0 /\ DOMAIN bs = 1 .. n
                       /\ \A k \in 1 .. n : Hunks[node][k] \subseteq Named(node)
  BY <1>a
<1>2. PICK f \in Nat : /\ f = first_hunk[node] /\ Follow(node) = f + n
                       /\ Numbers(node) = f .. f + n - 1 /\ f > 0
  BY <1>1, <1>a
<1>c. /\ DOMAIN at = 1 .. total_hunks /\ Numbers(node) \subseteq DOMAIN at
      /\ \A i \in 1 .. total_hunks : i \in Numbers(node) => at[i] = bs[i - first_hunk[node] + 1]
      /\ \A i \in Named(node) : i \in DOMAIN at /\ at[i] # NoBlock
  BY DEF InTable, Found
<1>3. total_hunks \in Nat /\ f + n - 1 \in 1 .. total_hunks
  <2>1. f + n - 1 \in f .. f + n - 1
    BY <1>1, <1>2
  <2> QED BY <1>2, <1>c, <2>1, SegsAssumption
<1>4. /\ Follow(q.program) \in Nat /\ Follow(q.program) <= f
      /\ \A k \in DOMAIN d : Follow(d[k].node) <= f
  BY <1>2, EndNumber
<1>5. ASSUME NEW i \in Named(node) PROVE i \in Nat \ {0} /\ at[i] \in Blocks
  <2>1. i \in 1 .. total_hunks /\ at[i] # NoBlock /\ i \in Nat \ {0}
    BY <1>3, <1>c
  <2>2. at[i] \in Blocks
    BY <2>1 DEF TreeOk, Root
  <2> QED BY <2>1, <2>2
<1>6. ASSUME NEW k \in 1 .. n
      PROVE  /\ Has(w, t, f + k - 1, bs[k]) /\ w[bs[k]] \in Contents
             /\ w[bs[k]].points = Points(at, node, k)
  <2> DEFINE P == Points(at, node, k)
  <2>1. P \in SUBSET Link
    <3>1. Hunks[node][k] \subseteq Named(node)
      BY <1>1
    <3>2. \A i \in Hunks[node][k] : <<i, at[i]>> \in Link
      BY <3>1, <1>5 DEF Link
    <3> QED BY <3>2 DEF Points
  <2>2. bs[k] \in Blocks /\ w[bs[k]] = Hunk(t, f + k - 1, P)
    <3>1. k \in DOMAIN bs
      BY <1>1
    <3> HIDE DEF P
    <3>2. w[bs[k]] = Hunk(t, first_hunk[node] + k - 1, Points(at, node, k))
      BY <3>1 DEF Written
    <3> QED BY <1>2, <3>1, <3>2 DEF P
  <2>3. f + k - 1 \in Nat /\ t \in Blocks
    BY <1>2 DEF TreeOk
  <2> HIDE DEF P
  <2>4. Has(w, t, f + k - 1, bs[k]) /\ w[bs[k]].points = P /\ w[bs[k]] \in Contents
    BY <2>1, <2>2, <2>3, HunkWritten
  <2> QED BY <2>4 DEF P
<1>7. ASSUME NEW i \in 1 .. f + n - 1 PROVE Has(w, t, i, at[i])
  <2>1. CASE i < f
    <3>1. i \in 1 .. End(q, d) - 1
      BY <1>2, <2>1
    <3> QED BY <3>1 DEF LiveOk
  <2>2. CASE ~ (i < f)
    <3>1. i \in f .. f + n - 1 /\ i \in 1 .. total_hunks
      BY <1>2, <1>3, <2>2
    <3>2. i - f + 1 \in 1 .. n /\ f + (i - f + 1) - 1 = i
      BY <3>1
    <3>3. at[i] = bs[i - f + 1]
      BY <1>2, <1>c, <3>1
    <3> QED BY <1>6, <3>2, <3>3
  <2> QED BY <2>1, <2>2
<1>8. LevelLeads(w, t, l)
  <2>1. ASSUME NEW k \in 1 .. n PROVE LeadsUp(w, bs[k], t, f + n - 1)
    <3> SUFFICES ASSUME NEW p \in Points(at, node, k), p[1] \in 1 .. f + n - 1
                 PROVE  Has(w, t, p[1], p[2])
      BY <1>6 DEF LeadsUp
    <3>1. PICK i \in Hunks[node][k] : p = <<i, at[i]>>
      BY DEF Points
    <3> QED BY <1>7, <3>1
  <2>2. l.blocks = bs /\ l.node = node
    OBVIOUS
  <2>3. DOMAIN l.blocks = 1 .. n /\ Follow(l.node) - 1 = f + n - 1
    BY <1>1, <1>2, <2>2
  <2> QED BY <2>1, <2>2, <2>3 DEF LevelLeads
<1>9. l \in NodeLevel /\ LevelOk(w, t, l) /\ l.node = node
  BY <1>1, <1>2, <1>6 DEF NodeLevel, LevelOk
<1> DEFINE c == Append(d, l)
<1>b. d \in Seq(NodeLevel) /\ l \in NodeLevel
  BY <1>9 DEF TreeOk
<1>10. PICK z \in Nat : /\ z = Len(d) /\ DOMAIN d = 1 .. z
                        /\ DOMAIN c = 1 .. z + 1 /\ Len(c) = z + 1
                        /\ c[z + 1] = l /\ \A k \in 1 .. z : c[k] = d[k]
                        /\ c \in Seq(NodeLevel) /\ c # <<>>
  <2>1. /\ Len(c) = Len(d) + 1 /\ c \in Seq(NodeLevel) /\ c[Len(d) + 1] = l
        /\ \A k \in 1 .. Len(d) : c[k] = d[k]
    BY <1>b
  <2>2. Len(d) \in Nat /\ DOMAIN d = 1 .. Len(d) /\ DOMAIN c = 1 .. Len(c)
    BY <1>b, <2>1
  <2>3. c # <<>>
    BY <2>1, <2>2
  <2> QED BY <2>1, <2>2, <2>3
<1>11. Last(c) = l
  BY <1>10 DEF Last
<1> HIDE DEF c
<1>12. \A k \in DOMAIN c : (k \in DOMAIN d /\ c[k] = d[k]) \/ (k = z + 1 /\ c[k] = l)
  BY <1>10
<1>13. Rising(q, c)
  <2>1. Rising(q, d)
    BY DEF TreeOk
  <2>2. \A k, j \in DOMAIN c : k < j => k \in DOMAIN d /\ c[k] = d[k]
    BY <1>10
  <2>3. \A k \in DOMAIN c : Follow(q.program) <= first_hunk[c[k].node]
    BY <1>2, <1>4, <1>9, <1>12, <2>1 DEF Rising
  <2>4. \A k, j \in DOMAIN c : k < j => Follow(c[k].node) <= first_hunk[c[j].node]
    BY <1>2, <1>4, <1>9, <1>12, <2>1, <2>2 DEF Rising
  <2> QED BY <2>3, <2>4 DEF Rising
<1>14. TreeOk(w, t, q, c)
  BY <1>9, <1>10, <1>12, <1>13 DEF TreeOk
<1>15. End(q, c) = f + n
  BY <1>2, <1>9, <1>10, <1>11 DEF End
<1>16. LiveOk(w, t, q, c)
  <2>1. f + n - 1 <= total_hunks
    BY <1>3
  <2>2. \A k \in DOMAIN c : LevelLeads(w, t, c[k])
    BY <1>8, <1>12 DEF LiveOk
  <2> QED BY <1>7, <1>15, <2>1, <2>2 DEF LiveOk
<1>17. \A k \in 1 .. n : w[bs[k]] \in Contents /\ w[bs[k]].kind = "hunk"
  BY <1>6 DEF Has
<1> QED BY <1>1, <1>14, <1>16, <1>17 DEF c

Same(R, Q, t) ==
  /\ DOMAIN Q = DOMAIN R /\ Q = [u \in DOMAIN Q |-> Q[u]]
  /\ \A u \in DOMAIN R : u # t => Q[u] = R[u]

LEMMA NoteNode ==
  ASSUME NEW m, NEW S, NEW R, NEW Q, NEW D, NEW t \in DOMAIN R, NEW node \in Nodes,
         NEW bs \in Seq(Blocks), Books(m, S, R, D), Len(bs) = Len(Hunks[node]),
         End(R[t], D[t]) = first_hunk[node], Enters(R[t], Q[t], node, bs),
         Same(R, Q, t)
  PROVE  Books(m, S, Q, D)
<1> DEFINE r == R[t] q == Q[t] d == D[t]
<1>1. TreeOk(m, t, r, d) /\ (Run(m, S, t) => LiveOk(m, t, r, d))
  BY DEF Books, TreesOk
<1>2. /\ TreeOk(m, t, q, d) /\ q.program = r.program /\ q.ovtab = r.ovtab
      /\ LiveOk(m, t, r, d) => LiveOk(m, t, q, d)
  <2> HIDE DEF r, q, d
  <2>1. /\ TreeOk(m, t, r, d) /\ End(r, d) = first_hunk[node] /\ Enters(r, q, node, bs)
        /\ Len(bs) = Len(Hunks[node])
    BY <1>1 DEF r, q, d
  <2>2. /\ TreeOk(m, t, q, d) /\ q.program = r.program /\ q.ovtab = r.ovtab
        /\ End(q, d) = End(r, d)
        /\ LiveOk(m, t, r, d) => LiveOk(m, t, q, d)
        /\ InTable(q.payload_addrs, node, bs)
    BY <2>1, NodeRegistered
  <2> QED BY <2>2
<1>a. /\ DOMAIN Q = DOMAIN R /\ Q = [u \in DOMAIN Q |-> Q[u]]
      /\ \A u \in DOMAIN R : u # t => Q[u] = R[u]
  BY DEF Same
<1>3. \A u \in DOMAIN R : Q[u].program = R[u].program /\ Q[u].ovtab = R[u].ovtab
  BY <1>2, <1>a
<1>4. TreesOk(m, S, Q, D)
  <2> SUFFICES ASSUME NEW u \in DOMAIN R
               PROVE  TreeOk(m, u, Q[u], D[u]) /\ (Run(m, S, u) => LiveOk(m, u, Q[u], D[u]))
    BY <1>a DEF TreesOk
  <2>1. CASE u = t
    BY <1>1, <1>2, <2>1
  <2>2. CASE u # t
    BY <1>a, <2>2 DEF Books, TreesOk
  <2> QED BY <2>1, <2>2
<1>5. Segs(m, S, Q)
  <2> SUFFICES ASSUME NEW s \in S PROVE SegOk(m, Q, s)
    BY DEF Segs
  <2>1. SegOk(m, R, s)
    BY DEF Books, Segs
  <2> QED BY <1>3, <1>a, <2>1 DEF SegOk
<1>6. Apart(m, S, Q)
  BY <1>3, <1>a DEF Books, Apart
<1>7. ASSUME NEW b \in Blocks PROVE HasOwner(m, S, Q, D, b)
  <2>1. HasOwner(m, S, R, D, b)
    BY DEF Books
  <2> QED BY <1>3, <1>a, <2>1 DEF HasOwner
<1> QED BY <1>a, <1>4, <1>5, <1>6, <1>7 DEF Books

Takes(m, w, bs) ==
  /\ w = [b \in Blocks |-> w[b]]
  /\ \A b \in Blocks : b \notin Range(bs) => w[b] = m[b]
  /\ \A b \in Range(bs) : m[b].kind = "unused"

LEMMA LinkNode ==
  ASSUME NEW m, NEW w, NEW S, NEW R, NEW D, NEW E, NEW t \in DOMAIN R, NEW node \in Nodes,
         NEW bs \in Seq(Blocks), Books(m, S, R, D), Run(m, S, t), Len(bs) = Len(Hunks[node]),
         NEW at, NEW l, End(R[t], D[t]) = first_hunk[node], at = R[t].payload_addrs,
         InTable(at, node, bs), Found(at, node), Written(w, node, bs, t, at), Takes(m, w, bs),
         l = [node |-> node, blocks |-> bs], E = [D EXCEPT ![t] = Append(D[t], l)]
  PROVE  Books(w, S, R, E)
<1> DEFINE r == R[t] d == D[t] c == Append(d, l)
<1>1. /\ DOMAIN E = DOMAIN R /\ E = [u \in DOMAIN R |-> E[u]] /\ E[t] = c
      /\ \A u \in DOMAIN R : u # t => E[u] = D[u]
  BY DEF Books
<1>2. Grow(m, w) /\ Extends(m, R, R)
  BY DEF Takes, Grow, Extends
<1>3. /\ \A s \in S : SegOk(w, R, s) /\ Tag(w, s) = Tag(m, s)
      /\ \A u \in DOMAIN R : /\ TreeOk(w, u, R[u], D[u])
                             /\ Run(m, S, u) => LiveOk(w, u, R[u], D[u])
                             /\ Run(w, S, u) <=> Run(m, S, u)
  BY <1>2, Grown
<1>4. /\ TreeOk(w, t, r, c) /\ LiveOk(w, t, r, c)
      /\ \A k \in DOMAIN bs : w[bs[k]] \in Contents /\ w[bs[k]].kind = "hunk"
  <2> HIDE DEF r, d
  <2>1. TreeOk(w, t, r, d) /\ LiveOk(w, t, r, d) /\ End(r, d) = first_hunk[node]
        /\ at = r.payload_addrs
    BY <1>3 DEF r, d
  <2>3. /\ InTable(at, node, bs) /\ Found(at, node) /\ Written(w, node, bs, t, at)
        /\ l = [node |-> node, blocks |-> bs] /\ Len(bs) = Len(Hunks[node])
    OBVIOUS
  <2>4. /\ TreeOk(w, t, r, Append(d, l)) /\ LiveOk(w, t, r, Append(d, l))
        /\ \A k \in DOMAIN bs : w[bs[k]] \in Contents /\ w[bs[k]].kind = "hunk"
    BY <2>1, <2>3, NodeLinked
  <2> QED BY <2>4
<1>5. DOMAIN c = 1 .. Len(d) + 1 /\ DOMAIN d = 1 .. Len(d) /\ Len(d) \in Nat
      /\ c[Len(d) + 1] = l /\ \A k \in 1 .. Len(d) : c[k] = d[k]
  <2>1. d \in Seq(NodeLevel)
    BY <1>3 DEF TreeOk
  <2> HIDE DEF d
  <2> QED BY <2>1
<1>6. /\ \A b \in Range(bs) : InLevel(c, b)
      /\ \A b : InLevel(d, b) => InLevel(c, b)
  <2>1. Len(d) + 1 \in DOMAIN c /\ l.blocks = bs /\ \A k \in DOMAIN d : k \in DOMAIN c
    BY <1>5
  <2> HIDE DEF c, d
  <2> QED BY <1>5, <2>1 DEF InLevel
<1>7. w \in [Blocks -> Contents]
  <2>1. \A b \in Blocks : w[b] \in Contents
    BY <1>4 DEF Books, Range, Takes
  <2> QED BY <2>1 DEF Takes
<1> HIDE DEF c, d
<1>8. Segs(w, S, R) /\ TreesOk(w, S, R, E)
  BY <1>1, <1>3, <1>4 DEF Segs, TreesOk
<1>9. Apart(w, S, R)
  BY <1>3 DEF Books, Apart
<1>10. ASSUME NEW b \in Blocks PROVE HasOwner(w, S, R, E, b)
  <2>1. CASE b \in Range(bs)
    <3>1. w[b].kind = "hunk"
      BY <1>4, <2>1 DEF Range
    <3> QED BY <1>1, <1>6, <2>1, <3>1 DEF HasOwner
  <2>2. CASE b \notin Range(bs)
    <3>1. HasOwner(m, S, R, D, b) /\ w[b] = m[b]
      BY <2>2 DEF Books, Takes
    <3>2. \A u \in DOMAIN R : InLevel(D[u], b) => InLevel(E[u], b)
      BY <1>1, <1>6 DEF d
    <3> QED BY <3>1, <3>2 DEF HasOwner
  <2> QED BY <2>1, <2>2
<1> QED BY <1>1, <1>7, <1>8, <1>9, <1>10 DEF Books

LEMMA LoadNodeKeeps ==
  ASSUME SegsInv, NEW t \in Trees, Live(t), NEW node \in Nodes, Parent[node] = Deepest(t),
         load_overlay_node(t, node)
  PROVE  SegsInv'
<1> DEFINE m == memory w == memory' S == seglists R == overlay_roots Q == overlay_roots'
           D == resident E == resident' n == Len(Hunks[node]) bs == Fresh(n)
           l == [node |-> node, blocks |-> bs]
           at == Targets(R[t].payload_addrs, node, bs)
           complete == /\ Numbers(node) \subseteq DOMAIN at
                       /\ \A i \in Named(node) : i \in DOMAIN at /\ at[i] # NoBlock
<1>1. CASE UNCHANGED segsVars
  BY <1>1 DEF SegsInv, segsVars
<1>2. CASE OutOfMemory(n)
  BY <1>1, <1>2 DEF OutOfMemory, Unwound, segsVars
<1>3. ASSUME /\ Fits(n)
             /\ Q = [R EXCEPT ![t].payload_addrs = Registered(@, node, bs)]
             /\ IF complete
                THEN /\ w = Linked(m, node, bs, t, at)
                     /\ E = [D EXCEPT ![t] = Append(@, l)]
                ELSE UNCHANGED <<memory, resident>>
             /\ UNCHANGED seglists
      PROVE  SegsInv'
  <2>1. Books(m, S, R, D) /\ t \in DOMAIN R
    BY DEF SegsInv, Trees
  <2>2. Run(m, S, t)
    BY DEF Live, Run, Tag
  <2>3. TreeOk(m, t, R[t], D[t]) /\ LiveOk(m, t, R[t], D[t])
    BY <2>1, <2>2 DEF Books, TreesOk
  <2>4. node \in Programs \union Nodes /\ n \in Nat /\ n > 0
    BY HunksNumbered
  <2>5. /\ bs \in Seq(Blocks) /\ Len(bs) = n /\ DOMAIN bs = 1 .. n /\ Injective(bs)
        /\ \A k \in 1 .. n : bs[k] \in Blocks /\ m[bs[k]] = Unused
    BY <1>3, <2>4, FreshBlocks
  <2>6. End(R[t], D[t]) = first_hunk[node]
    <3>1. first_hunk[node] = Follow(Deepest(t))
      BY SegsAssumption
    <3> QED BY <3>1 DEF End, Deepest
  <2>a. l.node = node /\ l.blocks = bs
    OBVIOUS
  <2>b. seglists' = S
    BY <1>3
  <2> DEFINE r == R[t] q == Q[t]
  <2>7. /\ DOMAIN Q = DOMAIN R /\ Q = [u \in DOMAIN Q |-> Q[u]] /\ Enters(r, q, node, bs)
        /\ Same(R, Q, t)
    <3>1. /\ R = [u \in DOMAIN R |-> R[u]]
          /\ Q = [R EXCEPT ![t] = [R[t] EXCEPT
                     !.payload_addrs = Registered(R[t].payload_addrs, node, bs)]]
      BY <1>3, <2>1 DEF Books
    <3> HIDE DEF R, Q, bs
    <3> QED BY <2>1, <3>1 DEF Enters, Same
  <2>8. at = q.payload_addrs
    <3>1. r \in Root
      BY <2>3 DEF TreeOk
    <3> HIDE DEF r, q, bs
    <3>2. q.payload_addrs = Registered(r.payload_addrs, node, bs)
      BY <2>7, <3>1 DEF Enters, Root
    <3> QED BY <3>2 DEF Targets, r
  <2>9. Books(m, S, Q, D)
    <3> HIDE DEF m, S, R, Q, D, bs, at, complete
    <3> QED BY <2>1, <2>4, <2>5, <2>6, <2>7, NoteNode
  <2>10. CASE complete
    <3>1. w = Linked(m, node, bs, t, at) /\ E = [D EXCEPT ![t] = Append(D[t], l)]
      BY <1>3, <2>10
    <3>2. Found(at, node)
      BY <2>10 DEF Found
    <3> HIDE DEF at, complete, bs, l
    <3>3. /\ Linked(m, node, bs, t, at) = [b \in Blocks |-> Linked(m, node, bs, t, at)[b]]
          /\ \A b \in Blocks : b \notin Range(bs) => Linked(m, node, bs, t, at)[b] = m[b]
          /\ Written(Linked(m, node, bs, t, at), node, bs, t, at)
      BY <2>4, <2>5, LinkedMemory
    <3>4. Takes(m, w, bs) /\ Written(w, node, bs, t, at)
      <4>1. \A b \in Range(bs) : m[b].kind = "unused"
        BY <2>5, KindsApart DEF Range
      <4> QED BY <3>1, <3>3, <4>1 DEF Takes
    <3> HIDE DEF m, w, S, R, Q, D, E, r
    <3>6. End(q, D[t]) = first_hunk[node] /\ InTable(q.payload_addrs, node, bs)
      <4> DEFINE d == D[t]
      <4> HIDE DEF q, n, d
      <4>1. /\ TreeOk(m, t, r, d) /\ Len(bs) = Len(Hunks[node]) /\ Enters(r, q, node, bs)
            /\ End(r, d) = first_hunk[node] /\ bs \in Seq(Blocks)
        BY <2>3, <2>5, <2>6, <2>7 DEF r, q, d, n
      <4>2. /\ TreeOk(m, t, q, d) /\ q.program = r.program /\ q.ovtab = r.ovtab
            /\ End(q, d) = End(r, d)
            /\ LiveOk(m, t, r, d) => LiveOk(m, t, q, d)
            /\ InTable(q.payload_addrs, node, bs)
        BY <4>1, NodeRegistered
      <4> QED BY <4>1, <4>2 DEF d
    <3>7. Books(w, S, Q, E)
      <4>1. l = [node |-> node, blocks |-> bs]
        BY DEF l
      <4>2. t \in DOMAIN Q /\ Len(bs) = Len(Hunks[node])
        BY <2>1, <2>5, <2>7
      <4>3. InTable(at, node, bs)
        BY <2>8, <3>6
      <4>4. /\ End(Q[t], D[t]) = first_hunk[node] /\ at = Q[t].payload_addrs
            /\ Books(m, S, Q, D) /\ Run(m, S, t) /\ bs \in Seq(Blocks)
        BY <2>2, <2>5, <2>8, <2>9, <3>6 DEF q
      <4> HIDE DEF q
      <4> QED BY <3>1, <3>2, <3>4, <4>1, <4>2, <4>3, <4>4, LinkNode
    <3> QED BY <2>b, <3>7 DEF SegsInv, w, Q, E
  <2>11. CASE ~ complete
    BY <1>3, <2>9, <2>11 DEF SegsInv
  <2> QED BY <2>10, <2>11
<1> QED BY <1>2, <1>3 DEF load_overlay_node

-----------------------------------------------------------------------------
(* The invariant holds throughout. *)

LEMMA SegsStart ==
  ASSUME SegsInit
  PROVE  SegsInv
<1>1. memory = [b \in Blocks |-> Unused] /\ seglists = {} /\ overlay_roots = <<>> /\ resident = <<>>
  BY DEF SegsInit
<1>2. /\ memory \in [Blocks -> Contents]
      /\ \A b \in Blocks : memory[b].kind = "unused"
  BY <1>1, KindsApart
<1>3. DOMAIN overlay_roots = {} /\ DOMAIN resident = {}
      /\ overlay_roots = [t \in DOMAIN overlay_roots |-> overlay_roots[t]]
      /\ resident = [t \in DOMAIN overlay_roots |-> resident[t]]
  BY <1>1
<1>4. /\ Segs(memory, seglists, overlay_roots)
      /\ TreesOk(memory, seglists, overlay_roots, resident)
      /\ Apart(memory, seglists, overlay_roots)
  BY <1>1, <1>3 DEF Segs, TreesOk, Apart
<1>5. \A b \in Blocks : HasOwner(memory, seglists, overlay_roots, resident, b)
  BY <1>2 DEF HasOwner
<1> QED BY <1>2, <1>3, <1>4, <1>5 DEF SegsInv, Books

LEMMA SegsStep ==
  ASSUME SegsInv, [SegsNext]_segsVars
  PROVE  SegsInv'
<1>1. ASSUME NEW p \in Plain, load_seg(p) PROVE SegsInv'
  BY <1>1, LoadSegKeeps
<1>2. ASSUME NEW p \in Overlaid, load_overlay_root(p) PROVE SegsInv'
  BY <1>2, LoadRootKeeps
<1>3. ASSUME NEW p \in Overlaid, OverlayOutOfMemory(p) PROVE SegsInv'
  BY <1>3, HandleStays
<1>4. ASSUME NEW s \in seglists, unload_seg(s) PROVE SegsInv'
  BY <1>4, UnloadKeeps
<1>5. ASSUME NEW t \in Trees, Live(t), NEW node \in Nodes, Parent[node] = Deepest(t),
             load_overlay_node(t, node)
      PROVE  SegsInv'
  BY <1>5, LoadNodeKeeps
<1>6. ASSUME NEW t \in Trees, Live(t), Displace(t) PROVE SegsInv'
  BY <1>6, DisplaceKeeps
<1>7. CASE UNCHANGED segsVars
  BY <1>7 DEF SegsInv, segsVars
<1> QED BY <1>1, <1>2, <1>3, <1>4, <1>5, <1>6, <1>7 DEF SegsNext

\* What the hunk of a seglist or of a level is.
SegHunk(m, s, b) ==
  /\ m[b].kind = "hunk" /\ m[b].tree = Tag(m, s) /\ Leads(m, b, Tag(m, s), Len(s))
  /\ m[b].index \in 1 .. Len(s)
LevelHunk(m, r, t, b) ==
  /\ m[b].kind = "hunk" /\ m[b].tree = t
  /\ m[b].index \in Nat /\ Follow(r.program) <= m[b].index

LEMMA OfSeg ==
  ASSUME NEW m, NEW S, NEW R, NEW D, Books(m, S, R, D)
  PROVE  \A s \in S : \A b \in Range(s) : SegHunk(m, s, b)
<1> SUFFICES ASSUME NEW s \in S, NEW b \in Range(s) PROVE SegHunk(m, s, b)
  OBVIOUS
<1>1. SegOk(m, R, s)
  BY DEF Books, Segs
<1>2. PICK k \in DOMAIN s : b = s[k]
  BY DEF Range
<1>3. k \in 1 .. Len(s)
  BY <1>1 DEF SegOk
<1> QED BY <1>1, <1>2, <1>3 DEF SegHunk, SegOk, Has

LEMMA OfLevel ==
  ASSUME NEW m, NEW S, NEW R, NEW D, Books(m, S, R, D)
  PROVE  \A t \in DOMAIN R : \A b : InLevel(D[t], b) => LevelHunk(m, R[t], t, b)
<1> SUFFICES ASSUME NEW t \in DOMAIN R, NEW b, InLevel(D[t], b) PROVE LevelHunk(m, R[t], t, b)
  OBVIOUS
<1> DEFINE d == D[t]
<1>1. TreeOk(m, t, R[t], d)
  BY DEF Books, TreesOk
<1>2. PICK k \in DOMAIN d : b \in Range(d[k].blocks)
  BY DEF InLevel
<1>3. PICK j \in DOMAIN d[k].blocks : b = d[k].blocks[j]
  BY <1>2 DEF Range
<1>4. /\ Follow(R[t].program) <= first_hunk[d[k].node] /\ Follow(R[t].program) \in Nat
      /\ first_hunk[d[k].node] \in Nat /\ d[k] \in NodeLevel /\ Follow(d[k].node) \in Nat
      /\ first_hunk[d[k].node] < Follow(d[k].node)
  <2> DEFINE r == R[t]
  <2> HIDE DEF r, d
  <2>1. TreeOk(m, t, r, d)
    BY <1>1 DEF r
  <2>2. /\ Follow(r.program) \in Nat
        /\ Follow(d[k].node) \in Nat /\ Follow(r.program) <= first_hunk[d[k].node]
        /\ first_hunk[d[k].node] \in Nat /\ d[k] \in NodeLevel
        /\ first_hunk[d[k].node] < Follow(d[k].node)
    BY <2>1, EndNumber
  <2> QED BY <2>2 DEF r
<1>5. Has(m, t, first_hunk[d[k].node] + j - 1, b)
  BY <1>1, <1>3 DEF TreeOk, LevelOk
<1>6. j \in Nat /\ j >= 1
  BY <1>4 DEF NodeLevel
<1>7. /\ first_hunk[d[k].node] + j - 1 \in Nat
      /\ Follow(R[t].program) <= first_hunk[d[k].node] + j - 1
  BY <1>4, <1>6
<1> QED BY <1>5, <1>7 DEF Has, LevelHunk

LEMMA PointersFound ==
  ASSUME SegsInv PROVE PointersRight
<1> DEFINE m == memory S == seglists R == overlay_roots D == resident
<1>1. Books(m, S, R, D)
  BY DEF SegsInv
<1>2. ASSUME NEW s \in S, NEW b \in Range(s), NEW p \in m[b].points PROVE Right(b, p)
  <2>1. SegHunk(m, s, b)
    <3> HIDE DEF m, S, R, D
    <3> QED BY <1>1, OfSeg
  <2> QED BY <2>1 DEF SegHunk, Leads, Has, Right
<1>3. ASSUME NEW node \in Nodes, NEW b \in Blocks, OfNode(b, node), NEW p \in m[b].points,
             p[1] < Follow(node)
      PROVE  Right(b, p)
  <2>1. PICK t \in DOMAIN R :
          Live(t) /\ \E k \in DOMAIN D[t] : D[t][k].node = node /\ b \in Range(D[t][k].blocks)
    BY <1>3 DEF OfNode, Trees
  <2>2. PICK k \in DOMAIN D[t] : D[t][k].node = node /\ b \in Range(D[t][k].blocks)
    BY <2>1
  <2>3. PICK j \in DOMAIN D[t][k].blocks : b = D[t][k].blocks[j]
    BY <2>2 DEF Range
  <2>4. Run(m, S, t)
    BY <2>1 DEF Live, Run, Tag
  <2>5. LiveOk(m, t, R[t], D[t]) /\ m[b].kind = "hunk" /\ m[b].tree = t /\ m[b] \in Contents
    <3> HIDE DEF m, S, R, D
    <3>1. InLevel(D[t], b)
      BY <2>2 DEF InLevel
    <3>2. LevelHunk(m, R[t], t, b)
      BY <1>1, <3>1, OfLevel
    <3> QED BY <1>1, <2>4, <3>2 DEF Books, TreesOk, LevelHunk
  <2>6. p \in Link /\ LeadsUp(m, b, t, Follow(node) - 1)
    <3>1. m[b].points \in SUBSET Link
      BY <2>5, ContentKinds
    <3> QED BY <2>2, <2>3, <2>5, <3>1 DEF LiveOk, LevelLeads
  <2>7. p[1] \in 1 .. Follow(node) - 1
    <3>1. Follow(node) \in Nat /\ p[1] \in Nat \ {0}
      BY <2>6, HunksNumbered DEF Link
    <3> QED BY <1>3, <3>1
  <2> QED BY <2>5, <2>6, <2>7 DEF LeadsUp, Has, Right
<1> QED BY <1>2, <1>3 DEF PointersRight

LEMMA AtMostOne ==
  ASSUME NEW A, \A x, y \in A : x = y
  PROVE  (A = {} /\ Cardinality(A) = 0) \/ (A # {} /\ Cardinality(A) = 1)
<1>1. CASE A = {}
  BY <1>1, FS_EmptySet, Zenon
<1>2. CASE A # {}
  <2>1. PICK x : A = {x}
    BY <1>2
  <2> QED BY <2>1, FS_Singleton
<1> QED BY <1>1, <1>2

LEMMA OneOwner ==
  ASSUME SegsInv PROVE BlocksOwned
<1> DEFINE m == memory S == seglists R == overlay_roots D == resident
<1>1. Books(m, S, R, D)
  BY DEF SegsInv
<1> SUFFICES ASSUME NEW b \in Blocks, m[b].kind \in {"hunk", "table"}
             PROVE  Cardinality({s \in S : b \in Range(s)})
                    + Cardinality({t \in DOMAIN R : b \in {t, R[t].ovtab}})
                    + Cardinality({t \in DOMAIN R :
                                     \E k \in DOMAIN D[t] : b \in Range(D[t][k].blocks)}) = 1
  BY DEF BlocksOwned, Trees
<1> DEFINE X == {s \in S : b \in Range(s)}
           Y == {t \in DOMAIN R : b \in {t, R[t].ovtab}}
           Z == {t \in DOMAIN R : \E k \in DOMAIN D[t] : b \in Range(D[t][k].blocks)}
<1> HIDE DEF m, S, R, D
<1>2. HasOwner(m, S, R, D, b)
  BY <1>1 DEF Books
<1>3. \A s \in X : /\ s \in S /\ m[b].kind = "hunk" /\ m[b].tree = Tag(m, s)
                   /\ m[b].index \in 1 .. Len(s)
  BY <1>1, OfSeg DEF SegHunk
<1>4. \A t \in Z : /\ t \in DOMAIN R /\ m[b].kind = "hunk" /\ m[b].tree = t
                   /\ m[b].index \in Nat /\ Follow(R[t].program) <= m[b].index
  <2> SUFFICES ASSUME NEW t \in Z
               PROVE  /\ t \in DOMAIN R /\ m[b].kind = "hunk" /\ m[b].tree = t
                      /\ m[b].index \in Nat /\ Follow(R[t].program) <= m[b].index
    OBVIOUS
  <2>1. t \in DOMAIN R /\ InLevel(D[t], b)
    BY DEF InLevel
  <2> HIDE DEF Z
  <2> QED BY <1>1, <2>1, OfLevel DEF LevelHunk
<1>5. \A t \in Y : t \in DOMAIN R /\ m[b].kind = "table" /\ (b = t \/ b = R[t].ovtab)
  BY <1>1 DEF Books, TreesOk, TreeOk
<1>6. \A s, u \in X : s = u
  BY <1>1, <1>3 DEF Books, Apart
<1>7. \A t, u \in Y : t = u
  BY <1>1, <1>5 DEF Books, Apart
<1>8. \A t, u \in Z : t = u
  BY <1>4
<1>9. /\ m[b].kind = "hunk" => X # {} \/ Z # {}
      /\ m[b].kind = "table" => Y # {}
  BY <1>2 DEF HasOwner, InSeg, InLevel
<1>10. X = {} \/ Z = {}
  <2> SUFFICES ASSUME NEW s \in X, NEW t \in Z PROVE FALSE
    OBVIOUS
  <2>1. Tag(m, s) = t /\ t \in DOMAIN R /\ s \in S
    BY <1>3, <1>4
  <2>2. SegOk(m, R, s) /\ TreeOk(m, t, R[t], D[t])
    BY <1>1, <2>1 DEF Books, Segs, TreesOk
  <2>3. R[t].program \in Programs /\ Len(s) = Len(Hunks[R[t].program]) /\ Len(s) \in Nat
    BY <2>1, <2>2 DEF SegOk, TreeOk, Root, Programs
  <2>4. Follow(R[t].program) = Len(s) + 1
    BY <2>3, ProgramNumbered
  <2> HIDE DEF X, Z
  <2> QED BY <1>3, <1>4, <2>3, <2>4
<1>11. X = {} \/ Y = {}
  BY <1>3, <1>5
<1>12. Y = {} \/ Z = {}
  BY <1>4, <1>5
<1> HIDE DEF X, Y, Z
<1>13. /\ ((X = {} /\ Cardinality(X) = 0) \/ (X # {} /\ Cardinality(X) = 1))
       /\ ((Y = {} /\ Cardinality(Y) = 0) \/ (Y # {} /\ Cardinality(Y) = 1))
       /\ ((Z = {} /\ Cardinality(Z) = 0) \/ (Z # {} /\ Cardinality(Z) = 1))
  BY <1>6, <1>7, <1>8, AtMostOne
<1>14. Cardinality(X) + Cardinality(Y) + Cardinality(Z) = 1
  BY <1>9, <1>10, <1>11, <1>12, <1>13
<1> QED BY <1>14 DEF X, Y, Z

\* Whatever programs and nodes are loaded, displaced and unloaded, whatever a
\* node names and wherever an allocation fails, each relocated pointer of a
\* program that is loaded leads to the hunk it names, and so does each of a
\* node that names a hunk of its own or of what is resident above it; and each
\* block of a hunk or a table has one owner (build_seglist,
\* load_overlay_node, unload_seg).
THEOREM SegmentsStaySound == SegsSpec => []SegmentsSound
<1>1. SegsInit => SegsInv
  BY SegsStart
<1>2. SegsInv /\ [SegsNext]_segsVars => SegsInv'
  BY SegsStep
<1>3. SegsInv => SegmentsSound
  BY PointersFound, OneOwner DEF SegmentsSound
<1> QED BY <1>1, <1>2, <1>3, PTL DEF SegsSpec
=============================================================================
