# TLA+ models of volamos

volamos runs AmigaOS command-line programs on a modern host. It interprets 68k
code; a call of `exec.library`, `dos.library` and the others is a trap that a
Rust handler answers, in guest memory and in state of its own. One host thread
runs everything, so a handler is atomic, but the guest is not: programs create
tasks, and a handler can call back into guest code (a library's Open vector, a
`tc_Switch` hook, a software interrupt) and go on in a continuation when that
code returns. These models describe that state, one action per handler, and
check and prove what must hold whatever calls the guest makes.

Paths are relative to `src/crates/volamos-core/src/` unless they start with `src/`.

## 1. Inventory

### The parts

| Part | State it keeps | Operations | What makes it correct |
|---|---|---|---|
| Tasks, signals, timers (`exectask.rs`, `taskswitch.rs`) | ready and blocked tasks, `tc_SigRecvd`, pending `timer.device` requests | CreateNewProc, Signal, SetSignal, Wait, SetTaskPri, yield, exit, SendIO, WaitIO, CheckIO, AbortIO | no task is lost or runs twice; a wakeup is neither lost nor invented; a reported deadlock is one; a request completes once |
| Dispatch (`dispatch.rs`) | continuation stack, hook flag, library registry | trap loop, trampoline, hook calls, open and close of libraries | a callback resumes its own continuation; hooks never nest; loops inside a trap end |
| Semaphores (`execsem.rs`) | nest count, queue count and owner in guest memory; the public list | Init, Add, Rem, Obtain, ObtainShared, Attempt, Release, their list forms, Find | mutual exclusion; the fields agree with the grants; released by who holds it |
| Guest heap (`guestmem.rs`) | free list, live blocks, quarantine | alloc, free, reserve_range, drain, set_redzone_size, set_quarantine_budget | every byte has one owner; free neighbours are merged; a request fails only when nothing fits |
| Memory calls and sanitizer (`execmem.rs`, `sanitize.rs`) | blocks the program holds, pools, shadow map | AllocMem, AllocVec, pools, AllocEntry, the freeing calls, CopyMem, byte accesses | nothing leaks when a call fails half way; the shadow accuses exactly what is wrong |
| Sanitizer, stack half (`sanitize.rs`) | stack bounds and lowest pointer, shadow call stack | reset and update of tracking, call and return | no return accused that is right, across StackSwap, RunCommand and task switches |
| Ports and lists (`execlist.rs`), packets (`dospkt.rs`) | nodes and headers in guest memory; none for packets, which PutMsg answers | AddHead, Insert, Enqueue, Remove, NewList, PutMsg, GetMsg, ReplyMsg, WaitPort; SendPkt, WaitPkt, ReplyPkt | a node is on one list; messages are FIFO; a packet is answered once, at its port |
| Chunks (`execchunk.rs`) | a `MemHeader` chain in guest memory | Allocate, Deallocate | as the heap: address order, merging, `mh_Free` exact |
| Libraries (`execlib.rs`) | registry, `LibList`, seglists | OpenLibrary, CloseLibrary, RemLibrary, AddLibrary, InitResident as chains of guest callbacks | a base is freed once, and never while open; nothing is unloaded twice; no second copy |
| Patches (`execsetfunc.rs`) | jump tables, the pool of stubs, checksums | SetFunction, SumLibrary | a call ends where the patches lead; a checksum is the table's |
| Software interrupts (`execint.rs`) | five queues, saved registers | Cause, the drain, AddIntServer, RemIntServer | each runs once, by level, in order; the caller does not notice |
| Loader and segments (`loader.rs`, `dosseg.rs`) | the hunks of a file, seglists, overlay tables, the `RunCommand` save record | parse, load, lookup_location; LoadSeg, UnLoadSeg, LoadOverlay, System, RunCommand | what the linker wrote is what runs; all or nothing on failure; the caller's state comes back |
| Files (`dosfile.rs`, `dosbuf.rs`) | open handles, Input and Output, push-back byte | Open, Close, Read, Write, Seek, FGetC, UnGetC, ... | a handle is owned and freed once; the next byte is the handle's own |
| Paths (`vfs.rs`) | volumes, assigns, current directory | resolve, set_assign, remove_assign, set_cwd | a path has one meaning, whichever calls came before; chains of assigns end |
| Locks (`doslock.rs`) | locks, ExNext cursors, the current directory's lock | Lock, DupLock, UnLock, Examine, ExNext, CurrentDir, CreateDir, Rename, ... | no lock leaks; CurrentDir leads back; a scan returns what stays |
| Directory scans (`dosanchor.rs`, `dosexall.rs`) | a level stack per AnchorPath; a key in guest memory | MatchFirst, MatchNext, MatchEnd, ExAll | each entry once; each level's lock released once |
| Patterns (`dospattern.rs`) | none but the token buffer that the program keeps | ParsePattern, MatchPattern and their NoCase forms | a pattern matches what it stands for |
| Device processes, assigns (`dosdevproc.rs`, `dosassign.rs`) | device processes | GetDeviceProc, FreeDeviceProc, AssignLock, ... | what a call allocates is freed |
| Sockets (`bsdsocket.rs`) | descriptor table, event masks, pending events, the cursor | socket, accept, Dup2Socket, CloseSocket, SO_EVENTMASK, WaitSelect, GetSocketEvents | a descriptor is its socket's; an event arrives once, announced, in turn |
| DOS lists, variables, metadata (`dosdevlist.rs`, `dosvar.rs`, `dosmeta.rs`, ...) | a list session; local variables | LockDosList, SetVar, ... | what a session allocates it frees |
| Argument templates (`dosargs.rs`) | the live results and their blocks; the position in Input() | ReadArgs, FreeArgs, FindArg | each word comes to one slot; a result's blocks live as long as it |
| Algorithms (`execfmt.rs`, dates, strings) | none | pure | agree with a definition |
| Stubs and data (`intuition.rs`, `graphics.rs`, `locale.rs`, `utility.rs`, `mathlibs.rs`, `lvos/`, debug traps, CLI) | next to none | fixed answers | - |

### How they interact

Every handler gets one context: CPU, guest memory, heap, DOS state, scheduler,
timers, continuations. So interaction is by shared state and by callback:

- a handler that must call guest code pushes a continuation and returns; any
  trap may happen before the continuation runs, a task switch included. The
  continuation stack is shared by all tasks;
- `Wait` and the exit of a task loop inside their trap: take a signal, switch,
  sleep to the next timer, or report a deadlock;
- timers complete through ports and signals; SIGINT sets a signal; socket events
  set one, too;
- whatever a handler allocates comes from the guest heap, whose shadow map the
  memory calls mark;
- libraries are seglists, which come from DOS, which resolves paths against locks;
- a packet is a message whose port is known to PutMsg, which calls DOS at once;
- the allocator of chunks and the list calls work on guest memory that the
  sanitizer watches.

### Where it is hard

Half-done switches with guest code in between; a continuation that runs after
another task's; a signal between the test and the sleep; a request re-sent while
pending; a list call refused in the middle; blocks released in any order while
redzone and budget change; a memory list that fails at its second entry; a
directory that changes between two calls of a scan; a lock that is freed while it
is the current directory; the third of three allocations that fails; a library
opened while it is being opened, or removed by its own Expunge; a patch taken away
below another; an interrupt that causes itself; a stack left by StackSwap and
written from the other one; an overlay node that fails after it was registered; a
byte pushed back on a handle that is closed, and the next one at its address; a
descriptor that is a duplicate's, with the events of the socket before it.
`PROJECT.json` lists each such place with its line, and the properties that watch
it.

## 2. Plan

The modules, in order of importance. All but the last group exist.

1. `ExecTasks`: tasks, signals, timers, hooks and the continuation stack in one
   module, because their hazards are their interleavings.
2. `ExecSemaphores`, with the abstract `RecursiveLocks` it implements.
3. `GuestHeap`, with the abstract `Arena`; `ExecMem`, which composes the heap with
   the shadow map; `StackShadow`, the other half of the sanitizer.
4. `Vfs` and `DosLocks`: paths, and over them the registry of locks, the current
   directory, scans, assigns and device processes; `DosAnchors`, which composes the
   locks with the level stack of MatchFirst; `DosPatterns`, `DosArgs`.
5. `DosFiles`: handles, positions, push-back, command lines. `DosSegs`: LoadSeg
   and overlays. `Loader`: the hunk files they are read from.
6. `ExecLibs`: registry, library list and seglists, with inits as guest callbacks
   that other tasks interleave; `ExecSetFunction`.
7. `ExecPorts`, with the abstract `Queues`; `ExecChunks`, another implementation of
   `Arena`; `ExecCause`.
8. `BsdSockets`.

What would come next: a composition of `ExecPorts` with `ExecTasks`, once WaitPort
lets other tasks run; requests in memory that FreeVec frees, in `ExecTasks`.

Bounds: two or three actors, one or two objects, and memory of a few words, as
below. A module and its neighbours share a run, one at a time, where nothing that
is modelled passes between them; so their states add up instead of multiplying.

## 3. The modules and the code

### ExecTasks

| Model | Code |
|---|---|
| `current`, `others` | the current task; `TaskScheduler.others`, "ready" or "blocked" or "none" |
| `conts`, `depth` | `ContinuationStack.pending`; each task's own calls in flight, of which the code keeps no count |
| `hookActive` | `switch_hook_active` |
| `recvd`, `trap`, `want` | `tc_SigRecvd`; the loop the current trap is in, and the mask it waits for |
| `timers` | `PendingTimers.entries`, with the ticks left to each deadline |
| `links` | how often a request is linked on its reply port |

Calls are actions named for their handlers; one iteration of the loop of `Wait`
or of the exit stub is a step (`WaitLoop`, `ExitLoop`), because a hook's guest
code can run between two of them.
`Tick` and `handle_host_break` are the host. `pick_ready` is the code's
choice, priority and then least address, so the order of tasks is their number.

Abstractions. `tc_SigWait` is not kept: nothing reads it but guests.
Creation does not model the heap's refusal or the handles a process inherits.
Which tasks have hooks is a constant. Signals to addresses that are no task are
not sent. `trampoline_now` and `trampoline` differ in registers only. Popping an
empty continuation stack cannot be reached. The second SIGINT, which kills the
host process, is left out. `DoIO` and immediate device commands change nothing
modelled. A `Wait` refused inside a hook ends the run, as a deadlock does.

### ExecSemaphores, RecursiveLocks

`nest`, `owner`, `queue` are the three fields; `public` the public list; `ready`
the semaphores that were initialised, before which the fields are garbage.
`grants` is a ghost: the obtains not yet released. Any task may be current at any
call, which is coarser than the scheduler and so covers it. `outcome` and
`failed` say how the last call ended, a refused one ending the run. List calls
act one semaphore after another and keep what they got before a refusal, as the
code does. The guest's side of the contract is in the guards: a semaphore is
initialised before it is used and not while held. `FindSemaphore` only reads.

`RecursiveLocks` says what is promised: a lock is free, exclusive or shared;
a grant that is not free belongs to its holders; release needs a grant.

### GuestHeap, Arena

`free`, `live`, `quarantine`, `quarantine_bytes`, `recently_freed` are the
fields of that name. The serial number of a free is its place in the history. The drain is
one block per step, and calls wait for it, so that each
release and each merge is a step of its own. `reserved` and `answer` are
history variables. Arithmetic is that of a word of `MaxWord`: `total_needed`
overflows as `checked_mul` and `checked_add` find, `align_up` as
the code's does. Filling blocks with dirt is a policy of `ExecMem`;
`recently_freed_info` and the size queries only read.

`Arena` knows no blocks: addresses are spare, held or resting, and a request for
n is refused only if no n spare addresses in a row exist. That is the strong
form: it fails if one merge is missed.

### ExecMem

`INSTANCE`s `GuestHeap` for the heap. `shadow` maps an address to its state
("valid", "uninit", "redzone", "slack", "freed"). `kept` is what the program was given and
has to free; `leaked` (blocks it can no longer free), `written` (its bytes that
have a value), `bare` (quarantined blocks that DeletePool freed, which are not
poisoned) and `accused` (bytes a handler's own writes were reported for) are
ghosts. `call` is where `AllocEntry` and `FreeEntry`
are, which take several steps because the quarantine drains
between two of their allocations or releases.

Enabling the sanitizer comes first, as on the command line. A program may
free with the wrong size or a stray address, which ends the run as the code does.
Stray writes are recorded and heal nothing. `CopyMem` is not given
overlapping ranges. `AllocVec` asks the heap for a rounded size, so the bytes of
that rounding count as the program's.

### StackShadow

| Model | Code |
|---|---|
| `cur`, `sp`, `away` | the guest's: the stack in use, its pointer, and the pointer kept for the other one |
| `bytes` | `ShadowMap.bytes`, over two stacks |
| `tracked`, `last` | the `StackRegion` and its `sp` |
| `call_stack` | the shadow call stack, entries of a return address and its slot |

`how` says by what a program changes stacks: StackSwap, RunCommand, a task switch,
or its own code that loads the stack pointer; each of them tells the sanitizer
something else. What is checked after each instruction (`update_stack_pointer`,
`check_return`) is part of every action. `frames` (the calls that really are in progress), `scribbled` and
`verdict` are ghosts. A byte stands for a longword, so a return address is one
byte. `BelowExact` says which bytes are dead; `ReturnsJudged` that a return is
accused exactly if its address was written over.

Left out: the exemptions for `CLR` and `MOVEM`, and the log. `Discards` FALSE keeps
out code that drops a return address and goes on (section 6).

### ExecLibs

`loaded` is the registry, `faked` the names with a made-up base, `libList` the
list in guest memory, `seglists` the seglists of DosState, `lib` what lies at each
heap address, `pending` the continuations of the inits that run. One step is a
handler up to the guest code it calls; the Open, Close and Expunge vectors run
under Forbid and are part of the step. `initFunc` is not: between its start and
its return the same program or another task opens and closes (`MaxDepth`), and
of the inits that run the last begun returns first, by the one continuation stack.
An `rt_Init` that builds its own library adds it by AddLibrary, which is a step of its
own (`add_library_handler`), and returns later (`DirectInitReturns`, with the base, or
`DirectInitReturnsNull`). In between `LibList` and the registry have the library, without
its seglist, and it can be opened, closed, asked to go, or replaced by a copy;
`made` of an init is the base it has added.
`fault` is the call that found nothing to unload or to free and so ended the run;
`opens` is a ghost.

The files are of the kinds the code tells apart: initialised by `rt_Init` itself
or AUTOINIT, with or without `initFunc`; found by name, by path or in the
`--libs-dir` directory; broken. The guest keeps the rules of the RKRM: a library
counts its opens and allows Expunge only at none, and not while its own init
runs. What this leaves out is in the constants `OwnExpunge`, `NullTwice` and
`EarlyEnd` (section 6).

### ExecSetFunction

`entry` is a jump table: a trap, a JMP to the library's own code, a stub or a hook.
`stub`, `next_stub` and `exhausted` are the pool of stubs that keep what a trap
was. `lib_Flags` and `lib_Sum` are the fields. `hooked` and `old` are the
program's: which hooks are on an entry, and what SetFunction returned for each.
A checksum is the words it adds up, so that no two tables have the same. The
program may patch a table of its own behind exec's back (`untold`).

### ExecPorts, Queues

`ln_Succ` and `ln_Pred` are the pointers, of nodes and of the two sentinels of each
header, which share a longword. So `AddTail` to an empty list writes through the
sentinel, as the code does. `Queues` has sequences and no pointers; `ExecPorts`
implements it by `contents`, what is found by following `ln_Succ`. WaitPort on an empty port ends the run
(`hung`). A packet is a message sent to the port of the filesystem handler, which
answers it before PutMsg returns (`handle_fs_packet`); `asked` is a ghost, the port
that each answer belongs at.

### ExecChunks

`chain` is what `mh_First` leads to, `mh_Free` the count, `shadow` the sanitizer's
view, `owned` the program's blocks with the size it asked for. The allocator reads
its own chain through the checks, so the order of exempting and writing a header is
part of the model, and `alarms` holds the units it accused itself of. It
implements `Arena`, as `GuestHeap` does.

### ExecCause

`queues` are the five queues; `saved`, the two registers that a drain keeps in its
continuation; `handler`, whose code runs. A handler may Cause others or itself
while the drain runs, which only queues them. `owner` is a ghost: what the task's
registers hold by its own doing. `vertb` are the vertical blank's servers, kept
and never called.

### DosFiles

`handles`, `objects`, `current_input`, `ungetc_buf`, `last_getc`, `input_buf`,
`input_pos` are the fields of those names; `blocks` the heap blocks with a
FileHandle; `disk` the length of each file; `frames` what each running RunCommand
saved. A byte has no value: what matters is where it is taken from. `own`, `taken`
and `short` are ghosts that say so. `Handles`, `Positions` and `Buffered` are three
groups of calls, because a byte pushed back and a position are kept apart by the
code, too.

### DosSegs

`memory` is the heap in blocks, each holding nothing, a hunk, a table or a
FileHandle; a hunk keeps the pairs of a hunk's number and the block its relocation
was resolved to. `overlay_roots` is the table of that name, by the block of the
tree's `oh_Segments`, which is also the tree's name in its hunks: that block is never
freed, while the first block of a tree may be, and be used by another program. `resident` belongs to
the program: its overlay manager, which loads a node below the deepest one that is
resident and frees the nodes it replaces by FreeMem, of which the runtime learns
nothing. A node may name any hunk. `SegmentsSound`, half of `ProgramsSound`: whatever is
in a seglist is linked with itself, a resident node's pointers to its own hunks and to
those resident above it are right, and every block belongs to what is loaded. A node's
pointers to hunks that are not resident are `UnloadedRefused`, which the code
violates (section 6).

### Loader

| Model | Code |
|---|---|
| `image` | the bytes of a file, as words, and what the linker that wrote them meant |
| `hunk_file` | the `HunkFile` of `parse`, or the `OverlayNode` of `parse_overlay_node` |
| `ram` | guest memory, as words |
| `result` | the `LoadResult` of `load`, or the `SegList` of `build_seglist` |

The reader is a position in the file, or `Bad` after a short read; each block reader
takes the hunk so far and gives the hunk it leaves. `load` and `build_seglist` differ
in where hunks go and in what a relocation adds. Three things are abstracted: the
flag bits 30 and 31 of a longword are the two low bits of its first word; numbers in
a file are below 2^16, so `n * 4` cannot overflow; a name is told apart and not
spelled. `DosSegs` models what LoadSeg does when a block cannot be had; here the
heap blocks are given.

`LoadedExact`, the other half of `ProgramsSound`: `ReadAsMeant`, `InPlace`,
`EndsRight` and `LocationsRight` compare each result with what the linker meant,
which the reader never sees. The displacements that LoadSeg relocates are exempt, and
named: `Misplaced` (section 6).

### Vfs, DosLocks

| Model | Code |
|---|---|
| `kind` | the host's directories: what `std::fs` finds at a host path |
| `assigns`, `cwd` | `VfsConfig.assigns`, `VfsConfig.cwd` |
| `resolve_must_exist`, `resolve_parent_must_exist` | `resolve_with_amiga_path` in its two modes |
| `dos.locks`, `dos.exnext`, `dos.current_dir_lock`, `dos.initial_cwd`, `dos.fs_port` | the fields of `DosState` |
| `dos.blocks` | the blocks on the heap that DosState allocated |
| `devprocs`, `exall` | `dvp_Lock` of each DevProc and `eac_LastKey` of one ExAllControl, in guest memory |

A path is a name and components, `0` the parent step; a set of results is empty
for an error. One handler is a step; a helper that allocates returns the set of
its outcomes, with the state that each leaves, so that a handler that allocates
twice or three times is a composition of them. The heap is any free address
(`GuestHeap` has the details), and out of room for any request when `HeapMayFail`.
`held`, `dropped` and `scan` are ghosts: the locks the program was given, whether
it unlocked its own current directory, and what each scan has returned.
The program uses only locks it was given, though it may unlock an address that is
no lock; it ends an ExAll before it gives the lock back, and clears its key before
the next. A call that is refused and changes nothing is no step.

Left out: the case of letters, volumes created at their first use, the
auto-assign root, links, the calls on file handles, ExAll's match string. The
layout of ExAll's buffer is how many entries fit.

### DosAnchors

`EXTENDS DosLocks`. `anchor_states` is the field of that name, `dodir` the
anchors whose `APF_DODIR` is set, `pending` the path that `pending_entry` and
`direct_self` stand for. `MatchNext` is one step, made of `descended` and
`match_next_inner` as in the code. Every call of `DosLocks` may come between two
of a scan (`OtherCall`). `tour` is a ghost: where the scan began, what was entered and
what was returned. `WalkIsTour` compares it with the tree: `Items` is what a tour visits,
`Before` in which order, and neither says how a walk is done. It is `Spoilt`, and no
more said of it, once a call changes the tree or the assigns, or the current directory
of a scan whose path is relative to it (`FollowsCwd`, section 6). An `AChain` is never freed nor read
again by the code, so it is not put on the heap; that its allocation can fail is
modelled. The other flags and the text in `ap_Buf` are left out.

### DosPatterns

The three machines of the code: the parser from text to tree, the encoder and
decoder between tree and tokens, and the matcher, which backtracks through what
remains to be matched, with the budget of the decoder. `PatternsExact` compares
what comes out with `Means`, which says what a tree means without any of them: a
repetition is a text cut in pieces, a choice is a disjunction. `Sources` are texts
together with the tree each stands for, so the parser is checked, too. The buffer
of tokens is the program's and is parsed into again.

### DosArgs

| Model | Code |
|---|---|
| `line`, `input_pos` | `DosState.input_buf` as items of the reader, `input_pos` counting them |
| `room` | the blocks on the heap; a word in one is the position it has in the line |
| `rdargs`, `arrays` | `DosState.rdargs`; the LONGs that ReadArgs wrote for each result |

`parse_template`, the reader (`read_item`, `read_value`, `rest_of_line`), the
matching (`fill` with `Keyword` and `Positional`, then `borrow`, then `filled`) and
`materialize` are the functions of the code, and `read_args` is one action made of
them. `TakeStop` is an FGetC of the newline or semicolon before which ReadArgs
stops; without it a second call finds nothing. `Meaning` is the other view: it
numbers the words of the whole line, says for each what it is for, and leaves the
cursor, the slots under way and the blocks out. It says what the comments of the file
say: a free word is for the next slot that has none, and an item with an unmatched
quote is an error. `ArgsExact` compares the two
through the pointers that the program follows. Of two kinds of line, which `Misread`
describes, it asks no more than that no memory is lost: there the code does not do
what its comments say (section 6). Letter case, escapes within quotes
and the range of numbers are left out.

### BsdSockets

| Model | Code |
|---|---|
| `sockets` | `BsdSocketState.sockets`: an entry's mask, pending events, `is_listener` and `connected` |
| `next_id`, `dtablesize`, `event_cursor`, `sigeventmask` | the fields of those names |
| `signalled` | whether the bit is in `tc_SigRecvd` |
| `hosts` | what poll(2) says of each host socket, which the peer and the network change at any time |

`WaitSelect` is its polling pass; `TakeSignal` is what it does when the signal is
there before. POLLIN, POLLOUT, POLLERR and POLLHUP follow from what can be read, what
has ended and which directions were shut down; `peeked_eof` is the peek that tells the
end of a stream, which it cannot while data is left. `owed`, `silent`, `seen`, `passed`, `unfair` are ghosts: whether the
program has to ask for events, which came without a signal, which were true, and
whose turn it is. `ListensShared` FALSE keeps out listen and connect on a socket
with two descriptors (section 6).

## 4. The runs

| Run | States | Asks |
|---|---|---|
| `signals` | 1,495,992 | tasks: three, every order of the signal calls, creation, exit, yield and SIGINT, no `tc_Switch`: are wakeups exact (`WakeupsExact`), is a reported deadlock real (`DeadlockIsReal`), does Signal reach every live task (`NoLiveTaskRefused`)? Or sockets: does a descriptor stay its socket's (`DescriptorsKept`), does an event arrive once, true, announced and in turn (`EventsDelivered`)? |
| `shared` | 647,556 | semaphores: two tasks, two semaphores, one list of both: `FieldsAgree`, and `LocksKept`, the refinement. Or libraries: `LibrariesKept`, `LostOnlyToACopy` |
| `heap` | 389,105 | the heap: `Partition`, `QuarantineExact`, `RecordsRight`, and `HeapIsArena`, the refinement. Or two tasks, two requests, fair loops: `CompletesOnce` (for a program that drains its port before sending again), `OwnersAlive`, and `LoopsEnd`: both loops end |
| `mem` | 1,873,764 | memory calls: `NothingLeaks`, `NoFalseAlarms`, `MarksKnown`. Or two stacks: `BelowExact`, `ReturnsJudged`. Or three tasks, two with `tc_Switch`, two with `tc_Launch`, two nested callbacks: `NoTaskLost`, `OneHookAtATime`, `OwnContinuation` |
| `calls` | 28,699 | one of four: chunks (`ChunksAreArena`, the refinement, and `ChainSound`), software interrupts (`DrainsTransparent`), SetFunction (`PatchesKept`), lists and ports (`PortsAreQueues`, the refinement, and `PacketsAnswered`) |
| `files` | 677,302 | handles with positions, or with bytes pushed back and command lines: `HandlesOwned`, `PosInFile`, `NextByteOwn`. Or segments or hunk files: `ProgramsSound`, which is `SegmentsSound` and `LoadedExact` |
| `dirs` | 130,299 | every order of the calls on locks, directories, assigns and device processes: `LocksOwned`, `CurrentDirKept`, `ScansComplete`. Or texts that are read, patterns or argument lines: `TextsExact`, which is `PatternsExact` and `ArgsExact` |
| `walk` | 188,530 | a scan of a tree with every other call in between: `ScansOwnLocks`, and `WalkIsTour`: as long as nothing the scan goes by is changed, the calls return the tour of the tree |
| `lostwakeup` | about 430 | violation of `DeadlockIsReal`, see section 6 |
| `callbacks` | about 400 | violation of `OwnContinuation`, see section 6 |
| `redzone` | about 150 | violation of `RedzonesStay`, see section 6 |
| `stalelink` | about 9,000 | violation of `UnloadedRefused`, see section 6 |

Where a line says "or", the initial state chooses the part that moves (`part` in the
MC module); no state passes between the parts, so nothing is lost by it.
`CompletesOnce`, `RecordsRight`, `MarksKnown`, `CurrentDirKept` and `ScansComplete`
are conjunctions of what the module names below them. `TypeOK` of `ExecTasks` and of
`GuestHeap` is proved, and not checked by a run.

Bounds, and why they are enough:

- Tasks: two make a lost wakeup, three a switch that passes a ready task over and
  a hook's task that is neither the old nor the new one. Task numbers double as
  addresses; symmetry would hide the tie break.
- Signals: Ctrl-C, which the host sends, and one more. Priorities: two in `mem`.
- Callbacks in flight: two, one in the other, of any one task at a time, together with
  the hooks' own continuations. With two tasks in callbacks at once, which
  `OneCaller` keeps out, `OwnContinuation` does not hold: that is the run `callbacks`.
- Requests: two, so that one completes while the other is pending; delays up to
  two ticks, so that they fall due together or apart.
- Semaphore counters: two bits, and three grants, so that the last value before
  the wrap is reached and the wrap is not. The code's are 16 bits wide, and a
  program that nests 65,535 times is not considered.
- Libraries: six names for five files, one initialised by itself under two names,
  two AUTOINIT of which one has no `initFunc`, one in the `--libs-dir` directory
  and two that are broken; three bases and three seglists, so that one is in use
  and one freed and used again; two opens of each; two inits at a time.
- Heap: 20 managed bytes of a 6-bit word, ends not aligned; redzones 0 and 3,
  budgets 0, 8 and 13 (a budget below a block, and one that is not a sum of
  sizes); requests whose total passes the word; a history of two.
- Memory calls: 56 bytes, ends not aligned, redzone 3, quarantine 16, which is less
  than two blocks of 14; sizes 0 and 5; memory lists that succeed, that fail at the
  second entry, and with a cleared entry.
- Stacks: three bytes and two, so that one has a call in progress and a byte below
  it; two return sites, which tell a wrong return from a right one; a shadow stack
  of two calls, so that the third is not watched; one byte of grace. A program
  that loads its stack pointer by hand uses two bytes of each stack.
- Chunks: a pool of three units and, beyond a gap, two, with requests of up to
  seven bytes of two a unit, so that a request is larger than either piece, and
  one that is not a multiple.
- Interrupts: four, at priorities -15 and 1, which are levels 1 and 2 as the shift
  rounds down, -32, the lowest, and 33, which is refused; they cause each other.
- SetFunction: three entries, two of a built-in library and one of the program's,
  two hooks, a pool of one slot, so that the second patch fails.
- Lists: one port and one list, three nodes of two priorities: a node can be the
  first, the last, in between and alone, and change lists.
- Files: two blocks beside Input() and Output(), so that one handle's address is
  the next one's; two files, one write-protected, of up to two bytes; two
  commands, one within the other. `Tidy` (section 6).
- Segments: eight blocks, a program of two hunks that name each other, an overlay
  tree of a root, three siblings with the same numbers, a node below the first, one
  below the second that names a hunk of no node, so that it is refused once it is
  registered, and a third sibling that names a hunk which only those two have, so that
  it is refused or finds a stale address; the lowest free block is taken, so
  blocks are used again at once. Any allocation may fail.
- Hunk files: a program of three hunks with pointers between all of them and into
  themselves, lines out of order and symbols; one of two with displacements; an
  overlay tree of a root and a node. Each is written in every style: lists in
  longwords or in shorts (with and without padding), HUNK_END everywhere or only at
  the end, no flags, one, or both, debug blocks before or after the body, names or
  none. Then each file cut off after every word, and one word or one relocation
  spoilt. In a size table never both flags (section 6). Memory is fresh or used,
  at two addresses or in heap blocks of two orders.
- Locks (`dirs`): three addresses, the port and two more, so that a lock is made,
  freed and its address reused, and a DevProc with its lock fills the heap; a
  directory with a file in it, two names, and an assign `WORK` of two directories,
  so that a name is found in the second and made in the first; one change of the
  tree or the assigns, anywhere between the calls; a buffer for one entry. The
  deepest hazards need a lock, a change and a second lock.
- Patterns: all trees of up to three operators over six leaves, about 2,000, and 18
  texts for what a tree does not show, eleven of them refused; names of up to three
  bytes, with and without case; buffers of 6 bytes, too short for most, and 20;
  texts and tokens of up to 12 bytes, so that both limits are met. No name has one
  of the six bytes between Z and a: a class that spans them folds more than they do.
- Argument lines: all of up to three items over six words and the equals sign, two
  of which are not put side by side; the same with an unmatched quote at the end;
  eight of five to nine, in which a newline and a comment leave parts for a second
  and third call. Fifteen templates, with every modifier, four of them invalid. Five
  blocks: memory runs out at a word, at a table and at the RDArgs. A later call is
  made only where there is a word to read.
- Scans (`walk`): patterns on a name and relative ones, of which one begins below the
  current directory and one in it; four addresses, the port and three levels, or two
  levels and a lock of the program; three levels of directories, the last empty; one
  change.
  The heap has room and the buffer is long enough: `HeapMayFail` and
  `BufferShort` are FALSE, because `ScansOwnLocks` does not hold otherwise
  (section 6).
- Sockets: two host sockets, symmetric, so that one can take the other's place
  under a descriptor; descriptors up to 3, a table of one and then two, so that it
  is full and then not; duplicates onto 2, above and below the next descriptor;
  two masks, which together arm every event.

All runs turn the deadlock check off: a program may end, and then nothing more
happens. `DeadlockIsReal` is about the deadlocks that the runtime reports.

Fairness. `FairSpec` asks weak fairness of `WaitLoop` and of `ExitLoop` only:
they are host loops inside one trap, which the one thread goes on executing.
Nothing is asked of the guest, of SIGINT or of the clock; the loop sleeps to the
earliest deadline by itself (`wait_fire_earliest`). `LoopsEnd` is then true
because each iteration takes a signal, switches, or uses up a request. The other
modules have no loop that waits; what their calls leave pending is the guest's.

## 5. What is proved

With TLAPS, for every value of the constants. `MC` modules and bounds play no part.

`SignalsProofs`, of `ExecTasks` (assumptions: the named ones of the constants): `TypeCorrect`,
`TasksNeverLost`, `HooksNeverNest`. The invariant is `TypeOK /\ Structure`, where
`Structure` joins three parts that need each other: `NoTaskLost` (a live task is
current, held in `others`, or the one a switch continuation is about to run),
`OneHookAtATime` (`hookActive` exactly when one hook continuation is on the
stack) and `ExitOutsideHook` (the exit loop never starts inside a hook). Without the third
an exit could discard a task that a pending switch still holds; without the second
two switches could hold the same one.

On it rest six more theorems of the module, each under an assumption without
which its claim is false of the code:

- `WakeupsNeverLost`, `DeadlocksAreReal` and `LiveTasksSignalled`, when no task has a
  `tc_Switch` (`Switchers = {}`). The invariant adds that only a task suspended in Wait is held
  as blocked, and that one not yet created has no Wait to resume. With a `tc_Switch` the run
  `lostwakeup` shows the second broken.
- `RequestsDieWithTheirTask`, when at most the main task, which never exits, has a
  `tc_Switch`: every pending timer entry belongs to a task that lives, and an exiting
  task, which makes no call after the drop, has none. A `tc_Switch` of its own would
  run after the drop.
- `RequestsCompleteOnce`, when the program takes a reply off its port before it
  sends the request again (`Drained`; WaitIO leaves it there, section 6): a request
  is pending once and linked once, and never both.
- `OwnContinuations`, when only one task at a time has callbacks in flight
  (`OneCaller`), to any depth, beside the hooks of any tasks. The invariant
  (`CallsOwned`): all callbacks on the stack are of one task, at most one hook is there,
  and it and all above it are the running task's, for a hook is not switched away
  from. `depth`, which knows what each task has to return to, then agrees with the stack.
  With callbacks of two tasks the run `callbacks` shows it broken.

`ExecSharedProofs`, of `ExecSemaphores`: `FieldsAlwaysAgree`, `SemaphoresAreLocks`. The invariant
says, of each initialised semaphore, how the three fields follow from `grants`.
Assumption `Careful`: a task does not release another's shared grant. Without
it the claim is false: the code cannot tell sharers apart (section 6).
List calls are folds, so their steps follow from lemmas on the semaphores
before and after the place of the refusal. `MaxHolds < Wrap` keeps the counters
from wrapping.

The same module, of `ExecLibs`: `LibrariesStayInMemory`, `LostToCopiesOnly`. The
invariant, `Books`, is a predicate on any registry, LibList, seglists, memory,
running inits and opens, so that it holds of what a handler has half done: every
entry is that of a live library with its count and seglist, under one name; LibList
has each library whose init is over, once; every seglist in memory is carried by one
library or one running init (`OwnSegs`); and the base made for a running init is not
open (`Bare`). The last two are why a refused init, or a close within one, unloads
nothing that another holds. A base that a running init has added (`Adds`) is in memory with
the seglist of that init, and its entry has none (`Right`): that is why a close in that
time frees nothing that after_init still needs. For the second theorem, `FilesRight`: the base under a name is
made from the file the name leads to. Assumptions: `OwnExpunge = {}`,
`~NullTwice` and `~EarlyEnd`, without which a base is freed twice or lost (section 6); for the
second also `NamesMatch`, the name a library carries leads to its file.

`GuestHeapProofs`: `TypeCorrect`, `NothingLostOrShared`, `QuarantineCounted`,
`ImplementsArena`. The invariant: types; the free list in address order with a gap
between neighbours; live and quarantined blocks not empty; the partition;
`quarantine_bytes` the number of addresses in quarantine. The gaps are what the
refinement needs: with them a run of spare addresses lies inside one free block,
so a first fit that fails proves that no run is long enough. Assumption: no
request of 0 bytes, which `AllocMem` answers itself (section 6). That type
correctness holds means no `u32` operation of the heap overflows. `RecordsStayRight`
adds what a report is derived from: the four ranges of a live extent are in order
and its redzones alike, whatever the redzone size is now, and the newest records of
frees are those of the newest blocks in quarantine, in order.

`ExecMemProofs`: `NothingIsLeaked`, `NoAlarmIsFalse`, `MarksAreKnown`. Two invariants,
over the heap's proved one (`G == INSTANCE GuestHeap`, with requests of more
than 0 bytes). `Books` is a ledger: the live blocks are those the program holds,
those it can no longer name, and those an `AllocEntry` in progress has listed so
far. `AllocEntry` is several steps that undo each other on failure, and the last
part is why none of its blocks is lost. `Marks` says what the shadow holds of
every byte: of a live block its data and its two redzones, of a quarantined one
freed, elsewhere nothing a report could come from. A handler marks only inside the
extent of the block it returns or frees, and by the partition extents are disjoint;
so what it marks leaves every other block's marks as they were. `accused` only grows by
a byte that is marked, and what is marked is not the program's data. Assumptions:
`High`, the heap starts above the first longword (a block's redzone is
below its address); `Modest`, no size is within 15 bytes of the largest integer, where
`AllocVec` wraps (`execmem.rs:431`); for the marks also `Careful`, a CopyMem
stays within its blocks: one that does not copies marks as the code
does (section 6). `Data`, which addresses of a block the program was given, is a
history that no action reads.

`DosLocksProofs`: `LocksNeverLeak`, that is `LocksOwned`. The invariant, `Owned`, is
a predicate on any DosState with the locks the program holds and the DevProcs, not
on the variables: so it is stated of the intermediate states of a handler too. A
lemma for each helper (`new_lock`, `fs_port_addr`, `unlock`, ...) says what
it keeps `Owned`, and `GetDeviceProc`, which allocates three times and undoes two
of them, is a composition of the lemmas. What a path resolves to plays no part;
nothing of `Vfs` is expanded. So the theorem holds for any tree and any assigns.
It adds to `LocksOwned` that the blocks are addresses, which a new block's
freshness needs.

The same module, of `DosAnchors`: `LevelsKeepTheirLocks` and `ScansLeakNoLocks`. A scan
composes the same helpers with locks the program was never given, so `Kept` is
`Owned` with further locks, and every call of `DosLocks` is shown to leave those alone
whatever they are. The invariant, `AInv`: the locks of the levels are apart, within
a scan and between scans (`Scanned`), and they are all the further locks there are but
for those lost (`Sound`), which is none unless an allocation or the buffer may
fail. The code does lose locks then (section 6): the first theorem, that no level loses
its lock nor shares it, holds all the same; the second, that no lock is left behind,
assumes that neither fails, as the run does. `match_end` is modelled by what all its
unlocks do together.

And `ScansMissNothing`, that is `ScansComplete`. Of a scan with `ExNext` the invariant
(`Reading`) says that the names its cursor goes through are ascending, that those
returned are some of the ones passed, in their order, and that a name that stays is
either ahead of the cursor or returned. Of a scan with `ExAll`, which lists the
directory anew on each call (`ExAllGood`): as long as its names are the same ones,
those returned are the listing up to the key. `sorted_dir_entries` is the ascending
sequence of a set; that every finite set of names has one is proved by induction
on its size. The library's induction theorem takes an operator, but that
every nonempty set of naturals has a least member (`Least`) does not, and induction
over a set of naturals (`Induction`) follows from it.

And `CurrentDirIsKept`, that is `CurrentDirKept`. The invariant (`HInv`) adds to
`IInv` what initial_cwd is: until the first CurrentDir the program is where it
started, and after it initial_cwd is there, also when that call was refused. The
rest is about what a path resolves to. That every path is absolute (`PathsAbsolute`)
rests on lemmas for each operator of `Vfs`: two of them walk a path or a list of
targets, and one goes through assigns to the depth the code allows; each is a
recursive function, which exists and is what its definition says by `Recursion`, a
consequence of `Induction`. `SetCwdExact`, that an absolute path stands for itself,
is why a lock's path and the current directory set to it are the same. Assumption:
the paths and assigns given are on names that are known (`PathsAssumption`).

The two meet in `ToursAreWhole`, that is `WalkIsTour`, and `CurrentDirIsKeptByScans`. The
invariant (`WInv`) joins both with the tour of every scan that nothing has spoilt
(`Toured`), which has two halves. `Walk` is about the levels: what belongs to the tour
is what was returned and what the levels have left (`Remaining`), each in order and the
first before the second; and the directory of a level is at an entry that the level
above has passed (`Nested`). The latter is why the leaving of a directory comes after all
that is in it and before what the level above has left; and that what was returned
last is `Above` what every level has left is why entering it puts all of it there. `Ways` is
about the paths: each still leads to the directory of its level, and to no other,
wherever the current directory is by then, and so does that of a child
(`FoundFixed`, `WaysFixed`); so a descent enters what was returned last and not another
directory. `Ways` is false of a scan that follows the current directory, which
is how the difference in section 6 was found. Assumption, beside those above: the text of
a pattern is a path (`AnchorsAssumption`).

`DosFilesProofs`: `HandlesNeverLeak`, `PositionsInFiles`, `NextByteIsOwn`. The first
two need one invariant, `FileInv`: types; `Owned`, the blocks with a FileHandle are
those of open handles and of DOS objects, and the default handles are neither
freed nor objects; `Placed`, a handle with a file has one that is there. For the
third, `PushInv` says that an address that is not open has nothing pushed back,
and `LineInv` that what each RunCommand saved is where that program left off; both
are preserved only with `Tidy`, because Close forgets nothing (section 6).

The same module proves `SegmentsStaySound`, `SegmentsSound` of `DosSegs`. It is not
inductive: a pointer is right when it is written because what is registered is where it is
said to be, and stays right because what it names is not freed before it. The
invariant, `SegsInv`, says of each seglist that its hunks name one another (`SegOk`), of
each tree that its levels hold hunks with rising numbers (`TreeOk`) and, while its
program is loaded, that hunks 1 to the last resident one are where `payload_addrs`
has them, and that what a level names in that range is there (`LiveOk`); that no two seglists
or trees share a name (`Apart`); and that every hunk or table has an owner
(`HasOwner`). Every action changes only unused blocks, or the hunks of one tree whose
numbers are in a range (`Change`), and who names only numbers below the range is not
touched: that is why UnLoadSeg, which frees the numbers of the root and leaves the nodes, and a
displacement, which frees the last level, keep the rest. The lemma `Ranks` is why
`Fresh`, written with a CHOOSE, always finds its blocks. Assumption
(`SegsAssumption`): hunks are numbered on down the tree. What a node names is not
restricted: of its pointers to hunks that are neither its own nor above it the theorem
says nothing, because they may be stale (run `stalelink`).

`ExecCallsProofs`, of `ExecCause`: `InterruptsTransparent`. The invariant joins `Queued` (a node is
in a queue once if and only if its type says so, and in that of its level) and
`Drain` (registers are saved while a handler runs, and are the task's). From the
first follows that the next node the drain takes is the oldest of the highest
level that has one; the second alone would hold of a drain that forgets nodes.

The same module, of `ExecSetFunction`: `PatchesAlwaysKept`. The invariant: from every entry a
chain of hooks, each calling what it replaced, leads down to the native function
(`Chains`); a stub stands for one trap, and an entry that is still a trap has none
(`StubsApart`); a sum that is asked for is that of the table (`SumsTrue`). The middle
one is why a second patch of an entry takes no second stub.

The same module, of `ExecChunks`: `ChainsStaySound` and `ChunksImplementArena`, that the chain
is an arena. The invariant, `ChunksInv`: the free chunks lie in the pool, in address
order with a gap after each; what the program owns is in the pool, not free, and in
one block; `mh_Free` is the sum of the chain; no header of a chunk is poisoned. From
the gaps follows that a run of free units lies within one chunk, so that a request
no chunk is long enough for is rightly refused; the freedom from alarms needs the
last, which is why Deallocate has to exempt the header it keeps and poison the one
it merges away. `Sum` is a recursive function over the chain: its value for a chain
of which a stretch is replaced, as every step does (`ChunksReplaced`), is proved by
`Induction` over the length.

The same module, of `ExecPorts`: `PortsAreSequences`, that the lists of pointers are
those of `Queues`, and `PacketsAlwaysAnswered`. The invariant, `PortsInv`, names for every list
a sequence of nodes, those `contents` reads, and says that `ln_Succ` goes from the first sentinel
through it to the second, that `ln_Pred` goes the same way back, that no node is
in two places, and that a node in none has no pointers (`Lined`). That linking at a
place, or unlinking, changes the sequence there and nothing else (`LinkingSplices`,
`UnlinkingCuts`) is where the overlapping sentinels matter: the neighbour may be either.
`Chain` walks the pointers and is a recursive function; that it finds the
sequence (`ChainOfList`) is proved by `Induction` from the far end. For the second
theorem, `PacketInv`: what is on a list exists, so that a block made into a request is
no packet that waits; and an answer is on the list of its port until a call takes it
off. Assumption: the block of a port is no guest list (`NodesAssumption`).

`StackShadowProofs`: `OnlyDeadBytesArePoisoned` and `ReturnsAreJudged`, for two
stacks of any size. `StackInv`: what is dead is what lies below the stack pointer
seen last (`Poison`), which is the present one, or one below it after a handler
has returned (`Pointer`); the return addresses of the calls in progress lie above it,
one below the other, and can be read (`Progress`). Without the last, leaving a stack
could mark an address that its owner returns by. `WatchInv` adds the shadow call
stack: it ends in the newest calls of the stack in use, in their order, and what is
before them is of another stack (`Watch`); with no stack tracked, everything
recorded was recorded since (`Apart`); a command stays below the stub it returns to
(`InCommand`). `ReturnsAreJudged` assumes that `Discards` is FALSE, as in the run:
code that drops return addresses is accused wrongly (section 6). `retain` is
written as a prefix, which it is, since slots never rise towards the newest entry (part
of `Watch`).

`SignalsProofs`, of `BsdSockets`: `EventsNeverLost`, `DescriptorsNeverStolen`. The invariant: the
flags of an entry say in what stage its host socket is (`Flags`), from which an
event that is detected is a true one; all descriptors are below `next_id` (`Below`),
from which a new one is new; and, counted round from a descriptor that waits, those
returned since it waits lie before the cursor (`Turns`), from which the next one in
turn is none of them. Assumptions: `NoWrap`, the last integer is not reached as a
descriptor, without which both claims are false, and no listen or connect on a
socket with two descriptors, without which the first is (section 6); the second
takes it over with the invariant.

Only model-checked: liveness (`LoopsEnd`), because ENABLED is out of the prover's
reach; all of `Loader`, so that of `ProgramsSound` only the half about `DosSegs` is
proved; `DosPatterns` and `DosArgs`, which are recursive operators.

## 6. Differences from what the code says of itself

With a run each:

- `lostwakeup`: while a task's `tc_Switch` runs, the task is held as blocked but
  still named as current, so a signal to it sets its bit and wakes nobody. A
  deadlock is reported though the task could go on.
- `redzone`: `clear_stack_region` clears from base to top inclusive, and the byte at
  the top of a stack from AllocMem is the first of its redzone. Leaving that stack
  by StackSwap makes it valid.
- `callbacks`: the continuation stack is one for all tasks, and the stub pops what was
  pushed last. A task that is switched away from in a callback and another that calls
  back meanwhile resume each other's continuation, although the doc of `dispatch.rs` says a
  continuation runs "when its paired guest subroutine's rts traps back".
- `stalelink`: a node is displaced, or fails after it was registered; its hunks' addresses
  stay in `payload_addrs`. A node that is loaded then and names such a hunk, which the doc of
  `load_overlay_node` says is refused, is linked to freed memory, and the program
  writes or jumps there.

Without a run. Tasks, timers, semaphores:

- WaitIO completes a request, which links it on its reply port, and
  leaves it there. A program that then sends it again has it linked twice.
- Signal to the incoming task during a `tc_Switch` is refused as unknown; the run
  `signals` therefore has no `tc_Switch`.
- SetTaskPri and the yield can switch to a task of lower priority.
- Obtaining a semaphore that another task holds ends the program; the
  doc of `execsem.rs` says there is only one task.
- A task that never obtained a shared semaphore can release it.
- WaitPort on an empty port ends the run, though another task that is ready could
  send the message; PutMsg raises no signal. The doc of `execlist.rs` says there is
  one task.

Memory:

- After `reserve_range` of two bytes an allocation can be at an address that is no
  multiple of 4, although the doc of `guestmem.rs` says all are.
- A CopyMem past the end of its destination makes the redzone valid and records
  nothing.
- CopyMem of overlapping ranges moves values as `memmove` does, but the shadow
  byte by byte upwards.
- `largest_free` does not subtract the redzones, so a request for what AvailMem
  answered can fail.
- `alloc(0)` without redzones shares its address with the next block. AllocVec of
  more than 2^32 - 16 bytes asks for such a block in a release build.
- The rounding of AllocVec is not poisoned.
- Code that discards a return address and then returns by a computed jump is
  accused, although the doc says that push and rts are left alone.

Libraries and patches:

- With `--libs-dir` every OpenLibrary of a library found there loads another copy.
- The init of a library may open the same file under another name: two copies are
  built, and one of them loses its entry in the registry (`LostOnlyToACopy` allows
  just that). An `rt_Init` that returns NULL may be given the other copy's base.
- A library whose Close frees its own base ends the run, because `finish_close`
  frees it again (with `OwnExpunge` not empty `LibrariesKept` is violated).
- A library that was added by its own `rt_Init` and agrees to go before that returns is
  unlinked and freed, and after_init, which finds it on no list, links and registers it
  again (with `EarlyEnd` TRUE `LibrariesKept` is violated).
- The stub pool has room for 85 patches; its doc says 64.
- SumLibrary of a library without `LIBF_SUMUSED` raises an alert with nothing wrong.
- A drain reads `is_Code` again when it takes a node, not when it was queued.
- A made-up library's entries are two bytes apart, so a JMP written by a program
  covers three of them.

Files, segments, packets:

- Close and FreeDosObject leave what was pushed back on a handle under its address;
  the next file opened there starts with that byte. `Tidy` keeps it out.
- FRead passes over a byte that was pushed back, and the next FGetC returns it.
- Input() can still be a handle that was closed. Open in MODE_NEWFILE truncates the
  file before it knows whether a handle can be had. ACTION_END on a FileHandle that
  the program allocated itself closes it without freeing.
- LoadSeg of an overlay program that runs out of memory leaves its file open.
- LoadSeg relocates a displacement (HUNK_RELRELOC32) as an address, although its comment
  says "exactly matching crate::loader::load's own semantics". `Misplaced` keeps it out.
- With both flag bits in a size table, the longword of attributes is read as the
  next size, though the doc of `HUNK_SIZE_FLAGS_MASK` says it follows there, too.
- `parse_overlay_node` does not read the HUNK_BREAK that its doc says it consumes.
- `handle_fs_packet` answers an unknown action with DOSFALSE; its doc says -1.

Locks, paths, patterns:

- A name without colon or slash is looked for in the current directory
  with a slash after it. In the root of a volume, "SYS:", that is "SYS:/", its
  parent, which does not exist; GetDeviceProc and MatchFirst fail.
- MatchFirst and MatchNext lock a directory and then allocate the AChain or fill
  `ap_Buf`. If that fails the lock is on no level, and MatchEnd
  does not release it (`alloc_achain`, `write_match_result`; with `BufferShort`
  TRUE `ScansOwnLocks` is violated).
- A relative pattern with a directory part, `1/#?` say, is resolved against the
  current directory at each descent: CurrentDir between two calls makes the
  descent fail or go elsewhere.
- An assign to a path through itself (AssignLock of a lock on `WORK:1` to `WORK`)
  makes a loop, and every later use of the name fails.
- A lock on an assign whose directory was deleted is granted.
- ExAll's key is an index: entries created or deleted between two calls make it
  skip or repeat others, so `ScansComplete` asks of it only for a directory that
  stays.
- AChains are never freed.
- ParentDir of the lock on an assign is 0, though its directory has a parent.
- The doc of `dosdevproc.rs` says an assign has a single directory; `vfs.rs` has
  multi-directory ones.
- A pattern of exactly 4096 bytes, or whose tokens exceed 4095, is accepted by
  ParsePattern and then matches nothing.

Arguments:

- A word without a keyword goes to the next slot even if a keyword has filled it:
  with FROM,TO the line `FROM a b` makes FROM `b` and leaves TO empty. The doc of
  `dosargs.rs` says the next unfilled slot.
- An unmatched quote in the value of a keyword is taken for a value, though the doc of
  ERROR_UNMATCHED_QUOTES says it is an error; and so is `FROM==`. These lines and
  those of the first item are what `Misread` leaves unjudged.
- A switch with /A behind a /M takes a word of the /M and loses it
  (`SwitchesAssumption`). Two slots with /A behind a /M take its last words in
  reverse order.
- ReadArgs stops before the newline and the semicolon and does not take them, so
  the next call reads an empty line until an FGetC has taken it.
- An RDArgs of the program that is passed again before FreeArgs loses the blocks
  of the first result.

Sockets:

- Dup2Socket onto 2147483647 makes the next descriptor 1, and later ones replace
  those that are open.
- Descriptors are never used again, so they pass getdtablesize, and from 256 on
  WaitSelect does not see them.
- listen or connect on one of two duplicates leaves the flags of the other.
- WaitSelect with the signal pending returns 0, where its doc says -1 and EINTR.
- A socket that is armed and was never connected makes WaitSelect return at once.
- Dup2Socket of a descriptor onto itself drops its mask and its events.
- A WaitSelect that blocks stops all tasks.

## 7. Not modelled

- The semantics of 68k instructions: an external core. The models let the guest
  make any next call.
- Formatting, dates, faults and strings: pure functions, whose risk is in layout
  and wording.
- DOS lists (`dosdevlist.rs`): LockDosList builds its list anew and UnLockDosList
  frees it, and nothing changes it in between. Variables (`dosvar.rs`), notes,
  protection, dates and notification: a call changes one entry or one host file,
  and keeps nothing.
- Devices and resources, besides `timer.device`; the tables that MakeFunctions and
  InitStruct write.
- Of files: the bytes, console handles, OpenFromLock, links, the fields of the
  FileHandle structure. System and Execute run another program outside.
- Of sockets: addresses, data, errno, names and services, the descriptor sets of
  WaitSelect.
- Graphics, intuition, locale, utility and the math libraries: fixed answers.
- The command line, the debug traps, the library vector tables.
- Of the modelled modules, besides what section 3 says: the shadow map's exemptions
  for `CLR` and `MOVEM`, the violation log's limits, the instruction cache,
  AvailMem and TypeOfMem, which only read.
