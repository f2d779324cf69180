------------------------------ MODULE DosFiles ------------------------------
(***************************************************************************)
(* File handles of dos.library (dosfile.rs), the buffered calls on them    *)
(* (dosbuf.rs), file handles as DOS objects driven by packets (dospkt.rs), *)
(* and the command line that RunCommand puts before Input() (dosseg.rs).   *)
(*                                                                         *)
(* All bytes are one Byte: what matters is where the next one is taken     *)
(* from.  What a write puts in a file is left out; how long the file gets  *)
(* is not.                                                                 *)
(*                                                                         *)
(* The guest frees a DOS object it allocated, and once.  A tidy guest also *)
(* reads back what it pushed back before it closes a handle, and calls     *)
(* UnGetC(fh, -1) only after an FGetC.                                     *)
(***************************************************************************)
EXTENDS Integers, FiniteSets, Sequences

CONSTANTS
  Addrs,     \* the heap blocks a FileHandle can be in
  Files,     \* host files
  Protected, \* those the host does not let write
  NULL,      \* no address, no file, no byte
  EOF,       \* ENDSTREAMCH
  Byte,      \* any byte
  stdin, stdout, \* the addresses of the default handles
  Tidy,      \* every guest is tidy
  MaxLen,    \* bound: length of a file
  MaxArgs,   \* bound: length of a command line
  MaxNest    \* bound: commands running inside one another

ASSUME AddrAssumption == stdin \in Addrs /\ stdout \in Addrs /\ stdin # stdout
ASSUME NullAssumption == NULL \notin Addrs \union Files /\ NULL \notin Nat
ASSUME ByteAssumption == EOF # NULL /\ Byte \notin {NULL, EOF}
ASSUME FileAssumption == Protected \subseteq Files
ASSUME TidyAssumption == Tidy \in BOOLEAN
ASSUME BoundAssumption == MaxLen \in Nat /\ MaxArgs \in Nat /\ MaxNest \in Nat

VARIABLES
  disk,           \* the length of every host file, NULL if there is none
  handles,        \* DosState.handles: the HostHandle at each address
  blocks,         \* the live heap blocks with a FileHandle
  objects,        \* dos_object_filehandles
  current_input,
  ungetc_buf,     \* the byte pushed back on the handle at an address
  last_getc,      \* what FGetC last returned for it
  input_buf, input_pos, \* the command line in the buffer of Input()
  frames,         \* the buffers that running RunCommands saved
  failed,         \* FreeDosObject ended the run
  own,            \* history: the byte pushed back since the handle is open
  taken,          \* history: bytes taken of each command line
  short           \* history: handles whose file another one made shorter

vars == <<disk, handles, blocks, objects, current_input, ungetc_buf, last_getc,
          input_buf, input_pos, frames, failed, own, taken, short>>
hostVars == <<disk, handles, blocks, objects, short>>
pushVars == <<ungetc_buf, last_getc, own>>
lineVars == <<input_buf, input_pos, frames, taken>>

None == [kind |-> "none", file |-> NULL, pos |-> 0]
Kind(k) == [kind |-> k, file |-> NULL, pos |-> 0]
HostFile(f) == [kind |-> "file", file |-> f, pos |-> 0]
Open == {a \in Addrs : handles[a] # None}
Least(s) == CHOOSE i \in s : \A j \in s : i <= j

\* The command running now: 0 is the program itself.
Level == Len(frames)

Init ==
  /\ disk \in [Files -> {NULL} \union 0 .. MaxLen]
  /\ handles = [a \in Addrs |-> IF a = stdin THEN Kind("stdin")
                                ELSE IF a = stdout THEN Kind("stdout") ELSE None]
  /\ blocks = {stdin, stdout}
  /\ objects = {}
  /\ current_input = stdin
  /\ ungetc_buf = [a \in Addrs |-> NULL]
  /\ last_getc = [a \in Addrs |-> NULL]
  /\ input_buf = MaxArgs /\ input_pos = 0
  /\ frames = <<>>
  /\ failed = FALSE
  /\ own = [a \in Addrs |-> NULL]
  /\ taken = <<0>>
  /\ short = {}

-----------------------------------------------------------------------------
(* Opening and closing. *)

\* open_host_file_for_mode: the file is there, or made, or emptied, before
\* a FileHandle is allocated, and stays so when none can be.
Opened(f, mode) ==
  CASE mode = "old"       -> disk[f]
    [] mode = "new"       -> IF f \in Protected /\ disk[f] # NULL THEN NULL ELSE 0
    [] mode = "readwrite" -> IF disk[f] = NULL THEN 0
                             ELSE IF f \in Protected THEN NULL ELSE disk[f]

Sharing(f) == {a \in Addrs : handles[a].file = f}

\* File f gets length n by a call on handle a; the other handles on it that
\* point past its end stay there.
Resized(f, n, h, a) ==
  /\ disk' = [disk EXCEPT ![f] = n]
  /\ handles' = h
  /\ short' = (short \ {a}) \union {b \in Sharing(f) \ {a} : handles[b].pos > n}

alloc_file_handle(a) == a \notin blocks /\ blocks' = blocks \union {a}

open(f, mode) ==
  /\ Opened(f, mode) # NULL
  /\ \/ \E a \in Addrs :
          /\ alloc_file_handle(a)
          /\ Resized(f, Opened(f, mode), [handles EXCEPT ![a] = HostFile(f)], a)
          /\ own' = [own EXCEPT ![a] = NULL]
     \/ /\ blocks = Addrs
        /\ Resized(f, Opened(f, mode), handles, NULL)
        /\ UNCHANGED <<blocks, own>>
  /\ UNCHANGED <<objects, ungetc_buf, last_getc, failed, current_input, lineVars>>

open_nil ==
  /\ \E a \in Addrs :
       /\ alloc_file_handle(a)
       /\ handles' = [handles EXCEPT ![a] = Kind("nil")]
       /\ own' = [own EXCEPT ![a] = NULL]
       /\ short' = short \ {a}
  /\ UNCHANGED <<disk, objects, ungetc_buf, last_getc, failed, current_input, lineVars>>

\* ACTION_FINDINPUT, FINDOUTPUT, FINDUPDATE: the guest brings the handle.
open_into_handle(a, f, mode) ==
  /\ a \in objects /\ handles[a] = None
  /\ Opened(f, mode) # NULL
  /\ Resized(f, Opened(f, mode), [handles EXCEPT ![a] = HostFile(f)], a)
  /\ own' = [own EXCEPT ![a] = NULL]
  /\ UNCHANGED <<blocks, objects, ungetc_buf, last_getc, failed, current_input, lineVars>>

\* Mutant: the block of a DOS object goes with the handle.
bug_FreedBlocks(a) == blocks \ {a}
FreedBlocks(a) == IF a \in objects THEN blocks ELSE blocks \ {a}

\* Close and ACTION_END.  The default handles stay.
close(a) ==
  /\ a \in Open
  /\ Tidy => ungetc_buf[a] = NULL
  /\ IF a \in {stdin, stdout}
       THEN UNCHANGED <<handles, blocks, own, short>>
       ELSE /\ handles' = [handles EXCEPT ![a] = None]
            /\ own' = [own EXCEPT ![a] = NULL]
            /\ blocks' = FreedBlocks(a)
            /\ short' = short \ {a}
  /\ UNCHANGED <<disk, objects, ungetc_buf, last_getc, failed, current_input, lineVars>>

alloc_dos_object_handler ==
  /\ \E a \in Addrs : alloc_file_handle(a) /\ objects' = objects \union {a}
  /\ UNCHANGED <<disk, handles, short, failed, pushVars, current_input, lineVars>>

free_dos_object_handler(a) ==
  /\ a \in objects
  /\ Tidy => ungetc_buf[a] = NULL
  /\ objects' = objects \ {a}
  /\ handles' = [handles EXCEPT ![a] = None]
  /\ own' = [own EXCEPT ![a] = NULL]
  /\ short' = short \ {a}
  /\ IF a \in blocks THEN blocks' = blocks \ {a} /\ UNCHANGED failed
                     ELSE failed' = TRUE /\ UNCHANGED blocks
  /\ UNCHANGED <<disk, ungetc_buf, last_getc, current_input, lineVars>>

-----------------------------------------------------------------------------
(* Reading, writing, seeking. *)

Moved(a, n) == [handles EXCEPT ![a].pos = n]

\* Read takes up to n bytes from the host; what it got is not looked at.
read(a, n) ==
  /\ handles[a].kind = "file"
  /\ LET p == handles[a].pos
         left == IF disk[handles[a].file] > p THEN disk[handles[a].file] - p ELSE 0
     IN handles' = Moved(a, p + Least({n, left}))
  /\ UNCHANGED <<disk, blocks, objects, short, failed, pushVars, current_input, lineVars>>

\* Write of n bytes, and all the buffered writes: a position past the end
\* makes the gap part of the file.
write(a, n) ==
  /\ handles[a].kind = "file" /\ handles[a].file \notin Protected
  /\ n > 0 /\ handles[a].pos + n <= MaxLen
  /\ LET f == handles[a].file
         end == handles[a].pos + n
     IN /\ handles' = Moved(a, end)
        /\ disk' = [disk EXCEPT ![f] = IF end > @ THEN end ELSE @]
        /\ short' = {b \in short \ {a} : handles[b].file = f => handles[b].pos > disk'[f]}
  /\ UNCHANGED <<blocks, objects, failed, pushVars, current_input, lineVars>>

\* Mutant: a seek to anywhere is allowed.
bug_InFile(t, len) == t >= 0
InFile(t, len) == 0 <= t /\ t <= len

seek(a, t) ==
  /\ handles[a].kind = "file"
  /\ InFile(t, disk[handles[a].file])
  /\ handles' = Moved(a, t)
  /\ short' = short \ {a}
  /\ UNCHANGED <<disk, blocks, objects, failed, pushVars, current_input, lineVars>>

set_file_size(a, t) ==
  /\ handles[a].kind = "file" /\ handles[a].file \notin Protected
  /\ 0 <= t /\ t <= MaxLen
  /\ Resized(handles[a].file, t, Moved(a, Least({handles[a].pos, t})), a)
  /\ UNCHANGED <<blocks, objects, failed, pushVars, current_input, lineVars>>

-----------------------------------------------------------------------------
(* Buffered reading. *)

FromLine(a) == current_input = a /\ input_pos < input_buf

InHostFile(a) == handles[a].kind = "file" /\ handles[a].pos < disk[handles[a].file]

\* What read_buffered_byte returns, and what it moves.
NextByte(a) == IF FromLine(a) \/ InHostFile(a) THEN Byte ELSE EOF

read_buffered_byte(a) ==
  IF FromLine(a)
    THEN /\ input_pos' = input_pos + 1
         /\ taken' = [taken EXCEPT ![Level + 1] = @ + 1]
         /\ UNCHANGED handles
    ELSE /\ handles' = IF InHostFile(a) THEN Moved(a, handles[a].pos + 1) ELSE handles
         /\ UNCHANGED <<input_pos, taken>>

fgetc(a) ==
  /\ IF ungetc_buf[a] # NULL
       THEN /\ last_getc' = [last_getc EXCEPT ![a] = ungetc_buf[a]]
            /\ ungetc_buf' = [ungetc_buf EXCEPT ![a] = NULL]
            /\ UNCHANGED <<handles, input_pos, taken>>
       ELSE /\ last_getc' = [last_getc EXCEPT ![a] = NextByte(a)]
            /\ read_buffered_byte(a)
            /\ UNCHANGED ungetc_buf
  /\ own' = [own EXCEPT ![a] = NULL]

\* FGetC, and FGets, which is a sequence of them.
fgetc_handler(a) ==
  /\ a \in Open \ {stdout}
  /\ fgetc(a)
  /\ UNCHANGED <<disk, blocks, objects, short, failed, current_input, input_buf, frames>>

\* One byte of an FRead, which passes over a push-back.
fread_handler(a) ==
  /\ a \in Open \ {stdout}
  /\ read_buffered_byte(a)
  /\ UNCHANGED <<disk, blocks, objects, short, failed, pushVars, current_input, input_buf, frames>>

Pushed(a, ch) == IF ch # EOF THEN ch ELSE IF last_getc[a] = NULL THEN EOF ELSE last_getc[a]

\* Mutant: a second push-back replaces the first.
bug_PushedBuf(a, c) == [ungetc_buf EXCEPT ![a] = c]
PushedBuf(a, c) == IF ungetc_buf[a] # NULL THEN ungetc_buf ELSE [ungetc_buf EXCEPT ![a] = c]

ungetc_handler(a, ch) ==
  /\ a \in Open \ {stdout}
  /\ Tidy /\ ch = EOF => last_getc[a] # NULL
  /\ ungetc_buf' = PushedBuf(a, Pushed(a, ch))
  /\ own' = IF own[a] # NULL THEN own ELSE [own EXCEPT ![a] = Pushed(a, ch)]
  /\ UNCHANGED <<last_getc, hostVars, failed, current_input, lineVars>>

-----------------------------------------------------------------------------
(* Input() and commands.  Output() only says which handle a call writes to. *)

select_input(a) ==
  /\ a \in Open
  /\ current_input' = a
  /\ UNCHANGED <<hostVars, failed, pushVars, lineVars>>

\* ReadArgs takes its line, or the part of it before an error.
read_args(n) ==
  /\ n > 0 /\ input_pos + n <= input_buf
  /\ input_pos' = input_pos + n
  /\ taken' = [taken EXCEPT ![Level + 1] = @ + n]
  /\ UNCHANGED <<input_buf, frames, hostVars, failed, pushVars, current_input>>

run_command_handler(n) ==
  /\ Level < MaxNest
  /\ frames' = Append(frames, [buf |-> input_buf, pos |-> input_pos])
  /\ input_buf' = n /\ input_pos' = 0
  /\ taken' = Append(taken, 0)
  /\ UNCHANGED <<hostVars, failed, pushVars, current_input>>

\* Mutant: the position in the caller's line is not restored.
bug_Saved == [frames[Level] EXCEPT !.pos = 0]
Saved == frames[Level]

\* The continuation of RunCommand.
CommandReturns ==
  /\ Level > 0
  /\ input_buf' = Saved.buf /\ input_pos' = Saved.pos
  /\ frames' = SubSeq(frames, 1, Level - 1)
  /\ taken' = SubSeq(taken, 1, Level)
  /\ UNCHANGED <<hostVars, failed, pushVars, current_input>>

Modes == {"old", "new", "readwrite"}

Handles ==
  \/ \E f \in Files, mode \in Modes : open(f, mode)
  \/ open_nil
  \/ \E a \in Addrs, f \in Files, mode \in Modes : open_into_handle(a, f, mode)
  \/ alloc_dos_object_handler
  \/ \E a \in Addrs : close(a) \/ free_dos_object_handler(a)

Positions ==
  \/ \E a \in Addrs, n \in 0 .. MaxLen : read(a, n) \/ write(a, n)
  \/ \E a \in Addrs, t \in -1 .. MaxLen + 1 : seek(a, t) \/ set_file_size(a, t)

Buffered ==
  \/ \E a \in Addrs : fgetc_handler(a) \/ fread_handler(a)
  \/ \E a \in Addrs, ch \in {Byte, EOF} : ungetc_handler(a, ch)
  \/ \E a \in Addrs : select_input(a)
  \/ \E n \in 0 .. MaxArgs : read_args(n) \/ run_command_handler(n)
  \/ CommandReturns

Next == ~failed /\ (Handles \/ Positions \/ Buffered)

Spec == Init /\ [][Next]_vars

-----------------------------------------------------------------------------
(* Properties. *)

(* Every block with a FileHandle is that of an open handle or of a DOS      *)
(* object the guest still has, whichever of Close, ACTION_END and           *)
(* FreeDosObject ends it and in whatever order; no block is freed twice,    *)
(* and Input() and Output() of the host are never closed (close,            *)
(* free_dos_object_handler).                                                *)
HandlesOwned ==
  /\ blocks = Open \union objects
  /\ ~failed
  /\ handles[stdin].kind = "stdin" /\ handles[stdout].kind = "stdout"

(* A handle points past the end of its file only after another handle on    *)
(* the same file made it shorter (seek, set_file_size, read).               *)
PosInFile ==
  \A a \in Addrs : handles[a].kind = "file" /\ a \notin short =>
    disk[handles[a].file] # NULL /\ handles[a].pos <= disk[handles[a].file]

(* What FGetC takes before the file is the handle's own: the byte pushed    *)
(* back on it since it is open, and of the command lines the one of the     *)
(* program running now, from where that program left off, however many      *)
(* commands it ran since (fgetc, ungetc_handler, run_command_handler).      *)
NextByteOwn ==
  /\ \A a \in Open : ungetc_buf[a] = own[a]
  /\ input_pos = taken[Level + 1]
  /\ Len(taken) = Level + 1
=============================================================================
