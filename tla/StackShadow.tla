---------------------------- MODULE StackShadow -----------------------------
(***************************************************************************)
(* The stack half of the sanitizer (sanitize.rs): the poison below the     *)
(* stack pointer and the shadow call stack, with everything that moves the *)
(* stack pointer: calls and returns of the guest, library calls,           *)
(* StackSwap, RunCommand, task switches, a jump out of several calls, and  *)
(* code that takes another stack by hand, as an exception does.            *)
(*                                                                         *)
(* There are two stacks.  A return address takes one byte, not four; what  *)
(* is popped is not read again.                                            *)
(***************************************************************************)
EXTENDS Integers, FiniteSets, SequencesExt

CONSTANTS
  Stacks, base, top, \* each stack takes the bytes from base to top - 1
  Sites,             \* return addresses
  MAX_CALL_STACK_DEPTH,
  BELOW_SP_GRACE_BYTES,
  Discards,          \* code may pop a return address, and go on without it
  JUNK, ABSENT

Extent(s) == base[s] .. top[s]
StackBytes == UNION {Extent(s) : s \in Stacks}

ASSUME StacksAssumption ==
  /\ \E s, t \in Stacks : s # t /\ Stacks = {s, t}
  /\ base \in [Stacks -> Nat] /\ top \in [Stacks -> Nat]
  /\ \A s \in Stacks : base[s] + 2 <= top[s]
  /\ \A s, t \in Stacks : s # t => Extent(s) \intersect Extent(t) = {}
ASSUME LimitsAssumption == MAX_CALL_STACK_DEPTH \in Nat \ {0} /\ BELOW_SP_GRACE_BYTES \in Nat \ {0}
ASSUME AbsentAssumption == ABSENT \notin Stacks \union Nat \union Sites /\ JUNK \notin Sites

VARIABLES
  how,       \* what takes the program to its other stack
  cur, sp,   \* the stack in use, and the stack pointer
  away,      \* the stack pointer kept for the other stack, ABSENT if it has none
  mem,       \* what the stacks hold
  bytes,     \* ShadowMap.bytes
  tracked, last, \* the StackRegion: which stack, and its sp
  call_stack,
  frames,    \* history: the calls in progress on each stack
  scribbled, \* history: dead bytes written since they died
  verdict    \* history: of the last return

stackVars == <<how, cur, sp, away, mem, bytes, tracked, last, call_stack, frames, scribbled, verdict>>

Other(s) == CHOOSE t \in Stacks : t # s

-----------------------------------------------------------------------------
(* The shadow map: each operator is the map that a call leaves. *)

Painted(sh, from, to, state) == [a \in StackBytes |-> IF a \in from .. to - 1 THEN state ELSE sh[a]]

\* Mutant: the poison is left behind.
bug_clear_stack_region(sh, s) == sh

\* The byte at the top goes with the region.
clear_stack_region(sh, s) == Painted(sh, base[s], top[s] + 1, "valid")
poison_below_sp(sh, s, p) == Painted(sh, base[s], p, "below")
promote(sh, from, to) == [a \in StackBytes |-> IF a \in from .. to - 1 /\ sh[a] \in {"below", "redzone"}
                                          THEN "uninit" ELSE sh[a]]

Within(s, p) == p \in Extent(s)
InGrace(a) == last # ABSENT /\ a < last /\ last - a <= BELOW_SP_GRACE_BYTES

\* A byte is written: what is unwritten, or just below the stack pointer, is
\* from then on valid.
check_write(sh, a) ==
  IF sh[a] = "uninit" \/ (sh[a] = "below" /\ InGrace(a)) THEN [sh EXCEPT ![a] = "valid"] ELSE sh

\* The stack pointer is p after an instruction that left the map sh and the
\* calls cs.
update_stack_pointer(sh, cs, p) ==
  /\ tracked' = tracked
  /\ \/ /\ last = p
        /\ bytes' = sh /\ call_stack' = cs /\ last' = last
     \/ /\ last # ABSENT /\ last # p /\ ~ Within(tracked, p)
        /\ bytes' = clear_stack_region(sh, tracked) /\ call_stack' = <<>> /\ last' = ABSENT
     \/ /\ last # ABSENT /\ last # p /\ Within(tracked, p)
        /\ bytes' = IF p < last THEN promote(sh, p, last) ELSE Painted(sh, last, p, "below")
        /\ call_stack' = cs /\ last' = p
     \/ /\ last = ABSENT
        /\ IF Within(tracked, p)
           THEN bytes' = poison_below_sp(sh, tracked, p) /\ last' = p
           ELSE bytes' = sh /\ last' = ABSENT
        /\ call_stack' = cs

\* s is tracked instead, from p on.
reset_stack_tracking(sh, s, p) ==
  /\ bytes' = poison_below_sp(clear_stack_region(sh, tracked), s, p)
  /\ call_stack' = <<>>
  /\ tracked' = s
  /\ last' = p

-----------------------------------------------------------------------------
(* The shadow call stack. *)

\* What retain keeps: slots never rise from the oldest call to the newest, so it
\* is a prefix.
AtOrAbove(cs, p) == SubSeq(cs, 1, SelectLastInSeq(cs, LAMBDA f : f.slot_sp >= p))
Newest(s, n) == SubSeq(s, Len(s) - n + 1, Len(s))

record_call(cs, p, r) ==
  LET kept == Append(AtOrAbove(cs, p), [slot_sp |-> p, return_addr |-> r])
  IN IF Len(kept) > MAX_CALL_STACK_DEPTH THEN Tail(kept) ELSE kept

\* A return through p.
Matches(cs, p) == cs # <<>> /\ cs[Len(cs)].slot_sp = p
check_return(cs, p) ==
  LET kept == AtOrAbove(cs, p)
  IN IF Matches(kept, p) THEN SubSeq(kept, 1, Len(kept) - 1) ELSE kept
Accuses(cs, p, actual) ==
  LET kept == AtOrAbove(cs, p)
  IN Matches(kept, p) /\ Len(kept) = Len(cs) /\ kept[Len(kept)].return_addr # actual

-----------------------------------------------------------------------------
(* History. *)

Innermost(s) == frames[s][Len(frames[s])]
Returning == frames[cur] # <<>> /\ Innermost(cur).slot = sp

\* A call is watched as long as it is one of the last few, and no other stack
\* was taken since.
Unwatched(fr) == [s \in Stacks |-> [i \in DOMAIN fr[s] |-> [fr[s][i] EXCEPT !.watched = FALSE]]]
Called(p, r) ==
  LET all == Append(frames[cur], [slot |-> p, to |-> r, watched |-> TRUE])
  IN [i \in DOMAIN all |-> [all[i] EXCEPT
        !.watched = @ /\ Cardinality({j \in DOMAIN all : j > i /\ all[j].watched}) < MAX_CALL_STACK_DEPTH]]
Outside(p) == SubSeq(frames[cur], 1, SelectLastInSeq(frames[cur], LAMBDA f : f.slot > p))

Judged(accused, wrong, watched) == [accused |-> accused, wrong |-> wrong, watched |-> watched]
NoReturn == Judged(FALSE, FALSE, FALSE)

-----------------------------------------------------------------------------
(* The guest. *)

\* A byte is pushed: the store, then the hook after the instruction.
Stored(v) ==
  /\ sp > base[cur]
  /\ sp' = sp - 1
  /\ mem' = [mem EXCEPT ![sp - 1] = v]
  /\ scribbled' = scribbled \ {sp - 1}
  /\ UNCHANGED <<how, cur, away>>

Jsr ==
  \E r \in Sites :
    /\ Stored(r)
    /\ update_stack_pointer(check_write(bytes, sp - 1), record_call(call_stack, sp - 1, r), sp - 1)
    /\ frames' = [frames EXCEPT ![cur] = Called(sp - 1, r)]
    /\ verdict' = NoReturn

Push ==
  \E v \in Sites :
    /\ Stored(v)
    /\ update_stack_pointer(check_write(bytes, sp - 1), call_stack, sp - 1)
    /\ verdict' = NoReturn
    /\ UNCHANGED frames

Reserve ==
  /\ sp > base[cur]
  /\ sp' = sp - 1
  /\ update_stack_pointer(bytes, call_stack, sp - 1)
  /\ verdict' = NoReturn
  /\ scribbled' = scribbled \ {sp - 1}
  /\ UNCHANGED <<how, cur, away, mem, frames>>

\* The stack pointer rises to p, the calls below it are over.
Rises(p) ==
  /\ sp' = p
  /\ mem' = [a \in StackBytes |-> IF a \in sp .. p - 1 THEN JUNK ELSE mem[a]]
  /\ frames' = [frames EXCEPT ![cur] = Outside(p - 1)]
  /\ UNCHANGED <<how, cur, away, scribbled>>

Pop ==
  /\ sp < top[cur]
  /\ mem[sp] # ABSENT
  /\ Returning => Discards
  /\ Rises(sp + 1)
  /\ update_stack_pointer(bytes, call_stack, sp + 1)
  /\ verdict' = NoReturn

\* Through a call's return address, or one that was pushed.
Rts ==
  /\ sp < top[cur]
  /\ mem[sp] \in Sites
  /\ Rises(sp + 1)
  /\ update_stack_pointer(bytes, check_return(call_stack, sp), sp + 1)
  /\ verdict' = Judged(Accuses(call_stack, sp, mem[sp]),
                       Returning /\ Innermost(cur).to # mem[sp],
                       Returning /\ Innermost(cur).watched)

\* longjmp, called like a function: it restores setjmp's stack pointer p,
\* writes the return address of setjmp there and returns through it.
Longjmp ==
  \E p \in sp + 1 .. top[cur] - 1, r \in Sites :
    /\ Returning
    /\ mem[p] # ABSENT
    /\ Rises(p + 1)
    /\ update_stack_pointer(bytes, check_return(call_stack, p), p + 1)
    /\ verdict' = Judged(Accuses(call_stack, p, r), FALSE, FALSE)

\* The guest writes a live byte, which may hold a return address.
Write ==
  \E a \in sp .. top[cur] - 1, v \in Sites :
    /\ mem[a] \notin {v, ABSENT}
    /\ mem' = [mem EXCEPT ![a] = v]
    /\ update_stack_pointer(check_write(bytes, a), call_stack, sp)
    /\ verdict' = NoReturn
    /\ UNCHANGED <<how, cur, sp, away, frames, scribbled>>

\* An instruction that leaves the stack alone.
OtherInstruction ==
  /\ update_stack_pointer(bytes, call_stack, sp)
  /\ verdict' = NoReturn
  /\ UNCHANGED <<how, cur, sp, away, mem, frames, scribbled>>

\* The guest writes a dead byte: a little below the stack pointer it is taken
\* for a push.
Scribble ==
  \E a \in base[cur] .. sp - 1 :
    /\ last = sp
    /\ bytes[a] = "below" /\ InGrace(a)
    /\ bytes' = check_write(bytes, a)
    /\ scribbled' = scribbled \union {a}
    /\ verdict' = NoReturn
    /\ UNCHANGED <<how, cur, sp, away, mem, tracked, last, call_stack, frames>>

-----------------------------------------------------------------------------
(* Library calls.  The JSR is an instruction like any other; the handler's *)
(* return is seen by the dispatcher, which moves the stack pointer without *)
(* publishing it. *)

\* Mutant: the dispatcher does not tell the shadow call stack of its return.
bug_LibraryCall ==
  \E r \in Sites :
    /\ sp > base[cur]
    /\ update_stack_pointer(check_write(bytes, sp - 1), record_call(call_stack, sp - 1, r), sp - 1)
    /\ verdict' = NoReturn
    /\ scribbled' = scribbled \ {sp - 1}
    /\ frames' = [frames EXCEPT ![cur] = SubSeq(Called(sp - 1, r), 1, Len(@))]
    /\ UNCHANGED <<how, cur, sp, away, mem>>

LibraryCall ==
  \E r \in Sites :
    /\ sp > base[cur]
    /\ LET called == record_call(call_stack, sp - 1, r)
       IN update_stack_pointer(check_write(bytes, sp - 1), check_return(called, sp - 1), sp - 1)
    /\ verdict' = NoReturn
    /\ scribbled' = scribbled \ {sp - 1}
    /\ frames' = [frames EXCEPT ![cur] = SubSeq(Called(sp - 1, r), 1, Len(@))]
    /\ UNCHANGED <<how, cur, sp, away, mem>>

\* The other stack is taken with its pointer p, above what a handler pushed
\* there, and tracked.
Taken(s, p, pushed, sh) ==
  /\ cur' = s
  /\ sp' = p
  /\ away' = sp
  /\ reset_stack_tracking(sh, s, p - pushed)
  /\ frames' = Unwatched(frames)
  /\ scribbled' = {}
  /\ verdict' = NoReturn
  /\ UNCHANGED how

StackSwap ==
  /\ how = "StackSwap"
  /\ sp > base[cur] /\ away > base[Other(cur)]
  /\ Taken(Other(cur), away, 1, check_write(bytes, away - 1))
  /\ UNCHANGED mem

\* A new stack from the heap.  The stub to which the command returns is on top
\* of it; under that, for the return of the handler, its entry.
RunCommand ==
  LET new == Other(cur)
  IN /\ how = "RunCommand"
     /\ away = ABSENT
     /\ sp > base[cur]
     /\ Taken(new, top[new] - 1, 1, clear_stack_region(bytes, new))
     /\ mem' = [mem EXCEPT ![top[new] - 1] = ABSENT]

\* The command returns to the stub, and the continuation to the caller.
CommandReturns ==
  /\ how = "RunCommand"
  /\ away # ABSENT /\ away > base[Other(cur)]
  /\ sp = top[cur] - 1
  /\ cur' = Other(cur)
  /\ sp' = away
  /\ away' = ABSENT
  /\ reset_stack_tracking(bytes, cur', away - 1)
  /\ mem' = [a \in StackBytes |-> IF a \in Extent(cur) THEN JUNK ELSE mem[a]]
  /\ frames' = [Unwatched(frames) EXCEPT ![cur] = <<>>]
  /\ scribbled' = {}
  /\ verdict' = Judged(Accuses(call_stack, sp, ABSENT), FALSE, FALSE)
  /\ UNCHANGED how

\* The task waits, and another one runs.
SwitchTasks ==
  /\ how = "Wait"
  /\ sp > base[cur]
  /\ Taken(Other(cur), away, 0, bytes)
  /\ UNCHANGED mem

\* The guest, or an exception, loads the stack pointer with another stack.
MoveSP ==
  /\ how = "move"
  /\ cur' = Other(cur)
  /\ sp' = away
  /\ away' = sp
  /\ update_stack_pointer(bytes, call_stack, away)
  /\ frames' = IF last # ABSENT THEN Unwatched(frames) ELSE frames
  /\ scribbled' = {}
  /\ verdict' = NoReturn
  /\ UNCHANGED <<how, mem>>

-----------------------------------------------------------------------------

StackInit ==
  /\ how \in {"StackSwap", "RunCommand", "Wait", "move"}
  /\ cur \in Stacks
  /\ sp = top[cur]
  /\ away = IF how = "RunCommand" THEN ABSENT ELSE top[Other(cur)]
  /\ mem = [a \in StackBytes |-> JUNK]
  /\ bytes = [a \in StackBytes |-> IF a \in Extent(cur) THEN (IF a = sp THEN "valid" ELSE "below")
                               ELSE IF how \notin {"StackSwap", "move"} THEN "valid"
                               ELSE IF a = away THEN "redzone" ELSE "uninit"]
  /\ tracked = cur
  /\ last = sp
  /\ call_stack = <<>>
  /\ frames = [s \in Stacks |-> <<>>]
  /\ scribbled = {}
  /\ verdict = NoReturn

StackNext ==
  \/ Jsr \/ Push \/ Reserve \/ Pop \/ Rts \/ Longjmp \/ Write \/ Scribble \/ OtherInstruction
  \/ LibraryCall \/ StackSwap \/ RunCommand \/ CommandReturns \/ SwitchTasks \/ MoveSP

StackSpec == StackInit /\ [][StackNext]_stackVars

-----------------------------------------------------------------------------
(* Properties. *)

\* What is poisoned as below the stack pointer is the part of the stack in use
\* that is below it, but for the bytes taken for pushes, and nothing anywhere
\* else: no claim outlives a StackSwap, RunCommand or a switch (the code's
\* reset_stack_tracking and update_stack_pointer).  Return addresses can be
\* read.
BelowExact ==
  /\ IF last = ABSENT THEN cur # tracked ELSE cur = tracked /\ last \in {sp - 1, sp}
  /\ {a \in StackBytes : bytes[a] = "below"}
       = (IF last = ABSENT THEN {} ELSE base[cur] .. last - 1) \ scribbled
  /\ \A s \in Stacks : \A i \in DOMAIN frames[s] : bytes[frames[s][i].slot] = "valid"

\* A return is accused only if its address was overwritten since the call, and
\* is accused then, unless the call was made before another stack was taken or
\* MAX_CALL_STACK_DEPTH calls ago (check_return).
ReturnsJudged ==
  /\ verdict.accused => verdict.wrong
  /\ verdict.wrong /\ verdict.watched => verdict.accused

\* The doc of reset_stack_tracking: clearing the region "can never accidentally
\* un-poison something unrelated".
RedzonesStay == how = "StackSwap" => \E s \in Stacks : bytes[top[s]] = "redzone"
=============================================================================
