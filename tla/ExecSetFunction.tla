-------------------------- MODULE ExecSetFunction ---------------------------
(***************************************************************************)
(* SetFunction (execsetfunc.rs) and the checksum of a library's jump table *)
(* (AddLibrary, SumLibrary and refresh_lib_sum of execlib.rs).             *)
(*                                                                         *)
(* An entry of a built-in library is a trap word and padding, that of a    *)
(* library the guest made is a JMP.  The guest patches an entry with a     *)
(* hook of its own, keeps what it replaced, which the hook calls in its    *)
(* turn, and takes hooks away last in, first out.  It may also write a JMP *)
(* into its own library itself, and forget to say so.  A checksum is all   *)
(* the words it adds up: no two tables have the same one.                  *)
(***************************************************************************)
EXTENDS Integers, Sequences, FiniteSets

CONSTANTS
  Libs, Builtin, \* libraries, and those whose entries are traps
  Entries,       \* their jump table entries
  LibOf,         \* the library of an entry
  Hooks,         \* the guest's functions to patch with
  NONE,
  STUB_POOL_SIZE, STUB_SLOT_SIZE

ASSUME LibsAssumption == Builtin \subseteq Libs /\ LibOf \in [Entries -> Libs]
ASSUME PoolAssumption == STUB_POOL_SIZE \in Nat /\ STUB_SLOT_SIZE \in Nat \ {0}

VARIABLES
  entry,      \* the content of every entry
  stub,       \* the content of the slots of the stub pool handed out
  next_stub,  \* offset of the next slot
  exhausted,  \* SetFunction has failed, and ended the run
  lib_Flags, lib_Sum,
  alert,      \* the library the last call, a SumLibrary, raised an alert for
  hooked,     \* history: the hooks on an entry, oldest first
  old,        \* the function each hook replaced
  untold      \* history: tables written behind exec's back since their last sum

patchVars == <<entry, stub, next_stub, exhausted, lib_Flags, lib_Sum, alert, hooked, old, untold>>

Trap(e) == [op |-> "trap", to |-> e]
Jmp(f) == [op |-> "jmp", to |-> f]
Stub(s) == [op |-> "stub", to |-> s]
Hook(h) == [op |-> "hook", to |-> h]
Native(e) == [op |-> "native", to |-> e]
Nothing == [op |-> "none", to |-> NONE]

\* What lib_Sum adds up: the operands after the opcode words.
checksum(en, l) == [e \in {x \in Entries : LibOf[x] = l} |->
                     IF en[e].op = "jmp" THEN en[e].to ELSE Nothing]

PatchInit ==
  /\ entry = [e \in Entries |-> IF LibOf[e] \in Builtin THEN Trap(e) ELSE Jmp(Native(e))]
  /\ stub = <<>>
  /\ next_stub = 0
  /\ exhausted = FALSE
  /\ lib_Flags = [l \in Libs |-> {}]
  /\ lib_Sum = [l \in Libs |-> [e \in {x \in Entries : LibOf[x] = l} |-> Nothing]]
  /\ alert = NONE
  /\ hooked = [e \in Entries |-> <<>>]
  /\ old = [h \in Hooks |-> Nothing]
  /\ untold = {}

\* sum_library_impl, for a table en and flags: what the sum and the flags
\* become and whether it is an alert.  LIBF_SUMMING is set only meanwhile.
SumAfter(en, flags, l) == IF "CHANGED" \in flags THEN checksum(en, l) ELSE lib_Sum[l]
sum_library(en, flags, l) ==
  /\ lib_Sum' = [lib_Sum EXCEPT ![l] = SumAfter(en, flags, l)]
  /\ lib_Flags' = [lib_Flags EXCEPT ![l] = flags \ {"CHANGED"}]

bug_refresh_lib_sum(en, l) == sum_library(en, lib_Flags[l], l) /\ UNCHANGED untold
refresh_lib_sum(en, l) ==
  \/ /\ "SUMUSED" \in lib_Flags[l]
     /\ sum_library(en, lib_Flags[l] \union {"CHANGED"}, l)
     /\ untold' = untold \ {l}
  \/ /\ "SUMUSED" \notin lib_Flags[l]
     /\ UNCHANGED <<lib_Sum, lib_Flags, untold>>

\* A slot is left in the pool.
bug_Room == next_stub <= STUB_POOL_SIZE
Room == next_stub + STUB_SLOT_SIZE <= STUB_POOL_SIZE

\* The stub that a first patch of an entry leaves: what was there.
Copy(e) == entry[e]

\* The function that is replaced: the target of the JMP, or a new stub.
Replaced(e) == IF entry[e].op = "jmp" THEN entry[e].to ELSE Stub(Len(stub) + 1)
Replace(e, f) ==
  /\ \/ /\ entry[e].op = "jmp"
        /\ UNCHANGED <<stub, next_stub>>
     \/ /\ entry[e].op # "jmp" /\ Room
        /\ stub' = Append(stub, Copy(e)) /\ next_stub' = next_stub + STUB_SLOT_SIZE
  /\ entry' = [entry EXCEPT ![e] = Jmp(f)]

InUse == {h \in Hooks : \E e \in Entries : \E i \in DOMAIN hooked[e] : hooked[e][i] = h}

\* A hook is installed, and remembers what it replaced.
SetFunction(e, h) ==
  /\ ~exhausted /\ h \notin InUse
  /\ Replace(e, Hook(h))
  /\ old' = [old EXCEPT ![h] = Replaced(e)]
  /\ hooked' = [hooked EXCEPT ![e] = Append(@, h)]
  /\ refresh_lib_sum(entry', LibOf[e])
  /\ alert' = NONE /\ UNCHANGED exhausted

\* The newest hook is taken away again, by a SetFunction of what it replaced.
RestoreFunction(e) ==
  /\ ~exhausted /\ hooked[e] # <<>>
  /\ Replace(e, old[hooked[e][Len(hooked[e])]])
  /\ hooked' = [hooked EXCEPT ![e] = SubSeq(@, 1, Len(@) - 1)]
  /\ refresh_lib_sum(entry', LibOf[e])
  /\ alert' = NONE /\ UNCHANGED <<exhausted, old>>

\* The pool is used up: the call fails and ends the run.
StubPoolExhausted(e) ==
  /\ ~exhausted /\ entry[e].op # "jmp" /\ ~Room
  /\ exhausted' = TRUE /\ alert' = NONE
  /\ UNCHANGED <<entry, stub, next_stub, lib_Flags, lib_Sum, hooked, old, untold>>

\* The guest writes a JMP into its own table, and marks it changed or not.
Poke(e, h, told) ==
  /\ ~exhausted /\ LibOf[e] \notin Builtin /\ h \notin InUse
  /\ entry' = [entry EXCEPT ![e] = Jmp(Hook(h))]
  /\ old' = [old EXCEPT ![h] = entry[e].to]
  /\ hooked' = [hooked EXCEPT ![e] = Append(@, h)]
  /\ lib_Flags' = IF told THEN [lib_Flags EXCEPT ![LibOf[e]] = @ \union {"CHANGED"}] ELSE lib_Flags
  /\ untold' = IF told THEN untold ELSE untold \union {LibOf[e]}
  /\ alert' = NONE /\ UNCHANGED <<stub, next_stub, exhausted, lib_Sum>>

\* The part of AddLibrary that is about the checksum.
AddLibrary(l) ==
  /\ ~exhausted /\ l \notin Builtin
  /\ sum_library(entry, lib_Flags[l] \union {"SUMUSED", "CHANGED"}, l)
  /\ untold' = untold \ {l}
  /\ alert' = NONE /\ UNCHANGED <<entry, stub, next_stub, exhausted, hooked, old>>

SumLibrary(l) ==
  /\ ~exhausted
  /\ alert' = IF "CHANGED" \notin lib_Flags[l] /\ lib_Sum[l] # checksum(entry, l) THEN l ELSE NONE
  /\ sum_library(entry, lib_Flags[l], l)
  /\ untold' = IF "CHANGED" \in lib_Flags[l] THEN untold \ {l} ELSE untold
  /\ UNCHANGED <<entry, stub, next_stub, exhausted, hooked, old>>

PatchNext ==
  \/ \E e \in Entries :
       \/ \E h \in Hooks : SetFunction(e, h) \/ \E told \in BOOLEAN : Poke(e, h, told)
       \/ RestoreFunction(e)
       \/ StubPoolExhausted(e)
  \/ \E l \in Libs : AddLibrary(l) \/ SumLibrary(l)

PatchSpec == PatchInit /\ [][PatchNext]_patchVars

-----------------------------------------------------------------------------
(* Properties *)

\* Calling f ends in the native function of entry e.
Reaches(f, e) == \/ f = Native(e)
                 \/ f.op = "stub" /\ f.to \in DOMAIN stub /\ stub[f.to] = Trap(e)

\* A call through a patched entry runs its hooks from the newest to the oldest
\* and then the function that was there before all of them, whatever hooks
\* were put on it and taken away before; an entry is given one stub however
\* often it is patched; and the stubs stay inside their pool.
CallsChain ==
  /\ \A e \in Entries :
       LET n == Len(hooked[e])
           h(i) == hooked[e][i]
       IN  /\ IF n = 0 THEN entry[e] = Trap(e) \/ (entry[e].op = "jmp" /\ Reaches(entry[e].to, e))
                       ELSE entry[e] = Jmp(Hook(h(n)))
           /\ n > 0 => Reaches(old[h(1)], e)
           /\ \A i \in 2 .. n : old[h(i)] = Hook(h(i - 1))
  /\ \A s, t \in DOMAIN stub : stub[s] = stub[t] => s = t
  /\ next_stub <= STUB_POOL_SIZE

\* SumLibrary raises an alert only for a table that was written behind exec's
\* back: a library that asked for a checksum keeps a true one through every
\* SetFunction.
NoFalseAlert ==
  alert # NONE /\ "SUMUSED" \in lib_Flags[alert] => alert \in untold

\* A library can be patched and the patches taken away without anyone else
\* noticing: neither its callers nor SumLibrary.
PatchesKept == CallsChain /\ NoFalseAlert
=============================================================================
