----------------------------- MODULE ExecCause ------------------------------
(***************************************************************************)
(* Software interrupts of exec.library (execint.rs): Cause, the five FIFO  *)
(* queues of pending nodes and the chain of continuations that drains      *)
(* them; and the interrupt servers of the vertical blank, which are kept   *)
(* and never run.                                                          *)
(*                                                                         *)
(* One task calls Cause, and so may the handlers while they run.  Handlers *)
(* do not Wait (a real interrupt must not), and the guest leaves a pending *)
(* node alone.                                                             *)
(***************************************************************************)
EXTENDS Integers, Sequences

CONSTANTS
  Ints,       \* the guest's struct Interrupts
  Codeless,   \* those with is_Code = NULL
  ln_Pri,     \* the priority of each
  NOBODY,
  Regs,       \* values of a register
  ExecBase,   \* what A6 holds when a handler starts
  MaxServers  \* bound: interrupt servers

ASSUME IntsAssumption == Codeless \subseteq Ints /\ ln_Pri \in [Ints -> -128 .. 127]
ASSUME RegsAssumption == NOBODY \notin Regs \union Ints /\ NOBODY \notin Regs \X Regs
ASSUME ServersAssumption == MaxServers \in Nat

VARIABLES
  queues,   \* pending nodes of each level, lowest level first
  is_Type,  \* ln_Type of their is_Node
  saved,    \* the caller's A5 and A6 while a drain runs, else NOBODY
  A5, A6,   \* of the code that runs
  handler,  \* the node whose code runs, NOBODY for the task
  stopped,  \* a call failed, and ended the run
  vertb,    \* the VertbServers
  owner     \* history: the task's own A5 and A6

causeVars == <<queues, is_Type, saved, A5, A6, handler, stopped, vertb, owner>>

\* (pri >> 4) + 2, where >> rounds down.
level_for_priority(pri) == IF pri \in -32 .. 32 THEN pri \div 16 + 2 ELSE NOBODY
Levels == 0 .. 4

CauseInit ==
  /\ queues = [l \in Levels |-> <<>>]
  /\ is_Type = [n \in Ints |-> "NT_INTERRUPT"]
  /\ saved = NOBODY
  /\ A5 \in Regs /\ A6 \in Regs
  /\ handler = NOBODY
  /\ stopped = FALSE
  /\ vertb = <<>>
  /\ owner = <<A5, A6>>

\* The next node to run is the oldest of the highest level that has one.
Busy(q) == {l \in Levels : q[l] # <<>>}
Highest(q) == CHOOSE l \in Busy(q) : \A k \in Busy(q) : l >= k

\* The queues are q, the node types ty and the caller's registers own: the
\* next handler starts, or the caller goes on.
drain_step(q, ty, own) ==
  \/ /\ Busy(q) # {}
     /\ LET n == Head(q[Highest(q)]) IN
        /\ queues' = [q EXCEPT ![Highest(q)] = Tail(@)]
        /\ is_Type' = [ty EXCEPT ![n] = "NT_INTERRUPT"]
        /\ handler' = n
        /\ A5' = n /\ A6' = ExecBase
        /\ saved' = own
  \/ /\ Busy(q) = {}
     /\ queues' = q /\ is_Type' = ty
     /\ handler' = NOBODY
     /\ A5' = own[1] /\ A6' = own[2]
     /\ saved' = NOBODY

\* A drain that runs picks the node up: Cause only queues it.
bug_Nested(q, ty) == queues' = q /\ is_Type' = ty /\ saved' = <<A5, A6>>
Nested(q, ty) == queues' = q /\ is_Type' = ty /\ UNCHANGED saved

Cause(n) ==
  /\ ~stopped /\ n \notin Codeless /\ is_Type[n] # "NT_SOFTINT"
  /\ level_for_priority(ln_Pri[n]) # NOBODY
  /\ LET q  == [queues EXCEPT ![level_for_priority(ln_Pri[n])] = Append(@, n)]
         ty == [is_Type EXCEPT ![n] = "NT_SOFTINT"]
     IN  \/ /\ saved = NOBODY
            /\ drain_step(q, ty, <<A5, A6>>)
         \/ /\ saved # NOBODY
            /\ Nested(q, ty)
            /\ UNCHANGED <<A5, A6, handler>>
  /\ UNCHANGED <<stopped, vertb, owner>>

CausePending(n) ==
  /\ ~stopped /\ is_Type[n] = "NT_SOFTINT"
  /\ UNCHANGED causeVars

\* No node, no code or no such level: the call fails and ends the run before
\* it has touched the node.
CauseRefused(n) ==
  /\ ~stopped
  /\ \/ n = NOBODY
     \/ /\ n \in Ints /\ is_Type[n] # "NT_SOFTINT"
        /\ n \in Codeless \/ level_for_priority(ln_Pri[n]) = NOBODY
  /\ stopped' = TRUE
  /\ UNCHANGED <<queues, is_Type, saved, A5, A6, handler, vertb, owner>>

\* The continuation after a handler.
HandlerReturns ==
  /\ ~stopped /\ handler # NOBODY
  /\ drain_step(queues, is_Type, saved)
  /\ UNCHANGED <<stopped, vertb, owner>>

\* The code that runs, the task's or a handler's, uses A5 and A6.
UseRegisters(a5, a6) ==
  /\ ~stopped
  /\ A5' = a5 /\ A6' = a6
  /\ owner' = IF handler = NOBODY THEN <<a5, a6>> ELSE owner
  /\ UNCHANGED <<queues, is_Type, saved, handler, stopped, vertb>>

AddIntServer(n) ==
  /\ ~stopped /\ Len(vertb) < MaxServers
  /\ vertb' = Append(vertb, n)
  /\ UNCHANGED <<queues, is_Type, saved, A5, A6, handler, stopped, owner>>

RemIntServer(n) ==
  /\ ~stopped
  /\ vertb' = SelectSeq(vertb, LAMBDA m : m # n)
  /\ UNCHANGED <<queues, is_Type, saved, A5, A6, handler, stopped, owner>>

\* Any other interrupt, and SetIntVector: the call fails and ends the run.
stub_error ==
  /\ ~stopped
  /\ stopped' = TRUE
  /\ UNCHANGED <<queues, is_Type, saved, A5, A6, handler, vertb, owner>>

CauseNext ==
  \/ \E n \in Ints : Cause(n) \/ CausePending(n) \/ AddIntServer(n) \/ RemIntServer(n)
  \/ \E n \in Ints \union {NOBODY} : CauseRefused(n)
  \/ HandlerReturns
  \/ \E a5, a6 \in Regs : UseRegisters(a5, a6)
  \/ stub_error

CauseSpec == CauseInit /\ [][CauseNext]_causeVars

-----------------------------------------------------------------------------
(* Properties *)

\* A pending node will run, once: it waits in exactly one place, in the queue
\* of its level, nothing waits that is not pending, and a handler runs as long
\* as anything waits, whose end starts the next: Cause does not return to the
\* task with a node left behind.
Waiting(n) == {l \in Levels : \E i \in DOMAIN queues[l] : queues[l][i] = n}
PendingWillRun ==
  /\ \A n \in Ints : Waiting(n) = IF is_Type[n] = "NT_SOFTINT"
                                THEN {level_for_priority(ln_Pri[n])} ELSE {}
  /\ \A l \in Levels : \A i, j \in DOMAIN queues[l] : queues[l][i] = queues[l][j] => i = j
  /\ handler = NOBODY => \A l \in Levels : queues[l] = <<>>

\* An interrupt is transparent to the code it interrupts: whatever handlers
\* ran, called Cause themselves and did to A5 and A6, the task goes on with
\* its own.
CallerUntouched == handler = NOBODY => <<A5, A6>> = owner /\ saved = NOBODY

\* Cause and the drain it starts do all that and nothing else, also when the
\* handlers call Cause.
DrainsTransparent == PendingWillRun /\ CallerUntouched
=============================================================================
