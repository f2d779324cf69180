----------------------------- MODULE ExecTasks -----------------------------
(***************************************************************************)
(* The cooperative multitasking core of volamos: the TaskScheduler         *)
(* (taskswitch.rs), exec.library's task, signal and timer.device handlers  *)
(* (exectask.rs) and the trap loop with its continuation stack             *)
(* (dispatch.rs).                                                          *)
(*                                                                         *)
(* One action is one dispatched trap, handler and epilogue together: the   *)
(* host is single threaded, so nothing but SIGINT and the clock gets       *)
(* between.  The exceptions are the places where the code itself lets      *)
(* other things happen: the loops of Wait and of the task-exit stub, which *)
(* sleep, and the tc_Switch/tc_Launch hooks, which are guest subroutines   *)
(* run while a task switch is half done.                                   *)
(*                                                                         *)
(* The guest is the most general one: the running task may make any call   *)
(* with any argument at any time.  What a correct program would not do is  *)
(* named where it is excluded.                                             *)
(***************************************************************************)
EXTENDS Integers, Sequences, FiniteSets

CONSTANTS
    Tasks,      \* guest addresses of the Process structs (the address order is the tie break)
    Main,       \* the program's own task
    Signals,    \* signal bits
    CtrlC,      \* SIGBREAKF_CTRL_C
    Pris,       \* task priorities (ln_Pri)
    Switchers,  \* tasks whose program set TF_SWITCH and tc_Switch
    Launchers,  \* tasks whose program set TF_LAUNCH and tc_Launch
    Reqs,       \* timer.device requests
    Ported,     \* requests with a non-NULL mn_ReplyPort
    SigTask,    \* mp_SigTask of a request's reply port, or NoTask
    SigBit,     \* mp_SigBit of a request's reply port
    NoTask,
    MaxDelay,   \* bound on a request's delay, in ticks
    MaxCalls,   \* bound on the trampolined callbacks in flight
    OneCaller,  \* whether programs have callbacks of only one task in flight
    HostBreaks, \* whether the host may send SIGINT
    Drained     \* whether programs unlink a reply from its port before sending the request again

ASSUME TasksAssumption ==
    /\ Tasks \subseteq Nat
    /\ Main \in Tasks
    /\ NoTask \notin Tasks
    /\ Switchers \subseteq Tasks
    /\ Launchers \subseteq Tasks
    /\ Pris \subseteq Int
    /\ 0 \in Pris

ASSUME SignalsAssumption ==
    /\ CtrlC \in Signals
    /\ Ported \subseteq Reqs
    /\ SigTask \in [Reqs -> Tasks \cup {NoTask}]
    /\ SigBit \in [Reqs -> Signals]

ASSUME BoundsAssumption ==
    /\ MaxDelay \in Nat
    /\ MaxCalls \in Nat
    /\ OneCaller \in BOOLEAN
    /\ HostBreaks \in BOOLEAN
    /\ Drained \in BOOLEAN

VARIABLES
    current,    \* TaskScheduler.current, also ExecBase->ThisTask
    others,     \* TaskScheduler.others: the state of each task it holds, "none" for the rest
    hookActive, \* TaskScheduler.switch_hook_active
    conts,      \* ContinuationStack.pending, one stack for all tasks
    depth,      \* trampolined subroutines on each task's own guest stack
    life,       \* not created yet, alive, or run off the end of its NP_Entry
    pri,        \* ln_Pri
    recvd,      \* tc_SigRecvd
    waitMask,   \* the mask of a task's last blocking Wait (its wait_mask, and D0 of its snapshot)
    retrap,     \* whether a task's snapshot resumes at the Wait trap itself
    trap,       \* the handler loop in progress: none, Wait's or the exit stub's
    want,       \* the signal_set of the Wait loop in progress
    timers,     \* PendingTimers.entries; left is the time to the deadline
    links,      \* how often a request's node is linked on its reply port
    held,       \* requests the program has back: never sent, or returned by WaitIO or GetMsg
    hostBreak,  \* PENDING_HOST_BREAK
    status      \* running, or how Runtime::run ended

sched == <<current, others, hookActive, conts, depth>>
loopVars == <<trap, want>>
vars == <<current, others, hookActive, conts, depth, life, pri, recvd, waitMask,
          retrap, trap, want, timers, links, held, hostBreak, status>>

Masks == SUBSET Signals
Conts == [kind : {"call", "switch", "launch"}, owner : Tasks, next : Tasks]
Timers == [req : Reqs, left : 0..MaxDelay, owner : Tasks]

TypeOK ==
    /\ current \in Tasks
    /\ others \in [Tasks -> {"none", "ready", "blocked"}]
    /\ hookActive \in BOOLEAN
    /\ conts \in Seq(Conts)
    /\ depth \in [Tasks -> Nat]
    /\ life \in [Tasks -> {"unborn", "alive", "dead"}]
    /\ pri \in [Tasks -> Pris]
    /\ recvd \in [Tasks -> Masks]
    /\ waitMask \in [Tasks -> Masks]
    /\ retrap \in [Tasks -> BOOLEAN]
    /\ trap \in {"none", "wait", "exit"}
    /\ want \in Masks
    /\ timers \subseteq Timers
    /\ links \in [Reqs -> Nat]
    /\ held \subseteq Reqs
    /\ hostBreak \in BOOLEAN
    /\ status \in {"running", "exited", "killed", "deadlock", "unknown task"}

Alive == {t \in Tasks : life[t] = "alive"}
Known == {t \in Tasks : others[t] # "none"}
IsHook(k) == k.kind \in {"switch", "launch"}
HookSlots == {i \in DOMAIN conts : IsHook(conts[i])}
CallSlots == {i \in DOMAIN conts : conts[i].kind = "call"}
SwitchSlots == {i \in DOMAIN conts : conts[i].kind = "switch"}

(***************************************************************************)
(* Scheduling decisions.                                                   *)
(***************************************************************************)

\* The Ready task with the highest priority, the lowest address breaking a
\* tie: a set with one element, or none when no task is Ready.
pick_ready(o) ==
    {t \in Tasks :
        /\ o[t] = "ready"
        /\ \A u \in Tasks :
              o[u] = "ready" => \/ pri[u] < pri[t]
                                \/ pri[u] = pri[t] /\ t <= u}

NothingReady == \A t \in Tasks : others[t] # "ready"

\* Mutant: a hook may decide a second switch.
bug_cannot_switch == NothingReady

\* No switch may be decided: nothing to switch to, or a hook is running.
cannot_switch == hookActive \/ NothingReady

\* The tail of every switch: commit next, then its tc_Launch if it has one.
commit_task_switch(next, ks, d) ==
    /\ current' = next
    /\ IF next \in Launchers
       THEN /\ conts' = Append(ks, [kind |-> "launch", owner |-> next, next |-> next])
            /\ depth' = [d EXCEPT ![next] = @ + 1]
            /\ hookActive' = TRUE
       ELSE /\ conts' = ks
            /\ depth' = d
            /\ hookActive' = FALSE

\* Applies a switch just decided: the outgoing task's tc_Switch runs first,
\* as that task, and its continuation holds the incoming one.
apply_pending_task_switch(next) ==
    IF current \in Switchers
    THEN /\ conts' = Append(conts, [kind |-> "switch", owner |-> current, next |-> next])
         /\ depth' = [depth EXCEPT ![current] = @ + 1]
         /\ hookActive' = TRUE
         /\ current' = current
    ELSE commit_task_switch(next, conts, depth)

\* Mutants: the outgoing task is dropped; the incoming one is kept.
bug_stage_drop(next, s) == [others EXCEPT ![next] = "none"]
bug_stage_keep(next, s) == [others EXCEPT ![current] = s]

\* others once `next` is taken out of it and the outgoing task put in as s.
stage(next, s) == [others EXCEPT ![current] = s, ![next] = "none"]

(***************************************************************************)
(* Signals and timer completions.                                          *)
(***************************************************************************)

\* tc_SigRecvd after a pending host break is folded into the running task.
fold_pending_host_break ==
    IF hostBreak THEN [recvd EXCEPT ![current] = @ \cup {CtrlC}] ELSE recvd

\* Mutants: any signal wakes; none does.
bug_wake_any(o, t, sigs) == IF o[t] = "blocked" THEN [o EXCEPT ![t] = "ready"] ELSE o
bug_wake_none(o, t, sigs) == o

wake_if_signal_matches(o, t, sigs) ==
    IF o[t] = "blocked" /\ sigs \cap waitMask[t] # {} THEN [o EXCEPT ![t] = "ready"] ELSE o

\* The tasks signalled by completing the requests in rs, and with what.
Notifies(t, rs) == {r \in rs \cap Ported : SigTask[r] = t}

completed_recvd(base, rs) ==
    [t \in Tasks |-> base[t] \cup {SigBit[r] : r \in Notifies(t, rs)}]

\* A completion wakes a waiting task exactly as Signal does, and like
\* Signal leaves the running task alone.
completed_others(base, rs) ==
    [t \in Tasks |->
        IF /\ t # current
           /\ others[t] = "blocked"
           /\ Notifies(t, rs) # {}
           /\ completed_recvd(base, rs)[t] \cap waitMask[t] # {}
        THEN "ready" ELSE others[t]]

\* put_msg_impl's AddTail of the request on its reply port.
completed_links(rs) == [r \in Reqs |-> IF r \in rs \cap Ported THEN links[r] + 1 ELSE links[r]]

complete_timer_request(base, rs) ==
    /\ recvd' = completed_recvd(base, rs)
    /\ others' = completed_others(base, rs)
    /\ links' = completed_links(rs)

Pending == {e.req : e \in timers}
Due == {e \in timers : e.left = 0}
\* Mutant: a request sent again is queued a second time.
bug_Without(r) == timers

Without(r) == {e \in timers : e.req # r}

\* Mutant: completed requests stay queued.
bug_fire_due(base) ==
    /\ timers' = timers
    /\ complete_timer_request(base, {e.req : e \in Due})

\* Completes every request whose deadline has passed.
fire_due(base) ==
    /\ timers' = timers \ Due
    /\ complete_timer_request(base, {e.req : e \in Due})

\* Mutant: the earliest request is slept for and forgotten.
bug_fire_none == timers # {} /\ UNCHANGED <<timers, recvd, others, links>>

\* Sleeps until the earliest deadline and completes that request.
fire_earliest ==
    \E e \in timers :
        /\ \A f \in timers : e.left <= f.left
        /\ timers' = {[f EXCEPT !.left = @ - e.left] : f \in timers \ {e}}
        /\ complete_timer_request(recvd, {e.req})

(***************************************************************************)
(* The guest's calls.                                                      *)
(***************************************************************************)

\* The running task, or the hook running as it, makes a library call.  A
\* task resumed from a blocking Wait re-traps into that Wait first.
Calling == /\ status = "running"
           /\ trap = "none"
           /\ hookActive \/ ~retrap[current]

\* Every dispatched call folds a pending host break first.
Folded == /\ recvd' = fold_pending_host_break
          /\ hostBreak' = FALSE

create_new_proc_handler(t, p) ==
    /\ Calling
    /\ life[t] = "unborn"
    /\ life' = [life EXCEPT ![t] = "alive"]
    /\ others' = [others EXCEPT ![t] = "ready"]
    /\ pri' = [pri EXCEPT ![t] = p]
    /\ Folded
    /\ UNCHANGED <<current, hookActive, conts, depth, waitMask, retrap, loopVars,
                   timers, links, held, status>>

set_signal_handler(new, mask) ==
    /\ Calling
    /\ recvd' = [fold_pending_host_break EXCEPT ![current] = (@ \ mask) \cup (new \cap mask)]
    /\ hostBreak' = FALSE
    /\ UNCHANGED <<sched, life, pri, waitMask, retrap, loopVars, timers, links, held, status>>

\* Signal to a task that exists.  (Signalling one that does not is a guest
\* bug, refused by the same check as the action below.)
signal_handler(t, sigs) ==
    /\ Calling
    /\ t = current \/ others[t] # "none"
    /\ LET r == [fold_pending_host_break EXCEPT ![t] = @ \cup sigs]
       IN  /\ recvd' = r
           /\ others' = IF t # current THEN wake_if_signal_matches(others, t, r[t]) ELSE others
    /\ hostBreak' = FALSE
    /\ UNCHANGED <<current, hookActive, conts, depth, life, pri, waitMask, retrap,
                   loopVars, timers, links, held, status>>

signal_refused(t) ==
    /\ Calling
    /\ life[t] = "alive"
    /\ t # current /\ others[t] = "none"
    /\ status' = "unknown task"
    /\ Folded
    /\ UNCHANGED <<sched, life, pri, waitMask, retrap, loopVars, timers, links, held>>

check_signal_handler(mask) ==
    /\ Calling
    /\ LET r == fold_pending_host_break
           fired == {e.req : e \in Due}
       IN  /\ recvd' = [completed_recvd(r, fired) EXCEPT ![current] = @ \ mask]
           /\ others' = completed_others(r, fired)
           /\ links' = completed_links(fired)
           /\ timers' = timers \ Due
    /\ hostBreak' = FALSE
    /\ UNCHANGED <<current, hookActive, conts, depth, life, pri, waitMask, retrap,
                   loopVars, held, status>>

\* SetTaskPri that is not a yield: another task, or another priority.
set_task_pri_handler(t, p) ==
    /\ Calling
    /\ life[t] = "alive"
    /\ t # current \/ p # pri[t]
    /\ pri' = [pri EXCEPT ![t] = p]
    /\ Folded
    /\ UNCHANGED <<sched, life, waitMask, retrap, loopVars, timers, links, held, status>>

\* Permit with SFB_SAR set, or SetTaskPri to the task's own priority: the
\* call completes, then the CPU goes to whatever task is Ready.
yield_to_ready ==
    /\ Calling
    /\ IF cannot_switch
       THEN UNCHANGED sched
       ELSE \E next \in pick_ready(others) :
                /\ others' = stage(next, "ready")
                /\ apply_pending_task_switch(next)
    /\ Folded
    /\ UNCHANGED <<life, pri, waitMask, retrap, loopVars, timers, links, held, status>>

(***************************************************************************)
(* Wait.                                                                   *)
(***************************************************************************)

wait_handler(mask) ==
    /\ status = "running" /\ trap = "none"
    /\ hookActive \/ ~retrap[current] \/ mask = waitMask[current]
    /\ trap' = "wait"
    /\ want' = mask
    /\ fire_due(fold_pending_host_break)
    /\ hostBreak' = FALSE
    /\ UNCHANGED <<current, hookActive, conts, depth, life, pri, waitMask, retrap, held, status>>

InWait == status = "running" /\ trap = "wait"
Satisfied == recvd[current] \cap want
LeaveLoop == trap' = "none" /\ want' = {}

wait_satisfied ==
    /\ InWait
    /\ Satisfied # {}
    /\ recvd' = [recvd EXCEPT ![current] = @ \ want]
    /\ IF hookActive
       THEN UNCHANGED <<retrap, waitMask>>
       ELSE /\ retrap' = [retrap EXCEPT ![current] = FALSE]
            /\ waitMask' = [waitMask EXCEPT ![current] = {}]
    /\ LeaveLoop
    /\ UNCHANGED <<sched, life, pri, timers, links, held, hostBreak, status>>

block_current_on_signal ==
    /\ InWait
    /\ Satisfied = {}
    /\ ~cannot_switch
    /\ \E next \in pick_ready(others) :
          /\ others' = stage(next, "blocked")
          /\ apply_pending_task_switch(next)
    /\ waitMask' = [waitMask EXCEPT ![current] = want]
    /\ retrap' = [retrap EXCEPT ![current] = TRUE]
    /\ LeaveLoop
    /\ UNCHANGED <<life, pri, recvd, timers, links, held, hostBreak, status>>

wait_fire_earliest ==
    /\ InWait
    /\ Satisfied = {}
    /\ cannot_switch
    /\ fire_earliest
    /\ UNCHANGED <<current, hookActive, conts, depth, life, pri, waitMask, retrap,
                   loopVars, held, hostBreak, status>>

wait_deadlock ==
    /\ InWait
    /\ Satisfied = {}
    /\ cannot_switch
    /\ timers = {}
    /\ status' = "deadlock"
    /\ UNCHANGED <<sched, life, pri, recvd, waitMask, retrap, loopVars, timers, links, held, hostBreak>>

(***************************************************************************)
(* Exit.                                                                   *)
(***************************************************************************)

\* Mutant: the exiting task's requests are left behind.
bug_remove_owned_by(task) == timers

\* A child runs off the end of its NP_Entry: its pending requests are
\* dropped, then the loop below hands the CPU on.
remove_owned_by(task) == {e \in timers : e.owner # task}

task_exit_stub_handler ==
    /\ Calling
    /\ ~hookActive
    /\ current # Main
    /\ depth[current] = 0
    /\ trap' = "exit"
    /\ timers' = remove_owned_by(current)
    /\ Folded
    /\ UNCHANGED <<sched, life, pri, waitMask, retrap, want, links, held, status>>

InExit == status = "running" /\ trap = "exit"

terminate_current ==
    /\ InExit
    /\ ~cannot_switch
    /\ \E next \in pick_ready(others) :
          /\ others' = [others EXCEPT ![next] = "none"]
          /\ apply_pending_task_switch(next)
    /\ life' = [life EXCEPT ![current] = "dead"]
    /\ LeaveLoop
    /\ UNCHANGED <<pri, recvd, waitMask, retrap, timers, links, held, hostBreak, status>>

exit_fire_earliest ==
    /\ InExit
    /\ cannot_switch
    /\ fire_earliest
    /\ UNCHANGED <<current, hookActive, conts, depth, life, pri, waitMask, retrap,
                   loopVars, held, hostBreak, status>>

exit_deadlock ==
    /\ InExit
    /\ cannot_switch
    /\ timers = {}
    /\ status' = "deadlock"
    /\ UNCHANGED <<sched, life, pri, recvd, waitMask, retrap, loopVars, timers, links, held, hostBreak>>

\* The main program reaches EXIT_STUB_ADDR, whatever else is going on.
main_exit ==
    /\ Calling
    /\ ~hookActive
    /\ current = Main
    /\ status' = "exited"
    /\ UNCHANGED <<sched, life, pri, recvd, waitMask, retrap, loopVars, timers, links, held, hostBreak>>

(***************************************************************************)
(* Trampolined subroutines.                                                *)
(***************************************************************************)

\* A handler calls back into guest code (a hook packet, a library vector).
trampoline ==
    /\ Calling
    /\ Cardinality(CallSlots) < MaxCalls
    /\ OneCaller => \A i \in CallSlots : conts[i].owner = current
    /\ conts' = Append(conts, [kind |-> "call", owner |-> current, next |-> current])
    /\ depth' = [depth EXCEPT ![current] = @ + 1]
    /\ Folded
    /\ UNCHANGED <<current, others, hookActive, life, pri, waitMask, retrap, loopVars,
                   timers, links, held, status>>

\* Mutant: the oldest continuation is popped.
bug_Popped == SubSeq(conts, 2, Len(conts))

\* What is left of the stack once its newest continuation is popped.
Popped == SubSeq(conts, 1, Len(conts) - 1)

\* The innermost trampolined subroutine of the running task returns into
\* CONTINUATION_STUB_ADDR: whatever continuation is on top of the one
\* global stack runs.
continuation_stub_handler ==
    /\ Calling
    /\ depth[current] > 0
    /\ conts # <<>>
    /\ LET latest == conts[Len(conts)]
           d == [depth EXCEPT ![current] = @ - 1]
       IN  \/ /\ latest.kind = "call"
              /\ conts' = Popped
              /\ depth' = d
              /\ UNCHANGED <<current, hookActive>>
           \/ /\ latest.kind = "launch"
              /\ conts' = Popped
              /\ depth' = d
              /\ hookActive' = FALSE
              /\ UNCHANGED current
           \/ /\ latest.kind = "switch"
              /\ commit_task_switch(latest.next, Popped, d)
    /\ Folded
    /\ UNCHANGED <<others, life, pri, waitMask, retrap, loopVars, timers, links, held, status>>

(***************************************************************************)
(* timer.device.                                                           *)
(***************************************************************************)

send_io_handler(r, d) ==
    /\ Calling
    /\ IF Drained THEN links[r] = 0 ELSE r \in held
    /\ timers' = Without(r) \cup {[req |-> r, left |-> d, owner |-> current]}
    /\ held' = held \ {r}
    /\ Folded
    /\ UNCHANGED <<sched, life, pri, waitMask, retrap, loopVars, links, status>>

\* WaitIO completes a pending request at once, deadline or not.
wait_io_handler(r) ==
    /\ Calling
    /\ timers' = Without(r)
    /\ complete_timer_request(fold_pending_host_break, {r} \cap Pending)
    /\ held' = held \cup {r}
    /\ hostBreak' = FALSE
    /\ UNCHANGED <<current, hookActive, conts, depth, life, pri, waitMask, retrap,
                   loopVars, status>>

check_io_handler ==
    /\ Calling
    /\ fire_due(fold_pending_host_break)
    /\ hostBreak' = FALSE
    /\ UNCHANGED <<current, hookActive, conts, depth, life, pri, waitMask, retrap,
                   loopVars, held, status>>

\* AbortIO, and FreeMem of the request's memory: dropped, never completed.
abort_io_handler(r) ==
    /\ Calling
    /\ timers' = Without(r)
    /\ Folded
    /\ UNCHANGED <<sched, life, pri, waitMask, retrap, loopVars, links, held, status>>

\* The program takes a reply off its port (GetMsg, or Remove of the node).
get_msg_handler(r) ==
    /\ Calling
    /\ links[r] > 0
    /\ links' = [links EXCEPT ![r] = @ - 1]
    /\ held' = held \cup {r}
    /\ Folded
    /\ UNCHANGED <<sched, life, pri, waitMask, retrap, loopVars, timers, status>>

(***************************************************************************)
(* The host.                                                               *)
(***************************************************************************)

\* SIGINT: the first is remembered, a second before it is folded kills.
handle_host_break ==
    /\ HostBreaks
    /\ status = "running"
    /\ hostBreak' = TRUE
    /\ status' = IF hostBreak THEN "killed" ELSE "running"
    /\ UNCHANGED <<sched, life, pri, recvd, waitMask, retrap, loopVars, timers, links, held>>

\* Time passes.
Tick ==
    /\ status = "running"
    /\ \E e \in timers : e.left > 0
    /\ timers' = {[e EXCEPT !.left = IF @ > 0 THEN @ - 1 ELSE 0] : e \in timers}
    /\ UNCHANGED <<sched, life, pri, recvd, waitMask, retrap, loopVars, links, held, hostBreak, status>>

----------------------------------------------------------------------------

Init ==
    /\ current = Main
    /\ others = [t \in Tasks |-> "none"]
    /\ hookActive = FALSE
    /\ conts = <<>>
    /\ depth = [t \in Tasks |-> 0]
    /\ life = [t \in Tasks |-> IF t = Main THEN "alive" ELSE "unborn"]
    /\ pri = [t \in Tasks |-> 0]
    /\ recvd = [t \in Tasks |-> {}]
    /\ waitMask = [t \in Tasks |-> {}]
    /\ retrap = [t \in Tasks |-> FALSE]
    /\ trap = "none"
    /\ want = {}
    /\ timers = {}
    /\ links = [r \in Reqs |-> 0]
    /\ held = Reqs
    /\ hostBreak = FALSE
    /\ status = "running"

SignalCall ==
    \/ \E t \in Tasks, sigs \in Masks : signal_handler(t, sigs)
    \/ \E t \in Tasks : signal_refused(t)
    \/ \E new, mask \in Masks : set_signal_handler(new, mask)
    \/ \E mask \in Masks : check_signal_handler(mask)

TaskCall ==
    \/ \E t \in Tasks, p \in Pris : create_new_proc_handler(t, p)
    \/ \E t \in Tasks, p \in Pris : set_task_pri_handler(t, p)
    \/ yield_to_ready
    \/ task_exit_stub_handler
    \/ main_exit

TimerCall ==
    \/ \E r \in Reqs, d \in 0..MaxDelay : send_io_handler(r, d)
    \/ \E r \in Reqs : wait_io_handler(r) \/ abort_io_handler(r) \/ get_msg_handler(r)
    \/ check_io_handler

Trampoline == trampoline \/ continuation_stub_handler

WaitLoop == wait_satisfied \/ block_current_on_signal \/ wait_fire_earliest \/ wait_deadlock
ExitLoop == terminate_current \/ exit_fire_earliest \/ exit_deadlock
Wait == \E mask \in Masks : wait_handler(mask)
Host == handle_host_break \/ Tick

Next == SignalCall \/ TaskCall \/ TimerCall \/ Trampoline \/ Wait \/ WaitLoop \/ ExitLoop \/ Host

Spec == Init /\ [][Next]_vars

\* The host runs a handler's loop to its end: nothing but the loop's own
\* steps, SIGINT and the clock can happen meanwhile.
FairSpec == Spec /\ WF_vars(WaitLoop) /\ WF_vars(ExitLoop)

----------------------------------------------------------------------------
(***************************************************************************)
(* Properties.                                                             *)
(***************************************************************************)

\* Every task created and not yet exited is held exactly once: it runs, or
\* the scheduler holds it, or a tc_Switch continuation holds it as the
\* incoming task.  Only the outgoing task of a switch whose tc_Switch still
\* runs is held twice, and that one must be, or the switch would lose it.
\* (block_current_on_signal, yield_to_ready, terminate_current, commit)
NoTaskLost ==
    LET inflight == {conts[i].next : i \in SwitchSlots}
    IN  /\ Known \cup inflight \subseteq Alive
        /\ Known \cap inflight = {}
        /\ current \notin inflight
        /\ Alive \subseteq Known \cup inflight \cup {current}
        /\ IF SwitchSlots = {} THEN current \in Alive \ Known
                               ELSE current \in Alive => current \in Known

\* A tc_Switch or tc_Launch is never entered while another runs, and the
\* one that runs belongs to the running task: what switch_hook_active is for.
OneHookAtATime ==
    /\ \A i, j \in HookSlots : i = j
    /\ \A i \in HookSlots : conts[i].owner = current
    /\ hookActive <=> HookSlots # {}

\* The exit stub never runs inside a hook, and NoTaskLost with the facts it
\* rests on: the inductive invariant of the scheduler.
ExitOutsideHook == trap = "exit" => ~hookActive
Structure == NoTaskLost /\ OneHookAtATime /\ ExitOutsideHook

\* A task suspended in Wait is blocked exactly as long as none of the signals
\* it waits for has arrived: no wakeup is lost and none is spurious.
\* (signal_handler, complete_timer_request, fold_pending_host_break,
\* set_signal_handler against block_current_on_signal's record)
WakeupsExact ==
    \A t \in Known :
        retrap[t] => (others[t] = "blocked" <=> recvd[t] \cap waitMask[t] = {})

\* When the runtime reports a deadlock outside a hook, nothing could have
\* gone on: "every task is waiting on a signal nothing will ever set".
DeadlockIsReal ==
    status = "deadlock" /\ ~hookActive =>
        \A t \in Alive \ {current} :
            others[t] = "blocked" /\ recvd[t] \cap waitMask[t] = {}

\* Signal never refuses a task that was created and has not exited.
NoLiveTaskRefused == status # "unknown task"

\* A request is pending at most once: it cannot complete twice.
PendingOnce == \A e, f \in timers : e.req = f.req => e = f

\* A request is linked on its reply port at most once: AddTail of a node
\* already linked would corrupt the list.
LinkedOnce == \A r \in Reqs : links[r] <= 1

\* A request sent once completes once: it is pending once and its node is
\* linked once, whatever is sent, aborted, awaited and replied meanwhile.
\* (send_io_handler, wait_io_handler, fire_due, complete_timer_request)
CompletesOnce == PendingOnce /\ LinkedOnce

\* No pending request outlives the task that sent it.
OwnersAlive == \A e \in timers : e.owner \in Alive

\* The continuation on top of the stack belongs to the task about to return
\* into the stub, however callbacks, hooks and switches were nested: each "runs
\* when its paired guest subroutine's rts traps back".  Programs must have
\* callbacks of one task at a time in flight (OneCaller); else it is not so.
\* (trampoline, trampoline_now, continuation_stub_handler)
OwnContinuation == depth[current] > 0 => conts # <<>> /\ conts[Len(conts)].owner = current

\* The loops of Wait and of the exit stub end: with a wakeup, a switch or a
\* reported deadlock, and never by hanging the host.
LoopsEnd == (trap # "none") ~> (trap = "none" \/ status # "running")
=============================================================================
