--------------------------- MODULE SignalsProofs ----------------------------
(***************************************************************************)
(* Proofs about the scheduler and its signals (ExecTasks), for every set   *)
(* of tasks, signals, requests and hooks; and about the sockets and the    *)
(* events they signal (BsdSockets), for any number of sockets, sizes of    *)
(* the table and event masks.                                              *)
(***************************************************************************)
EXTENDS ExecTasks, BsdSockets, SequenceTheorems, FiniteSetTheorems, WellFoundedInduction, TLAPS

(***************************************************************************)
(* Type correctness.                                                       *)
(***************************************************************************)

\* Completing requests keeps the types of what it writes.
LEMMA CompletedTypes ==
    ASSUME TypeOK, NEW base \in [Tasks -> Masks], NEW rs \in SUBSET Reqs
    PROVE  /\ completed_recvd(base, rs) \in [Tasks -> Masks]
           /\ completed_others(base, rs) \in [Tasks -> {"none", "ready", "blocked"}]
           /\ completed_links(rs) \in [Reqs -> Nat]
<1>1. completed_recvd(base, rs) \in [Tasks -> Masks]
  <2>1. ASSUME NEW t \in Tasks
        PROVE  base[t] \cup {SigBit[r] : r \in Notifies(t, rs)} \in Masks
    <3>1. \A r \in Notifies(t, rs) : SigBit[r] \in Signals
      BY SignalsAssumption DEF Notifies
    <3>2. base[t] \subseteq Signals
      BY DEF Masks
    <3> QED BY <3>1, <3>2 DEF Masks
  <2> QED BY <2>1 DEF completed_recvd
<1>2. completed_others(base, rs) \in [Tasks -> {"none", "ready", "blocked"}]
  BY DEF TypeOK, completed_others
<1>3. completed_links(rs) \in [Reqs -> Nat]
  <2>1. ASSUME NEW r \in Reqs
        PROVE  (IF r \in rs \cap Ported THEN links[r] + 1 ELSE links[r]) \in Nat
    <3>1. links[r] \in Nat
      BY DEF TypeOK
    <3> QED BY <3>1
  <2> QED BY <2>1 DEF completed_links
<1> QED BY <1>1, <1>2, <1>3

LEMMA CompletionTypes ==
    ASSUME TypeOK, NEW base \in [Tasks -> Masks], NEW rs \in SUBSET Reqs,
           complete_timer_request(base, rs)
    PROVE  /\ recvd' \in [Tasks -> Masks]
           /\ others' \in [Tasks -> {"none", "ready", "blocked"}]
           /\ links' \in [Reqs -> Nat]
BY CompletedTypes DEF complete_timer_request

\* A host break only ever adds a signal bit.
LEMMA FoldTypes ==
    ASSUME TypeOK
    PROVE  fold_pending_host_break \in [Tasks -> Masks]
BY SignalsAssumption DEF TypeOK, fold_pending_host_break, Masks

\* The requests due now are requests.
LEMMA DueTypes ==
    ASSUME TypeOK
    PROVE  {e.req : e \in Due} \in SUBSET Reqs
BY DEF TypeOK, Due, Timers

LEMMA FireDueTypes ==
    ASSUME TypeOK, NEW base \in [Tasks -> Masks], fire_due(base)
    PROVE  /\ recvd' \in [Tasks -> Masks]
           /\ others' \in [Tasks -> {"none", "ready", "blocked"}]
           /\ links' \in [Reqs -> Nat]
           /\ timers' \subseteq Timers
<1>1. complete_timer_request(base, {e.req : e \in Due})
  BY DEF fire_due
<1>2. timers' \subseteq Timers
  BY DEF fire_due, TypeOK
<1> QED BY <1>1, <1>2, DueTypes, CompletionTypes

LEMMA FireEarliestTypes ==
    ASSUME TypeOK, fire_earliest
    PROVE  /\ recvd' \in [Tasks -> Masks]
           /\ others' \in [Tasks -> {"none", "ready", "blocked"}]
           /\ links' \in [Reqs -> Nat]
           /\ timers' \subseteq Timers
<1>1. PICK e \in timers :
          /\ \A f \in timers : e.left <= f.left
          /\ timers' = {[f EXCEPT !.left = @ - e.left] : f \in timers \ {e}}
          /\ complete_timer_request(recvd, {e.req})
  BY DEF fire_earliest
<1>2. {e.req} \in SUBSET Reqs
  BY DEF TypeOK, Timers
<1>3. recvd \in [Tasks -> Masks]
  BY DEF TypeOK
<1>4. timers' \subseteq Timers
  <2> SUFFICES ASSUME NEW f \in timers
               PROVE  [f EXCEPT !.left = @ - e.left] \in Timers
    BY <1>1
  <2>1. f \in Timers /\ e \in Timers /\ e.left <= f.left
    BY <1>1 DEF TypeOK
  <2>2. f.left - e.left \in 0..MaxDelay
    BY <2>1, BoundsAssumption DEF Timers
  <2> QED BY <2>1, <2>2 DEF Timers
<1> QED BY <1>1, <1>2, <1>3, <1>4, CompletionTypes

LEMMA CommitTypes ==
    ASSUME TypeOK, NEW nxt \in Tasks, NEW ks \in Seq(Conts), NEW d \in [Tasks -> Nat],
           commit_task_switch(nxt, ks, d)
    PROVE  current' \in Tasks /\ conts' \in Seq(Conts) /\ depth' \in [Tasks -> Nat]
           /\ hookActive' \in BOOLEAN
<1> DEFINE k == [kind |-> "launch", owner |-> nxt, next |-> nxt]
<1>1. k \in Conts
  BY DEF Conts
<1>2. Append(ks, k) \in Seq(Conts)
  BY <1>1
<1>3. [d EXCEPT ![nxt] = @ + 1] \in [Tasks -> Nat]
  OBVIOUS
<1> QED BY <1>2, <1>3 DEF commit_task_switch

LEMMA ApplyTypes ==
    ASSUME TypeOK, NEW nxt \in Tasks, apply_pending_task_switch(nxt)
    PROVE  current' \in Tasks /\ conts' \in Seq(Conts) /\ depth' \in [Tasks -> Nat]
           /\ hookActive' \in BOOLEAN
<1> DEFINE k == [kind |-> "switch", owner |-> current, next |-> nxt]
<1>1. k \in Conts
  BY DEF Conts, TypeOK
<1>t. current \in Tasks /\ conts \in Seq(Conts) /\ depth \in [Tasks -> Nat]
  BY DEF TypeOK
<1>2. Append(conts, k) \in Seq(Conts)
  BY <1>1, <1>t
<1>3. [depth EXCEPT ![current] = @ + 1] \in [Tasks -> Nat]
  BY <1>t
<1>4. CASE current \in Switchers
  BY <1>2, <1>3, <1>4 DEF apply_pending_task_switch, TypeOK
<1>5. CASE current \notin Switchers
  <2>1. commit_task_switch(nxt, conts, depth)
    BY <1>5 DEF apply_pending_task_switch
  <2>2. conts \in Seq(Conts) /\ depth \in [Tasks -> Nat]
    BY DEF TypeOK
  <2> QED BY <2>1, <2>2, CommitTypes
<1> QED BY <1>4, <1>5

THEOREM InitTypeOK == Init => TypeOK
<1> SUFFICES ASSUME Init PROVE TypeOK
  OBVIOUS
<1>1. conts \in Seq(Conts)
  BY DEF Init
<1>2. CtrlC \in Signals /\ {} \in Masks
  BY SignalsAssumption DEF Masks
<1> QED BY <1>1, <1>2, TasksAssumption DEF Init, TypeOK

\* A staged switch keeps others a map of states.
LEMMA StageTypes ==
    ASSUME TypeOK, NEW nxt \in Tasks, NEW s \in {"none", "ready", "blocked"}
    PROVE  stage(nxt, s) \in [Tasks -> {"none", "ready", "blocked"}]
BY DEF TypeOK, stage

LEMMA PickTypes ==
    ASSUME NEW o, NEW nxt \in pick_ready(o)
    PROVE  nxt \in Tasks /\ o[nxt] = "ready"
BY DEF pick_ready

LEMMA LoopTypes ==
    ASSUME LeaveLoop
    PROVE  trap' \in {"none", "wait", "exit"} /\ want' \in Masks
BY DEF LeaveLoop, Masks

\* Every action keeps every variable in its type.
LEMMA NextTypeOK == TypeOK /\ [Next]_vars => TypeOK'
<1> SUFFICES ASSUME TypeOK, [Next]_vars PROVE TypeOK'
  OBVIOUS
<1> USE DEF sched, loopVars
<1>a. fold_pending_host_break \in [Tasks -> Masks]
  BY FoldTypes
<1>b. ASSUME Folded PROVE recvd' \in [Tasks -> Masks] /\ hostBreak' \in BOOLEAN
  BY <1>a, <1>b DEF Folded
<1>c. \A r : Without(r) \subseteq Timers
  BY DEF Without, TypeOK
<1>1. CASE SignalCall
  <2>1. ASSUME NEW t \in Tasks, NEW sigs \in Masks, signal_handler(t, sigs) PROVE TypeOK'
    <3> DEFINE r == [fold_pending_host_break EXCEPT ![t] = @ \cup sigs]
    <3>1. r \in [Tasks -> Masks]
      BY <1>a DEF Masks
    <3>2. wake_if_signal_matches(others, t, r[t]) \in [Tasks -> {"none", "ready", "blocked"}]
      BY DEF wake_if_signal_matches, TypeOK
    <3>3. recvd' \in [Tasks -> Masks] /\ others' \in [Tasks -> {"none", "ready", "blocked"}]
          /\ hostBreak' \in BOOLEAN
      BY <2>1, <3>1, <3>2 DEF signal_handler, TypeOK
    <3> QED BY <2>1, <3>3 DEF signal_handler, TypeOK
  <2>2. ASSUME NEW t \in Tasks, signal_refused(t) PROVE TypeOK'
    BY <1>b, <2>2 DEF signal_refused, TypeOK
  <2>3. ASSUME NEW new \in Masks, NEW mask \in Masks, set_signal_handler(new, mask) PROVE TypeOK'
    <3>1. current \in Tasks
      BY DEF TypeOK
    <3>2. [fold_pending_host_break EXCEPT ![current] = (@ \ mask) \cup (new \cap mask)]
             \in [Tasks -> Masks]
      BY <1>a, <3>1 DEF Masks
    <3> QED BY <2>3, <3>2 DEF set_signal_handler, TypeOK
  <2>4. ASSUME NEW mask \in Masks, check_signal_handler(mask) PROVE TypeOK'
    <3> DEFINE r == fold_pending_host_break
               fired == {e.req : e \in Due}
    <3>1. fired \in SUBSET Reqs
      BY DueTypes
    <3>2. completed_recvd(r, fired) \in [Tasks -> Masks]
      BY <1>a, <3>1, CompletedTypes
    <3>3. completed_others(r, fired) \in [Tasks -> {"none", "ready", "blocked"}]
      BY <1>a, <3>1, CompletedTypes
    <3>4. completed_links(fired) \in [Reqs -> Nat]
      BY <1>a, <3>1, CompletedTypes
    <3>5. [completed_recvd(r, fired) EXCEPT ![current] = @ \ mask] \in [Tasks -> Masks]
      BY <3>2 DEF Masks
    <3>6. timers' \subseteq Timers
      BY <2>4 DEF check_signal_handler, TypeOK
    <3> QED BY <2>4, <3>3, <3>4, <3>5, <3>6 DEF check_signal_handler, TypeOK
  <2> QED BY <1>1, <2>1, <2>2, <2>3, <2>4 DEF SignalCall
<1>2. CASE TaskCall
  <2>1. ASSUME NEW t \in Tasks, NEW p \in Pris, create_new_proc_handler(t, p) PROVE TypeOK'
    <3>1. /\ life' \in [Tasks -> {"unborn", "alive", "dead"}]
          /\ others' \in [Tasks -> {"none", "ready", "blocked"}]
          /\ pri' \in [Tasks -> Pris]
      BY <2>1 DEF create_new_proc_handler, TypeOK
    <3> QED BY <1>b, <2>1, <3>1 DEF create_new_proc_handler, TypeOK
  <2>2. ASSUME NEW t \in Tasks, NEW p \in Pris, set_task_pri_handler(t, p) PROVE TypeOK'
    <3>1. pri' \in [Tasks -> Pris]
      BY <2>2 DEF set_task_pri_handler, TypeOK
    <3> QED BY <1>b, <2>2, <3>1 DEF set_task_pri_handler, TypeOK
  <2>3. ASSUME yield_to_ready PROVE TypeOK'
    <3>1. CASE cannot_switch
      BY <1>b, <2>3, <3>1 DEF yield_to_ready, TypeOK
    <3>2. CASE ~cannot_switch
      <4>1. PICK nxt \in pick_ready(others) :
               others' = stage(nxt, "ready") /\ apply_pending_task_switch(nxt)
        BY <2>3, <3>2 DEF yield_to_ready
      <4>2. nxt \in Tasks
        BY PickTypes
      <4>3. others' \in [Tasks -> {"none", "ready", "blocked"}]
        BY <4>1, <4>2, StageTypes
      <4> QED BY <1>b, <2>3, <4>1, <4>2, <4>3, ApplyTypes DEF yield_to_ready, TypeOK
    <3> QED BY <3>1, <3>2
  <2>4. ASSUME task_exit_stub_handler PROVE TypeOK'
    <3>1. timers' \subseteq Timers /\ trap' \in {"none", "wait", "exit"}
      BY <2>4 DEF task_exit_stub_handler, remove_owned_by, TypeOK
    <3> QED BY <1>b, <2>4, <3>1 DEF task_exit_stub_handler, TypeOK
  <2>5. ASSUME main_exit PROVE TypeOK'
    BY <2>5 DEF main_exit, TypeOK
  <2> QED BY <1>2, <2>1, <2>2, <2>3, <2>4, <2>5 DEF TaskCall
<1>3. CASE TimerCall
  <2>1. ASSUME NEW r \in Reqs, NEW d \in 0..MaxDelay, send_io_handler(r, d) PROVE TypeOK'
    <3>1. [req |-> r, left |-> d, owner |-> current] \in Timers
      BY DEF Timers, TypeOK
    <3>2. timers' \subseteq Timers /\ held' \subseteq Reqs
      BY <1>c, <2>1, <3>1 DEF send_io_handler, TypeOK
    <3> QED BY <1>b, <2>1, <3>2 DEF send_io_handler, TypeOK
  <2>2. ASSUME NEW r \in Reqs, wait_io_handler(r) PROVE TypeOK'
    <3>1. {r} \cap Pending \in SUBSET Reqs
      OBVIOUS
    <3>2. complete_timer_request(fold_pending_host_break, {r} \cap Pending)
      BY <2>2 DEF wait_io_handler
    <3>3. /\ recvd' \in [Tasks -> Masks]
          /\ others' \in [Tasks -> {"none", "ready", "blocked"}]
          /\ links' \in [Reqs -> Nat]
      BY <1>a, <3>1, <3>2, CompletionTypes
    <3>4. timers' \subseteq Timers /\ held' \subseteq Reqs
      BY <1>c, <2>2 DEF wait_io_handler, TypeOK
    <3> QED BY <2>2, <3>3, <3>4 DEF wait_io_handler, TypeOK
  <2>3. ASSUME NEW r \in Reqs, abort_io_handler(r) PROVE TypeOK'
    BY <1>b, <1>c, <2>3 DEF abort_io_handler, TypeOK
  <2>4. ASSUME NEW r \in Reqs, get_msg_handler(r) PROVE TypeOK'
    <3>1. links \in [Reqs -> Nat] /\ links[r] > 0
      BY <2>4 DEF get_msg_handler, TypeOK
    <3>2. [links EXCEPT ![r] = @ - 1] \in [Reqs -> Nat]
      BY <3>1
    <3>3. held' \subseteq Reqs
      BY <2>4 DEF get_msg_handler, TypeOK
    <3> QED BY <1>b, <2>4, <3>2, <3>3 DEF get_msg_handler, TypeOK
  <2>5. ASSUME check_io_handler PROVE TypeOK'
    <3>1. fire_due(fold_pending_host_break)
      BY <2>5 DEF check_io_handler
    <3> QED BY <1>a, <2>5, <3>1, FireDueTypes DEF check_io_handler, TypeOK
  <2> QED BY <1>3, <2>1, <2>2, <2>3, <2>4, <2>5 DEF TimerCall
<1>4. CASE Trampoline
  <2>1. ASSUME trampoline PROVE TypeOK'
    <3> DEFINE k == [kind |-> "call", owner |-> current, next |-> current]
    <3>1. k \in Conts
      BY DEF Conts, TypeOK
    <3>2. current \in Tasks /\ conts \in Seq(Conts) /\ depth \in [Tasks -> Nat]
      BY DEF TypeOK
    <3>3. Append(conts, k) \in Seq(Conts)
      BY <3>1, <3>2
    <3>4. [depth EXCEPT ![current] = @ + 1] \in [Tasks -> Nat]
      BY <3>2
    <3> QED BY <1>b, <2>1, <3>3, <3>4 DEF trampoline, TypeOK
  <2>2. ASSUME continuation_stub_handler PROVE TypeOK'
    <3> DEFINE top == conts[Len(conts)]
               d == [depth EXCEPT ![current] = @ - 1]
    <3>1. current \in Tasks /\ conts \in Seq(Conts) /\ depth \in [Tasks -> Nat]
          /\ conts # <<>> /\ depth[current] > 0
      BY <2>2 DEF continuation_stub_handler, TypeOK
    <3>2. top \in Conts /\ Popped \in Seq(Conts)
      BY <3>1 DEF Popped
    <3>3. d \in [Tasks -> Nat]
      BY <3>1
    <3>4. current' \in Tasks /\ conts' \in Seq(Conts) /\ depth' \in [Tasks -> Nat]
          /\ hookActive' \in BOOLEAN
      <4>1. CASE top.kind = "call"
        BY <2>2, <3>1, <3>2, <3>3, <4>1 DEF continuation_stub_handler, TypeOK
      <4>2. CASE top.kind = "launch"
        BY <2>2, <3>1, <3>2, <3>3, <4>2 DEF continuation_stub_handler
      <4>3. CASE top.kind = "switch"
        <5>1. top.next \in Tasks
          BY <3>2 DEF Conts
        <5>2. commit_task_switch(top.next, Popped, d)
          BY <2>2, <4>3 DEF continuation_stub_handler
        <5> QED BY <3>2, <3>3, <5>1, <5>2, CommitTypes
      <4> QED BY <3>2, <4>1, <4>2, <4>3 DEF Conts
    <3> QED BY <1>b, <2>2, <3>4 DEF continuation_stub_handler, TypeOK
  <2> QED BY <1>4, <2>1, <2>2 DEF Trampoline
<1>5. CASE Wait
  <2>1. PICK mask \in Masks : wait_handler(mask)
    BY <1>5 DEF Wait
  <2>2. fire_due(fold_pending_host_break)
    BY <2>1 DEF wait_handler
  <2> QED BY <1>a, <2>1, <2>2, FireDueTypes DEF wait_handler, TypeOK
<1>6. CASE WaitLoop
  <2>1. ASSUME wait_satisfied PROVE TypeOK'
    <3>1. /\ recvd' \in [Tasks -> Masks]
          /\ retrap' \in [Tasks -> BOOLEAN]
          /\ waitMask' \in [Tasks -> Masks]
      BY <2>1 DEF wait_satisfied, TypeOK, Masks
    <3> QED BY <2>1, <3>1, LoopTypes DEF wait_satisfied, TypeOK
  <2>2. ASSUME block_current_on_signal PROVE TypeOK'
    <3>1. PICK nxt \in pick_ready(others) :
             others' = stage(nxt, "blocked") /\ apply_pending_task_switch(nxt)
      BY <2>2 DEF block_current_on_signal
    <3>2. nxt \in Tasks
      BY PickTypes
    <3>3. others' \in [Tasks -> {"none", "ready", "blocked"}]
      BY <3>1, <3>2, StageTypes
    <3>4. waitMask' \in [Tasks -> Masks] /\ retrap' \in [Tasks -> BOOLEAN]
      BY <2>2 DEF block_current_on_signal, TypeOK
    <3> QED BY <2>2, <3>1, <3>2, <3>3, <3>4, ApplyTypes, LoopTypes
            DEF block_current_on_signal, TypeOK
  <2>3. ASSUME wait_fire_earliest PROVE TypeOK'
    BY <2>3, FireEarliestTypes DEF wait_fire_earliest, TypeOK
  <2>4. ASSUME wait_deadlock PROVE TypeOK'
    BY <2>4 DEF wait_deadlock, TypeOK
  <2> QED BY <1>6, <2>1, <2>2, <2>3, <2>4 DEF WaitLoop
<1>7. CASE ExitLoop
  <2>1. ASSUME terminate_current PROVE TypeOK'
    <3>1. PICK nxt \in pick_ready(others) :
             others' = [others EXCEPT ![nxt] = "none"] /\ apply_pending_task_switch(nxt)
      BY <2>1 DEF terminate_current
    <3>2. nxt \in Tasks
      BY PickTypes
    <3>3. /\ others' \in [Tasks -> {"none", "ready", "blocked"}]
          /\ life' \in [Tasks -> {"unborn", "alive", "dead"}]
      BY <2>1, <3>1, <3>2 DEF terminate_current, TypeOK
    <3> QED BY <2>1, <3>1, <3>2, <3>3, ApplyTypes, LoopTypes DEF terminate_current, TypeOK
  <2>2. ASSUME exit_fire_earliest PROVE TypeOK'
    BY <2>2, FireEarliestTypes DEF exit_fire_earliest, TypeOK
  <2>3. ASSUME exit_deadlock PROVE TypeOK'
    BY <2>3 DEF exit_deadlock, TypeOK
  <2> QED BY <1>7, <2>1, <2>2, <2>3 DEF ExitLoop
<1>8. CASE Host
  <2>1. ASSUME handle_host_break PROVE TypeOK'
    BY <2>1 DEF handle_host_break, TypeOK
  <2>2. ASSUME Tick PROVE TypeOK'
    <3> DEFINE aged(e) == [e EXCEPT !.left = IF @ > 0 THEN @ - 1 ELSE 0]
    <3>1. ASSUME NEW e \in timers PROVE aged(e) \in Timers
      <4>1. e \in Timers
        BY <3>1 DEF TypeOK
      <4> QED BY <4>1, BoundsAssumption DEF Timers
    <3>2. timers' \subseteq Timers
      BY <2>2, <3>1 DEF Tick
    <3> QED BY <2>2, <3>2 DEF Tick, TypeOK
  <2> QED BY <1>8, <2>1, <2>2 DEF Host
<1>9. CASE UNCHANGED vars
  BY <1>9 DEF vars, TypeOK
<1> QED BY <1>1, <1>2, <1>3, <1>4, <1>5, <1>6, <1>7, <1>8, <1>9 DEF Next

\* Every variable keeps its type in every behaviour.
THEOREM TypeCorrect == Spec => []TypeOK
<1>1. Init => TypeOK
  BY InitTypeOK
<1>2. TypeOK /\ [Next]_vars => TypeOK'
  BY NextTypeOK
<1> QED BY <1>1, <1>2, PTL DEF Spec

(***************************************************************************)
(* No task is lost, and hooks never nest.  NoTaskLost is not inductive: it *)
(* needs to know that a switch is decided only with no hook in flight      *)
(* (OneHookAtATime, which ties switch_hook_active to the continuation      *)
(* stack) and that the exit stub's loop runs outside hooks.                *)
(***************************************************************************)

\* What pushing an entry does to the slots that hold hooks.
LEMMA PushSlots ==
    ASSUME NEW ks \in Seq(Conts), NEW k \in Conts, conts' = Append(ks, k)
    PROVE  /\ DOMAIN conts' = 1..(Len(ks) + 1)
           /\ \A i \in DOMAIN ks : conts'[i] = ks[i]
           /\ conts'[Len(ks) + 1] = k
           /\ DOMAIN ks = 1..Len(ks) /\ Len(ks) \in Nat
OBVIOUS

\* A step that leaves the tasks where they are keeps the invariant.
LEMMA SameStructure ==
    ASSUME Structure, UNCHANGED <<current, hookActive, conts, life>>,
           Known' = Known, trap' = "exit" => ~hookActive
    PROVE  Structure'
<1>1. SwitchSlots' = SwitchSlots /\ HookSlots' = HookSlots /\ Alive' = Alive
  BY DEF SwitchSlots, HookSlots, Alive
<1>2. NoTaskLost'
  BY <1>1 DEF Structure, NoTaskLost
<1>3. OneHookAtATime'
  BY <1>1 DEF Structure, OneHookAtATime
<1> QED BY <1>2, <1>3 DEF Structure, ExitOutsideHook

\* With no hook in the stack below it, committing a switch to a task held
\* nowhere else re-establishes the invariant.
LEMMA CommitStructure ==
    ASSUME NEW nxt \in Tasks, NEW ks \in Seq(Conts), NEW d,
           \A i \in DOMAIN ks : ks[i].kind = "call",
           commit_task_switch(nxt, ks, d),
           nxt \in Alive' \ Known', Known' \subseteq Alive',
           Alive' \subseteq Known' \cup {nxt},
           trap' # "exit"
    PROVE  Structure'
<1> DEFINE k == [kind |-> "launch", owner |-> nxt, next |-> nxt]
<1>1. k \in Conts
  BY DEF Conts
<1>2. CASE nxt \in Launchers
  <2>1. conts' = Append(ks, k) /\ hookActive' = TRUE /\ current' = nxt
    BY <1>2 DEF commit_task_switch
  <2>2. /\ DOMAIN conts' = 1..(Len(ks) + 1)
        /\ \A i \in DOMAIN ks : conts'[i] = ks[i]
        /\ conts'[Len(ks) + 1] = k
        /\ DOMAIN ks = 1..Len(ks) /\ Len(ks) \in Nat
    BY <1>1, <2>1, PushSlots
  <2>3. HookSlots' = {Len(ks) + 1} /\ SwitchSlots' = {}
    BY <2>2 DEF HookSlots, SwitchSlots, IsHook
  <2> QED BY <2>1, <2>2, <2>3 DEF Structure, NoTaskLost, OneHookAtATime, ExitOutsideHook
<1>3. CASE nxt \notin Launchers
  <2>1. conts' = ks /\ hookActive' = FALSE /\ current' = nxt
    BY <1>3 DEF commit_task_switch
  <2>2. HookSlots' = {} /\ SwitchSlots' = {}
    BY <2>1 DEF HookSlots, SwitchSlots, IsHook
  <2> QED BY <2>1, <2>2 DEF Structure, NoTaskLost, OneHookAtATime, ExitOutsideHook
<1> QED BY <1>2, <1>3

\* A switch decided outside hooks moves the incoming task out of others,
\* and the outgoing one into it exactly if it stays alive.
LEMMA ApplyStructure ==
    ASSUME TypeOK, Structure, ~hookActive,
           NEW nxt \in Known, apply_pending_task_switch(nxt),
           Known' \ {current} = Known \ {nxt},
           Alive' \ {current} = Alive \ {current},
           current \in Alive' <=> current \in Known',
           trap' # "exit"
    PROVE  Structure'
<1>1. HookSlots = {} /\ SwitchSlots = {}
  BY DEF Structure, OneHookAtATime, HookSlots, SwitchSlots, IsHook
<1>2. /\ current \in Alive \ Known
      /\ Known \subseteq Alive /\ Alive \subseteq Known \cup {current}
  BY <1>1 DEF Structure, NoTaskLost
<1>3. /\ nxt # current /\ nxt \in Tasks
      /\ nxt \in Alive' \ Known' /\ Known' \subseteq Alive'
      /\ Alive' \subseteq Known' \cup {nxt}
  BY <1>2 DEF Known
<1>4. conts \in Seq(Conts) /\ current \in Tasks
  BY DEF TypeOK
<1>5. \A i \in DOMAIN conts : conts[i].kind = "call"
  <2>1. \A i \in DOMAIN conts : conts[i] \in Conts
    BY <1>4
  <2> QED BY <1>1, <2>1 DEF HookSlots, IsHook, Conts
<1>6. CASE current \in Switchers
  <2> DEFINE k == [kind |-> "switch", owner |-> current, next |-> nxt]
  <2>1. conts' = Append(conts, k) /\ hookActive' = TRUE /\ current' = current
    BY <1>6 DEF apply_pending_task_switch
  <2>2. k \in Conts
    BY <1>3, <1>4 DEF Conts
  <2>3. /\ DOMAIN conts' = 1..(Len(conts) + 1)
        /\ \A i \in DOMAIN conts : conts'[i] = conts[i]
        /\ conts'[Len(conts) + 1] = k
        /\ DOMAIN conts = 1..Len(conts) /\ Len(conts) \in Nat
    BY <1>4, <2>1, <2>2, PushSlots
  <2>4. HookSlots' = {Len(conts) + 1} /\ SwitchSlots' = {Len(conts) + 1}
    BY <1>5, <2>3 DEF HookSlots, SwitchSlots, IsHook
  <2>5. NoTaskLost'
    <3>1. {conts[i].next : i \in SwitchSlots}' = {nxt}
      BY <2>3, <2>4
    <3> QED BY <1>3, <2>1, <2>4, <3>1 DEF NoTaskLost
  <2>6. OneHookAtATime'
    BY <2>1, <2>3, <2>4 DEF OneHookAtATime
  <2> QED BY <2>5, <2>6 DEF Structure, ExitOutsideHook
<1>7. CASE current \notin Switchers
  <2>1. commit_task_switch(nxt, conts, depth)
    BY <1>7 DEF apply_pending_task_switch
  <2> QED BY <1>3, <1>4, <1>5, <2>1, CommitStructure
<1> QED BY <1>6, <1>7

\* A switch that keeps the outgoing task: a blocking Wait or a yield.
LEMMA StageStructure ==
    ASSUME TypeOK, Structure, ~hookActive, UNCHANGED life, trap' # "exit",
           NEW nxt \in pick_ready(others), NEW s \in {"ready", "blocked"},
           others' = stage(nxt, s), apply_pending_task_switch(nxt)
    PROVE  Structure'
<1>1. nxt \in Known
  BY PickTypes DEF Known
<1>2. current \in Alive \ Known
  BY DEF Structure, OneHookAtATime, NoTaskLost, SwitchSlots, HookSlots, IsHook
<1>3. nxt # current
  BY <1>1, <1>2
<1>4. Known' = (Known \ {nxt}) \cup {current}
  BY <1>1, <1>3 DEF stage, Known, TypeOK
<1>5. Alive' = Alive
  BY DEF Alive
<1>6. Known' \ {current} = Known \ {nxt} /\ current \in Known' /\ current \in Alive'
  BY <1>2, <1>4, <1>5
<1> QED BY <1>1, <1>5, <1>6, ApplyStructure

\* Completing requests only ever makes blocked tasks Ready.
LEMMA CompletionKnown ==
    ASSUME TypeOK, NEW base, NEW rs, others' = completed_others(base, rs)
    PROVE  Known' = Known
<1>1. ASSUME NEW t \in Tasks PROVE others'[t] # "none" <=> others[t] # "none"
  BY DEF completed_others
<1> QED BY <1>1 DEF Known

\* A prefix of a sequence.
LEMMA FrontProperties ==
    ASSUME NEW S, NEW s \in Seq(S), NEW n \in Nat, n <= Len(s)
    PROVE  /\ SubSeq(s, 1, n) \in Seq(S)
           /\ Len(SubSeq(s, 1, n)) = n
           /\ \A i \in 1..n : SubSeq(s, 1, n)[i] = s[i]
<1>1. \A i \in 1..n : s[i] \in S
  OBVIOUS
<1>2. 1 \in Int /\ n \in Int
  OBVIOUS
<1>3. /\ SubSeq(s, 1, n) \in Seq(S)
      /\ Len(SubSeq(s, 1, n)) = IF 1 <= n THEN n - 1 + 1 ELSE 0
      /\ \A i \in 1..(n - 1 + 1) : SubSeq(s, 1, n)[i] = s[1 + i - 1]
  BY <1>1, <1>2, SubSeqProperties
<1>4. Len(SubSeq(s, 1, n)) = n
  BY <1>3
<1>5. \A i \in 1..n : SubSeq(s, 1, n)[i] = s[i]
  BY <1>3
<1> QED BY <1>3, <1>4, <1>5

\* A popped continuation leaves the entries below it alone.
LEMMA PopSlots ==
    ASSUME TypeOK, conts # <<>>
    PROVE  /\ Len(conts) \in Nat /\ Len(conts) > 0
           /\ DOMAIN conts = 1..Len(conts)
           /\ Popped \in Seq(Conts)
           /\ DOMAIN Popped = 1..(Len(conts) - 1)
           /\ \A i \in DOMAIN Popped : Popped[i] = conts[i]
           /\ \A i \in DOMAIN conts : conts[i] \in Conts
<1>1. conts \in Seq(Conts)
  BY DEF TypeOK
<1>2. Len(conts) \in Nat /\ Len(conts) > 0
  BY <1>1
<1>3. Len(conts) - 1 \in Nat /\ Len(conts) - 1 <= Len(conts)
  BY <1>2
<1>4. /\ Popped \in Seq(Conts)
      /\ Len(Popped) = Len(conts) - 1
      /\ \A i \in 1..(Len(conts) - 1) : Popped[i] = conts[i]
  BY <1>1, <1>3, FrontProperties DEF Popped
<1> QED BY <1>1, <1>2, <1>4

LEMMA ReturnStructure ==
    ASSUME TypeOK, Structure, continuation_stub_handler
    PROVE  Structure'
<1> DEFINE top == conts[Len(conts)]
           d == [depth EXCEPT ![current] = @ - 1]
<1>1. /\ Len(conts) \in Nat /\ Len(conts) > 0
      /\ DOMAIN conts = 1..Len(conts)
      /\ Popped \in Seq(Conts)
      /\ DOMAIN Popped = 1..(Len(conts) - 1)
      /\ \A i \in DOMAIN Popped : Popped[i] = conts[i]
      /\ \A i \in DOMAIN conts : conts[i] \in Conts
  BY PopSlots DEF continuation_stub_handler
<1>2. trap' = "none" /\ Alive' = Alive /\ Known' = Known /\ others' = others
  BY DEF continuation_stub_handler, Calling, loopVars, Alive, Known
<1>3. CASE top.kind = "call"
  <2>1. conts' = Popped /\ current' = current /\ hookActive' = hookActive
    BY <1>3 DEF continuation_stub_handler
  <2>2. HookSlots' = HookSlots /\ SwitchSlots' = SwitchSlots
    BY <1>1, <1>3, <2>1 DEF HookSlots, SwitchSlots, IsHook
  <2>3. \A i \in HookSlots : conts'[i] = conts[i]
    BY <1>1, <1>3, <2>1 DEF HookSlots, IsHook
  <2>4. SwitchSlots \subseteq HookSlots
    BY DEF HookSlots, SwitchSlots, IsHook
  <2>5. {conts[i].next : i \in SwitchSlots}' = {conts[i].next : i \in SwitchSlots}
    BY <2>2, <2>3, <2>4
  <2>6. NoTaskLost'
    BY <1>2, <2>1, <2>2, <2>5 DEF Structure, NoTaskLost
  <2>7. OneHookAtATime'
    BY <2>1, <2>2, <2>3 DEF Structure, OneHookAtATime
  <2> QED BY <1>2, <2>6, <2>7 DEF Structure, ExitOutsideHook
<1>4. CASE top.kind = "launch"
  <2>1. conts' = Popped /\ current' = current /\ hookActive' = FALSE
    BY <1>4 DEF continuation_stub_handler
  <2>2. Len(conts) \in HookSlots
    BY <1>1, <1>4 DEF HookSlots, IsHook
  <2>3. HookSlots = {Len(conts)}
    BY <2>2 DEF Structure, OneHookAtATime
  <2>4. HookSlots' = {} /\ SwitchSlots' = {} /\ SwitchSlots = {}
    BY <1>1, <1>4, <2>1, <2>3 DEF HookSlots, SwitchSlots, IsHook
  <2>5. NoTaskLost'
    BY <1>2, <2>1, <2>4 DEF Structure, NoTaskLost
  <2> QED BY <1>2, <2>1, <2>4, <2>5 DEF Structure, OneHookAtATime, ExitOutsideHook
<1>5. CASE top.kind = "switch"
  <2>1. commit_task_switch(top.next, Popped, d)
    BY <1>5 DEF continuation_stub_handler
  <2>2. Len(conts) \in HookSlots /\ Len(conts) \in SwitchSlots
    BY <1>1, <1>5 DEF HookSlots, SwitchSlots, IsHook
  <2>3. HookSlots = {Len(conts)} /\ SwitchSlots = {Len(conts)}
    BY <2>2 DEF Structure, OneHookAtATime, HookSlots, SwitchSlots, IsHook
  <2>4. {conts[i].next : i \in SwitchSlots} = {top.next}
    BY <2>3
  <2>5. \A i \in DOMAIN Popped : Popped[i].kind = "call"
    BY <1>1, <2>3 DEF HookSlots, IsHook, Conts
  <2>6. top.next \in Tasks
    BY <1>1 DEF Conts
  <2>7. /\ top.next \in Alive' \ Known' /\ Known' \subseteq Alive'
        /\ Alive' \subseteq Known' \cup {top.next}
    BY <1>2, <2>2, <2>4 DEF Structure, NoTaskLost
  <2> HIDE DEF top, d
  <2> QED BY <1>1, <1>2, <2>1, <2>5, <2>6, <2>7, CommitStructure
<1> QED BY <1>1, <1>3, <1>4, <1>5 DEF Conts

LEMMA NextStructure == TypeOK /\ Structure /\ [Next]_vars => Structure'
<1> SUFFICES ASSUME TypeOK, Structure, [Next]_vars PROVE Structure'
  OBVIOUS
<1> USE DEF sched, loopVars
<1>1. CASE SignalCall
  <2>1. ASSUME NEW t \in Tasks, NEW sigs \in Masks, signal_handler(t, sigs) PROVE Structure'
    <3>1. Known' = Known
      BY <2>1 DEF signal_handler, wake_if_signal_matches, Known, TypeOK
    <3> QED BY <2>1, <3>1, SameStructure DEF signal_handler, Calling
  <2>2. ASSUME NEW t \in Tasks, signal_refused(t) PROVE Structure'
    <3>1. Known' = Known
      BY <2>2 DEF signal_refused, Known
    <3> QED BY <2>2, <3>1, SameStructure DEF signal_refused, Calling
  <2>3. ASSUME NEW new \in Masks, NEW mask \in Masks, set_signal_handler(new, mask) PROVE Structure'
    <3>1. Known' = Known
      BY <2>3 DEF set_signal_handler, Known
    <3> QED BY <2>3, <3>1, SameStructure DEF set_signal_handler, Calling
  <2>4. ASSUME NEW mask \in Masks, check_signal_handler(mask) PROVE Structure'
    <3>1. Known' = Known
      BY <2>4, CompletionKnown DEF check_signal_handler
    <3> QED BY <2>4, <3>1, SameStructure DEF check_signal_handler, Calling
  <2> QED BY <1>1, <2>1, <2>2, <2>3, <2>4 DEF SignalCall
<1>2. CASE TaskCall
  <2>1. ASSUME NEW t \in Tasks, NEW p \in Pris, create_new_proc_handler(t, p) PROVE Structure'
    <3>1. t \notin Alive /\ Known' = Known \cup {t} /\ Alive' = Alive \cup {t}
      BY <2>1 DEF create_new_proc_handler, Known, Alive, TypeOK
    <3>2. /\ SwitchSlots' = SwitchSlots /\ HookSlots' = HookSlots
          /\ UNCHANGED <<current, hookActive, conts>> /\ trap' = "none"
      BY <2>1 DEF create_new_proc_handler, SwitchSlots, HookSlots, Calling
    <3>3. NoTaskLost'
      BY <3>1, <3>2 DEF Structure, NoTaskLost
    <3> QED BY <3>2, <3>3 DEF Structure, OneHookAtATime, ExitOutsideHook
  <2>2. ASSUME NEW t \in Tasks, NEW p \in Pris, set_task_pri_handler(t, p) PROVE Structure'
    <3>1. Known' = Known
      BY <2>2 DEF set_task_pri_handler, Known
    <3> QED BY <2>2, <3>1, SameStructure DEF set_task_pri_handler, Calling
  <2>3. ASSUME yield_to_ready PROVE Structure'
    <3>0. life' = life /\ trap' = "none"
      BY <2>3 DEF yield_to_ready, Calling
    <3>1. CASE cannot_switch
      <4>1. UNCHANGED sched
        BY <2>3, <3>1 DEF yield_to_ready
      <4>2. Known' = Known
        BY <4>1 DEF Known
      <4> QED BY <3>0, <4>1, <4>2, SameStructure
    <3>2. CASE ~cannot_switch
      <4>1. PICK nxt \in pick_ready(others) :
               others' = stage(nxt, "ready") /\ apply_pending_task_switch(nxt)
        BY <2>3, <3>2 DEF yield_to_ready
      <4> QED BY <3>0, <3>2, <4>1, StageStructure DEF cannot_switch
    <3> QED BY <3>1, <3>2
  <2>4. ASSUME task_exit_stub_handler PROVE Structure'
    <3>1. Known' = Known
      BY <2>4 DEF task_exit_stub_handler, Known
    <3> QED BY <2>4, <3>1, SameStructure DEF task_exit_stub_handler
  <2>5. ASSUME main_exit PROVE Structure'
    <3>1. Known' = Known
      BY <2>5 DEF main_exit, Known
    <3> QED BY <2>5, <3>1, SameStructure DEF main_exit, Calling
  <2> QED BY <1>2, <2>1, <2>2, <2>3, <2>4, <2>5 DEF TaskCall
<1>3. CASE TimerCall
  <2>1. ASSUME NEW r \in Reqs, NEW d \in 0..MaxDelay, send_io_handler(r, d) PROVE Structure'
    <3>1. Known' = Known
      BY <2>1 DEF send_io_handler, Known
    <3> QED BY <2>1, <3>1, SameStructure DEF send_io_handler, Calling
  <2>2. ASSUME NEW r \in Reqs, wait_io_handler(r) PROVE Structure'
    <3>1. Known' = Known
      BY <2>2, CompletionKnown DEF wait_io_handler, complete_timer_request
    <3> QED BY <2>2, <3>1, SameStructure DEF wait_io_handler, Calling
  <2>3. ASSUME NEW r \in Reqs, abort_io_handler(r) PROVE Structure'
    <3>1. Known' = Known
      BY <2>3 DEF abort_io_handler, Known
    <3> QED BY <2>3, <3>1, SameStructure DEF abort_io_handler, Calling
  <2>4. ASSUME NEW r \in Reqs, get_msg_handler(r) PROVE Structure'
    <3>1. Known' = Known
      BY <2>4 DEF get_msg_handler, Known
    <3> QED BY <2>4, <3>1, SameStructure DEF get_msg_handler, Calling
  <2>5. ASSUME check_io_handler PROVE Structure'
    <3>1. Known' = Known
      BY <2>5, CompletionKnown DEF check_io_handler, fire_due, complete_timer_request
    <3> QED BY <2>5, <3>1, SameStructure DEF check_io_handler, Calling
  <2> QED BY <1>3, <2>1, <2>2, <2>3, <2>4, <2>5 DEF TimerCall
<1>4. CASE Trampoline
  <2>1. ASSUME trampoline PROVE Structure'
    <3> DEFINE k == [kind |-> "call", owner |-> current, next |-> current]
    <3>1. k \in Conts /\ conts \in Seq(Conts)
      BY DEF Conts, TypeOK
    <3>2. /\ conts' = Append(conts, k) /\ UNCHANGED <<current, hookActive>>
          /\ trap' = "none" /\ Alive' = Alive /\ Known' = Known
      BY <2>1 DEF trampoline, Calling, Alive, Known
    <3>3. /\ DOMAIN conts' = 1..(Len(conts) + 1)
          /\ \A i \in DOMAIN conts : conts'[i] = conts[i]
          /\ conts'[Len(conts) + 1] = k
          /\ DOMAIN conts = 1..Len(conts) /\ Len(conts) \in Nat
      BY <3>1, <3>2, PushSlots
    <3>4. HookSlots' = HookSlots /\ SwitchSlots' = SwitchSlots
      BY <3>3 DEF HookSlots, SwitchSlots, IsHook
    <3>5. {conts[i].next : i \in SwitchSlots}' = {conts[i].next : i \in SwitchSlots}
      BY <3>3, <3>4 DEF SwitchSlots
    <3>6. NoTaskLost'
      BY <3>2, <3>4, <3>5 DEF Structure, NoTaskLost
    <3>7. OneHookAtATime'
      BY <3>2, <3>3, <3>4 DEF Structure, OneHookAtATime, HookSlots
    <3> QED BY <3>2, <3>6, <3>7 DEF Structure, ExitOutsideHook
  <2>2. ASSUME continuation_stub_handler PROVE Structure'
    BY <2>2, ReturnStructure
  <2> QED BY <1>4, <2>1, <2>2 DEF Trampoline
<1>5. CASE Wait
  <2>1. PICK mask \in Masks : wait_handler(mask)
    BY <1>5 DEF Wait
  <2>2. Known' = Known
    BY <2>1, CompletionKnown DEF wait_handler, fire_due, complete_timer_request
  <2> QED BY <2>1, <2>2, SameStructure DEF wait_handler
<1>6. CASE WaitLoop
  <2>1. ASSUME wait_satisfied PROVE Structure'
    <3>1. Known' = Known
      BY <2>1 DEF wait_satisfied, Known
    <3> QED BY <2>1, <3>1, SameStructure DEF wait_satisfied, LeaveLoop
  <2>2. ASSUME block_current_on_signal PROVE Structure'
    <3>1. PICK nxt \in pick_ready(others) :
             others' = stage(nxt, "blocked") /\ apply_pending_task_switch(nxt)
      BY <2>2 DEF block_current_on_signal
    <3> QED BY <2>2, <3>1, StageStructure DEF block_current_on_signal, cannot_switch, LeaveLoop
  <2>3. ASSUME wait_fire_earliest PROVE Structure'
    <3>1. Known' = Known
      BY <2>3, CompletionKnown DEF wait_fire_earliest, fire_earliest, complete_timer_request
    <3> QED BY <2>3, <3>1, SameStructure DEF wait_fire_earliest, InWait
  <2>4. ASSUME wait_deadlock PROVE Structure'
    <3>1. Known' = Known
      BY <2>4 DEF wait_deadlock, Known
    <3> QED BY <2>4, <3>1, SameStructure DEF wait_deadlock, InWait
  <2> QED BY <1>6, <2>1, <2>2, <2>3, <2>4 DEF WaitLoop
<1>7. CASE ExitLoop
  <2>1. ASSUME terminate_current PROVE Structure'
    <3>1. PICK nxt \in pick_ready(others) :
             others' = [others EXCEPT ![nxt] = "none"] /\ apply_pending_task_switch(nxt)
      BY <2>1 DEF terminate_current
    <3>2. nxt \in Known /\ Known' = Known \ {nxt}
      BY <3>1, PickTypes DEF Known, TypeOK
    <3>3. ~hookActive /\ trap' # "exit"
      BY <2>1 DEF terminate_current, cannot_switch, LeaveLoop
    <3>4. current \notin Alive' /\ Alive' \ {current} = Alive \ {current}
      BY <2>1 DEF terminate_current, Alive, TypeOK
    <3>5. current \notin Known
      BY <3>3 DEF Structure, OneHookAtATime, NoTaskLost, SwitchSlots, HookSlots, IsHook
    <3>6. Known' \ {current} = Known \ {nxt} /\ current \notin Known'
      BY <3>2, <3>5
    <3> QED BY <3>1, <3>2, <3>3, <3>4, <3>6, ApplyStructure
  <2>2. ASSUME exit_fire_earliest PROVE Structure'
    <3>1. Known' = Known
      BY <2>2, CompletionKnown DEF exit_fire_earliest, fire_earliest, complete_timer_request
    <3> QED BY <2>2, <3>1, SameStructure DEF exit_fire_earliest, InExit, Structure, ExitOutsideHook
  <2>3. ASSUME exit_deadlock PROVE Structure'
    <3>1. Known' = Known
      BY <2>3 DEF exit_deadlock, Known
    <3> QED BY <2>3, <3>1, SameStructure DEF exit_deadlock, Structure, ExitOutsideHook
  <2> QED BY <1>7, <2>1, <2>2, <2>3 DEF ExitLoop
<1>8. CASE Host
  <2>1. Known' = Known
    BY <1>8 DEF Host, handle_host_break, Tick, Known
  <2> QED BY <1>8, <2>1, SameStructure
          DEF Host, handle_host_break, Tick, Structure, ExitOutsideHook
<1>9. CASE UNCHANGED vars
  <2>1. Known' = Known
    BY <1>9 DEF vars, Known
  <2> QED BY <1>9, <2>1, SameStructure DEF vars, Structure, ExitOutsideHook
<1> QED BY <1>1, <1>2, <1>3, <1>4, <1>5, <1>6, <1>7, <1>8, <1>9 DEF Next

LEMMA InitStructure == Init => Structure
<1> SUFFICES ASSUME Init PROVE Structure
  OBVIOUS
<1>1. DOMAIN conts = {}
  BY DEF Init
<1>2. SwitchSlots = {} /\ HookSlots = {}
  BY <1>1 DEF SwitchSlots, HookSlots
<1>3. Known = {} /\ Alive = {Main} /\ current = Main
  BY TasksAssumption DEF Init, Known, Alive
<1> QED BY <1>2, <1>3 DEF Init, Structure, NoTaskLost, OneHookAtATime, ExitOutsideHook

THEOREM StructureInvariant == Spec => []Structure
<1>1. Init => TypeOK /\ Structure
  BY InitTypeOK, InitStructure
<1>2. TypeOK /\ Structure /\ [Next]_vars => TypeOK' /\ Structure'
  BY NextTypeOK, NextStructure
<1> QED BY <1>1, <1>2, PTL DEF Spec

\* No switch, exit or hook ever loses or duplicates a task.
THEOREM TasksNeverLost == Spec => []NoTaskLost
<1>1. Structure => NoTaskLost
  BY DEF Structure
<1> QED BY <1>1, StructureInvariant, PTL

\* tc_Switch and tc_Launch are never re-entered.
THEOREM HooksNeverNest == Spec => []OneHookAtATime
<1>1. Structure => OneHookAtATime
  BY DEF Structure
<1> QED BY <1>1, StructureInvariant, PTL

(***************************************************************************)
(* Tasks without a tc_Switch.  A switch hook runs between the decision to  *)
(* switch and the switch itself, and what arrives meanwhile for the        *)
(* outgoing task is lost (the run of DeadlockIsReal with a tc_Switch); the *)
(* theorems below are about programs that set none.                        *)
(***************************************************************************)

\* Only a task with a tc_Switch has a tc_Switch running.
SwitchOwners == \A i \in SwitchSlots : conts[i].owner \in Switchers

\* Every way a step can move the CPU or the continuation stack.
LEMMA SchedSteps ==
    [Next]_vars =>
        \/ UNCHANGED <<current, hookActive, conts, depth>>
        \/ ~cannot_switch /\ \E nxt \in pick_ready(others) : apply_pending_task_switch(nxt)
        \/ trampoline
        \/ continuation_stub_handler
<1> SUFFICES ASSUME [Next]_vars
             PROVE  \/ UNCHANGED <<current, hookActive, conts, depth>>
                    \/ /\ ~cannot_switch
                       /\ \E nxt \in pick_ready(others) : apply_pending_task_switch(nxt)
                    \/ trampoline
                    \/ continuation_stub_handler
  OBVIOUS
<1> USE DEF sched, loopVars
<1>1. CASE SignalCall
  BY <1>1 DEF SignalCall, signal_handler, signal_refused, set_signal_handler, check_signal_handler
<1>2. CASE TaskCall
  BY <1>2 DEF TaskCall, create_new_proc_handler, set_task_pri_handler, yield_to_ready,
              task_exit_stub_handler, main_exit
<1>3. CASE TimerCall
  BY <1>3 DEF TimerCall, send_io_handler, wait_io_handler, abort_io_handler, get_msg_handler,
              check_io_handler
<1>4. CASE Trampoline
  BY <1>4 DEF Trampoline
<1>5. CASE Wait
  BY <1>5 DEF Wait, wait_handler
<1>6. CASE WaitLoop
  BY <1>6 DEF WaitLoop, wait_satisfied, block_current_on_signal, wait_fire_earliest, wait_deadlock
<1>7. CASE ExitLoop
  BY <1>7 DEF ExitLoop, terminate_current, exit_fire_earliest, exit_deadlock
<1>8. CASE Host
  BY <1>8 DEF Host, handle_host_break, Tick
<1>9. CASE UNCHANGED vars
  BY <1>9 DEF vars
<1> QED BY <1>1, <1>2, <1>3, <1>4, <1>5, <1>6, <1>7, <1>8, <1>9 DEF Next

\* Committing a switch pushes no tc_Switch.
LEMMA CommitOwners ==
    ASSUME NEW nxt \in Tasks, NEW ks \in Seq(Conts), NEW d,
           \A i \in DOMAIN ks : ks[i].kind = "switch" => ks[i].owner \in Switchers,
           commit_task_switch(nxt, ks, d)
    PROVE  SwitchOwners'
<1> DEFINE k == [kind |-> "launch", owner |-> nxt, next |-> nxt]
<1>1. k \in Conts
  BY DEF Conts
<1>2. CASE nxt \in Launchers
  <2>1. conts' = Append(ks, k)
    BY <1>2 DEF commit_task_switch
  <2>2. /\ DOMAIN conts' = 1..(Len(ks) + 1)
        /\ \A i \in DOMAIN ks : conts'[i] = ks[i]
        /\ conts'[Len(ks) + 1] = k
        /\ DOMAIN ks = 1..Len(ks) /\ Len(ks) \in Nat
    BY <1>1, <2>1, PushSlots
  <2> QED BY <2>2 DEF SwitchOwners, SwitchSlots
<1>3. CASE nxt \notin Launchers
  BY <1>3 DEF commit_task_switch, SwitchOwners, SwitchSlots
<1> QED BY <1>2, <1>3

LEMMA NextSwitchOwners == TypeOK /\ SwitchOwners /\ [Next]_vars => SwitchOwners'
<1> SUFFICES ASSUME TypeOK, SwitchOwners, [Next]_vars PROVE SwitchOwners'
  OBVIOUS
<1>1. \A i \in DOMAIN conts : conts[i].kind = "switch" => conts[i].owner \in Switchers
  BY DEF SwitchOwners, SwitchSlots
<1>2. conts \in Seq(Conts) /\ current \in Tasks
  BY DEF TypeOK
<1>3. CASE UNCHANGED <<current, hookActive, conts, depth>>
  BY <1>3 DEF SwitchOwners, SwitchSlots
<1>4. ASSUME NEW nxt \in pick_ready(others), apply_pending_task_switch(nxt) PROVE SwitchOwners'
  <2>1. nxt \in Tasks
    BY PickTypes
  <2>2. CASE current \in Switchers
    <3> DEFINE k == [kind |-> "switch", owner |-> current, next |-> nxt]
    <3>1. k \in Conts /\ conts' = Append(conts, k)
      BY <1>2, <1>4, <2>1, <2>2 DEF Conts, apply_pending_task_switch
    <3>2. /\ DOMAIN conts' = 1..(Len(conts) + 1)
          /\ \A i \in DOMAIN conts : conts'[i] = conts[i]
          /\ conts'[Len(conts) + 1] = k
          /\ DOMAIN conts = 1..Len(conts) /\ Len(conts) \in Nat
      BY <1>2, <3>1, PushSlots
    <3> QED BY <1>1, <2>2, <3>2 DEF SwitchOwners, SwitchSlots
  <2>3. CASE current \notin Switchers
    <3>1. commit_task_switch(nxt, conts, depth)
      BY <1>4, <2>3 DEF apply_pending_task_switch
    <3> QED BY <1>1, <1>2, <2>1, <3>1, CommitOwners
  <2> QED BY <2>2, <2>3
<1>5. CASE trampoline
  <2> DEFINE k == [kind |-> "call", owner |-> current, next |-> current]
  <2>1. k \in Conts /\ conts' = Append(conts, k)
    BY <1>2, <1>5 DEF Conts, trampoline
  <2>2. /\ DOMAIN conts' = 1..(Len(conts) + 1)
        /\ \A i \in DOMAIN conts : conts'[i] = conts[i]
        /\ conts'[Len(conts) + 1] = k
        /\ DOMAIN conts = 1..Len(conts) /\ Len(conts) \in Nat
    BY <1>2, <2>1, PushSlots
  <2> QED BY <1>1, <2>2 DEF SwitchOwners, SwitchSlots
<1>6. CASE continuation_stub_handler
  <2> DEFINE top == conts[Len(conts)]
             d == [depth EXCEPT ![current] = @ - 1]
  <2>1. /\ Popped \in Seq(Conts)
        /\ DOMAIN Popped = 1..(Len(conts) - 1)
        /\ DOMAIN conts = 1..Len(conts)
        /\ Len(conts) \in Nat /\ Len(conts) > 0
        /\ \A i \in DOMAIN Popped : Popped[i] = conts[i]
        /\ \A i \in DOMAIN conts : conts[i] \in Conts
    BY <1>6, PopSlots DEF continuation_stub_handler
  <2>2. \A i \in DOMAIN Popped : Popped[i].kind = "switch" => Popped[i].owner \in Switchers
    BY <1>1, <2>1
  <2>3. CASE top.kind # "switch"
    <3>1. conts' = Popped
      BY <1>6, <2>3 DEF continuation_stub_handler
    <3> QED BY <2>2, <3>1 DEF SwitchOwners, SwitchSlots
  <2>4. CASE top.kind = "switch"
    <3>1. commit_task_switch(top.next, Popped, d) /\ top.next \in Tasks
      BY <1>6, <2>1, <2>4 DEF continuation_stub_handler, Conts
    <3> HIDE DEF top, d
    <3> QED BY <2>1, <2>2, <3>1, CommitOwners
  <2> QED BY <2>3, <2>4
<1> QED BY <1>3, <1>4, <1>5, <1>6, SchedSteps

LEMMA InitSwitchOwners == Init => SwitchOwners
<1> SUFFICES ASSUME Init PROVE SwitchOwners
  OBVIOUS
<1>1. DOMAIN conts = {}
  BY DEF Init
<1> QED BY <1>1 DEF SwitchOwners, SwitchSlots

\* With no tc_Switch the running task is alive and nowhere else, and every
\* other live task is held by the scheduler.
LEMMA CurrentAlive ==
    ASSUME Switchers = {}, Structure, SwitchOwners
    PROVE  /\ current \in Alive \ Known
           /\ Known \subseteq Alive
           /\ Alive \subseteq Known \cup {current}
<1>1. SwitchSlots = {}
  BY DEF SwitchOwners
<1> QED BY <1>1 DEF Structure, NoTaskLost

(***************************************************************************)
(* Wakeups.  WakeupsExact is not inductive: it needs that only a task      *)
(* suspended in Wait is blocked, and that a task not created yet has no    *)
(* Wait to resume.                                                         *)
(***************************************************************************)

Suspended ==
    /\ \A t \in Tasks : life[t] = "unborn" => ~retrap[t]
    /\ \A t \in Tasks : others[t] = "blocked" => retrap[t]

WaitsRight == WakeupsExact /\ Suspended

\* A step that changes nothing but the running task's own signals and Wait.
LEMMA OwnWaits ==
    ASSUME TypeOK, WaitsRight, current \in Alive \ Known,
           UNCHANGED <<others, life>>,
           \A t \in Tasks \ {current} : /\ recvd'[t] = recvd[t]
                                        /\ waitMask'[t] = waitMask[t]
                                        /\ retrap'[t] = retrap[t]
    PROVE  WaitsRight'
<1>1. Known' = Known /\ Known \subseteq Tasks
  BY DEF Known
<1>2. WakeupsExact'
  BY <1>1 DEF WaitsRight, WakeupsExact
<1>3. Suspended'
  BY DEF WaitsRight, Suspended, Alive, Known
<1> QED BY <1>2, <1>3 DEF WaitsRight

\* Completed requests wake exactly the tasks whose signals they send.
LEMMA CompletedWaits ==
    ASSUME TypeOK, WaitsRight, current \in Alive \ Known,
           NEW base, NEW rs,
           \A t \in Tasks \ {current} : base[t] = recvd[t],
           others' = completed_others(base, rs),
           \A t \in Tasks \ {current} : recvd'[t] = completed_recvd(base, rs)[t],
           UNCHANGED <<life, waitMask, retrap>>
    PROVE  WaitsRight'
<1>1. Known' = Known
  BY CompletionKnown
<1>2. ASSUME NEW t \in Known, retrap[t]
      PROVE  others'[t] = "blocked" <=> recvd'[t] \cap waitMask[t] = {}
  <2>1. t \in Tasks /\ t # current
    BY DEF Known
  <2>2. others[t] = "blocked" <=> recvd[t] \cap waitMask[t] = {}
    BY <1>2 DEF WaitsRight, WakeupsExact
  <2>3. others[t] \in {"ready", "blocked"}
    BY <2>1 DEF Known, TypeOK
  <2>4. recvd'[t] = recvd[t] \cup {SigBit[r] : r \in Notifies(t, rs)}
    BY <2>1 DEF completed_recvd
  <2>5. recvd'[t] = completed_recvd(base, rs)[t]
    BY <2>1
  <2>6. others'[t] = IF /\ others[t] = "blocked" /\ Notifies(t, rs) # {}
                        /\ recvd'[t] \cap waitMask[t] # {}
                     THEN "ready" ELSE others[t]
    BY <2>1, <2>5 DEF completed_others
  <2>7. CASE Notifies(t, rs) = {}
    <3>1. recvd'[t] = recvd[t]
      BY <2>4, <2>7
    <3> QED BY <2>2, <2>6, <2>7, <3>1
  <2>8. CASE Notifies(t, rs) # {}
    <3>1. recvd[t] \subseteq recvd'[t]
      BY <2>4
    <3> QED BY <2>2, <2>3, <2>6, <2>8, <3>1
  <2> QED BY <2>7, <2>8
<1>3. WakeupsExact'
  BY <1>1, <1>2 DEF WakeupsExact
<1>4. \A t \in Tasks : others'[t] = "blocked" => others[t] = "blocked"
  BY DEF completed_others
<1>5. Suspended'
  BY <1>4 DEF WaitsRight, Suspended
<1> QED BY <1>3, <1>5 DEF WaitsRight

\* A switch puts the outgoing task away Ready if it waits for nothing, and
\* blocked if what it waits for has not come.
LEMMA StagedWaits ==
    ASSUME TypeOK, WaitsRight, current \in Alive \ Known,
           NEW nxt \in Known, NEW s \in {"ready", "blocked"},
           others' = stage(nxt, s),
           UNCHANGED life,
           \A t \in Tasks \ {current} : /\ recvd'[t] = recvd[t]
                                        /\ waitMask'[t] = waitMask[t]
                                        /\ retrap'[t] = retrap[t],
           s = "ready" => ~retrap'[current],
           s = "blocked" => retrap'[current] /\ recvd'[current] \cap waitMask'[current] = {}
    PROVE  WaitsRight'
<1>1. nxt # current /\ current \in Tasks /\ nxt \in Tasks
  BY DEF TypeOK, Known
<1>2. /\ others'[current] = s
      /\ others'[nxt] = "none"
      /\ \A t \in Tasks \ {current, nxt} : others'[t] = others[t]
  BY <1>1 DEF stage, TypeOK
<1>3. ASSUME NEW t \in Known', retrap'[t]
      PROVE  others'[t] = "blocked" <=> recvd'[t] \cap waitMask'[t] = {}
  <2>1. t \in Tasks /\ others'[t] # "none"
    BY DEF Known
  <2>2. CASE t = current
    BY <1>2, <1>3, <2>2
  <2>3. CASE t # current
    <3>1. t # nxt /\ t \in Known /\ others'[t] = others[t]
      BY <1>2, <2>1, <2>3 DEF Known
    <3> QED BY <1>3, <2>1, <2>3, <3>1 DEF WaitsRight, WakeupsExact
  <2> QED BY <2>2, <2>3
<1>4. WakeupsExact'
  BY <1>3 DEF WakeupsExact
<1>5. Suspended'
  <2>1. ASSUME NEW t \in Tasks, life'[t] = "unborn" PROVE ~retrap'[t]
    <3>1. t # current
      BY <2>1 DEF Alive
    <3> QED BY <2>1, <3>1 DEF WaitsRight, Suspended
  <2>2. ASSUME NEW t \in Tasks, others'[t] = "blocked" PROVE retrap'[t]
    <3>1. CASE t = current
      BY <1>2, <2>2, <3>1
    <3>2. CASE t # current
      BY <1>2, <2>2, <3>2 DEF WaitsRight, Suspended
    <3> QED BY <3>1, <3>2
  <2> QED BY <2>1, <2>2 DEF Suspended
<1> QED BY <1>4, <1>5 DEF WaitsRight

\* Signal wakes the task it is sent to exactly when it waits for what came.
LEMMA SignalledWaits ==
    ASSUME TypeOK, WaitsRight, current \in Alive \ Known,
           NEW t \in Tasks, NEW sigs \in Masks, signal_handler(t, sigs)
    PROVE  WaitsRight'
<1> DEFINE r == [fold_pending_host_break EXCEPT ![t] = @ \cup sigs]
<1>1. recvd' = r /\ UNCHANGED <<life, waitMask, retrap>>
  BY DEF signal_handler
<1>2. \A u \in Tasks \ {current} : fold_pending_host_break[u] = recvd[u]
  BY DEF fold_pending_host_break, TypeOK
<1>3. fold_pending_host_break \in [Tasks -> Masks]
  BY FoldTypes
<1>4. CASE t = current
  <2>1. others' = others
    BY <1>4 DEF signal_handler
  <2>2. \A u \in Tasks \ {current} : recvd'[u] = recvd[u]
    BY <1>1, <1>2, <1>3, <1>4
  <2> QED BY <1>1, <2>1, <2>2, OwnWaits
<1>5. CASE t # current
  <2>1. recvd'[t] = recvd[t] \cup sigs
    BY <1>1, <1>2, <1>3, <1>5
  <2>2. \A u \in Tasks \ {current, t} : recvd'[u] = recvd[u]
    BY <1>1, <1>2, <1>3
  <2>3. others' = wake_if_signal_matches(others, t, r[t])
    BY <1>5 DEF signal_handler
  <2>4. others' = IF others[t] = "blocked" /\ recvd'[t] \cap waitMask[t] # {}
                  THEN [others EXCEPT ![t] = "ready"] ELSE others
    BY <1>1, <2>3 DEF wake_if_signal_matches
  <2>5. \A u \in Tasks \ {t} : others'[u] = others[u]
    BY <2>4 DEF TypeOK
  <2>6. others'[t] = IF others[t] = "blocked" /\ recvd'[t] \cap waitMask[t] # {}
                     THEN "ready" ELSE others[t]
    BY <2>4 DEF TypeOK
  <2>7. Known' = Known
    BY <2>5, <2>6 DEF Known
  <2>8. ASSUME NEW u \in Known, retrap[u]
        PROVE  others'[u] = "blocked" <=> recvd'[u] \cap waitMask[u] = {}
    <3>1. u \in Tasks /\ u # current /\ others[u] \in {"ready", "blocked"}
      BY DEF Known, TypeOK
    <3>2. others[u] = "blocked" <=> recvd[u] \cap waitMask[u] = {}
      BY <2>8 DEF WaitsRight, WakeupsExact
    <3>3. CASE u = t
      <4>1. recvd[u] \subseteq recvd'[u]
        BY <2>1, <3>3
      <4> QED BY <2>6, <3>1, <3>2, <3>3, <4>1
    <3>4. CASE u # t
      BY <2>2, <2>5, <3>1, <3>2, <3>4
    <3> QED BY <3>3, <3>4
  <2>9. WakeupsExact'
    BY <1>1, <2>7, <2>8 DEF WakeupsExact
  <2>10. \A u \in Tasks : others'[u] = "blocked" => others[u] = "blocked"
    BY <2>5, <2>6
  <2> QED BY <1>1, <2>9, <2>10 DEF WaitsRight, Suspended
<1> QED BY <1>4, <1>5

\* Every step keeps wakeups exact.
LEMMA NextWaits ==
    ASSUME TypeOK, Structure, SwitchOwners, WaitsRight, Switchers = {}, [Next]_vars
    PROVE  WaitsRight'
<1> USE DEF sched, loopVars
<1>a. current \in Alive \ Known /\ current \in Tasks
  BY CurrentAlive DEF TypeOK
<1>b. \A t \in Tasks \ {current} : fold_pending_host_break[t] = recvd[t]
  BY DEF fold_pending_host_break, TypeOK
<1>c. ASSUME Folded, UNCHANGED <<others, life, waitMask, retrap>> PROVE WaitsRight'
  BY <1>a, <1>b, <1>c, OwnWaits DEF Folded
<1>d. ASSUME UNCHANGED <<others, life, recvd, waitMask, retrap>> PROVE WaitsRight'
  BY <1>a, <1>d, OwnWaits
<1>e. ASSUME NEW base, NEW rs, complete_timer_request(base, rs),
             \A t \in Tasks \ {current} : base[t] = recvd[t],
             UNCHANGED <<life, waitMask, retrap>>
      PROVE  WaitsRight'
  BY <1>a, <1>e, CompletedWaits DEF complete_timer_request
<1>f. ASSUME fire_earliest, UNCHANGED <<life, waitMask, retrap>> PROVE WaitsRight'
  BY <1>e, <1>f DEF fire_earliest
<1>g. ASSUME fire_due(fold_pending_host_break), UNCHANGED <<life, waitMask, retrap>>
      PROVE  WaitsRight'
  BY <1>b, <1>e, <1>g DEF fire_due
<1>1. CASE SignalCall
  <2>1. ASSUME NEW t \in Tasks, NEW sigs \in Masks, signal_handler(t, sigs) PROVE WaitsRight'
    BY <1>a, <2>1, SignalledWaits
  <2>2. ASSUME NEW t \in Tasks, signal_refused(t) PROVE WaitsRight'
    BY <1>c, <2>2 DEF signal_refused
  <2>3. ASSUME NEW new \in Masks, NEW mask \in Masks, set_signal_handler(new, mask)
        PROVE  WaitsRight'
    <3>1. \A t \in Tasks \ {current} : recvd'[t] = recvd[t]
      BY <1>b, <2>3, FoldTypes DEF set_signal_handler
    <3> QED BY <1>a, <2>3, <3>1, OwnWaits DEF set_signal_handler
  <2>4. ASSUME NEW mask \in Masks, check_signal_handler(mask) PROVE WaitsRight'
    <3> DEFINE fired == {e.req : e \in Due}
               base == fold_pending_host_break
    <3>1. others' = completed_others(base, fired) /\ UNCHANGED <<life, waitMask, retrap>>
      BY <2>4 DEF check_signal_handler
    <3>2. recvd' = [completed_recvd(base, fired) EXCEPT ![current] = @ \ mask]
      BY <2>4 DEF check_signal_handler
    <3>3. \A t \in Tasks \ {current} : recvd'[t] = completed_recvd(base, fired)[t]
      BY <3>2, FoldTypes, DueTypes, CompletedTypes
    <3> HIDE DEF fired, base
    <3>4. \A t \in Tasks \ {current} : base[t] = recvd[t]
      BY <1>b DEF base
    <3> QED BY <1>a, <3>1, <3>3, <3>4, CompletedWaits
  <2> QED BY <1>1, <2>1, <2>2, <2>3, <2>4 DEF SignalCall
<1>2. CASE TaskCall
  <2>1. ASSUME NEW t \in Tasks, NEW p \in Pris, create_new_proc_handler(t, p) PROVE WaitsRight'
    <3>1. life[t] = "unborn" /\ t # current /\ ~retrap[t]
      BY <1>a, <2>1 DEF create_new_proc_handler, Alive, WaitsRight, Suspended
    <3>2. /\ others'[t] = "ready" /\ \A u \in Tasks \ {t} : others'[u] = others[u]
          /\ \A u \in Tasks : life'[u] = "unborn" => life[u] = "unborn"
          /\ UNCHANGED <<waitMask, retrap>>
      BY <2>1 DEF create_new_proc_handler, TypeOK
    <3>3. \A u \in Tasks \ {current} : recvd'[u] = recvd[u]
      BY <1>b, <2>1 DEF create_new_proc_handler, Folded
    <3>4. \A u \in Known' : u \in Tasks /\ (u = t \/ u \in Known)
      BY <3>2 DEF Known
    <3>5. WakeupsExact'
      BY <1>a, <3>1, <3>2, <3>3, <3>4 DEF WaitsRight, WakeupsExact
    <3>6. Suspended'
      BY <3>2 DEF WaitsRight, Suspended
    <3> QED BY <3>5, <3>6 DEF WaitsRight
  <2>2. ASSUME NEW t \in Tasks, NEW p \in Pris, set_task_pri_handler(t, p) PROVE WaitsRight'
    BY <1>c, <2>2 DEF set_task_pri_handler
  <2>3. ASSUME yield_to_ready PROVE WaitsRight'
    <3>1. CASE cannot_switch
      BY <1>c, <2>3, <3>1 DEF yield_to_ready
    <3>2. CASE ~cannot_switch
      <4>1. PICK nxt \in pick_ready(others) : others' = stage(nxt, "ready")
        BY <2>3, <3>2 DEF yield_to_ready
      <4>2. nxt \in Known /\ ~retrap[current]
        BY <2>3, <3>2, PickTypes DEF Known, yield_to_ready, Calling, cannot_switch
      <4>3. /\ UNCHANGED <<life, waitMask, retrap>>
            /\ \A t \in Tasks \ {current} : recvd'[t] = recvd[t]
        BY <1>b, <2>3 DEF yield_to_ready, Folded
      <4> QED BY <1>a, <4>1, <4>2, <4>3, StagedWaits
    <3> QED BY <3>1, <3>2
  <2>4. ASSUME task_exit_stub_handler PROVE WaitsRight'
    BY <1>c, <2>4 DEF task_exit_stub_handler
  <2>5. ASSUME main_exit PROVE WaitsRight'
    BY <1>d, <2>5 DEF main_exit
  <2> QED BY <1>2, <2>1, <2>2, <2>3, <2>4, <2>5 DEF TaskCall
<1>3. CASE TimerCall
  <2>1. ASSUME NEW r \in Reqs, NEW d \in 0..MaxDelay, send_io_handler(r, d) PROVE WaitsRight'
    BY <1>c, <2>1 DEF send_io_handler
  <2>2. ASSUME NEW r \in Reqs, wait_io_handler(r) PROVE WaitsRight'
    BY <1>b, <1>e, <2>2 DEF wait_io_handler
  <2>3. ASSUME NEW r \in Reqs, abort_io_handler(r) PROVE WaitsRight'
    BY <1>c, <2>3 DEF abort_io_handler
  <2>4. ASSUME NEW r \in Reqs, get_msg_handler(r) PROVE WaitsRight'
    BY <1>c, <2>4 DEF get_msg_handler
  <2>5. ASSUME check_io_handler PROVE WaitsRight'
    BY <1>g, <2>5 DEF check_io_handler
  <2> QED BY <1>3, <2>1, <2>2, <2>3, <2>4, <2>5 DEF TimerCall
<1>4. CASE Trampoline
  BY <1>4, <1>c DEF Trampoline, trampoline, continuation_stub_handler
<1>5. CASE Wait
  <2>1. PICK mask \in Masks : wait_handler(mask)
    BY <1>5 DEF Wait
  <2> QED BY <1>g, <2>1 DEF wait_handler
<1>6. CASE WaitLoop
  <2>1. ASSUME wait_satisfied PROVE WaitsRight'
    <3>1. \A t \in Tasks \ {current} : /\ recvd'[t] = recvd[t]
                                       /\ waitMask'[t] = waitMask[t]
                                       /\ retrap'[t] = retrap[t]
      BY <2>1 DEF wait_satisfied, TypeOK
    <3> QED BY <1>a, <2>1, <3>1, OwnWaits DEF wait_satisfied
  <2>2. ASSUME block_current_on_signal PROVE WaitsRight'
    <3>1. PICK nxt \in pick_ready(others) : others' = stage(nxt, "blocked")
      BY <2>2 DEF block_current_on_signal
    <3>2. nxt \in Known
      BY PickTypes DEF Known
    <3>3. /\ UNCHANGED <<life, recvd>>
          /\ retrap' = [retrap EXCEPT ![current] = TRUE]
          /\ waitMask' = [waitMask EXCEPT ![current] = want]
          /\ recvd[current] \cap want = {}
      BY <2>2 DEF block_current_on_signal, Satisfied
    <3>4. /\ retrap'[current] /\ waitMask'[current] = want
          /\ \A t \in Tasks \ {current} : /\ waitMask'[t] = waitMask[t]
                                          /\ retrap'[t] = retrap[t]
      BY <1>a, <3>3 DEF TypeOK
    <3> QED BY <1>a, <3>1, <3>2, <3>3, <3>4, StagedWaits
  <2>3. ASSUME wait_fire_earliest PROVE WaitsRight'
    BY <1>f, <2>3 DEF wait_fire_earliest
  <2>4. ASSUME wait_deadlock PROVE WaitsRight'
    BY <1>d, <2>4 DEF wait_deadlock
  <2> QED BY <1>6, <2>1, <2>2, <2>3, <2>4 DEF WaitLoop
<1>7. CASE ExitLoop
  <2>1. ASSUME terminate_current PROVE WaitsRight'
    <3>1. PICK nxt \in pick_ready(others) : others' = [others EXCEPT ![nxt] = "none"]
      BY <2>1 DEF terminate_current
    <3>2. /\ UNCHANGED <<recvd, waitMask, retrap>>
          /\ \A t \in Tasks : life'[t] = "unborn" => life[t] = "unborn"
          /\ \A t \in Tasks : others'[t] = "none" \/ others'[t] = others[t]
      BY <2>1, <3>1 DEF terminate_current, TypeOK
    <3>3. \A t \in Known' : t \in Known /\ others'[t] = others[t]
      BY <3>2 DEF Known
    <3>4. WakeupsExact'
      BY <3>2, <3>3 DEF WaitsRight, WakeupsExact
    <3>5. Suspended'
      BY <3>2 DEF WaitsRight, Suspended
    <3> QED BY <3>4, <3>5 DEF WaitsRight
  <2>2. ASSUME exit_fire_earliest PROVE WaitsRight'
    BY <1>f, <2>2 DEF exit_fire_earliest
  <2>3. ASSUME exit_deadlock PROVE WaitsRight'
    BY <1>d, <2>3 DEF exit_deadlock
  <2> QED BY <1>7, <2>1, <2>2, <2>3 DEF ExitLoop
<1>8. CASE Host
  BY <1>8, <1>d DEF Host, handle_host_break, Tick
<1>9. CASE UNCHANGED vars
  BY <1>9, <1>d DEF vars
<1> QED BY <1>1, <1>2, <1>3, <1>4, <1>5, <1>6, <1>7, <1>8, <1>9 DEF Next

\* How Runtime::run ends: nothing moves once it has, and it ends in a
\* deadlock or a refused Signal only by the actions that say so.
LEMMA StatusSteps ==
    ASSUME [Next]_vars
    PROVE  /\ status = "running" \/ UNCHANGED vars
           /\ status' = "deadlock" => wait_deadlock \/ exit_deadlock \/ UNCHANGED vars
           /\ status' = "unknown task" =>
                 UNCHANGED vars \/ \E t \in Tasks : signal_refused(t)
<1> USE DEF Calling, sched, loopVars
<1>1. CASE SignalCall
  BY <1>1 DEF SignalCall, signal_handler, signal_refused, set_signal_handler, check_signal_handler
<1>2. CASE TaskCall
  BY <1>2 DEF TaskCall, create_new_proc_handler, set_task_pri_handler, yield_to_ready,
              task_exit_stub_handler, main_exit
<1>3. CASE TimerCall
  BY <1>3 DEF TimerCall, send_io_handler, wait_io_handler, abort_io_handler, get_msg_handler,
              check_io_handler
<1>4. CASE Trampoline
  BY <1>4 DEF Trampoline, trampoline, continuation_stub_handler
<1>5. CASE Wait
  BY <1>5 DEF Wait, wait_handler
<1>6. CASE WaitLoop
  BY <1>6 DEF WaitLoop, wait_satisfied, block_current_on_signal, wait_fire_earliest,
              wait_deadlock, InWait
<1>7. CASE ExitLoop
  BY <1>7 DEF ExitLoop, terminate_current, exit_fire_earliest, exit_deadlock, InExit
<1>8. CASE Host
  BY <1>8 DEF Host, handle_host_break, Tick
<1>9. CASE UNCHANGED vars
  BY <1>9
<1> QED BY <1>1, <1>2, <1>3, <1>4, <1>5, <1>6, <1>7, <1>8, <1>9 DEF Next

WakeInv == TypeOK /\ Structure /\ SwitchOwners /\ WaitsRight /\ DeadlockIsReal /\ NoLiveTaskRefused

LEMMA InitWakeInv == Init => WakeInv
<1> SUFFICES ASSUME Init PROVE WakeInv
  OBVIOUS
<1>1. WaitsRight
  BY DEF Init, WaitsRight, WakeupsExact, Suspended, Known
<1>2. DeadlockIsReal /\ NoLiveTaskRefused
  BY DEF Init, DeadlockIsReal, NoLiveTaskRefused
<1> QED BY <1>1, <1>2, InitTypeOK, InitStructure, InitSwitchOwners DEF WakeInv

LEMMA NextWakeInv ==
    ASSUME Switchers = {}, WakeInv, [Next]_vars
    PROVE  WakeInv'
<1> USE DEF WakeInv
<1>1. /\ current \in Alive \ Known
      /\ Alive \subseteq Known \cup {current}
  BY CurrentAlive
<1>2. TypeOK' /\ Structure' /\ SwitchOwners' /\ WaitsRight'
  BY NextTypeOK, NextStructure, NextSwitchOwners, NextWaits
<1>3. DeadlockIsReal'
  <2> SUFFICES ASSUME status' = "deadlock", ~hookActive'
               PROVE  \A t \in Alive' \ {current'} :
                         others'[t] = "blocked" /\ recvd'[t] \cap waitMask'[t] = {}
    BY DEF DeadlockIsReal
  <2>1. CASE UNCHANGED vars
    BY <2>1 DEF vars, DeadlockIsReal, Alive
  <2>2. CASE wait_deadlock \/ exit_deadlock
    <3>1. UNCHANGED <<sched, life, recvd, waitMask>> /\ cannot_switch
      BY <2>2 DEF wait_deadlock, exit_deadlock
    <3>2. NothingReady /\ Alive' = Alive
      BY <3>1 DEF cannot_switch, sched, Alive
    <3>3. ASSUME NEW t \in Alive \ {current}
          PROVE  others[t] = "blocked" /\ recvd[t] \cap waitMask[t] = {}
      <4>1. t \in Known /\ t \in Tasks
        BY <1>1, <3>3 DEF Known
      <4>2. others[t] = "blocked"
        BY <3>2, <4>1 DEF NothingReady, Known, TypeOK
      <4> QED BY <4>1, <4>2 DEF WaitsRight, Suspended, WakeupsExact
    <3> QED BY <3>1, <3>2, <3>3 DEF sched
  <2> QED BY <2>1, <2>2, StatusSteps
<1>4. NoLiveTaskRefused'
  <2>1. ASSUME NEW t \in Tasks, signal_refused(t) PROVE FALSE
    BY <1>1, <2>1 DEF signal_refused, Alive, Known
  <2> QED BY <2>1, StatusSteps DEF NoLiveTaskRefused, vars
<1> QED BY <1>2, <1>3, <1>4

LEMMA WakeInvariant == ASSUME Switchers = {} PROVE Spec => []WakeInv
<1>1. WakeInv /\ [Next]_vars => WakeInv'
  BY NextWakeInv
<1> QED BY <1>1, InitWakeInv, PTL DEF Spec

\* Without tc_Switch hooks no wakeup is lost and none is spurious: a task
\* suspended in Wait is blocked exactly while nothing it waits for came.
THEOREM WakeupsNeverLost == ASSUME Switchers = {} PROVE Spec => []WakeupsExact
<1>1. WakeInv => WakeupsExact
  BY DEF WakeInv, WaitsRight
<1> QED BY <1>1, WakeInvariant, PTL

\* Without tc_Switch hooks a deadlock is only reported when every other
\* task waits for a signal that has not come.
THEOREM DeadlocksAreReal == ASSUME Switchers = {} PROVE Spec => []DeadlockIsReal
<1>1. WakeInv => DeadlockIsReal
  BY DEF WakeInv
<1> QED BY <1>1, WakeInvariant, PTL

\* Without tc_Switch hooks Signal finds every task that lives.
THEOREM LiveTasksSignalled == ASSUME Switchers = {} PROVE Spec => []NoLiveTaskRefused
<1>1. WakeInv => NoLiveTaskRefused
  BY DEF WakeInv
<1> QED BY <1>1, WakeInvariant, PTL

(***************************************************************************)
(* timer.device.  No pending request outlives its task because the exit    *)
(* stub drops them and the exiting task makes no call after; a tc_Switch   *)
(* of the exiting task would run after the drop, so children have none.    *)
(***************************************************************************)

TimersOwned ==
    /\ OwnersAlive
    /\ trap = "exit" => current # Main /\ \A e \in timers : e.owner # current
    /\ life[Main] = "alive"

\* A step that sends no request and ends no task.
LEMMA SameOwners ==
    ASSUME TimersOwned,
           \A e \in timers' : \E f \in timers : e.owner = f.owner,
           \A t \in Tasks : life[t] = "alive" => life'[t] = "alive",
           trap' = "exit" => trap = "exit" /\ current' = current
    PROVE  TimersOwned'
BY TasksAssumption DEF TimersOwned, OwnersAlive, Alive

\* The running task lives, unless its own tc_Switch still runs.
LEMMA CallerAlive ==
    ASSUME TypeOK, Structure, SwitchOwners, Switchers \subseteq {Main}, TimersOwned
    PROVE  current \in Alive
<1>1. CASE SwitchSlots = {}
  BY <1>1 DEF Structure, NoTaskLost
<1>2. CASE SwitchSlots # {}
  <2>1. PICK i \in SwitchSlots : TRUE
    BY <1>2
  <2>2. i \in HookSlots
    BY DEF SwitchSlots, HookSlots, IsHook
  <2>3. conts[i].owner = current
    BY <2>2 DEF Structure, OneHookAtATime
  <2>4. current = Main
    BY <2>3 DEF SwitchOwners
  <2> QED BY <2>4, TasksAssumption DEF TimersOwned, Alive
<1> QED BY <1>1, <1>2

LEMMA NextTimersOwned ==
    ASSUME TypeOK, Structure, SwitchOwners, Switchers \subseteq {Main}, TimersOwned, [Next]_vars
    PROVE  TimersOwned'
<1> USE DEF sched, loopVars, Calling, LeaveLoop
<1>a. current \in Alive
  BY CallerAlive
<1>b. ASSUME timers' \subseteq timers, UNCHANGED life,
             trap' = "exit" => trap = "exit" /\ current' = current
      PROVE  TimersOwned'
  BY <1>b, SameOwners
<1>c. \A r : Without(r) \subseteq timers
  BY DEF Without
<1>d. ASSUME NEW base, fire_due(base), UNCHANGED life, trap' # "exit" PROVE TimersOwned'
  BY <1>b, <1>d DEF fire_due
<1>e. ASSUME fire_earliest, UNCHANGED <<life, trap, current>> PROVE TimersOwned'
  <2>1. PICK e \in timers :
             timers' = {[f EXCEPT !.left = @ - e.left] : f \in timers \ {e}}
    BY <1>e DEF fire_earliest
  <2>2. ASSUME NEW g \in timers' PROVE \E f \in timers : g.owner = f.owner
    <3>1. PICK f \in timers : g = [f EXCEPT !.left = @ - e.left]
      BY <2>1
    <3>2. f \in Timers
      BY DEF TypeOK
    <3> QED BY <3>1, <3>2 DEF Timers
  <2> QED BY <1>e, <2>2, SameOwners
<1>1. CASE SignalCall
  BY <1>1, <1>b DEF SignalCall, signal_handler, signal_refused, set_signal_handler,
                    check_signal_handler
<1>2. CASE TaskCall
  <2>1. ASSUME NEW t \in Tasks, NEW p \in Pris, create_new_proc_handler(t, p) PROVE TimersOwned'
    <3>1. /\ \A u \in Tasks : life[u] = "alive" => life'[u] = "alive"
          /\ timers' = timers /\ trap' = "none"
      BY <2>1 DEF create_new_proc_handler, TypeOK
    <3> QED BY <3>1, SameOwners
  <2>2. ASSUME NEW t \in Tasks, NEW p \in Pris, set_task_pri_handler(t, p) PROVE TimersOwned'
    BY <1>b, <2>2 DEF set_task_pri_handler
  <2>3. ASSUME yield_to_ready PROVE TimersOwned'
    BY <1>b, <2>3 DEF yield_to_ready
  <2>4. ASSUME task_exit_stub_handler PROVE TimersOwned'
    BY <2>4 DEF task_exit_stub_handler, remove_owned_by, TimersOwned, OwnersAlive, Alive
  <2>5. ASSUME main_exit PROVE TimersOwned'
    BY <1>b, <2>5 DEF main_exit
  <2> QED BY <1>2, <2>1, <2>2, <2>3, <2>4, <2>5 DEF TaskCall
<1>3. CASE TimerCall
  <2>1. ASSUME NEW r \in Reqs, NEW d \in 0..MaxDelay, send_io_handler(r, d) PROVE TimersOwned'
    <3>1. \A e \in timers' : e \in timers \/ e.owner = current
      BY <1>c, <2>1 DEF send_io_handler
    <3> QED BY <1>a, <2>1, <3>1 DEF send_io_handler, TimersOwned, OwnersAlive, Alive
  <2>2. ASSUME NEW r \in Reqs, wait_io_handler(r) PROVE TimersOwned'
    BY <1>b, <1>c, <2>2 DEF wait_io_handler
  <2>3. ASSUME NEW r \in Reqs, abort_io_handler(r) PROVE TimersOwned'
    BY <1>b, <1>c, <2>3 DEF abort_io_handler
  <2>4. ASSUME NEW r \in Reqs, get_msg_handler(r) PROVE TimersOwned'
    BY <1>b, <2>4 DEF get_msg_handler
  <2>5. ASSUME check_io_handler PROVE TimersOwned'
    BY <1>d, <2>5 DEF check_io_handler
  <2> QED BY <1>3, <2>1, <2>2, <2>3, <2>4, <2>5 DEF TimerCall
<1>4. CASE Trampoline
  BY <1>4, <1>b DEF Trampoline, trampoline, continuation_stub_handler
<1>5. CASE Wait
  BY <1>5, <1>d DEF Wait, wait_handler
<1>6. CASE WaitLoop
  BY <1>6, <1>b, <1>e DEF WaitLoop, wait_satisfied, block_current_on_signal, wait_fire_earliest,
                          wait_deadlock, InWait
<1>7. CASE ExitLoop
  <2>1. ASSUME terminate_current PROVE TimersOwned'
    <3>1. /\ current # Main /\ \A e \in timers : e.owner # current
          /\ life' = [life EXCEPT ![current] = "dead"]
          /\ timers' = timers /\ trap' = "none"
      BY <2>1 DEF terminate_current, InExit, TimersOwned
    <3>2. /\ life \in [Tasks -> {"unborn", "alive", "dead"}]
          /\ \A e \in timers : e.owner \in Tasks
      BY DEF TypeOK, Timers
    <3>3. \A t \in Tasks \ {current} : life'[t] = life[t]
      BY <3>1, <3>2
    <3> QED BY <3>1, <3>2, <3>3, TasksAssumption DEF TimersOwned, OwnersAlive, Alive
  <2>2. ASSUME exit_fire_earliest PROVE TimersOwned'
    BY <1>e, <2>2 DEF exit_fire_earliest
  <2>3. ASSUME exit_deadlock PROVE TimersOwned'
    BY <1>b, <2>3 DEF exit_deadlock
  <2> QED BY <1>7, <2>1, <2>2, <2>3 DEF ExitLoop
<1>8. CASE Host
  <2>1. CASE handle_host_break
    BY <1>b, <2>1 DEF handle_host_break
  <2>2. CASE Tick
    <3>1. ASSUME NEW g \in timers' PROVE \E f \in timers : g.owner = f.owner
      <4>1. PICK f \in timers : g = [f EXCEPT !.left = IF @ > 0 THEN @ - 1 ELSE 0]
        BY <2>2 DEF Tick
      <4>2. f \in Timers
        BY DEF TypeOK
      <4> QED BY <4>1, <4>2 DEF Timers
    <3> QED BY <2>2, <3>1, SameOwners DEF Tick
  <2> QED BY <1>8, <2>1, <2>2 DEF Host
<1>9. CASE UNCHANGED vars
  BY <1>9, <1>b DEF vars
<1> QED BY <1>1, <1>2, <1>3, <1>4, <1>5, <1>6, <1>7, <1>8, <1>9 DEF Next

\* When no child has a tc_Switch, no pending request outlives the task that
\* sent it.
THEOREM RequestsDieWithTheirTask == ASSUME Switchers \subseteq {Main} PROVE Spec => []OwnersAlive
<1> DEFINE Inv == TypeOK /\ Structure /\ SwitchOwners /\ TimersOwned
<1>1. Init => TimersOwned
  BY TasksAssumption DEF Init, TimersOwned, OwnersAlive
<1>2. Init => Inv
  BY <1>1, InitTypeOK, InitStructure, InitSwitchOwners
<1>3. Inv /\ [Next]_vars => Inv'
  BY NextTypeOK, NextStructure, NextSwitchOwners, NextTimersOwned
<1>4. Inv => OwnersAlive
  BY DEF TimersOwned
<1> QED BY <1>2, <1>3, <1>4, PTL DEF Spec

\* A pending request is not on its reply port: with that, a completion
\* links a node that is on no list.
RequestsOnce == CompletesOnce /\ \A e \in timers : links[e.req] = 0

\* Completing pending requests that are dropped from the pending list.
LEMMA CompletedOnce ==
    ASSUME TypeOK, RequestsOnce, NEW rs, rs \subseteq Pending,
           links' = completed_links(rs), PendingOnce',
           \A e \in timers' : e.req \in Pending \ rs
    PROVE  RequestsOnce'
<1>1. \A e \in timers : e.req \in Reqs /\ links[e.req] = 0
  BY DEF TypeOK, Timers, RequestsOnce
<1>2. ASSUME NEW r \in Reqs PROVE links'[r] <= 1
  <2>1. links[r] \in Nat /\ links[r] <= 1
    BY DEF TypeOK, RequestsOnce, CompletesOnce, LinkedOnce
  <2>2. CASE r \in rs
    <3>1. links[r] = 0
      BY <1>1, <2>2 DEF Pending
    <3> QED BY <3>1 DEF completed_links
  <2>3. CASE r \notin rs
    BY <2>1, <2>3 DEF completed_links
  <2> QED BY <2>2, <2>3
<1>3. ASSUME NEW e \in timers' PROVE links'[e.req] = 0
  <2>1. e.req \in Reqs /\ links[e.req] = 0 /\ e.req \notin rs
    BY <1>1 DEF Pending
  <2> QED BY <2>1 DEF completed_links
<1> QED BY <1>2, <1>3 DEF RequestsOnce, CompletesOnce, LinkedOnce

\* Dropping requests, and unlinking replies.
LEMMA DroppedOnce ==
    ASSUME TypeOK, RequestsOnce, timers' \subseteq timers,
           \A r \in Reqs : links'[r] \in Nat /\ links'[r] <= links[r]
    PROVE  RequestsOnce'
<1>1. \A r \in Reqs : links[r] \in Nat /\ links[r] <= 1
  BY DEF TypeOK, RequestsOnce, CompletesOnce, LinkedOnce
<1>2. \A r \in Reqs : links'[r] <= 1
  BY <1>1
<1>3. \A e \in timers' : e.req \in Reqs /\ links[e.req] = 0
  BY DEF TypeOK, Timers, RequestsOnce
<1>4. \A e \in timers' : links'[e.req] = 0
  BY <1>3
<1>5. PendingOnce'
  BY DEF RequestsOnce, CompletesOnce, PendingOnce
<1> QED BY <1>2, <1>4, <1>5 DEF RequestsOnce, CompletesOnce, LinkedOnce

\* Firing the earliest request completes it and ages the others.
LEMMA FiredEarliest ==
    ASSUME TypeOK, RequestsOnce, fire_earliest PROVE RequestsOnce'
<1>1. PICK e \in timers :
          /\ timers' = {[f EXCEPT !.left = @ - e.left] : f \in timers \ {e}}
          /\ links' = completed_links({e.req})
  BY DEF fire_earliest, complete_timer_request
<1>2. PendingOnce
  BY DEF RequestsOnce, CompletesOnce
<1>3. ASSUME NEW g \in timers'
      PROVE  \E f \in timers \ {e} : g.req = f.req /\ g = [f EXCEPT !.left = @ - e.left]
  <2>1. PICK f \in timers \ {e} : g = [f EXCEPT !.left = @ - e.left]
    BY <1>1
  <2> QED BY <2>1 DEF TypeOK, Timers
<1>4. PendingOnce'
  <2> SUFFICES ASSUME NEW g \in timers', NEW h \in timers', g.req = h.req PROVE g = h
    BY DEF PendingOnce
  <2>1. PICK f \in timers \ {e} : g.req = f.req /\ g = [f EXCEPT !.left = @ - e.left]
    BY <1>3
  <2>2. PICK k \in timers \ {e} : h.req = k.req /\ h = [k EXCEPT !.left = @ - e.left]
    BY <1>3
  <2>3. f = k
    BY <1>2, <2>1, <2>2 DEF PendingOnce
  <2> QED BY <2>1, <2>2, <2>3
<1>5. \A g \in timers' : g.req \in Pending \ {e.req}
  BY <1>2, <1>3 DEF Pending, PendingOnce
<1>6. {e.req} \subseteq Pending
  BY DEF Pending
<1> QED BY <1>1, <1>4, <1>5, <1>6, CompletedOnce

LEMMA FiredDue ==
    ASSUME TypeOK, RequestsOnce, timers' = timers \ Due,
           links' = completed_links({e.req : e \in Due})
    PROVE  RequestsOnce'
<1>1. PendingOnce
  BY DEF RequestsOnce, CompletesOnce
<1>2. PendingOnce'
  BY <1>1 DEF PendingOnce
<1>3. {e.req : e \in Due} \subseteq Pending
  BY DEF Due, Pending
<1>4. \A g \in timers' : g.req \in Pending \ {e.req : e \in Due}
  BY <1>1 DEF PendingOnce, Pending, Due
<1> QED BY <1>2, <1>3, <1>4, CompletedOnce

LEMMA NextRequestsOnce == ASSUME TypeOK, RequestsOnce, Drained, [Next]_vars PROVE RequestsOnce'
<1> USE DEF sched, loopVars
<1>a. ASSUME timers' \subseteq timers, UNCHANGED links PROVE RequestsOnce'
  <2>1. \A r \in Reqs : links[r] \in Nat
    BY DEF TypeOK
  <2>2. \A r \in Reqs : links'[r] \in Nat /\ links'[r] <= links[r]
    BY <1>a, <2>1
  <2> QED BY <1>a, <2>2, DroppedOnce
<1>b. \A r : Without(r) \subseteq timers
  BY DEF Without
<1>c. ASSUME NEW base, fire_due(base) PROVE RequestsOnce'
  BY <1>c, FiredDue DEF fire_due, complete_timer_request
<1>1. CASE SignalCall
  BY <1>1, <1>a, FiredDue DEF SignalCall, signal_handler, signal_refused, set_signal_handler,
                              check_signal_handler
<1>2. CASE TaskCall
  BY <1>2, <1>a DEF TaskCall, create_new_proc_handler, set_task_pri_handler, yield_to_ready,
                    task_exit_stub_handler, remove_owned_by, main_exit
<1>3. CASE TimerCall
  <2>1. ASSUME NEW r \in Reqs, NEW d \in 0..MaxDelay, send_io_handler(r, d) PROVE RequestsOnce'
    <3> DEFINE new == [req |-> r, left |-> d, owner |-> current]
    <3>1. timers' = Without(r) \cup {new} /\ links' = links /\ links[r] = 0
      BY <2>1 DEF send_io_handler
    <3>2. \A e \in timers' : e = new \/ (e \in timers /\ e.req # r)
      BY <3>1 DEF Without
    <3>3. new.req = r
      OBVIOUS
    <3> HIDE DEF new
    <3>4. PendingOnce'
      BY <3>2, <3>3 DEF RequestsOnce, CompletesOnce, PendingOnce
    <3> QED BY <3>1, <3>2, <3>3, <3>4 DEF RequestsOnce, CompletesOnce, LinkedOnce
  <2>2. ASSUME NEW r \in Reqs, wait_io_handler(r) PROVE RequestsOnce'
    <3>1. timers' = Without(r) /\ links' = completed_links({r} \cap Pending)
      BY <2>2 DEF wait_io_handler, complete_timer_request
    <3>2. PendingOnce'
      BY <1>b, <3>1 DEF RequestsOnce, CompletesOnce, PendingOnce
    <3>3. \A e \in timers' : e.req \in Pending \ ({r} \cap Pending)
      BY <3>1 DEF Without, Pending
    <3> QED BY <3>1, <3>2, <3>3, CompletedOnce
  <2>3. ASSUME NEW r \in Reqs, abort_io_handler(r) PROVE RequestsOnce'
    BY <1>a, <1>b, <2>3 DEF abort_io_handler
  <2>4. ASSUME NEW r \in Reqs, get_msg_handler(r) PROVE RequestsOnce'
    <3>1. links \in [Reqs -> Nat] /\ links[r] > 0 /\ links' = [links EXCEPT ![r] = @ - 1]
      BY <2>4 DEF get_msg_handler, TypeOK
    <3>2. \A q \in Reqs : links'[q] \in Nat /\ links'[q] <= links[q]
      BY <3>1
    <3> QED BY <2>4, <3>2, DroppedOnce DEF get_msg_handler
  <2>5. ASSUME check_io_handler PROVE RequestsOnce'
    BY <1>c, <2>5 DEF check_io_handler
  <2> QED BY <1>3, <2>1, <2>2, <2>3, <2>4, <2>5 DEF TimerCall
<1>4. CASE Trampoline
  BY <1>4, <1>a DEF Trampoline, trampoline, continuation_stub_handler
<1>5. CASE Wait
  BY <1>5, <1>c DEF Wait, wait_handler
<1>6. CASE WaitLoop
  BY <1>6, <1>a, FiredEarliest DEF WaitLoop, wait_satisfied, block_current_on_signal,
                                   wait_fire_earliest, wait_deadlock
<1>7. CASE ExitLoop
  BY <1>7, <1>a, FiredEarliest DEF ExitLoop, terminate_current, exit_fire_earliest, exit_deadlock
<1>8. CASE Host
  <2>1. CASE handle_host_break
    BY <1>a, <2>1 DEF handle_host_break
  <2>2. CASE Tick
    <3> DEFINE aged(f) == [f EXCEPT !.left = IF @ > 0 THEN @ - 1 ELSE 0]
    <3>1. timers' = {aged(f) : f \in timers} /\ links' = links
      BY <2>2 DEF Tick
    <3>2. \A f \in timers : aged(f).req = f.req
      BY DEF TypeOK, Timers
    <3> HIDE DEF aged
    <3>3. PendingOnce'
      BY <3>1, <3>2 DEF RequestsOnce, CompletesOnce, PendingOnce
    <3>4. \A g \in timers' : \E f \in timers : g.req = f.req
      BY <3>1, <3>2
    <3> QED BY <3>1, <3>3, <3>4 DEF RequestsOnce, CompletesOnce, LinkedOnce
  <2> QED BY <1>8, <2>1, <2>2 DEF Host
<1>9. CASE UNCHANGED vars
  BY <1>9, <1>a DEF vars
<1> QED BY <1>1, <1>2, <1>3, <1>4, <1>5, <1>6, <1>7, <1>8, <1>9 DEF Next

\* A request that is drained from its port before it is sent again is
\* pending once and linked once, whatever is sent, aborted and awaited.
THEOREM RequestsCompleteOnce == ASSUME Drained PROVE Spec => []CompletesOnce
<1> DEFINE Inv == TypeOK /\ RequestsOnce
<1>1. Init => RequestsOnce
  BY DEF Init, RequestsOnce, CompletesOnce, PendingOnce, LinkedOnce
<1>2. Init => Inv
  BY <1>1, InitTypeOK
<1>3. Inv /\ [Next]_vars => Inv'
  BY NextTypeOK, NextRequestsOnce
<1>4. Inv => CompletesOnce
  BY DEF RequestsOnce
<1> QED BY <1>2, <1>3, <1>4, PTL DEF Spec

(***************************************************************************)
(* Continuations.  One stack serves all tasks.  As long as only one task   *)
(* has callbacks in flight, what the running task has on the stack is on   *)
(* top: nothing but its own lies above a hook, as a hook cannot be         *)
(* switched away from, and without a hook all is of one task.              *)
(***************************************************************************)

IsCall(k) == k.kind = "call"

\* The slots of ks that stand for subroutines on t's stack.
Owned(ks, t) == {i \in DOMAIN ks : ks[i].owner = t}

\* ks holds the callbacks of one task and at most one hook, which is task c's,
\* as all above it; and d counts the slots of each task.
CallsOwned(ks, d, c) ==
    /\ \A i, j \in DOMAIN ks : IsCall(ks[i]) /\ IsCall(ks[j]) => ks[i].owner = ks[j].owner
    /\ \A i, j \in DOMAIN ks : IsHook(ks[i]) /\ IsHook(ks[j]) => i = j
    /\ \A i, j \in DOMAIN ks : IsHook(ks[i]) /\ i <= j => ks[j].owner = c
    /\ \A t \in Tasks : IsFiniteSet(Owned(ks, t)) /\ d[t] = Cardinality(Owned(ks, t))

\* Pushing a hook on a stack without one, or a callback of the running task on
\* a stack with no other task's.
LEMMA PushOwned ==
    ASSUME NEW ks \in Seq(Conts), NEW d \in [Tasks -> Nat], NEW c, NEW k \in Conts,
           CallsOwned(ks, d, c), NEW e \in Tasks, k.owner = e,
           \/ IsHook(k) /\ ~IsCall(k) /\ \A i \in DOMAIN ks : ~IsHook(ks[i])
           \/ ~IsHook(k) /\ e = c /\ \A i \in DOMAIN ks : IsCall(ks[i]) => ks[i].owner = e,
           NEW ks2, ks2 = Append(ks, k), NEW d2, d2 = [d EXCEPT ![e] = @ + 1]
    PROVE  CallsOwned(ks2, d2, e)
<1> DEFINE n == Len(ks) + 1
<1>1. /\ DOMAIN ks2 = DOMAIN ks \cup {n} /\ n \notin DOMAIN ks
      /\ \A i \in DOMAIN ks : ks2[i] = ks[i] /\ i < n /\ i \in Nat
      /\ ks2[n] = k /\ n \in Nat
  OBVIOUS
<1>2. \A i, j \in DOMAIN ks2 : IsCall(ks2[i]) /\ IsCall(ks2[j]) => ks2[i].owner = ks2[j].owner
  BY <1>1 DEF CallsOwned
<1>3. \A i, j \in DOMAIN ks2 : IsHook(ks2[i]) /\ IsHook(ks2[j]) => i = j
  BY <1>1 DEF CallsOwned
<1>4. \A i, j \in DOMAIN ks2 : IsHook(ks2[i]) /\ i <= j => ks2[j].owner = e
  <2> SUFFICES ASSUME NEW i \in DOMAIN ks2, NEW j \in DOMAIN ks2, IsHook(ks2[i]), i <= j
               PROVE  ks2[j].owner = e
    OBVIOUS
  <2>1. CASE j = n
    BY <1>1, <2>1
  <2>2. CASE j # n
    <3>1. i # n
      BY <1>1, <2>2
    <3> QED BY <1>1, <2>2, <3>1 DEF CallsOwned
  <2> QED BY <2>1, <2>2
<1>5. ASSUME NEW t \in Tasks
      PROVE  IsFiniteSet(Owned(ks2, t)) /\ d2[t] = Cardinality(Owned(ks2, t))
  <2>1. IsFiniteSet(Owned(ks, t)) /\ d[t] = Cardinality(Owned(ks, t)) /\ d[t] \in Nat
    BY DEF CallsOwned
  <2>2. Owned(ks2, t) = IF t = e THEN Owned(ks, t) \cup {n} ELSE Owned(ks, t)
    BY <1>1 DEF Owned
  <2>3. d2[t] = IF t = e THEN d[t] + 1 ELSE d[t]
    OBVIOUS
  <2>4. n \notin Owned(ks, t)
    BY <1>1 DEF Owned
  <2> HIDE DEF n
  <2>5. /\ IsFiniteSet(Owned(ks, t) \cup {n})
        /\ Cardinality(Owned(ks, t) \cup {n}) = Cardinality(Owned(ks, t)) + 1
    BY <2>1, <2>4, FS_AddElement
  <2> QED BY <2>1, <2>2, <2>3, <2>5
<1> QED BY <1>2, <1>3, <1>4, <1>5 DEF CallsOwned

\* Popping what belongs to the running task.
LEMMA PopOwned ==
    ASSUME NEW ks \in Seq(Conts), NEW d \in [Tasks -> Nat], NEW c \in Tasks,
           CallsOwned(ks, d, c), Len(ks) > 0, ks[Len(ks)].owner = c,
           NEW ks2, ks2 = SubSeq(ks, 1, Len(ks) - 1), NEW d2, d2 = [d EXCEPT ![c] = @ - 1]
    PROVE  /\ ks2 \in Seq(Conts) /\ d2 \in [Tasks -> Nat]
           /\ CallsOwned(ks2, d2, c)
           /\ IsHook(ks[Len(ks)]) => \A i \in DOMAIN ks2 : ~IsHook(ks2[i])
<1> DEFINE n == Len(ks)
<1>a. n \in Nat /\ DOMAIN ks = 1..n /\ n \in DOMAIN ks
  OBVIOUS
<1>b. /\ ks2 \in Seq(Conts) /\ Len(ks2) = n - 1
      /\ \A i \in 1..(n - 1) : ks2[i] = ks[i]
  BY <1>a, FrontProperties
<1>c. DOMAIN ks2 = 1..(n - 1)
  BY <1>b
<1>1. /\ DOMAIN ks2 = DOMAIN ks \ {n}
      /\ \A i \in DOMAIN ks2 : i \in DOMAIN ks /\ i # n /\ ks2[i] = ks[i]
  BY <1>a, <1>b, <1>c
<1>2. ASSUME NEW t \in Tasks
      PROVE  /\ d2[t] \in Nat
             /\ IsFiniteSet(Owned(ks2, t)) /\ d2[t] = Cardinality(Owned(ks2, t))
  <2>1. IsFiniteSet(Owned(ks, t)) /\ d[t] = Cardinality(Owned(ks, t)) /\ d[t] \in Nat
    BY DEF CallsOwned
  <2>2. Owned(ks2, t) = IF t = c THEN Owned(ks, t) \ {n} ELSE Owned(ks, t)
    BY <1>a, <1>1 DEF Owned
  <2>3. d2[t] = IF t = c THEN d[t] - 1 ELSE d[t]
    OBVIOUS
  <2>4. t = c => n \in Owned(ks, t)
    BY <1>a DEF Owned
  <2> HIDE DEF n
  <2>5. t = c => /\ IsFiniteSet(Owned(ks, t) \ {n})
                 /\ Cardinality(Owned(ks, t) \ {n}) = Cardinality(Owned(ks, t)) - 1
                 /\ Cardinality(Owned(ks, t) \ {n}) \in Nat
    BY <2>1, <2>4, FS_RemoveElement, FS_CardinalityType
  <2> QED BY <2>1, <2>2, <2>3, <2>5
<1>3. d2 \in [Tasks -> Nat]
  BY <1>2
<1>4. /\ \A i, j \in DOMAIN ks2 : IsCall(ks2[i]) /\ IsCall(ks2[j]) => ks2[i].owner = ks2[j].owner
      /\ \A i, j \in DOMAIN ks2 : IsHook(ks2[i]) /\ IsHook(ks2[j]) => i = j
      /\ \A i, j \in DOMAIN ks2 : IsHook(ks2[i]) /\ i <= j => ks2[j].owner = c
  BY <1>1 DEF CallsOwned
<1>5. CallsOwned(ks2, d2, c)
  BY <1>2, <1>4 DEF CallsOwned
<1>6. IsHook(ks[n]) => \A i \in DOMAIN ks2 : ~IsHook(ks2[i])
  BY <1>a, <1>1 DEF CallsOwned
<1> QED BY <1>b, <1>3, <1>5, <1>6

\* With no hook on the stack it does not matter which task runs.
LEMMA AnyCaller ==
    ASSUME NEW ks \in Seq(Conts), NEW d, NEW c, CallsOwned(ks, d, c),
           \A i \in DOMAIN ks : ~IsHook(ks[i]), NEW b
    PROVE  CallsOwned(ks, d, b)
  BY DEF CallsOwned

LEMMA CommitOwned ==
    ASSUME NEW nxt \in Tasks, NEW ks \in Seq(Conts), NEW d \in [Tasks -> Nat], NEW c,
           CallsOwned(ks, d, c), \A i \in DOMAIN ks : ~IsHook(ks[i]),
           commit_task_switch(nxt, ks, d)
    PROVE  CallsOwned(conts', depth', current')
<1> DEFINE k == [kind |-> "launch", owner |-> nxt, next |-> nxt]
<1>1. CASE nxt \in Launchers
  <2>1. k \in Conts /\ IsHook(k) /\ ~IsCall(k) /\ k.owner = nxt
    BY DEF Conts, IsHook, IsCall
  <2>2. /\ conts' = Append(ks, k) /\ current' = nxt
        /\ depth' = [d EXCEPT ![nxt] = @ + 1]
    BY <1>1 DEF commit_task_switch
  <2> HIDE DEF k
  <2>3. CallsOwned(Append(ks, k), [d EXCEPT ![nxt] = @ + 1], nxt)
    BY <2>1, PushOwned
  <2> QED BY <2>2, <2>3
<1>2. CASE nxt \notin Launchers
  BY <1>2, AnyCaller DEF commit_task_switch
<1> QED BY <1>1, <1>2

CallsInv == CallsOwned(conts, depth, current)

\* The stack tells whether the running task has a subroutine to return from,
\* and then its own continuation is on top.
LEMMA TopIsOwn ==
    ASSUME TypeOK, CallsInv
    PROVE  OwnContinuation
<1> SUFFICES ASSUME depth[current] > 0
             PROVE  conts # <<>> /\ conts[Len(conts)].owner = current
  BY DEF OwnContinuation
<1>a. conts \in Seq(Conts) /\ current \in Tasks
  BY DEF TypeOK
<1>1. /\ current \in Tasks /\ Len(conts) \in Nat /\ DOMAIN conts = 1..Len(conts)
      /\ \A h \in DOMAIN conts : conts[h] \in Conts
  BY <1>a
<1>2. Owned(conts, current) # {}
  BY <1>1, FS_EmptySet DEF CallsInv, CallsOwned
<1>3. PICK i \in DOMAIN conts : conts[i].owner = current
  BY <1>2 DEF Owned
<1>4. conts # <<>> /\ Len(conts) \in DOMAIN conts /\ i <= Len(conts)
  BY <1>1, <1>3
<1>5. CASE \E h \in DOMAIN conts : IsHook(conts[h])
  BY <1>1, <1>4, <1>5 DEF CallsInv, CallsOwned
<1>6. CASE \A h \in DOMAIN conts : ~IsHook(conts[h])
  <2>1. \A h \in DOMAIN conts : IsCall(conts[h])
    BY <1>1, <1>6 DEF Conts, IsHook, IsCall
  <2> QED BY <1>3, <1>4, <2>1 DEF CallsInv, CallsOwned
<1> QED BY <1>4, <1>5, <1>6

LEMMA NextCallsInv ==
    ASSUME TypeOK, Structure, CallsInv, OneCaller, [Next]_vars
    PROVE  CallsInv'
<1>b. conts \in Seq(Conts) /\ current \in Tasks /\ depth \in [Tasks -> Nat]
  BY DEF TypeOK
<1>c. \A i \in DOMAIN conts : conts[i] \in Conts
  BY <1>b
<1>a. /\ conts \in Seq(Conts) /\ current \in Tasks /\ depth \in [Tasks -> Nat]
      /\ \A i \in DOMAIN conts : conts[i] \in Conts
  BY <1>b, <1>c
<1>1. CASE UNCHANGED <<current, hookActive, conts, depth>>
  BY <1>1 DEF CallsInv
<1>2. ASSUME ~cannot_switch, NEW nxt \in pick_ready(others), apply_pending_task_switch(nxt)
      PROVE  CallsInv'
  <2>1. \A i \in DOMAIN conts : ~IsHook(conts[i])
    BY <1>2 DEF cannot_switch, Structure, OneHookAtATime, HookSlots
  <2>2. nxt \in Tasks
    BY PickTypes
  <2>3. CASE current \in Switchers
    <3> DEFINE k == [kind |-> "switch", owner |-> current, next |-> nxt]
    <3>1. k \in Conts /\ IsHook(k) /\ ~IsCall(k) /\ k.owner = current
      BY <1>a, <2>2 DEF Conts, IsHook, IsCall
    <3>2. /\ conts' = Append(conts, k) /\ current' = current
          /\ depth' = [depth EXCEPT ![current] = @ + 1]
      BY <1>2, <2>3 DEF apply_pending_task_switch
    <3> HIDE DEF k
    <3>4. CallsOwned(Append(conts, k), [depth EXCEPT ![current] = @ + 1], current)
      BY <1>a, <2>1, <3>1, PushOwned DEF CallsInv
    <3> QED BY <3>2, <3>4 DEF CallsInv
  <2>4. CASE current \notin Switchers
    <3>1. commit_task_switch(nxt, conts, depth)
      BY <1>2, <2>4 DEF apply_pending_task_switch
    <3> QED BY <1>a, <2>1, <2>2, <3>1, CommitOwned DEF CallsInv
  <2> QED BY <2>3, <2>4
<1>3. CASE trampoline
  <2> DEFINE k == [kind |-> "call", owner |-> current, next |-> current]
  <2>1. k \in Conts /\ ~IsHook(k) /\ k.owner = current
    BY <1>a DEF Conts, IsHook
  <2>2. /\ conts' = Append(conts, k) /\ current' = current
        /\ depth' = [depth EXCEPT ![current] = @ + 1]
    BY <1>3 DEF trampoline
  <2>3. \A i \in DOMAIN conts : IsCall(conts[i]) => conts[i].owner = current
    BY <1>3 DEF trampoline, CallSlots, IsCall
  <2> HIDE DEF k
  <2>4. CallsOwned(Append(conts, k), [depth EXCEPT ![current] = @ + 1], current)
    BY <1>a, <2>1, <2>3, PushOwned DEF CallsInv
  <2> QED BY <2>2, <2>4 DEF CallsInv
<1>4. CASE continuation_stub_handler
  <2> DEFINE top == conts[Len(conts)]
             d == [depth EXCEPT ![current] = @ - 1]
  <2>1. depth[current] > 0 /\ conts # <<>>
    BY <1>4 DEF continuation_stub_handler
  <2>2. top.owner = current /\ Len(conts) > 0 /\ top \in Conts
    BY <1>a, <2>1, TopIsOwn DEF OwnContinuation
  <2>3. /\ Popped \in Seq(Conts) /\ d \in [Tasks -> Nat]
        /\ CallsOwned(Popped, d, current)
        /\ IsHook(top) => \A i \in DOMAIN Popped : ~IsHook(Popped[i])
    <3>1. /\ CallsOwned(conts, depth, current)
          /\ conts[Len(conts)].owner = current /\ Len(conts) > 0
      BY <2>2 DEF CallsInv
    <3>2. Popped = SubSeq(conts, 1, Len(conts) - 1) /\ d = [depth EXCEPT ![current] = @ - 1]
      BY DEF Popped
    <3>3. \A ks, e : ks = SubSeq(conts, 1, Len(conts) - 1)
                      /\ e = [depth EXCEPT ![current] = @ - 1]
            => /\ ks \in Seq(Conts) /\ e \in [Tasks -> Nat] /\ CallsOwned(ks, e, current)
               /\ IsHook(conts[Len(conts)]) => \A i \in DOMAIN ks : ~IsHook(ks[i])
      BY <1>b, <3>1, PopOwned
    <3> HIDE DEF d
    <3>4. /\ Popped \in Seq(Conts) /\ d \in [Tasks -> Nat]
          /\ CallsOwned(Popped, d, current)
          /\ IsHook(conts[Len(conts)]) => \A i \in DOMAIN Popped : ~IsHook(Popped[i])
      BY <3>2, <3>3
    <3> QED BY <3>4
  <2>4. CASE top.kind = "call"
    <3>1. conts' = Popped /\ depth' = d /\ current' = current
      BY <1>4, <2>4 DEF continuation_stub_handler
    <3> QED BY <2>3, <3>1 DEF CallsInv
  <2>5. CASE top.kind = "launch"
    <3>1. conts' = Popped /\ depth' = d /\ current' = current
      BY <1>4, <2>5 DEF continuation_stub_handler
    <3> QED BY <2>3, <3>1 DEF CallsInv
  <2>6. CASE top.kind = "switch"
    <3>1. commit_task_switch(top.next, Popped, d) /\ top.next \in Tasks
      BY <1>4, <2>2, <2>6 DEF continuation_stub_handler, Conts
    <3>2. \A i \in DOMAIN Popped : ~IsHook(Popped[i])
      BY <2>3, <2>6 DEF IsHook
    <3> HIDE DEF top, d
    <3> QED BY <2>3, <3>1, <3>2, CommitOwned DEF CallsInv
  <2> QED BY <2>2, <2>4, <2>5, <2>6 DEF Conts
<1> QED BY <1>1, <1>2, <1>3, <1>4, SchedSteps

\* Where only one task has callbacks in flight, any number of them nested, every
\* return into the continuation stub finds the returning task's own
\* continuation, whichever tasks run, switch and have hooks in between.
THEOREM OwnContinuations == ASSUME OneCaller PROVE Spec => []OwnContinuation
<1> DEFINE Inv == TypeOK /\ Structure /\ CallsInv
<1>1. Init => CallsInv
  <2> SUFFICES ASSUME Init PROVE CallsInv
    OBVIOUS
  <2>1. DOMAIN conts = {} /\ depth = [t \in Tasks |-> 0]
    BY DEF Init
  <2>2. \A t \in Tasks : Owned(conts, t) = {}
    BY <2>1 DEF Owned
  <2> QED BY <2>1, <2>2, FS_EmptySet DEF CallsInv, CallsOwned
<1>2. Init => Inv
  BY <1>1, InitTypeOK, InitStructure
<1>3. Inv /\ [Next]_vars => Inv'
  BY NextTypeOK, NextStructure, NextCallsInv
<1>4. Inv => OwnContinuation
  BY TopIsOwn
<1> QED BY <1>2, <1>3, <1>4, PTL DEF Spec

-----------------------------------------------------------------------------
(* EventsDelivered and DescriptorsKept of BsdSockets, if a program calls
   listen and connect on sockets that it did not duplicate.

   The flags of a descriptor say in what stage its host socket is (Flags), so
   an event that is detected is true.  Counted round from a descriptor that
   waits, what was passed before it lies before the cursor (Turns), so the
   next one in turn is not among it. *)

USE DEF Descriptors

Entries == [host : Hosts, event_mask : SUBSET Events, pending_events : SUBSET Events,
            is_listener : BOOLEAN, connected : BOOLEAN]
Stages == {"new", "listening", "connecting", "connected", "failed"}
HostStates == [stage : Stages, input : BOOLEAN, eof : BOOLEAN, shut : BOOLEAN]

SocketTypes ==
  /\ Descriptors \subseteq Fds /\ sockets \in [Descriptors -> Entries]
  /\ hosts \in [Hosts -> HostStates]
  /\ next_id \in 1 .. MaxInt /\ event_cursor \in Fds \union {-1}
  /\ seen \in [Fds -> SUBSET Events] /\ passed \in [Fds -> SUBSET Fds]

\* Of a descriptor's entry e and the host sockets hs.
FlagsOf(e, hs) ==
  /\ e.is_listener <=> hs[e.host].stage = "listening"
  /\ e.connected => hs[e.host].stage \notin {"new", "listening"}
Flags ==
  /\ \A fd \in Descriptors : FlagsOf(sockets[fd], hosts)
  /\ \A h \in Unused : hosts[h] = NewHost

\* From x round to the cursor c, y is met, and x is not.
Before(y, c, x) == (x < y /\ y <= c) \/ (y <= c /\ c < x) \/ (c < x /\ x < y)
Turns ==
  /\ ~ unfair
  /\ \A x \in Fds \ Waiting(sockets) : passed[x] = {}
  /\ \A x \in Waiting(sockets) : \A y \in passed[x] : Before(y, event_cursor, x)

Below == \A fd \in Descriptors : fd < next_id

\* The last descriptor is never reached, after which they would begin again.
NoWrap == MaxId < MaxInt /\ MaxInt \notin Targets

SocketInv == SocketTypes /\ Below /\ Flags /\ Turns /\ Announced /\ EventsTrue

-----------------------------------------------------------------------------
(* A set of natural numbers has a least member, which Min returns. *)
LEMMA LeastMember ==
  ASSUME NEW S \in SUBSET Nat, S # {}
  PROVE  Min(S) \in S /\ \A y \in S : Min(S) <= y
<1>1. \E x \in S : \A y \in S : ~ (<<y, x>> \in OpToRel(<, Nat))
  BY NatLessThanWellFounded, WFMin
<1>2. PICK x \in S : \A y \in S : ~ (<<y, x>> \in OpToRel(<, Nat))
  BY <1>1
<1>3. \A y \in S : x <= y
  <2> TAKE y \in S
  <2>1. ~ (<<y, x>>[1] < <<y, x>>[2])
    BY <1>2 DEF OpToRel
  <2> QED BY <2>1
<1> QED BY <1>3 DEF Min

(* The next descriptor in turn: one after the cursor, if there is one, and  *)
(* otherwise the lowest.                                                    *)
LEMMA NextInTurn ==
  ASSUME NEW S \in SUBSET Nat, S # {}, event_cursor \in Nat \union {-1}
  PROVE  /\ next(S) \in S
         /\ \A x \in S : x > event_cursor => event_cursor < next(S) /\ next(S) <= x
         /\ next(S) <= event_cursor => \A x \in S : next(S) <= x
<1> DEFINE after == {fd \in S : fd > event_cursor}
<1>1. CASE after # {}
  <2>1. Min(after) \in after /\ \A y \in after : Min(after) <= y
    BY <1>1, LeastMember
  <2>2. next(S) = Min(after)
    BY <1>1 DEF next
  <2>3. PICK n : n = next(S)
    OBVIOUS
  <2>4. n \in S /\ event_cursor < n /\ \A x \in S : x > event_cursor => n <= x
    BY <2>1, <2>2, <2>3
  <2>5. ~ (n <= event_cursor)
    BY <2>4
  <2> HIDE DEF after
  <2> QED BY <2>3, <2>4, <2>5
<1>2. CASE after = {}
  <2>1. Min(S) \in S /\ \A y \in S : Min(S) <= y
    BY LeastMember
  <2>2. next(S) = Min(S)
    BY <1>2 DEF next
  <2> QED BY <1>2, <2>1, <2>2
<1> QED BY <1>1, <1>2

(* That is none that was passed before another that waits, and once it is   *)
(* returned it is met before the cursor as they are.                        *)
LEMMA TurnAdvances ==
  ASSUME NEW S \in SUBSET Nat, NEW x \in S, NEW n \in S, NEW c \in Nat \union {-1}, x # n,
         x > c => c < n /\ n <= x, n <= c => n <= x,
         NEW y \in Nat
  PROVE  /\ Before(n, n, x)
         /\ Before(y, c, x) => y # n
         /\ Before(y, c, x) => Before(y, n, x)
BY DEF Before

-----------------------------------------------------------------------------
(* Descriptors that begin anew or end. *)
Replaced(id) ==
  /\ Renewed(id)
  /\ UNCHANGED <<event_cursor, signalled>>
  /\ DOMAIN sockets' \ {id} = Descriptors \ {id}
  /\ \A fd \in DOMAIN sockets' \ {id} : sockets'[fd] = sockets[fd]
  /\ id \in DOMAIN sockets' => sockets'[id].pending_events = {}

(* Nothing that is remembered of the others changes. *)
LEMMA ReplacedEvents ==
  ASSUME SocketInv, NEW id \in Fds, Replaced(id)
  PROVE  /\ Turns' /\ Announced' /\ EventsTrue'
         /\ seen' \in [Fds -> SUBSET Events] /\ passed' \in [Fds -> SUBSET Fds]
         /\ event_cursor' \in Fds \union {-1}
<1> USE DEF SocketInv, SocketTypes, Replaced, Renewed
<1>0. Waiting(sockets)' = Waiting(sockets')
  BY DEF Waiting
<1>1. /\ \A x \in Fds \ {id} : x \in Waiting(sockets') <=> x \in Waiting(sockets)
      /\ id \notin Waiting(sockets')
  <2>1. \A x \in Fds \ {id} : /\ x \in DOMAIN sockets' <=> x \in Descriptors
                              /\ x \in Descriptors => sockets'[x] = sockets[x]
    OBVIOUS
  <2> QED BY <2>1 DEF Waiting
<1>2. \A x \in Fds : passed'[x] \subseteq passed[x] /\ passed'[id] = {}
  OBVIOUS
<1>3. Turns'
  <2>1. ~ unfair'
    BY DEF Turns
  <2>2. \A x \in Fds \ Waiting(sockets') : passed'[x] = {}
    BY <1>1, <1>2 DEF Turns
  <2>3. ASSUME NEW x \in Waiting(sockets'), NEW y \in passed'[x]
        PROVE  Before(y, event_cursor', x)
    <3>1. x \in Waiting(sockets) /\ y \in passed[x]
      BY <1>1, <1>2 DEF Waiting
    <3> QED BY <3>1 DEF Turns
  <2> QED BY <1>0, <2>1, <2>2, <2>3 DEF Turns
<1>4. Announced'
  <2> SUFFICES ASSUME NEW fd \in Waiting(sockets') PROVE fd \in silent' \/ signalled' \/ owed'
    BY <1>0 DEF Announced
  <2>1. fd \in Fds \ {id}
    BY <1>1 DEF Waiting
  <2> QED BY <1>1, <2>1 DEF Announced
<1>5. EventsTrue'
  <2> SUFFICES ASSUME NEW fd \in DOMAIN sockets'
               PROVE  sockets'[fd].pending_events \subseteq seen'[fd]
    BY DEF EventsTrue
  <2>1. CASE fd = id
    BY <2>1
  <2>2. CASE fd # id
    BY <2>2 DEF EventsTrue
  <2> QED BY <2>1, <2>2
<1> QED BY <1>3, <1>4, <1>5

(* A host socket that has a descriptor is as it was, or as it is made. *)
LEMMA WithTypes ==
  ASSUME SocketInv, NEW id \in Fds, NEW e \in Entries, sockets' = With(id, e)
  PROVE  /\ DOMAIN sockets' = Descriptors \union {id} /\ sockets'[id] = e
         /\ \A fd \in DOMAIN sockets' \ {id} : fd \in Descriptors /\ sockets'[fd] = sockets[fd]
         /\ DOMAIN sockets' \subseteq Fds /\ sockets' \in [DOMAIN sockets' -> Entries]
BY DEF With, SocketInv, SocketTypes

LEMMA NewEntry ==
  ASSUME NEW h \in Hosts
  PROVE  /\ SocketEntry(h) \in Entries /\ SocketEntry(h).host = h
         /\ SocketEntry(h).pending_events = {}
         /\ ~ SocketEntry(h).is_listener /\ ~ SocketEntry(h).connected
BY DEF SocketEntry, Entries

LEMMA KnownStages == NewHost \in HostStates /\ Connected \in HostStates
                     /\ NewHost.stage = "new" /\ Connected.stage = "connected"
BY DEF NewHost, Connected, HostStates, Stages

LEMMA NextNumber == ASSUME NEW n \in 0 .. MaxInt - 1
                    PROVE  Following(n) = n + 1 /\ Following(n) \in 1 .. MaxInt
BY TableAssumption DEF Following

(* HostsClosed keeps the stages of the host sockets that have a descriptor. *)
LEMMA ClosedFlags ==
  ASSUME SocketInv, HostsClosed, sockets' \in [DOMAIN sockets' -> Entries],
         \A fd \in DOMAIN sockets' : FlagsOf(sockets'[fd], hosts)
  PROVE  hosts' \in [Hosts -> HostStates] /\ Flags'
<1>1. hosts' \in [Hosts -> HostStates]
  BY KnownStages DEF HostsClosed, SocketInv, SocketTypes
<1>2. \A fd \in DOMAIN sockets' : sockets'[fd].host \in Hosts
  BY DEF Entries
<1>3. \A fd \in DOMAIN sockets' : hosts'[sockets'[fd].host] = hosts[sockets'[fd].host]
  BY <1>2 DEF HostsClosed
<1>4. \A h \in Unused' : hosts'[h] = NewHost
  BY DEF Unused, HostsClosed
<1>5. \A fd \in DOMAIN sockets' : FlagsOf(sockets'[fd], hosts')
  BY <1>3 DEF FlagsOf
<1> QED BY <1>1, <1>4, <1>5 DEF Flags

(* A new descriptor for a host socket that has none, as socket and accept   *)
(* make it.                                                                 *)
Opened(h, e, hs) ==
  /\ h \in Unused /\ e \in Entries /\ e.host = h /\ e.pending_events = {}
  /\ hs \in HostStates
  /\ FlagsOf(e, [hosts EXCEPT ![h] = hs])
  /\ next_id <= MaxId
  /\ sockets' = With(next_id, e)
  /\ next_id' = Following(next_id)
  /\ Renewed(next_id) /\ quiet

LEMMA OpenedInv ==
  ASSUME SocketInv, NoWrap, NEW h, NEW e, NEW hs, Opened(h, e, hs),
         hosts' \in [Hosts -> HostStates], hosts'[h] = hs,
         \A x \in Hosts \ {h} : /\ hosts'[x].stage = hosts[x].stage
                                /\ x \in Unused => hosts'[x] = hosts[x]
  PROVE  SocketInv'
<1>1. h \in Hosts /\ next_id \in 1 .. MaxInt - 1 /\ next_id \in Fds
  BY TableAssumption DEF Unused, SocketInv, SocketTypes, Opened, NoWrap, Fds
<1>2. /\ DOMAIN sockets' = Descriptors \union {next_id} /\ sockets'[next_id] = e
      /\ \A fd \in DOMAIN sockets' \ {next_id} : fd \in Descriptors /\ sockets'[fd] = sockets[fd]
      /\ DOMAIN sockets' \subseteq Fds /\ sockets' \in [DOMAIN sockets' -> Entries]
  BY <1>1, WithTypes DEF Opened
<1>3. next_id \notin Descriptors /\ next_id' = next_id + 1 /\ next_id' \in 1 .. MaxInt
  <2>1. \A fd \in Descriptors : fd \in Int /\ fd < next_id
    BY DEF SocketInv, Below, SocketTypes, Fds
  <2> QED BY <1>1, <2>1, NextNumber DEF Opened
<1>4. Replaced(next_id)
  BY <1>1, <1>2 DEF Replaced, quiet, Opened
<1>6. SocketTypes' /\ Below'
  <2>1. SocketTypes'
    BY <1>1, <1>2, <1>3, <1>4, ReplacedEvents DEF SocketTypes
  <2>2. \A fd \in DOMAIN sockets' : fd < next_id + 1
    BY <1>1, <1>2 DEF SocketInv, SocketTypes, Below, Fds
  <2> QED BY <1>3, <2>1, <2>2 DEF Below
<1>7. Flags'
  <2>2. FlagsOf(e, hosts')
    BY <1>1 DEF FlagsOf, SocketInv, SocketTypes, Opened
  <2>3. ASSUME NEW fd \in Descriptors PROVE FlagsOf(sockets[fd], hosts')
    <3>1. sockets[fd].host \in Hosts /\ sockets[fd].host # h
      BY DEF Opened, Unused, SocketInv, SocketTypes, Entries
    <3>2. hosts'[sockets[fd].host].stage = hosts[sockets[fd].host].stage
      BY <3>1
    <3>3. FlagsOf(sockets[fd], hosts)
      BY DEF SocketInv, Flags
    <3> QED BY <3>2, <3>3 DEF FlagsOf
  <2>4. ASSUME NEW x \in Unused' PROVE hosts'[x] = NewHost
    <3>1. x # h
      BY <1>2 DEF Unused, Opened
    <3>2. \A fd \in Descriptors : sockets[fd].host # x
      BY <1>2, <1>3 DEF Unused
    <3>3. x \in Unused
      BY <3>2 DEF Unused
    <3>4. hosts[x] = NewHost
      BY <3>3 DEF SocketInv, Flags
    <3> QED BY <3>1, <3>3, <3>4 DEF Unused
  <2> QED BY <1>2, <2>2, <2>3, <2>4 DEF Flags
<1> QED BY <1>1, <1>4, <1>6, <1>7, ReplacedEvents DEF SocketInv

LEMMA SocketStep == ASSUME SocketInv, NoWrap, socket PROVE SocketInv'
<1>1. PICK h \in Unused : /\ next_id <= MaxId
                          /\ sockets' = With(next_id, SocketEntry(h))
                          /\ next_id' = Following(next_id)
                          /\ Renewed(next_id) /\ quiet /\ UNCHANGED hosts
  BY DEF socket
<1>2. h \in Hosts /\ hosts[h] = NewHost
  BY DEF Unused, SocketInv, Flags
<1>3. [hosts EXCEPT ![h] = NewHost][h] = NewHost
  BY <1>2 DEF SocketInv, SocketTypes
<1>4. Opened(h, SocketEntry(h), NewHost)
  <2> DEFINE hs == [hosts EXCEPT ![h] = NewHost]
  <2>1. hs[h].stage = "new" /\ SocketEntry(h).host = h
    BY <1>2, <1>3, NewEntry, KnownStages
  <2> HIDE DEF hs
  <2>2. FlagsOf(SocketEntry(h), hs)
    BY <1>2, <2>1, NewEntry DEF FlagsOf
  <2> USE DEF hs
  <2> QED BY <1>1, <1>2, <2>2, NewEntry, KnownStages DEF Opened
<1> QED BY <1>1, <1>2, <1>4, OpenedInv DEF SocketInv, SocketTypes

LEMMA AcceptStep ==
  ASSUME SocketInv, NoWrap, NEW fd \in Descriptors, accept(fd) PROVE SocketInv'
<1>1. PICK h \in Unused, more \in BOOLEAN :
        /\ next_id <= MaxId
        /\ sockets' = With(next_id, [SocketEntry(h) EXCEPT !.connected = TRUE])
        /\ next_id' = Following(next_id)
        /\ hosts' = [hosts EXCEPT ![sockets[fd].host].input = more, ![h] = Connected]
        /\ Renewed(next_id) /\ quiet
  BY DEF accept
<1> DEFINE e == [SocketEntry(h) EXCEPT !.connected = TRUE]
           l == sockets[fd].host
<1>2. h \in Hosts /\ l \in Hosts \ Unused /\ l # h
  BY DEF Unused, SocketInv, SocketTypes, Entries
<1>3. e \in Entries /\ e.host = h /\ e.pending_events = {} /\ ~ e.is_listener
  BY <1>2 DEF SocketEntry, Entries
<1>4. /\ hosts' \in [Hosts -> HostStates] /\ hosts'[h] = Connected
      /\ \A x \in Hosts \ {h} : /\ hosts'[x].stage = hosts[x].stage
                                /\ x \in Unused => hosts'[x] = hosts[x]
  BY <1>1, <1>2, KnownStages DEF HostStates, SocketInv, SocketTypes
<1>5. [hosts EXCEPT ![h] = Connected][h] = Connected
  BY <1>2 DEF SocketInv, SocketTypes
<1> HIDE DEF e
<1>6. Opened(h, e, Connected)
  <2> DEFINE hs == [hosts EXCEPT ![h] = Connected]
  <2>1. hs[h].stage = "connected"
    BY <1>5, KnownStages
  <2> HIDE DEF hs
  <2>2. FlagsOf(e, hs)
    BY <1>3, <2>1 DEF FlagsOf
  <2> USE DEF hs
  <2>3. sockets' = With(next_id, e)
    BY <1>1 DEF e
  <2> QED BY <1>1, <1>2, <1>3, <2>2, <2>3, KnownStages DEF Opened
<1> QED BY <1>4, <1>6, OpenedInv

LEMMA DuplicateStep ==
  ASSUME SocketInv, NoWrap, NEW fd \in Descriptors, NEW id \in Fds, Duplicated(fd, id),
         next_id' \in 1 .. MaxInt, next_id <= next_id', id < next_id'
  PROVE  SocketInv'
<1> PICK e : e = Duplicate(fd)
  OBVIOUS
<1>1. /\ e \in Entries /\ e.pending_events = {} /\ e.host = sockets[fd].host
      /\ e.is_listener = sockets[fd].is_listener /\ e.connected = sockets[fd].connected
  BY DEF Duplicate, SocketEntry, Entries, SocketInv, SocketTypes
<1>2. sockets' = With(id, e) /\ HostsClosed /\ Renewed(id) /\ quiet
  BY DEF Duplicated
<1>3. /\ DOMAIN sockets' = Descriptors \union {id} /\ sockets'[id] = e
      /\ \A x \in DOMAIN sockets' \ {id} : x \in Descriptors /\ sockets'[x] = sockets[x]
      /\ DOMAIN sockets' \subseteq Fds /\ sockets' \in [DOMAIN sockets' -> Entries]
  BY <1>1, <1>2, WithTypes
<1>4. Replaced(id)
  BY <1>1, <1>2, <1>3 DEF Replaced, quiet
<1>5. \A x \in DOMAIN sockets' : FlagsOf(sockets'[x], hosts)
  BY <1>1, <1>3 DEF FlagsOf, SocketInv, Flags
<1>6. hosts' \in [Hosts -> HostStates] /\ Flags'
  BY <1>2, <1>3, <1>5, ClosedFlags
<1>7. Below'
  BY <1>3 DEF SocketInv, SocketTypes, Below, Fds
<1>8. SocketTypes'
  BY <1>3, <1>4, <1>6, ReplacedEvents DEF SocketTypes
<1> QED BY <1>4, <1>6, <1>7, <1>8, ReplacedEvents DEF SocketInv

LEMMA CloseStep ==
  ASSUME SocketInv, NEW fd \in Descriptors, CloseSocket(fd) PROVE SocketInv'
<1>1. /\ DOMAIN sockets' = Descriptors \ {fd}
      /\ \A x \in DOMAIN sockets' : sockets'[x] = sockets[x]
      /\ sockets' \in [DOMAIN sockets' -> Entries]
      /\ HostsClosed /\ Renewed(fd) /\ quiet /\ next_id' = next_id
  BY DEF CloseSocket, Restrict, SocketInv, SocketTypes
<1>2. fd \in Fds /\ Replaced(fd)
  BY <1>1 DEF Replaced, quiet, SocketInv, SocketTypes
<1>3. \A x \in DOMAIN sockets' : FlagsOf(sockets'[x], hosts)
  BY <1>1 DEF SocketInv, Flags
<1>4. hosts' \in [Hosts -> HostStates] /\ Flags'
  BY <1>1, <1>3, ClosedFlags
<1>5. SocketTypes' /\ Below'
  BY <1>1, <1>2, <1>4, ReplacedEvents DEF SocketInv, SocketTypes, Below
<1> QED BY <1>2, <1>4, <1>5, ReplacedEvents DEF SocketInv

-----------------------------------------------------------------------------
(* Connections. *)

(* Host sockets that have a descriptor change within their stage, or a      *)
(* connection comes to an end.                                              *)
LEMMA HostStep ==
  ASSUME SocketInv, NEW h \in Hosts \ Unused, NEW s \in HostStates, HostChanges(h, s),
         \/ s.stage = hosts[h].stage
         \/ hosts[h].stage = "connecting" /\ s.stage \in {"connected", "failed"}
  PROVE  SocketInv'
<1> USE DEF HostChanges, history
<1>1. SocketTypes' /\ Below' /\ Turns' /\ Announced' /\ EventsTrue'
  BY DEF SocketInv, SocketTypes, Below, Turns, Announced, EventsTrue, Waiting
<1>2. ASSUME NEW fd \in Descriptors PROVE FlagsOf(sockets[fd], hosts')
  <2>1. FlagsOf(sockets[fd], hosts)
    BY DEF SocketInv, Flags
  <2>2. \/ hosts'[sockets[fd].host].stage = hosts[sockets[fd].host].stage
        \/ /\ hosts[sockets[fd].host].stage = "connecting"
           /\ hosts'[sockets[fd].host].stage \in {"connected", "failed"}
    BY DEF SocketInv, SocketTypes
  <2> QED BY <2>1, <2>2 DEF FlagsOf
<1>3. \A x \in Unused' : hosts'[x] = NewHost
  BY DEF Unused, SocketInv, SocketTypes, Flags
<1> QED BY <1>1, <1>2, <1>3 DEF SocketInv, Flags

LEMMA HostsStep ==
  ASSUME SocketInv, NEW h \in Hosts \ Unused, Arrives(h) \/ PeerCloses(h) \/ ConnectEnds(h)
  PROVE  SocketInv'
<1>0. hosts[h] \in HostStates
  BY DEF SocketInv, SocketTypes
<1>1. CASE Arrives(h)
  <2>1. PICK s : s = [hosts[h] EXCEPT !.input = TRUE]
    OBVIOUS
  <2>2. s \in HostStates /\ s.stage = hosts[h].stage
    BY <1>0, <2>1 DEF HostStates
  <2> QED BY <1>1, <2>1, <2>2, HostStep DEF Arrives
<1>2. CASE PeerCloses(h)
  <2>1. PICK s : s = [hosts[h] EXCEPT !.eof = TRUE]
    OBVIOUS
  <2>2. s \in HostStates /\ s.stage = hosts[h].stage
    BY <1>0, <2>1 DEF HostStates
  <2> QED BY <1>2, <2>1, <2>2, HostStep DEF PeerCloses
<1>3. CASE ConnectEnds(h)
  <2>1. CASE HostChanges(h, Connected)
    BY <1>3, <2>1, HostStep, KnownStages DEF ConnectEnds
  <2>2. CASE HostChanges(h, [stage |-> "failed", input |-> FALSE, eof |-> TRUE, shut |-> TRUE])
    <3>1. PICK s : s = [stage |-> "failed", input |-> FALSE, eof |-> TRUE, shut |-> TRUE]
      OBVIOUS
    <3>2. s \in HostStates /\ s.stage = "failed"
      BY <3>1 DEF HostStates, Stages
    <3> QED BY <1>3, <2>2, <3>1, <3>2, HostStep DEF ConnectEnds
  <2> QED BY <1>3, <2>1, <2>2 DEF ConnectEnds
<1> QED BY <1>1, <1>2, <1>3

LEMMA DataStep ==
  ASSUME SocketInv, NEW fd \in Descriptors, recv(fd) \/ shutdown(fd) PROVE SocketInv'
<1>1. PICK h : h = sockets[fd].host
  OBVIOUS
<1>2. h \in Hosts \ Unused /\ hosts[h] \in HostStates
  BY <1>1 DEF SocketInv, SocketTypes, Unused, Entries
<1>3. CASE recv(fd)
  <2>1. PICK s : s = [hosts[h] EXCEPT !.input = FALSE]
    OBVIOUS
  <2>2. s \in HostStates /\ s.stage = hosts[h].stage
    BY <1>2, <2>1 DEF HostStates
  <2> QED BY <1>1, <1>2, <1>3, <2>1, <2>2, HostStep DEF recv
<1>4. CASE shutdown(fd)
  <2>1. PICK how \in 0 .. 2 :
          HostChanges(h, [hosts[h] EXCEPT !.eof = @ \/ how \in {0, 2}, !.shut = @ \/ how \in {1, 2}])
    BY <1>1, <1>4 DEF shutdown
  <2>2. PICK s : s = [hosts[h] EXCEPT !.eof = @ \/ how \in {0, 2}, !.shut = @ \/ how \in {1, 2}]
    OBVIOUS
  <2>3. s \in HostStates /\ s.stage = hosts[h].stage
    BY <1>2, <2>2 DEF HostStates
  <2> QED BY <1>1, <1>2, <2>1, <2>2, <2>3, HostStep
<1> QED BY <1>3, <1>4

(* A flag and the stage it stands for are set together, and no duplicate is *)
(* left with the flags of before.                                           *)
LEMMA FlaggedStep ==
  ASSUME SocketInv, ~ ListensShared, NEW fd \in Descriptors, NEW e \in Entries,
         NEW s \in HostStates, Flagged(fd, e, s),
         e.host = sockets[fd].host, e.pending_events = sockets[fd].pending_events,
         e.is_listener <=> s.stage = "listening",
         e.connected => s.stage \notin {"new", "listening"}
  PROVE  SocketInv'
<1>1. /\ \A x \in Descriptors \ {fd} : sockets[x].host # sockets[fd].host
      /\ sockets' = [sockets EXCEPT ![fd] = e]
      /\ hosts' = [hosts EXCEPT ![sockets[fd].host] = s]
      /\ UNCHANGED <<next_id, event_cursor, signalled, owed, silent, seen, passed, unfair>>
  BY DEF Flagged, history
<1>2. /\ DOMAIN sockets' = Descriptors /\ sockets' \in [Descriptors -> Entries]
      /\ sockets'[fd] = e /\ \A x \in Descriptors \ {fd} : sockets'[x] = sockets[x]
  BY <1>1 DEF SocketInv, SocketTypes
<1>3. sockets[fd].host \in Hosts
  BY DEF SocketInv, SocketTypes, Entries
<1>4. /\ hosts' \in [Hosts -> HostStates] /\ hosts'[sockets[fd].host] = s
      /\ \A h \in Hosts \ {sockets[fd].host} : hosts'[h] = hosts[h]
  BY <1>1, <1>3 DEF SocketInv, SocketTypes
<1>5. \A x \in Descriptors : /\ sockets'[x].pending_events = sockets[x].pending_events
                             /\ sockets'[x].host = sockets[x].host
  BY <1>2
<1>6. Waiting(sockets)' = Waiting(sockets) /\ Unused' = Unused
  BY <1>2, <1>5 DEF Waiting, Unused
<1>7. SocketTypes' /\ Below' /\ Turns' /\ Announced' /\ EventsTrue'
  BY <1>1, <1>2, <1>4, <1>5, <1>6
     DEF SocketInv, SocketTypes, Below, Turns, Announced, EventsTrue
<1>8. ASSUME NEW x \in Descriptors PROVE FlagsOf(sockets'[x], hosts')
  <2>1. CASE x = fd
    BY <1>2, <1>4, <2>1 DEF FlagsOf
  <2>2. CASE x # fd
    <3>1. FlagsOf(sockets[x], hosts) /\ sockets[x].host \in Hosts
      BY DEF SocketInv, Flags, SocketTypes, Entries
    <3> QED BY <1>1, <1>2, <1>4, <2>2, <3>1 DEF FlagsOf
  <2> QED BY <2>1, <2>2
<1>9. \A h \in Unused' : hosts'[h] = NewHost
  BY <1>4, <1>6 DEF SocketInv, Flags, Unused
<1> QED BY <1>2, <1>7, <1>8, <1>9 DEF SocketInv, Flags

LEMMA ListenStep ==
  ASSUME SocketInv, ~ ListensShared, NEW fd \in Descriptors, listen(fd) PROVE SocketInv'
<1>1. PICK e, s : /\ e = [sockets[fd] EXCEPT !.is_listener = TRUE]
                  /\ s = [NewHost EXCEPT !.stage = "listening"]
  OBVIOUS
<1>2. sockets[fd] \in Entries /\ FlagsOf(sockets[fd], hosts) /\ hosts[sockets[fd].host].stage = "new"
  BY DEF SocketInv, SocketTypes, Flags, listen, Flagged
<1>3. ~ sockets[fd].connected
  BY <1>2 DEF FlagsOf
<1>4. /\ e \in Entries /\ e.host = sockets[fd].host
      /\ e.pending_events = sockets[fd].pending_events
      /\ e.is_listener /\ e.connected = sockets[fd].connected
  BY <1>1, <1>2 DEF Entries
<1>5. s \in HostStates /\ s.stage = "listening"
  BY <1>1 DEF NewHost, HostStates, Stages
<1>6. Flagged(fd, e, s)
  BY <1>1 DEF listen
<1> QED BY <1>3, <1>4, <1>5, <1>6, FlaggedStep

LEMMA ConnectStep ==
  ASSUME SocketInv, ~ ListensShared, NEW fd \in Descriptors, connect(fd) PROVE SocketInv'
<1>1. PICK e : e = [sockets[fd] EXCEPT !.connected = TRUE]
  OBVIOUS
<1>2. PICK s \in {Connected, [NewHost EXCEPT !.stage = "connecting"]} :
        Flagged(fd, e, s)
  BY <1>1 DEF connect
<1>3. sockets[fd] \in Entries /\ FlagsOf(sockets[fd], hosts) /\ hosts[sockets[fd].host].stage = "new"
  BY <1>2 DEF SocketInv, SocketTypes, Flags, Flagged
<1>4. ~ sockets[fd].is_listener
  BY <1>3 DEF FlagsOf
<1>5. /\ e \in Entries /\ e.host = sockets[fd].host
      /\ e.pending_events = sockets[fd].pending_events
      /\ e.is_listener = sockets[fd].is_listener
  BY <1>1, <1>3 DEF Entries
<1>6. s \in HostStates /\ s.stage \in {"connected", "connecting"}
  BY <1>2 DEF Connected, NewHost, HostStates, Stages
<1> QED BY <1>2, <1>4, <1>5, <1>6, FlaggedStep

-----------------------------------------------------------------------------
(* Events. *)

(* What the library reads of a socket is the case, by its flags.            *)
LEMMA NewBitsTrue ==
  ASSUME SocketInv, NEW fd \in Descriptors
  PROVE  new_bits(fd) \subseteq sockets[fd].event_mask \intersect True(sockets[fd].host)
<1>1. PICK e, s : e = sockets[fd] /\ s = hosts[e.host]
  OBVIOUS
<1>2. /\ e \in Entries /\ s \in HostStates
      /\ e.is_listener <=> s.stage = "listening"
      /\ e.connected => s.stage \notin {"new", "listening"}
  BY <1>1 DEF SocketInv, SocketTypes, Flags, FlagsOf, Entries
<1> SUFFICES ASSUME NEW b \in new_bits(fd) PROVE b \in e.event_mask /\ b \in True(e.host)
  BY <1>1
<1>3. /\ b \in e.event_mask
      /\ \/ b = "ACCEPT" /\ POLLIN(e.host) /\ e.is_listener
         \/ b = "READ" /\ POLLIN(e.host) /\ ~ e.is_listener
         \/ b = "CLOSE" /\ s.eof
         \/ b = "CLOSE" /\ POLLHUP(e.host) /\ e.connected
         \/ b = "WRITE" /\ POLLOUT(e.host) /\ e.connected
         \/ b = "ERROR" /\ POLLERR(e.host)
  BY <1>1 DEF new_bits, peeked_eof
<1>4. b \in True(e.host)
  BY <1>1, <1>2, <1>3 DEF True, POLLHUP
<1> QED BY <1>3, <1>4

LEMMA WaitSelectStep == ASSUME SocketInv, WaitSelect PROVE SocketInv'
<1> USE DEF WaitSelect
<1>1. /\ DOMAIN sockets' = Descriptors
      /\ \A fd \in Descriptors :
           /\ sockets'[fd] = [sockets[fd] EXCEPT !.pending_events = @ \union new_bits(fd)]
           /\ sockets[fd] \in Entries /\ fd \in Fds
  BY DEF SocketInv, SocketTypes
<1>2. \A fd \in Descriptors :
        /\ new_bits(fd) \subseteq sockets[fd].event_mask \intersect True(sockets[fd].host)
        /\ sockets[fd].event_mask \subseteq Events
  BY <1>1, NewBitsTrue DEF Entries
<1>3. \A fd \in Descriptors :
        /\ sockets'[fd] \in Entries /\ sockets'[fd].host = sockets[fd].host
        /\ sockets'[fd].is_listener = sockets[fd].is_listener
        /\ sockets'[fd].connected = sockets[fd].connected
        /\ sockets'[fd].pending_events = sockets[fd].pending_events \union new_bits(fd)
  BY <1>1, <1>2 DEF Entries
<1>4. /\ seen' \in [Fds -> SUBSET Events]
      /\ \A fd \in Descriptors : seen'[fd] =
           seen[fd] \union (sockets[fd].event_mask \intersect True(sockets[fd].host))
  BY <1>1, <1>2 DEF SocketInv, SocketTypes
<1>5. SocketTypes' /\ Below'
  BY <1>1, <1>3, <1>4 DEF SocketInv, SocketTypes, Below
<1>6. Flags'
  <2>1. Unused' = Unused
    BY <1>1, <1>3 DEF Unused
  <2>2. ASSUME NEW fd \in Descriptors PROVE FlagsOf(sockets'[fd], hosts)
    <3>1. FlagsOf(sockets[fd], hosts)
      BY DEF SocketInv, Flags
    <3>2. /\ sockets'[fd].host = sockets[fd].host
          /\ sockets'[fd].is_listener = sockets[fd].is_listener
          /\ sockets'[fd].connected = sockets[fd].connected
      BY <1>3
    <3> HIDE DEF WaitSelect
    <3> QED BY <3>1, <3>2 DEF FlagsOf
  <2>3. hosts' = hosts
    OBVIOUS
  <2> QED BY <1>1, <2>1, <2>2, <2>3 DEF SocketInv, Flags
<1>7. /\ Waiting(sockets)' = Waiting(sockets')
      /\ \A x \in Waiting(sockets) : x \in Waiting(sockets')
      /\ \A x \in Waiting(sockets') : /\ x \in Descriptors
                                      /\ x \in Waiting(sockets) \/ new_bits(x) # {}
  BY <1>1, <1>3 DEF Waiting
<1>8. Turns'
  <2>1. \A x \in Fds \ Waiting(sockets') : passed[x] = {}
    BY <1>7 DEF SocketInv, Turns
  <2>2. ASSUME NEW x \in Waiting(sockets'), NEW y \in passed[x] PROVE Before(y, event_cursor, x)
    <3>1. x \in Fds
      BY <1>1, <1>7
    <3>2. x \in Waiting(sockets)
      BY <3>1, <2>2 DEF SocketInv, Turns
    <3> QED BY <3>2, <2>2 DEF SocketInv, Turns
  <2> QED BY <1>7, <2>1, <2>2 DEF SocketInv, Turns
<1>9. Announced'
  <2> SUFFICES ASSUME NEW fd \in Waiting(sockets') PROVE fd \in silent' \/ signalled' \/ owed'
    BY <1>7 DEF Announced
  <2>1. CASE new_bits(fd) # {}
    BY <1>7, <2>1 DEF any_new_event
  <2>2. CASE new_bits(fd) = {}
    <3>1. fd \in silent \/ signalled \/ owed
      BY <1>7, <2>2 DEF SocketInv, Announced
    <3> QED BY <2>2, <3>1
  <2> QED BY <2>1, <2>2
<1>10. EventsTrue'
  BY <1>1, <1>2, <1>3, <1>4 DEF SocketInv, EventsTrue
<1> QED BY <1>5, <1>6, <1>8, <1>9, <1>10 DEF SocketInv

LEMMA ArmStep ==
  ASSUME SocketInv, NEW fd \in Descriptors, NEW mask \in EventMasks, ArmEvents(fd, mask)
  PROVE  SocketInv'
<1> USE DEF ArmEvents
<1>1. PICK e : e = [sockets[fd] EXCEPT !.event_mask = mask, !.pending_events = @ \intersect mask]
  OBVIOUS
<1>2. /\ e \in Entries /\ e.host = sockets[fd].host /\ e.is_listener = sockets[fd].is_listener
      /\ e.connected = sockets[fd].connected
      /\ e.pending_events = sockets[fd].pending_events \intersect mask
  BY <1>1, TableAssumption DEF SocketInv, SocketTypes, Entries
<1>3. /\ DOMAIN sockets' = Descriptors /\ sockets'[fd] = e
      /\ \A x \in Descriptors \ {fd} : sockets'[x] = sockets[x]
  BY <1>1 DEF SocketInv, SocketTypes
<1>4. /\ fd \in Fds /\ seen'[fd] = seen[fd] \intersect mask
      /\ \A x \in Fds \ {fd} : seen'[x] = seen[x]
      /\ seen' \in [Fds -> SUBSET Events]
  BY DEF SocketInv, SocketTypes
<1>5. /\ passed'[fd] = IF e.pending_events = {} THEN {} ELSE passed[fd]
      /\ \A x \in Fds \ {fd} : passed'[x] = passed[x]
      /\ passed' \in [Fds -> SUBSET Fds]
  BY <1>3, <1>4 DEF SocketInv, SocketTypes
<1>6. SocketTypes' /\ Below'
  <2>1. sockets' = [sockets EXCEPT ![fd] = e]
    BY <1>1
  <2>2. sockets' \in [Descriptors -> Entries]
    BY <1>2, <2>1 DEF SocketInv, SocketTypes
  <2> QED BY <1>3, <1>4, <1>5, <2>2 DEF SocketInv, SocketTypes, Below
<1>7. Flags'
  <2>1. \A x \in Descriptors : FlagsOf(sockets'[x], hosts)
    BY <1>2, <1>3 DEF SocketInv, Flags, FlagsOf
  <2>2. Unused' = Unused
    BY <1>2, <1>3 DEF Unused
  <2> QED BY <1>3, <2>1, <2>2 DEF SocketInv, Flags
<1>8. /\ Waiting(sockets)' = Waiting(sockets')
      /\ \A x \in Fds \ {fd} : x \in Waiting(sockets') <=> x \in Waiting(sockets)
      /\ fd \in Waiting(sockets') <=> e.pending_events # {}
      /\ fd \in Waiting(sockets') => fd \in Waiting(sockets)
      /\ Waiting(sockets') \subseteq Fds
  BY <1>2, <1>3 DEF Waiting, SocketInv, SocketTypes
<1>9. Turns'
  <2>1. \A x \in Fds \ Waiting(sockets') : passed'[x] = {}
    BY <1>4, <1>5, <1>8 DEF SocketInv, Turns
  <2>2. ASSUME NEW x \in Waiting(sockets'), NEW y \in passed'[x] PROVE Before(y, event_cursor, x)
    <3>1. x \in Waiting(sockets) /\ y \in passed[x]
      BY <1>5, <1>8, <2>2
    <3> QED BY <3>1 DEF SocketInv, Turns
  <2> QED BY <1>8, <2>1, <2>2 DEF SocketInv, Turns
<1>10. Announced'
  BY <1>8 DEF SocketInv, Announced
<1>11. EventsTrue'
  BY <1>2, <1>3, <1>4, <1>6 DEF SocketInv, SocketTypes, EventsTrue
<1> QED BY <1>6, <1>7, <1>9, <1>10, <1>11 DEF SocketInv

LEMMA ReturnStep == ASSUME SocketInv, GetSocketEvents PROVE SocketInv'
<1> DEFINE S == Waiting(sockets)
<1>1. PICK fd : fd = next(S)
  OBVIOUS
<1>2. /\ sockets' = [sockets EXCEPT ![fd].pending_events = {}]
      /\ event_cursor' = fd /\ seen' = [seen EXCEPT ![fd] = {}] /\ silent' = silent \ {fd}
      /\ unfair' = (unfair \/ \E x \in S \ {fd} : fd \in passed[x])
      /\ passed' = [x \in Fds |-> IF x \in S \ {fd} THEN passed[x] \union {fd} ELSE {}]
      /\ UNCHANGED <<next_id, signalled, hosts, owed>> /\ S # {}
  BY <1>1 DEF GetSocketEvents
<1>3. S \subseteq Descriptors /\ S \subseteq Fds /\ S \in SUBSET Nat
      /\ event_cursor \in Nat \union {-1}
  BY DEF Waiting, SocketInv, SocketTypes, Fds
<1>4. /\ fd \in S
      /\ \A x \in S : x > event_cursor => event_cursor < fd /\ fd <= x
      /\ fd <= event_cursor => \A x \in S : fd <= x
  BY <1>1, <1>2, <1>3, NextInTurn
<1>5. /\ DOMAIN sockets' = Descriptors /\ sockets' \in [Descriptors -> Entries]
      /\ \A x \in Descriptors : /\ sockets'[x].host = sockets[x].host
                                /\ sockets'[x].is_listener = sockets[x].is_listener
                                /\ sockets'[x].connected = sockets[x].connected
      /\ sockets'[fd].pending_events = {}
      /\ \A x \in Descriptors \ {fd} : sockets'[x] = sockets[x]
  <2>1. PICK e : e = [sockets[fd] EXCEPT !.pending_events = {}]
    OBVIOUS
  <2>2. sockets[fd] \in Entries
    BY <1>3, <1>4 DEF SocketInv, SocketTypes
  <2>3. /\ e \in Entries /\ e.host = sockets[fd].host /\ e.is_listener = sockets[fd].is_listener
        /\ e.connected = sockets[fd].connected /\ e.pending_events = {}
    BY <2>1, <2>2 DEF Entries
  <2>4. sockets' = [sockets EXCEPT ![fd] = e]
    BY <1>2, <2>1
  <2> QED BY <1>3, <1>4, <2>3, <2>4 DEF SocketInv, SocketTypes
<1>6. SocketTypes' /\ Below'
  BY <1>2, <1>3, <1>4, <1>5 DEF SocketInv, SocketTypes, Below
<1>7. Flags'
  <2>1. Unused' = Unused
    BY <1>5 DEF Unused
  <2> QED BY <1>2, <1>5, <2>1 DEF SocketInv, Flags, FlagsOf
<1>8. Waiting(sockets)' = S \ {fd}
  BY <1>3, <1>5 DEF Waiting
<1>9. Turns'
  <2>1. ASSUME NEW x \in S \ {fd}, NEW y \in passed[x]
        PROVE  y # fd /\ Before(y, fd, x)
    <3>1. Before(y, event_cursor, x)
      BY DEF SocketInv, Turns
    <3>2. y \in Nat /\ fd \in S /\ x \in S /\ x # fd
      BY <1>3, <1>4 DEF SocketInv, SocketTypes, Fds
    <3>3. /\ x > event_cursor => event_cursor < fd /\ fd <= x
          /\ fd <= event_cursor => fd <= x
      BY <1>4
    <3> HIDE DEF S
    <3> QED BY <1>3, <3>1, <3>2, <3>3, TurnAdvances
  <2>2. ASSUME NEW x \in S \ {fd} PROVE Before(fd, fd, x)
    <3>1. fd \in Nat /\ x \in Nat /\ x # fd
      BY <1>3, <1>4
    <3> QED BY <3>1 DEF Before
  <2>3. ~ unfair'
    BY <1>2, <2>1 DEF SocketInv, Turns
  <2>4. \A x \in Fds \ (S \ {fd}) : passed'[x] = {}
    BY <1>2
  <2>5. \A x \in S \ {fd} : \A y \in passed'[x] : Before(y, fd, x)
    BY <1>2, <1>3, <2>1, <2>2
  <2> QED BY <1>2, <1>8, <2>3, <2>4, <2>5 DEF Turns
<1>10. Announced'
  BY <1>2, <1>8 DEF SocketInv, Announced
<1>11. EventsTrue'
  BY <1>2, <1>3, <1>4, <1>5 DEF SocketInv, SocketTypes, EventsTrue
<1> QED BY <1>6, <1>7, <1>9, <1>10, <1>11 DEF SocketInv
-----------------------------------------------------------------------------

LEMMA SocketsInitInv == SocketsInit => SocketInv
<1> SUFFICES ASSUME SocketsInit PROVE SocketInv
  OBVIOUS
<1> USE DEF SocketsInit
<1>1. Descriptors = {} /\ Waiting(sockets) = {}
  BY DEF Waiting
<1>2. SocketTypes
  BY <1>1, KnownStages, TableAssumption DEF SocketTypes, Fds
<1>3. Flags
  BY <1>1 DEF Flags, Unused
<1>4. Turns
  BY <1>1 DEF Turns
<1> QED BY <1>1, <1>2, <1>3, <1>4 DEF SocketInv, Below, Announced, EventsTrue

LEMMA DupStep ==
  ASSUME SocketInv, NoWrap, NEW fd \in Descriptors, Dup(fd) PROVE SocketInv'
<1>1. next_id \in 1 .. MaxInt - 1 /\ next_id \in Fds
  BY TableAssumption DEF Dup, SocketInv, SocketTypes, NoWrap, Fds
<1>2. next_id' = next_id + 1 /\ next_id' \in 1 .. MaxInt
  BY <1>1, NextNumber DEF Dup
<1> QED BY <1>1, <1>2, DuplicateStep DEF Dup

LEMMA Dup2SocketStep ==
  ASSUME SocketInv, NoWrap, NEW fd \in Descriptors, NEW new_fd \in Targets,
         Dup2Socket(fd, new_fd)
  PROVE  SocketInv'
<1>1. new_fd \in 0 .. MaxInt - 1 /\ new_fd \in Fds /\ next_id \in 1 .. MaxInt
  BY TableAssumption DEF SocketInv, SocketTypes, NoWrap, Fds
<1>2. Following(new_fd) = new_fd + 1 /\ Following(new_fd) \in 1 .. MaxInt
  BY <1>1, NextNumber
<1>3. next_id' \in 1 .. MaxInt /\ next_id <= next_id' /\ new_fd < next_id'
  BY <1>1, <1>2 DEF Dup2Socket, Raised
<1> QED BY <1>1, <1>3, DuplicateStep DEF Dup2Socket

(* The table, the sockets and what is armed stay. *)
LEMMA OtherStep ==
  ASSUME SocketInv,
         \/ SetTableSize(TableLimit) \/ SetSocketSignals \/ TakeSignal \/ NoSocketEvents
         \/ UNCHANGED socketVars
  PROVE  SocketInv'
<1>1. UNCHANGED <<sockets, next_id, event_cursor, hosts, silent, seen, passed, unfair>>
  BY DEF SetTableSize, SetSocketSignals, TakeSignal, NoSocketEvents, socketVars, history
<1>2. SocketTypes' /\ Below' /\ Flags' /\ Turns' /\ EventsTrue'
  BY <1>1 DEF SocketInv, SocketTypes, Below, Flags, Turns, EventsTrue, Unused, Waiting
<1>3. Waiting(sockets)' = Waiting(sockets)
  BY <1>1 DEF Waiting
<1>4. Announced'
  BY <1>1, <1>3 DEF SocketInv, Announced, SetTableSize, SetSocketSignals, TakeSignal,
                    NoSocketEvents, socketVars, history
<1> QED BY <1>2, <1>4 DEF SocketInv

LEMMA SocketsStep ==
  ASSUME SocketInv, NoWrap, ~ ListensShared, [SocketsNext]_socketVars PROVE SocketInv'
<1>1. CASE socket
  BY <1>1, SocketStep
<1>2. CASE WaitSelect
  BY <1>2, WaitSelectStep
<1>3. CASE GetSocketEvents
  BY <1>3, ReturnStep
<1>4. ASSUME NEW fd \in Descriptors,
             \/ accept(fd) \/ listen(fd) \/ connect(fd) \/ recv(fd) \/ shutdown(fd)
             \/ Dup(fd) \/ CloseSocket(fd)
             \/ \E new_fd \in Targets : Dup2Socket(fd, new_fd)
             \/ \E mask \in EventMasks : ArmEvents(fd, mask)
      PROVE  SocketInv'
  BY <1>4, AcceptStep, ListenStep, ConnectStep, DataStep, DupStep, CloseStep, Dup2SocketStep,
     ArmStep
<1>5. ASSUME NEW h \in Hosts \ Unused, Arrives(h) \/ PeerCloses(h) \/ ConnectEnds(h)
      PROVE  SocketInv'
  BY <1>5, HostsStep
<1>6. CASE \/ SetTableSize(TableLimit) \/ SetSocketSignals \/ TakeSignal \/ NoSocketEvents
           \/ UNCHANGED socketVars
  BY <1>6, OtherStep
<1> QED BY <1>1, <1>2, <1>3, <1>4, <1>5, <1>6 DEF SocketsNext

(* Events reach a program once, under the right descriptor, announced, and  *)
(* in turn, for any number of sockets and descriptors (wait_select_poll,    *)
(* get_socket_events_handler).                                              *)
THEOREM EventsNeverLost ==
  ASSUME NoWrap, ~ ListensShared
  PROVE  SocketsSpec => []EventsDelivered
<1>1. SocketsInit => SocketInv
  BY SocketsInitInv
<1>2. SocketInv /\ [SocketsNext]_socketVars => SocketInv'
  BY SocketsStep
<1>3. SocketInv => EventsDelivered
  BY DEF SocketInv, Turns, EventsDelivered
<1> QED BY <1>1, <1>2, <1>3, PTL DEF SocketsSpec

-----------------------------------------------------------------------------
(* DescriptorsKept. *)

Sized == /\ IsFiniteSet(Descriptors) /\ dtablesize \in Nat
         /\ Cardinality(Descriptors) <= dtablesize

\* What a step does to the descriptors.
Keeping == \A fd \in Descriptors :
             \/ fd \in DOMAIN sockets' /\ sockets'[fd].host = sockets[fd].host
             \/ CloseSocket(fd)
             \/ \E old \in Descriptors : Dup2Socket(old, fd)

(* The table grows only where there is room (socket, accept, Dup2Socket). *)
LEMMA RoomKept ==
  ASSUME Sized, NEW id, HasRoom(id), DOMAIN sockets' = Descriptors \union {id},
         dtablesize' = dtablesize
  PROVE  Sized'
<1>1. /\ IsFiniteSet(Descriptors \union {id})
      /\ Cardinality(Descriptors \union {id}) =
           IF id \in Descriptors THEN Cardinality(Descriptors) ELSE Cardinality(Descriptors) + 1
  BY FS_AddElement DEF Sized
<1>2. Cardinality(Descriptors) \in Nat
  BY FS_CardinalityType DEF Sized
<1> QED BY <1>1, <1>2 DEF Sized, HasRoom, Full

LEMMA SameDescriptors ==
  ASSUME Sized, DOMAIN sockets' = Descriptors, dtablesize' = dtablesize,
         \A fd \in Descriptors : sockets'[fd].host = sockets[fd].host
  PROVE  Sized' /\ Keeping
BY DEF Sized, Keeping

(* SocketBaseTagList never makes the table smaller. *)
LEMMA TableGrows ==
  ASSUME Sized, SetTableSize(TableLimit) PROVE Sized' /\ Keeping
<1>1. \A a, b \in Int : /\ Max({a, b}) \in Int /\ Max({a, b}) >= a /\ Max({a, b}) >= b
  <2> TAKE a, b \in Int
  <2>1. PICK c \in {a, b} : \A y \in {a, b} : c >= y
    OBVIOUS
  <2>2. Max({a, b}) \in {a, b} /\ \A y \in {a, b} : Max({a, b}) >= y
    BY <2>1 DEF Max
  <2> QED BY <2>2
<1>2. \A a, b \in Int : Min({a, b}) \in Int
  <2> TAKE a, b \in Int
  <2>1. PICK c \in {a, b} : \A y \in {a, b} : c <= y
    OBVIOUS
  <2>2. Min({a, b}) \in {a, b}
    BY <2>1 DEF Min
  <2> QED BY <2>2
<1>3. PICK n : n = Min({Max({TableLimit, MAX_OPEN_SOCKETS}), TableLimit})
  OBVIOUS
<1>4. n \in Int /\ dtablesize \in Int /\ dtablesize' = Max({n, dtablesize})
  <2>1. TableLimit \in Int /\ MAX_OPEN_SOCKETS \in Int /\ dtablesize \in Int
    BY TableAssumption DEF Sized
  <2>2. PICK k : k = Max({TableLimit, MAX_OPEN_SOCKETS})
    OBVIOUS
  <2>3. k \in Int
    BY <1>1, <2>1, <2>2
  <2>4. n = Min({k, TableLimit})
    BY <1>3, <2>2
  <2>5. n \in Int
    BY <1>2, <2>1, <2>3, <2>4
  <2>6. dtablesize' = Max({n, dtablesize})
    BY <1>3 DEF SetTableSize
  <2> QED BY <2>1, <2>5, <2>6
<1>5. dtablesize' \in Int /\ dtablesize' >= dtablesize
  BY <1>1, <1>4
<1>6. Cardinality(Descriptors) \in Nat
  BY FS_CardinalityType DEF Sized
<1>7. sockets' = sockets
  BY DEF SetTableSize
<1> QED BY <1>5, <1>6, <1>7 DEF Sized, Keeping

(* A descriptor that is handed out is new: all are below next_id.           *)
LEMMA NewDescriptor ==
  ASSUME SocketInv, Sized, NEW e \in Entries, ~ Full, sockets' = With(next_id, e),
         dtablesize' = dtablesize, next_id \in Fds
  PROVE  Sized' /\ Keeping
<1>1. /\ DOMAIN sockets' = Descriptors \union {next_id}
      /\ \A fd \in DOMAIN sockets' \ {next_id} : sockets'[fd] = sockets[fd]
  BY WithTypes
<1>2. next_id \notin Descriptors
  BY DEF SocketInv, Below, SocketTypes, Fds
<1>3. Sized'
  BY <1>1, RoomKept DEF HasRoom
<1>4. Keeping
  BY <1>1, <1>2 DEF Keeping
<1> QED BY <1>3, <1>4

LEMMA DuplicateKept ==
  ASSUME SocketInv, Sized, NEW fd \in Descriptors, NEW id \in Fds, Duplicated(fd, id)
  PROVE  /\ Sized'
         /\ \A x \in Descriptors \ {id} : x \in DOMAIN sockets' /\ sockets'[x].host = sockets[x].host
<1> PICK e : e = Duplicate(fd)
  OBVIOUS
<1>1. e \in Entries
  BY DEF Duplicate, SocketEntry, Entries, SocketInv, SocketTypes
<1>2. sockets' = With(id, e) /\ HasRoom(id) /\ dtablesize' = dtablesize
  BY DEF Duplicated, quiet
<1>3. /\ DOMAIN sockets' = Descriptors \union {id}
      /\ \A x \in DOMAIN sockets' \ {id} : sockets'[x] = sockets[x]
  BY <1>1, <1>2, WithTypes
<1> QED BY <1>2, <1>3, RoomKept

LEMMA KeptStep ==
  ASSUME SocketInv, Sized, NoWrap, [SocketsNext]_socketVars
  PROVE  Sized' /\ Keeping
<1>0. next_id \in Fds
  BY DEF SocketInv, SocketTypes, Fds
<1>1. CASE socket
  <2>1. PICK h \in Unused : /\ ~ Full /\ sockets' = With(next_id, SocketEntry(h)) /\ quiet
    BY <1>1 DEF socket
  <2> QED BY <1>0, <2>1, NewEntry, NewDescriptor DEF Unused, quiet
<1>2. ASSUME NEW fd \in Descriptors, accept(fd) PROVE Sized' /\ Keeping
  <2>1. PICK h \in Unused :
          /\ ~ Full /\ quiet
          /\ sockets' = With(next_id, [SocketEntry(h) EXCEPT !.connected = TRUE])
    BY <1>2 DEF accept
  <2>2. PICK e : e = [SocketEntry(h) EXCEPT !.connected = TRUE]
    OBVIOUS
  <2>3. e \in Entries
    BY <2>2 DEF SocketEntry, Entries, Unused
  <2> QED BY <1>0, <2>1, <2>2, <2>3, NewDescriptor DEF quiet
<1>3. ASSUME NEW fd \in Descriptors, Dup(fd) PROVE Sized' /\ Keeping
  <2>1. next_id \notin Descriptors
    BY <1>0 DEF SocketInv, Below, SocketTypes, Fds
  <2> QED BY <1>0, <1>3, <2>1, DuplicateKept DEF Dup, Keeping
<1>4. ASSUME NEW fd \in Descriptors, NEW new_fd \in Targets, Dup2Socket(fd, new_fd)
      PROVE  Sized' /\ Keeping
  <2>1. new_fd \in Fds
    BY TableAssumption DEF Fds
  <2>2. Duplicated(fd, new_fd)
    BY <1>4 DEF Dup2Socket
  <2> QED BY <1>4, <2>1, <2>2, DuplicateKept DEF Keeping
<1>5. ASSUME NEW fd \in Descriptors, CloseSocket(fd) PROVE Sized' /\ Keeping
  <2>1. /\ DOMAIN sockets' = Descriptors \ {fd} /\ dtablesize' = dtablesize
        /\ \A x \in Descriptors \ {fd} : sockets'[x] = sockets[x]
    BY <1>5 DEF CloseSocket, quiet, Restrict
  <2>2. IsFiniteSet(Descriptors \ {fd}) /\ Cardinality(Descriptors \ {fd}) <= Cardinality(Descriptors)
    BY FS_Subset DEF Sized
  <2>3. Cardinality(Descriptors) \in Nat /\ Cardinality(Descriptors \ {fd}) \in Nat
    BY <2>2, FS_CardinalityType DEF Sized
  <2>4. Sized'
    BY <2>1, <2>2, <2>3 DEF Sized
  <2>5. Keeping
    BY <1>5, <2>1 DEF Keeping
  <2> QED BY <2>4, <2>5
<1>6. CASE SetTableSize(TableLimit)
  BY <1>6, TableGrows
<1>7. CASE \/ GetSocketEvents \/ WaitSelect
  <2>1. DOMAIN sockets' = Descriptors /\ dtablesize' = dtablesize
    BY <1>7 DEF GetSocketEvents, WaitSelect, SocketInv, SocketTypes
  <2>2. \A x \in Descriptors : sockets'[x].host = sockets[x].host
    <3>1. CASE WaitSelect
      BY <3>1 DEF WaitSelect, SocketInv, SocketTypes, Entries
    <3>2. CASE GetSocketEvents
      <4>1. PICK n : n = next(Waiting(sockets))
        OBVIOUS
      <4>2. sockets' = [sockets EXCEPT ![n].pending_events = {}]
        BY <3>2, <4>1 DEF GetSocketEvents
      <4> QED BY <4>2 DEF SocketInv, SocketTypes, Entries
    <3> QED BY <1>7, <3>1, <3>2
  <2> QED BY <2>1, <2>2, SameDescriptors
<1>8. ASSUME NEW fd \in Descriptors, NEW mask \in EventMasks, ArmEvents(fd, mask)
      PROVE  Sized' /\ Keeping
  <2>1. /\ DOMAIN sockets' = Descriptors /\ dtablesize' = dtablesize
        /\ \A x \in Descriptors : sockets'[x].host = sockets[x].host
    BY <1>8 DEF ArmEvents, SocketInv, SocketTypes, Entries
  <2> QED BY <2>1, SameDescriptors
<1>9. ASSUME NEW fd \in Descriptors, listen(fd) \/ connect(fd) PROVE Sized' /\ Keeping
  <2>1. PICK e : e.host = sockets[fd].host /\ sockets' = [sockets EXCEPT ![fd] = e]
    <3>1. CASE listen(fd)
      <4>1. sockets' = [sockets EXCEPT ![fd] = [sockets[fd] EXCEPT !.is_listener = TRUE]]
        BY <3>1 DEF listen, Flagged
      <4>2. [sockets[fd] EXCEPT !.is_listener = TRUE].host = sockets[fd].host
        BY DEF SocketInv, SocketTypes, Entries
      <4> QED BY <4>1, <4>2
    <3>2. CASE connect(fd)
      <4>1. sockets' = [sockets EXCEPT ![fd] = [sockets[fd] EXCEPT !.connected = TRUE]]
        BY <3>2 DEF connect, Flagged
      <4>2. [sockets[fd] EXCEPT !.connected = TRUE].host = sockets[fd].host
        BY DEF SocketInv, SocketTypes, Entries
      <4> QED BY <4>1, <4>2
    <3> QED BY <1>9, <3>1, <3>2
  <2>2. dtablesize' = dtablesize
    BY <1>9 DEF listen, connect, Flagged
  <2>3. DOMAIN sockets' = Descriptors /\ \A x \in Descriptors : sockets'[x].host = sockets[x].host
    BY <2>1 DEF SocketInv, SocketTypes
  <2> QED BY <2>2, <2>3, SameDescriptors
<1>10. ASSUME \/ \E fd \in Descriptors : recv(fd) \/ shutdown(fd)
              \/ \E h \in Hosts \ Unused : Arrives(h) \/ PeerCloses(h) \/ ConnectEnds(h)
              \/ SetSocketSignals \/ TakeSignal \/ NoSocketEvents \/ UNCHANGED socketVars
       PROVE  Sized' /\ Keeping
  <2>1. sockets' = sockets /\ dtablesize' = dtablesize
    BY <1>10 DEF recv, shutdown, Arrives, PeerCloses, ConnectEnds, HostChanges, SetSocketSignals,
                 TakeSignal, NoSocketEvents, socketVars
  <2> QED BY <2>1, SameDescriptors
<1> QED BY <1>1, <1>2, <1>3, <1>4, <1>5, <1>6, <1>7, <1>8, <1>9, <1>10 DEF SocketsNext

(* A descriptor stays that of its socket until it is closed or duplicated   *)
(* onto, and the table holds at most dtablesize, whatever Dup2Socket picks  *)
(* (socket_handler, accept_handler, dup2_socket_handler).                   *)
THEOREM DescriptorsNeverStolen ==
  ASSUME NoWrap, ~ ListensShared
  PROVE  SocketsSpec => DescriptorsKept
<1>1. SocketsInit => SocketInv
  BY SocketsInitInv
<1>2. SocketsInit => Sized
  BY FS_EmptySet, TableAssumption DEF SocketsInit, Sized
<1>3. SocketInv /\ [SocketsNext]_socketVars => SocketInv'
  BY SocketsStep
<1>4. SocketInv /\ Sized /\ [SocketsNext]_socketVars => Sized' /\ Keeping
  BY KeptStep
<1>5. Sized => Cardinality(Descriptors) <= dtablesize
  BY DEF Sized
<1> QED BY <1>1, <1>2, <1>3, <1>4, <1>5, PTL DEF SocketsSpec, DescriptorsKept, Keeping
=============================================================================
