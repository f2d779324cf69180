--------------------------- MODULE ExecCallsProofs ---------------------------
(***************************************************************************)
(* Proofs about facilities of exec.library: interrupts (ExecCause), the    *)
(* patches of its vectors (ExecSetFunction), the allocator of a pool that  *)
(* the guest made (ExecChunks), and lists and ports (ExecPorts).           *)
(***************************************************************************)
EXTENDS ExecCause, ExecSetFunction, ExecChunks, ExecPorts, FiniteSetTheorems,
        SequenceTheorems, WellFoundedInduction, TLAPS

-----------------------------------------------------------------------------
(* DrainsTransparent of ExecCause for any interrupts, priorities and register
   values.  The queues and the node types always match (Queued), saved is set
   exactly while a handler runs, and then to what the task had (Drain). *)

Types == {"NT_INTERRUPT", "NT_SOFTINT"}
LevelOf(n) == level_for_priority(ln_Pri[n])

\* Of queues q and node types ty: a node is in a queue, once, if and only if
\* its type says so, and then in that of its level.
InLevel(q, ty) == \A l \in Levels : \A i \in DOMAIN q[l] :
                    ty[q[l][i]] = "NT_SOFTINT" /\ LevelOf(q[l][i]) = l
Found(q, ty) == \A n \in Ints : ty[n] = "NT_SOFTINT" =>
                  LevelOf(n) \in Levels /\ \E i \in DOMAIN q[LevelOf(n)] : q[LevelOf(n)][i] = n
Once(q) == \A l \in Levels : \A i, j \in DOMAIN q[l] : q[l][i] = q[l][j] => i = j
Queued(q, ty) ==
  /\ q \in [Levels -> Seq(Ints)]
  /\ ty \in [Ints -> Types]
  /\ InLevel(q, ty) /\ Found(q, ty) /\ Once(q)

\* The registers, and who runs.
Drain ==
  /\ owner \in Regs \X Regs
  /\ handler \in Ints \union {NOBODY}
  /\ handler = NOBODY => /\ <<A5, A6>> = owner /\ saved = NOBODY
                         /\ \A l \in Levels : queues[l] = <<>>
  /\ handler # NOBODY => saved = owner

CauseInv == Queued(queues, is_Type) /\ Drain

-----------------------------------------------------------------------------
(* Putting a node into its queue, and taking the next one out. *)

LEMMA PutIn ==
  ASSUME NEW q, NEW ty, Queued(q, ty), NEW n \in Ints, ty[n] # "NT_SOFTINT",
         LevelOf(n) \in Levels
  PROVE  Queued([q EXCEPT ![LevelOf(n)] = Append(@, n)], [ty EXCEPT ![n] = "NT_SOFTINT"])
<1> DEFINE k == LevelOf(n)
           Q == [q EXCEPT ![k] = Append(@, n)]
           T == [ty EXCEPT ![n] = "NT_SOFTINT"]
<1>1. /\ q \in [Levels -> Seq(Ints)] /\ ty \in [Ints -> Types] /\ k \in Levels
      /\ InLevel(q, ty) /\ Found(q, ty) /\ Once(q)
  BY DEF Queued
<1>2. /\ Q \in [Levels -> Seq(Ints)] /\ T \in [Ints -> Types]
      /\ Q[k] = Append(q[k], n)
      /\ \A l \in Levels \ {k} : Q[l] = q[l]
      /\ T[n] = "NT_SOFTINT"
      /\ \A m \in Ints \ {n} : T[m] = ty[m]
  BY <1>1 DEF Types
<1>3. /\ q[k] \in Seq(Ints)
      /\ DOMAIN Q[k] = 1 .. Len(q[k]) + 1 /\ Len(q[k]) \in Nat
      /\ Q[k][Len(q[k]) + 1] = n
      /\ \A i \in DOMAIN q[k] : i \in 1 .. Len(q[k]) /\ Q[k][i] = q[k][i]
      /\ \A i \in DOMAIN Q[k] : i = Len(q[k]) + 1 \/ i \in DOMAIN q[k]
  BY <1>1, <1>2
<1>4. \A l \in Levels : \A i \in DOMAIN q[l] : q[l][i] \in Ints /\ q[l][i] # n
  BY <1>1 DEF InLevel
<1> HIDE DEF k, Q, T
<1>5. InLevel(Q, T)
  <2> SUFFICES ASSUME NEW l \in Levels, NEW i \in DOMAIN Q[l]
               PROVE  T[Q[l][i]] = "NT_SOFTINT" /\ LevelOf(Q[l][i]) = l
    BY DEF InLevel
  <2>1. CASE l # k
    BY <2>1, <1>1, <1>2, <1>4 DEF InLevel
  <2>2. CASE l = k /\ i \in DOMAIN q[k]
    BY <2>2, <1>1, <1>2, <1>3, <1>4 DEF InLevel
  <2>3. CASE l = k /\ i = Len(q[k]) + 1
    BY <2>3, <1>2, <1>3 DEF k
  <2> QED BY <2>1, <2>2, <2>3, <1>3
<1>6. Found(Q, T)
  <2> SUFFICES ASSUME NEW m \in Ints, T[m] = "NT_SOFTINT"
               PROVE  LevelOf(m) \in Levels /\ \E i \in DOMAIN Q[LevelOf(m)] : Q[LevelOf(m)][i] = m
    BY DEF Found
  <2>1. CASE m = n
    <3>1. Len(q[k]) + 1 \in DOMAIN Q[k] BY <1>3
    <3> QED BY <2>1, <3>1, <1>1, <1>3 DEF k
  <2>2. CASE m # n
    <3>1. ty[m] = "NT_SOFTINT"
      BY <2>2, <1>2
    <3>2. /\ LevelOf(m) \in Levels
          /\ \E i \in DOMAIN q[LevelOf(m)] : q[LevelOf(m)][i] = m
      BY <3>1, <1>1 DEF Found
    <3>3. PICK i \in DOMAIN q[LevelOf(m)] : q[LevelOf(m)][i] = m
      BY <3>2
    <3>4. i \in DOMAIN Q[LevelOf(m)] /\ Q[LevelOf(m)][i] = m
      BY <3>2, <3>3, <1>2, <1>3
    <3> QED BY <3>2, <3>4
  <2> QED BY <2>1, <2>2
<1>7. Once(Q)
  <2> SUFFICES ASSUME NEW l \in Levels, NEW i \in DOMAIN Q[l], NEW j \in DOMAIN Q[l],
                      Q[l][i] = Q[l][j]
               PROVE  i = j
    BY DEF Once
  <2>1. CASE l # k
    BY <2>1, <1>1, <1>2 DEF Once
  <2>2. CASE l = k /\ i \in DOMAIN q[k] /\ j \in DOMAIN q[k]
    BY <2>2, <1>1, <1>3 DEF Once
  <2>3. CASE l = k /\ (i = Len(q[k]) + 1 \/ j = Len(q[k]) + 1)
    BY <2>3, <1>1, <1>3, <1>4
  <2> QED BY <2>1, <2>2, <2>3, <1>3
<1> QED BY <1>2, <1>5, <1>6, <1>7 DEF Queued, k, Q, T

LEMMA TakeOut ==
  ASSUME NEW q, NEW ty, Queued(q, ty), NEW k \in Levels, q[k] # <<>>
  PROVE  /\ Head(q[k]) \in Ints
         /\ Queued([q EXCEPT ![k] = Tail(@)], [ty EXCEPT ![Head(q[k])] = "NT_INTERRUPT"])
<1> DEFINE n == Head(q[k])
           Q == [q EXCEPT ![k] = Tail(@)]
           T == [ty EXCEPT ![n] = "NT_INTERRUPT"]
<1>1. /\ q \in [Levels -> Seq(Ints)] /\ ty \in [Ints -> Types]
      /\ InLevel(q, ty) /\ Found(q, ty) /\ Once(q)
  BY DEF Queued
<1>2. /\ n \in Ints /\ Len(q[k]) \in Nat \ {0} /\ n = q[k][1] /\ 1 \in DOMAIN q[k]
      /\ DOMAIN q[k] = 1 .. Len(q[k])
      /\ \A i \in DOMAIN q[k] : q[k][i] \in Ints
  BY <1>1
<1>3. /\ Q \in [Levels -> Seq(Ints)] /\ T \in [Ints -> Types]
      /\ Q[k] = Tail(q[k])
      /\ \A l \in Levels \ {k} : Q[l] = q[l]
      /\ T[n] = "NT_INTERRUPT"
      /\ \A m \in Ints \ {n} : T[m] = ty[m]
  BY <1>1, <1>2 DEF Types
<1>4. /\ DOMAIN Q[k] = 1 .. Len(q[k]) - 1
      /\ \A i \in DOMAIN Q[k] : i + 1 \in DOMAIN q[k] /\ Q[k][i] = q[k][i + 1] /\ i \in Nat \ {0}
  BY <1>1, <1>2, <1>3
<1>5. /\ LevelOf(n) = k
      /\ \A l \in Levels : \A i \in DOMAIN q[l] : q[l][i] = n => l = k /\ i = 1
  BY <1>1, <1>2 DEF InLevel, Once
<1> HIDE DEF n, Q, T
<1>6. InLevel(Q, T)
  <2> SUFFICES ASSUME NEW l \in Levels, NEW i \in DOMAIN Q[l]
               PROVE  T[Q[l][i]] = "NT_SOFTINT" /\ LevelOf(Q[l][i]) = l
    BY DEF InLevel
  <2>1. PICK j \in DOMAIN q[l] : Q[l][i] = q[l][j] /\ (l = k => j # 1)
    <3>1. CASE l = k
      <4>1. i + 1 \in DOMAIN q[l] /\ Q[l][i] = q[l][i + 1] /\ i + 1 # 1
        BY <3>1, <1>4
      <4> QED BY <4>1
    <3>2. CASE l # k
      BY <3>2, <1>3
    <3> QED BY <3>1, <3>2
  <2>2. q[l][j] # n /\ q[l][j] \in Ints /\ ty[q[l][j]] = "NT_SOFTINT" /\ LevelOf(q[l][j]) = l
    BY <2>1, <1>1, <1>5 DEF InLevel
  <2> QED BY <2>1, <2>2, <1>3
<1>7. Found(Q, T)
  <2> SUFFICES ASSUME NEW m \in Ints, T[m] = "NT_SOFTINT"
               PROVE  LevelOf(m) \in Levels /\ \E i \in DOMAIN Q[LevelOf(m)] : Q[LevelOf(m)][i] = m
    BY DEF Found
  <2>1. m # n /\ ty[m] = "NT_SOFTINT"
    BY <1>3
  <2>2. /\ LevelOf(m) \in Levels
        /\ \E i \in DOMAIN q[LevelOf(m)] : q[LevelOf(m)][i] = m
    BY <2>1, <1>1 DEF Found
  <2>3. PICK j \in DOMAIN q[LevelOf(m)] : q[LevelOf(m)][j] = m
    BY <2>2
  <2>4. CASE LevelOf(m) = k
    <3>1. j # 1 /\ j - 1 \in DOMAIN Q[k] /\ (j - 1) + 1 = j
      BY <2>1, <2>3, <2>4, <1>2, <1>4
    <3>2. Q[k][j - 1] = m
      BY <3>1, <2>3, <2>4, <1>4
    <3> QED BY <3>1, <3>2, <2>4
  <2>5. CASE LevelOf(m) # k
    BY <2>2, <2>5, <1>3
  <2> QED BY <2>2, <2>4, <2>5
<1>8. Once(Q)
  <2> SUFFICES ASSUME NEW l \in Levels, NEW i \in DOMAIN Q[l], NEW j \in DOMAIN Q[l],
                      Q[l][i] = Q[l][j]
               PROVE  i = j
    BY DEF Once
  <2>1. CASE l # k
    BY <2>1, <1>1, <1>3 DEF Once
  <2>2. CASE l = k
    <3>1. /\ i + 1 \in DOMAIN q[k] /\ j + 1 \in DOMAIN q[k] /\ q[k][i + 1] = q[k][j + 1]
          /\ i \in Nat /\ j \in Nat
      BY <2>2, <1>4
    <3>2. i + 1 = j + 1
      BY <3>1, <1>1 DEF Once
    <3> QED BY <3>1, <3>2
  <2> QED BY <2>1, <2>2
<1> QED BY <1>2, <1>3, <1>6, <1>7, <1>8 DEF Queued, n, Q, T

\* The highest busy level is one.
LEMMA HighestBusy ==
  ASSUME NEW q, Busy(q) # {}
  PROVE  Highest(q) \in Levels /\ q[Highest(q)] # <<>>
<1>1. \E l \in Busy(q) : \A k \in Busy(q) : l >= k
  <2>1. CASE 4 \in Busy(q) BY <2>1 DEF Busy, Levels
  <2>2. CASE 4 \notin Busy(q) /\ 3 \in Busy(q) BY <2>2 DEF Busy, Levels
  <2>3. CASE 4 \notin Busy(q) /\ 3 \notin Busy(q) /\ 2 \in Busy(q) BY <2>3 DEF Busy, Levels
  <2>4. CASE 4 \notin Busy(q) /\ 3 \notin Busy(q) /\ 2 \notin Busy(q) /\ 1 \in Busy(q)
    BY <2>4 DEF Busy, Levels
  <2>5. CASE Busy(q) \subseteq {0}
    BY <2>5
  <2> QED BY <2>1, <2>2, <2>3, <2>4, <2>5 DEF Busy, Levels
<1>2. Highest(q) \in Busy(q)
  BY <1>1 DEF Highest
<1> QED BY <1>2 DEF Busy

\* What a step of the drain leaves, the queues being q and the types ty.
LEMMA DrainStep ==
  ASSUME NEW q, NEW ty, Queued(q, ty), owner \in Regs \X Regs, owner' = owner,
         drain_step(q, ty, owner)
  PROVE  CauseInv'
<1>1. CASE Busy(q) # {}
  <2> DEFINE n == Head(q[Highest(q)])
  <2>1. Highest(q) \in Levels /\ q[Highest(q)] # <<>>
    BY <1>1, HighestBusy
  <2>2. n \in Ints /\ Queued([q EXCEPT ![Highest(q)] = Tail(@)], [ty EXCEPT ![n] = "NT_INTERRUPT"])
    BY <2>1, TakeOut
  <2>3. /\ queues' = [q EXCEPT ![Highest(q)] = Tail(@)]
        /\ is_Type' = [ty EXCEPT ![n] = "NT_INTERRUPT"]
        /\ handler' = n /\ saved' = owner
    BY <1>1 DEF drain_step
  <2>4. Queued(queues', is_Type')
    BY <2>2, <2>3
  <2>5. Drain'
    BY <2>2, <2>3, RegsAssumption DEF Drain
  <2> QED BY <2>4, <2>5 DEF CauseInv
<1>2. CASE Busy(q) = {}
  <2>1. /\ queues' = q /\ is_Type' = ty /\ handler' = NOBODY /\ saved' = NOBODY
        /\ A5' = owner[1] /\ A6' = owner[2]
    BY <1>2 DEF drain_step
  <2>2. \A l \in Levels : queues'[l] = <<>>
    BY <1>2, <2>1 DEF Busy
  <2>3. <<A5', A6'>> = owner'
    BY <2>1
  <2> QED BY <2>1, <2>2, <2>3 DEF CauseInv, Drain
<1> QED BY <1>1, <1>2

-----------------------------------------------------------------------------
(* The invariant. *)

LEMMA InvInit == CauseInit => CauseInv
<1> SUFFICES ASSUME CauseInit PROVE CauseInv
  OBVIOUS
<1>1. queues \in [Levels -> Seq(Ints)] /\ is_Type \in [Ints -> Types]
  BY DEF CauseInit, Types
<1>2. \A l \in Levels : queues[l] = <<>> /\ DOMAIN queues[l] = {}
  BY DEF CauseInit
<1>3. InLevel(queues, is_Type) /\ Once(queues)
  BY <1>2 DEF InLevel, Once
<1>4. Found(queues, is_Type)
  BY DEF CauseInit, Found
<1>5. Drain
  BY <1>2 DEF CauseInit, Drain
<1> QED BY <1>1, <1>3, <1>4, <1>5 DEF CauseInv, Queued

LEMMA LevelInRange ==
  ASSUME NEW n \in Ints, LevelOf(n) # NOBODY
  PROVE  LevelOf(n) \in Levels
<1>1. ln_Pri[n] \in -32 .. 32
  BY DEF LevelOf, level_for_priority
<1>2. ln_Pri[n] \div 16 \in -2 .. 2
  BY <1>1, SMT
<1> QED BY <1>1, <1>2 DEF LevelOf, level_for_priority, Levels

LEMMA InvStep == CauseInv /\ [CauseNext]_causeVars => CauseInv'
<1> SUFFICES ASSUME CauseInv, [CauseNext]_causeVars PROVE CauseInv'
  OBVIOUS
<1> USE DEF CauseInv
<1>1. ASSUME NEW n \in Ints, Cause(n)
      PROVE  CauseInv'
  <2> DEFINE q  == [queues EXCEPT ![LevelOf(n)] = Append(@, n)]
             ty == [is_Type EXCEPT ![n] = "NT_SOFTINT"]
  <2>1. Queued(q, ty)
    <3>1. is_Type[n] # "NT_SOFTINT" /\ LevelOf(n) \in Levels
      BY <1>1, LevelInRange DEF Cause, LevelOf
    <3> QED BY <3>1, PutIn
  <2>2. owner' = owner /\ owner \in Regs \X Regs
    BY <1>1 DEF Cause, Drain
  <2> HIDE DEF q, ty
  <2>3. CASE saved = NOBODY
    <3>1. handler = NOBODY
      BY <2>3, RegsAssumption DEF Drain
    <3>2. <<A5, A6>> = owner
      BY <3>1 DEF Drain
    <3>3. drain_step(q, ty, <<A5, A6>>)
      BY <1>1, <2>3 DEF Cause, q, ty, LevelOf
    <3>4. drain_step(q, ty, owner)
      BY <3>2, <3>3
    <3> QED BY <2>1, <2>2, <3>4, DrainStep
  <2>4. CASE saved # NOBODY
    <3>1. handler # NOBODY
      BY <2>4 DEF Drain
    <3>2. /\ queues' = q /\ is_Type' = ty
          /\ UNCHANGED <<saved, A5, A6, handler>>
      BY <1>1, <2>4 DEF Cause, Nested, q, ty, LevelOf
    <3>3. Drain'
      BY <2>2, <3>1, <3>2 DEF Drain
    <3> QED BY <2>1, <3>2, <3>3
  <2> QED BY <2>3, <2>4
<1>2. ASSUME HandlerReturns
      PROVE  CauseInv'
  <2>1. handler # NOBODY /\ drain_step(queues, is_Type, saved) /\ owner' = owner
    BY <1>2 DEF HandlerReturns
  <2>2. saved = owner /\ owner \in Regs \X Regs
    BY <2>1 DEF Drain
  <2>3. drain_step(queues, is_Type, owner)
    BY <2>1, <2>2
  <2> QED BY <2>1, <2>2, <2>3, DrainStep
<1>3. ASSUME NEW a5 \in Regs, NEW a6 \in Regs, UseRegisters(a5, a6)
      PROVE  CauseInv'
  <2>1. UNCHANGED <<queues, is_Type, saved, handler>>
    BY <1>3 DEF UseRegisters
  <2>2. Drain'
    BY <1>3, <2>1 DEF UseRegisters, Drain
  <2> QED BY <2>1, <2>2 DEF Queued
<1>4. ASSUME UNCHANGED <<queues, is_Type, saved, A5, A6, handler, owner>>
      PROVE  CauseInv'
  BY <1>4 DEF Queued, Drain
<1> QED
  BY <1>1, <1>2, <1>3, <1>4
     DEF CauseNext, causeVars, CausePending, CauseRefused, AddIntServer, RemIntServer, stub_error

\* Queued in the terms of the property.
LEMMA QueuedRuns == CauseInv => DrainsTransparent
<1> SUFFICES ASSUME CauseInv PROVE DrainsTransparent
  OBVIOUS
<1>1. /\ InLevel(queues, is_Type) /\ Found(queues, is_Type) /\ Once(queues) /\ Drain
      /\ queues \in [Levels -> Seq(Ints)]
  BY DEF CauseInv, Queued
<1>2. \A n \in Ints : Waiting(n) = IF is_Type[n] = "NT_SOFTINT"
                                 THEN {level_for_priority(ln_Pri[n])} ELSE {}
  <2> SUFFICES ASSUME NEW n \in Ints
               PROVE  Waiting(n) = IF is_Type[n] = "NT_SOFTINT" THEN {LevelOf(n)} ELSE {}
    BY DEF LevelOf
  <2>1. \A l \in Waiting(n) : l = LevelOf(n) /\ is_Type[n] = "NT_SOFTINT"
    BY <1>1 DEF Waiting, InLevel
  <2>2. is_Type[n] = "NT_SOFTINT" => LevelOf(n) \in Waiting(n)
    BY <1>1 DEF Waiting, Found
  <2> QED BY <2>1, <2>2
<1>3. PendingWillRun
  BY <1>1, <1>2 DEF PendingWillRun, Once, Drain
<1>4. CallerUntouched
  BY <1>1 DEF CallerUntouched, Drain
<1> QED BY <1>3, <1>4 DEF DrainsTransparent

(* Whatever handlers run, call Cause and do to A5 and A6: a pending node    *)
(* waits once, in the queue of its level; the drain goes on until none      *)
(* waits; and the code that called Cause goes on with its own registers     *)
(* (execint.rs).                                                            *)
THEOREM InterruptsTransparent == CauseSpec => []DrainsTransparent
<1>1. CauseSpec => []CauseInv
  BY InvInit, InvStep, PTL DEF CauseSpec
<1> QED BY <1>1, QueuedRuns, PTL

-----------------------------------------------------------------------------
(* PatchesKept of ExecSetFunction for any libraries, entries, hooks and size of
   the stub pool.  The invariant says of every entry that its content and the
   functions its hooks replaced make a chain down to the native function
   (ChainOf); that an entry that is still a trap has no stub, which keeps the
   stubs apart (StubsApart); and that a sum that is asked for is the true one,
   unless the table is marked or was written behind exec's back (SumsTrue). *)

Flags == {"SUMUSED", "CHANGED"}
Traps == {Trap(e) : e \in Entries}

PatchTypes ==
  /\ entry = [e \in Entries |-> entry[e]]
  /\ \A e \in Entries : entry[e] = Trap(e) \/ entry[e] = Jmp(entry[e].to)
  /\ stub \in Seq(Traps)
  /\ next_stub \in Nat /\ next_stub <= STUB_POOL_SIZE
  /\ lib_Flags \in [Libs -> SUBSET Flags]
  /\ lib_Sum = [l \in Libs |-> lib_Sum[l]]
  /\ hooked \in [Entries -> Seq(Hooks)]
  /\ old = [h \in Hooks |-> old[h]]

\* Reaches, with stubs st.
ReachesIn(f, e, st) ==
  \/ f = Native(e)
  \/ f.op = "stub" /\ f.to \in DOMAIN st /\ st[f.to] = Trap(e)

\* Entry e holds c, and has hooks w, which replaced what ol says.
ChainOf(e, c, w, st, ol) ==
  /\ w = <<>> => c = Trap(e) \/ (c.op = "jmp" /\ ReachesIn(c.to, e, st))
  /\ w # <<>> => c = Jmp(Hook(w[Len(w)])) /\ ReachesIn(ol[w[1]], e, st)
  /\ \A i \in 2 .. Len(w) : ol[w[i]] = Hook(w[i - 1])

Chains == \A e \in Entries : ChainOf(e, entry[e], hooked[e], stub, old)

StubsApart ==
  /\ \A s, t \in DOMAIN stub : stub[s] = stub[t] => s = t
  /\ \A e \in Entries : entry[e] = Trap(e) =>
       LibOf[e] \in Builtin /\ \A s \in DOMAIN stub : stub[s] # Trap(e)

SumsTrue ==
  \A l \in Libs : "SUMUSED" \in lib_Flags[l] /\ "CHANGED" \notin lib_Flags[l] /\ l \notin untold
                    => lib_Sum[l] = checksum(entry, l)

PatchInv == PatchTypes /\ Chains /\ StubsApart /\ SumsTrue /\ NoFalseAlert

-----------------------------------------------------------------------------
(* Chains. *)

\* A chain stays when a stub is added and another hook is put somewhere.
LEMMA ChainKept ==
  ASSUME NEW e \in Entries, NEW c, NEW w \in Seq(Hooks), NEW st \in Seq(Traps),
         NEW ol, NEW st2 \in Seq(Traps), NEW ol2,
         ChainOf(e, c, w, st, ol),
         \A s \in DOMAIN st : s \in DOMAIN st2 /\ st2[s] = st[s],
         \A i \in DOMAIN w : ol2[w[i]] = ol[w[i]]
  PROVE  ChainOf(e, c, w, st2, ol2)
<1>1. \A f : ReachesIn(f, e, st) => ReachesIn(f, e, st2)
  BY DEF ReachesIn
<1>2. DOMAIN w = 1 .. Len(w) /\ Len(w) \in Nat /\ (w # <<>> => 1 \in DOMAIN w)
  OBVIOUS
<1>3. \A i \in 2 .. Len(w) : i \in DOMAIN w
  BY <1>2
<1> QED BY <1>1, <1>2, <1>3 DEF ChainOf

LEMMA OneMore ==
  ASSUME NEW S, NEW s \in Seq(S), NEW x \in S
  PROVE  /\ Append(s, x) \in Seq(S) /\ Len(s) \in Nat /\ Len(Append(s, x)) = Len(s) + 1
         /\ Append(s, x)[Len(s) + 1] = x /\ Append(s, x) # <<>>
         /\ \A i \in 1 .. Len(s) : Append(s, x)[i] = s[i]
<1>1. Len(s) \in Nat /\ Len(Append(s, x)) = Len(s) + 1 /\ Len(<<>>) = 0
  OBVIOUS
<1>2. Append(s, x) # <<>>
  BY <1>1
<1> QED BY <1>1, <1>2

LEMMA WithoutLast ==
  ASSUME NEW S, NEW s \in Seq(S), Len(s) > 0
  PROVE  /\ SubSeq(s, 1, Len(s) - 1) \in Seq(S)
         /\ Len(SubSeq(s, 1, Len(s) - 1)) = Len(s) - 1 /\ Len(s) - 1 \in Nat
         /\ \A i \in 1 .. Len(s) - 1 : SubSeq(s, 1, Len(s) - 1)[i] = s[i]
         /\ s[Len(s)] \in S
OBVIOUS

LEMMA OneLess ==
  ASSUME NEW S, NEW s \in Seq(S), s # <<>>
  PROVE  /\ Len(s) \in Nat \ {0} /\ s[Len(s)] \in S
         /\ SubSeq(s, 1, Len(s) - 1) \in Seq(S)
         /\ Len(SubSeq(s, 1, Len(s) - 1)) = Len(s) - 1
         /\ \A i \in 1 .. Len(s) - 1 : SubSeq(s, 1, Len(s) - 1)[i] = s[i]
<1>1. Len(s) \in Nat /\ Len(s) > 0
  OBVIOUS
<1> QED BY <1>1, WithoutLast

\* A hook that replaced what was there lengthens it.
LEMMA ChainLonger ==
  ASSUME NEW e \in Entries, NEW c, NEW w \in Seq(Hooks), NEW st, NEW ol,
         ChainOf(e, c, w, st, ol),
         NEW h \in Hooks, w = <<>> => ReachesIn(ol[h], e, st),
         w # <<>> => ol[h] = c.to
  PROVE  ChainOf(e, Jmp(Hook(h)), Append(w, h), st, ol)
<1> DEFINE v == Append(w, h)
           n == Len(w)
<1>1. n \in Nat /\ Len(v) = n + 1 /\ v[n + 1] = h /\ v # <<>>
      /\ \A i \in 1 .. n : v[i] = w[i]
  BY OneMore
<1>2. CASE w = <<>>
  <2>1. n = 0 /\ v[1] = h /\ v[Len(v)] = h /\ Len(v) = 1 /\ v # <<>>
    BY <1>1, <1>2
  <2>2. \A i \in 2 .. Len(v) : FALSE
    BY <2>1
  <2> HIDE DEF v, n
  <2> QED BY <1>2, <2>1, <2>2 DEF ChainOf, v
<1>3. CASE w # <<>>
  <2>1. n > 0 /\ v[1] = w[1]
    BY <1>1, <1>3
  <2>2. c = Jmp(Hook(w[n])) /\ ReachesIn(ol[w[1]], e, st)
    BY <1>3 DEF ChainOf
  <2>3. ol[h] = Hook(w[n])
    BY <1>3, <2>2 DEF Jmp
  <2>4. \A i \in 2 .. n : ol[w[i]] = Hook(w[i - 1])
    BY DEF ChainOf
  <2>5. \A i \in 2 .. n + 1 : ol[v[i]] = Hook(v[i - 1])
    <3> SUFFICES ASSUME NEW i \in 2 .. n + 1 PROVE ol[v[i]] = Hook(v[i - 1])
      OBVIOUS
    <3>1. CASE i = n + 1
      BY <1>1, <2>1, <2>3, <3>1
    <3>2. CASE i # n + 1
      <4>1. i \in 2 .. n /\ i \in 1 .. n /\ i - 1 \in 1 .. n
        BY <1>1, <3>2
      <4> QED BY <4>1, <1>1, <2>4
    <3> QED BY <3>1, <3>2
  <2> HIDE DEF v, n
  <2> QED BY <1>1, <2>1, <2>2, <2>5 DEF ChainOf, v
<1> QED BY <1>2, <1>3

\* What the newest hook replaced shortens it.
LEMMA ChainShorter ==
  ASSUME NEW e \in Entries, NEW c, NEW w \in Seq(Hooks), NEW st, NEW ol,
         ChainOf(e, c, w, st, ol), w # <<>>
  PROVE  ChainOf(e, Jmp(ol[w[Len(w)]]), SubSeq(w, 1, Len(w) - 1), st, ol)
<1> DEFINE v == SubSeq(w, 1, Len(w) - 1)
           n == Len(w)
           d == Jmp(ol[w[n]])
<1>1. n \in Nat \ {0} /\ Len(v) = n - 1 /\ \A i \in 1 .. n - 1 : v[i] = w[i]
  BY OneLess
<1>2. ReachesIn(ol[w[1]], e, st) /\ \A i \in 2 .. n : ol[w[i]] = Hook(w[i - 1])
  BY DEF ChainOf
<1>3. d.op = "jmp" /\ d.to = ol[w[n]]
  BY DEF Jmp
<1>4. CASE n = 1
  <2>1. v = <<>> /\ ReachesIn(d.to, e, st)
    BY <1>2, <1>3, <1>4
  <2> HIDE DEF v, d
  <2>2. \A i \in 2 .. Len(v) : FALSE
    BY <2>1
  <2>3. ChainOf(e, d, v, st, ol)
    BY <1>3, <2>1, <2>2 DEF ChainOf
  <2> QED BY <2>3 DEF v, d
<1>5. CASE n # 1
  <2>1. n \in 2 .. n /\ 1 \in 1 .. n - 1 /\ n - 1 \in 1 .. n - 1
    BY <1>1, <1>5
  <2>2. d = Jmp(Hook(v[Len(v)])) /\ v[1] = w[1] /\ v # <<>>
    <3>1. v[n - 1] = w[n - 1] /\ v[1] = w[1] /\ Len(v) = n - 1
      BY <1>1, <2>1
    <3>2. ol[w[n]] = Hook(w[n - 1])
      BY <1>2, <2>1
    <3>3. v # <<>>
      <4>1. Len(v) # 0
        BY <2>1, <3>1
      <4> HIDE DEF v
      <4> QED BY <4>1
    <3> HIDE DEF v
    <3> QED BY <3>1, <3>2, <3>3
  <2>3. \A i \in 2 .. n - 1 : ol[v[i]] = Hook(v[i - 1])
    <3> SUFFICES ASSUME NEW i \in 2 .. n - 1 PROVE ol[v[i]] = Hook(v[i - 1])
      OBVIOUS
    <3>1. i \in 2 .. n /\ i \in 1 .. n - 1 /\ i - 1 \in 1 .. n - 1
      BY <1>1
    <3> QED BY <3>1, <1>1, <1>2
  <2> HIDE DEF v, d
  <2>4. ChainOf(e, d, v, st, ol)
    BY <1>1, <1>2, <2>2, <2>3 DEF ChainOf
  <2> QED BY <2>4 DEF v, d
<1> QED BY <1>4, <1>5

-----------------------------------------------------------------------------
(* One entry is written. *)

LEMMA EntryWritten ==
  ASSUME PatchTypes, NEW e \in Entries, NEW f, entry' = [entry EXCEPT ![e] = Jmp(f)]
  PROVE  /\ entry' = [x \in Entries |-> entry'[x]]
         /\ \A x \in Entries : entry'[x] = Trap(x) \/ entry'[x] = Jmp(entry'[x].to)
         /\ entry'[e] = Jmp(f) /\ entry'[e] # Trap(e)
         /\ \A x \in Entries \ {e} : entry'[x] = entry[x]
<1>1. Jmp(f).to = f /\ Jmp(f) # Trap(e)
  BY DEF Jmp, Trap
<1>2. entry'[e] = Jmp(f) /\ \A x \in Entries \ {e} : entry'[x] = entry[x]
  BY DEF PatchTypes
<1>3. entry' = [x \in Entries |-> entry'[x]]
  BY DEF PatchTypes
<1> QED BY <1>1, <1>2, <1>3 DEF PatchTypes

\* An entry that is replaced: the stubs stay apart and where they were, and a
\* first patch leaves one more, with the trap in it.
LEMMA ReplaceStubs ==
  ASSUME PatchTypes, StubsApart, NEW e \in Entries, NEW f, Replace(e, f)
  PROVE  /\ entry' = [entry EXCEPT ![e] = Jmp(f)]
         /\ stub' \in Seq(Traps) /\ next_stub' \in Nat /\ next_stub' <= STUB_POOL_SIZE
         /\ \A s \in DOMAIN stub : s \in DOMAIN stub' /\ stub'[s] = stub[s]
         /\ entry[e] = Trap(e) =>
              Len(stub) + 1 \in DOMAIN stub' /\ stub'[Len(stub) + 1] = Trap(e)
         /\ StubsApart'
<1>1. entry' = [entry EXCEPT ![e] = Jmp(f)]
  BY DEF Replace
<1>2. /\ entry'[e] # Trap(e) /\ \A x \in Entries \ {e} : entry'[x] = entry[x]
  BY <1>1, EntryWritten
<1>3. CASE entry[e] # Trap(e)
  <2>1. entry[e] = Jmp(entry[e].to)
    BY <1>3 DEF PatchTypes
  <2>2. UNCHANGED <<stub, next_stub>>
    BY <2>1 DEF Replace, Jmp
  <2> QED BY <1>1, <1>2, <1>3, <2>2 DEF PatchTypes, StubsApart
<1>4. CASE entry[e] = Trap(e)
  <2>1. entry[e].op # "jmp"
    BY <1>4 DEF Trap
  <2>2. /\ stub' = Append(stub, Trap(e)) /\ next_stub' = next_stub + STUB_SLOT_SIZE /\ Room
    BY <1>4, <2>1 DEF Replace, Copy
  <2>3. stub \in Seq(Traps) /\ Trap(e) \in Traps /\ next_stub \in Nat
    BY DEF PatchTypes, Traps
  <2>4. /\ stub' \in Seq(Traps) /\ Len(stub) \in Nat /\ Len(stub') = Len(stub) + 1
        /\ stub'[Len(stub) + 1] = Trap(e) /\ \A s \in 1 .. Len(stub) : stub'[s] = stub[s]
    BY <2>2, <2>3, OneMore
  <2>5. DOMAIN stub = 1 .. Len(stub) /\ DOMAIN stub' = 1 .. Len(stub) + 1
    BY <2>3, <2>4
  <2>6. \A s \in DOMAIN stub' : s = Len(stub) + 1 \/ s \in DOMAIN stub
    BY <2>4, <2>5
  <2>7. \A s \in DOMAIN stub : s \in DOMAIN stub' /\ stub'[s] = stub[s] /\ stub[s] # Trap(e)
    BY <1>4, <2>4, <2>5 DEF StubsApart
  <2>8. \A s, t \in DOMAIN stub' : stub'[s] = stub'[t] => s = t
    BY <2>4, <2>6, <2>7 DEF StubsApart
  <2>9. \A x \in Entries \ {e} : Trap(x) # Trap(e)
    BY DEF Trap
  <2>10. \A x \in Entries : entry'[x] = Trap(x) =>
           LibOf[x] \in Builtin /\ \A s \in DOMAIN stub' : stub'[s] # Trap(x)
    <3> SUFFICES ASSUME NEW x \in Entries, entry'[x] = Trap(x)
                 PROVE  LibOf[x] \in Builtin /\ \A s \in DOMAIN stub' : stub'[s] # Trap(x)
      OBVIOUS
    <3>1. x # e /\ entry[x] = Trap(x)
      BY <1>2
    <3> QED BY <3>1, <2>4, <2>6, <2>7, <2>9 DEF StubsApart
  <2>11. next_stub' \in Nat /\ next_stub' <= STUB_POOL_SIZE
    BY <2>2, <2>3, PoolAssumption DEF Room
  <2> QED BY <1>1, <2>4, <2>5, <2>7, <2>8, <2>10, <2>11 DEF StubsApart
<1> QED BY <1>3, <1>4

LEMMA OtherSum ==
  ASSUME PatchTypes, NEW e \in Entries, NEW f, entry' = [entry EXCEPT ![e] = Jmp(f)],
         NEW l \in Libs, l # LibOf[e]
  PROVE  checksum(entry', l) = checksum(entry, l)
<1>1. \A x \in Entries : LibOf[x] = l => entry'[x] = entry[x]
  BY EntryWritten
<1> QED BY <1>1 DEF checksum

\* sum_library of l, whose flags are fl.
LEMMA SumMade ==
  ASSUME PatchTypes, NEW en, NEW l \in Libs, NEW fl \in SUBSET Flags, sum_library(en, fl, l)
  PROVE  /\ lib_Flags' \in [Libs -> SUBSET Flags] /\ lib_Sum' = [k \in Libs |-> lib_Sum'[k]]
         /\ lib_Flags'[l] = fl \ {"CHANGED"} /\ lib_Sum'[l] = SumAfter(en, fl, l)
         /\ \A k \in Libs \ {l} : lib_Flags'[k] = lib_Flags[k] /\ lib_Sum'[k] = lib_Sum[k]
<1>1. lib_Sum = [k \in Libs |-> lib_Sum[k]] /\ lib_Flags \in [Libs -> SUBSET Flags]
  BY DEF PatchTypes
<1>2. /\ lib_Sum' = [lib_Sum EXCEPT ![l] = SumAfter(en, fl, l)]
      /\ lib_Flags' = [lib_Flags EXCEPT ![l] = fl \ {"CHANGED"}]
  BY DEF sum_library
<1> QED BY <1>1, <1>2

\* refresh_lib_sum after an entry was written.
LEMMA Refreshed ==
  ASSUME PatchTypes, SumsTrue, NEW e \in Entries, NEW f, entry' = [entry EXCEPT ![e] = Jmp(f)],
         refresh_lib_sum(entry', LibOf[e])
  PROVE  /\ lib_Flags' \in [Libs -> SUBSET Flags] /\ lib_Sum' = [k \in Libs |-> lib_Sum'[k]]
         /\ SumsTrue'
<1> DEFINE l == LibOf[e]
           fl == lib_Flags[l] \union {"CHANGED"}
<1>1. l \in Libs /\ fl \in SUBSET Flags
  BY LibsAssumption DEF PatchTypes, Flags
<1>2. \A k \in Libs \ {l} : checksum(entry', k) = checksum(entry, k)
  BY OtherSum
<1>3. CASE "SUMUSED" \in lib_Flags[l]
  <2>1. sum_library(entry', fl, l) /\ untold' = untold \ {l}
    BY <1>3 DEF refresh_lib_sum
  <2> HIDE DEF l, fl
  <2>2. /\ lib_Flags' \in [Libs -> SUBSET Flags] /\ lib_Sum' = [k \in Libs |-> lib_Sum'[k]]
        /\ lib_Sum'[l] = SumAfter(entry', fl, l)
        /\ \A k \in Libs \ {l} : lib_Flags'[k] = lib_Flags[k] /\ lib_Sum'[k] = lib_Sum[k]
    BY <1>1, <2>1, SumMade
  <2>3. lib_Sum'[l] = checksum(entry', l)
    BY <2>2 DEF SumAfter, fl
  <2> QED BY <1>2, <2>1, <2>2, <2>3 DEF SumsTrue
<1>4. CASE "SUMUSED" \notin lib_Flags[l]
  <2>1. UNCHANGED <<lib_Sum, lib_Flags, untold>>
    BY <1>4 DEF refresh_lib_sum
  <2> QED BY <1>2, <1>4, <2>1 DEF SumsTrue, PatchTypes
<1> QED BY <1>3, <1>4

-----------------------------------------------------------------------------
(* The invariant. *)

\* Hook h, which is on no entry, is put on e, with what it replaced.
LEMMA ChainsLonger ==
  ASSUME PatchTypes, Chains, NEW e \in Entries, NEW h \in Hooks \ InUse, NEW f,
         entry' = [entry EXCEPT ![e] = Jmp(Hook(h))],
         hooked' = [hooked EXCEPT ![e] = Append(@, h)],
         old' = [old EXCEPT ![h] = f],
         stub' \in Seq(Traps), \A s \in DOMAIN stub : s \in DOMAIN stub' /\ stub'[s] = stub[s],
         entry[e].op = "jmp" => f = entry[e].to,
         entry[e] = Trap(e) => ReachesIn(f, e, stub')
  PROVE  /\ Chains' /\ hooked' \in [Entries -> Seq(Hooks)] /\ old' = [k \in Hooks |-> old'[k]]
<1>1. /\ hooked \in [Entries -> Seq(Hooks)] /\ old = [k \in Hooks |-> old[k]] /\ stub \in Seq(Traps)
  BY DEF PatchTypes
<1>2. /\ hooked'[e] = Append(hooked[e], h) /\ \A x \in Entries \ {e} : hooked'[x] = hooked[x]
      /\ old'[h] = f /\ \A k \in Hooks \ {h} : old'[k] = old[k]
      /\ hooked' \in [Entries -> Seq(Hooks)] /\ old' = [k \in Hooks |-> old'[k]]
  <2>1. hooked' = [hooked EXCEPT ![e] = Append(hooked[e], h)] /\ old' = [old EXCEPT ![h] = f]
    OBVIOUS
  <2>2. Append(hooked[e], h) \in Seq(Hooks)
    BY <1>1
  <2>3. /\ hooked'[e] = Append(hooked[e], h) /\ \A x \in Entries \ {e} : hooked'[x] = hooked[x]
        /\ hooked' \in [Entries -> Seq(Hooks)]
    BY <1>1, <2>1, <2>2, Zenon
  <2>4. old'[h] = f /\ (\A k \in Hooks \ {h} : old'[k] = old[k])
        /\ old' = [k \in Hooks |-> old'[k]]
    BY <1>1, <2>1, Zenon
  <2> QED BY <2>3, <2>4
<1>3. \A x \in Entries : \A i \in DOMAIN hooked[x] : old'[hooked[x][i]] = old[hooked[x][i]]
  BY <1>1, <1>2 DEF InUse
<1>4. /\ entry'[e] = Jmp(Hook(h)) /\ \A x \in Entries \ {e} : entry'[x] = entry[x]
  BY EntryWritten
<1>5. \A x \in Entries : ChainOf(x, entry[x], hooked[x], stub', old')
  <2> SUFFICES ASSUME NEW x \in Entries PROVE ChainOf(x, entry[x], hooked[x], stub', old')
    OBVIOUS
  <2>1. ChainOf(x, entry[x], hooked[x], stub, old) /\ hooked[x] \in Seq(Hooks)
    BY <1>1 DEF Chains
  <2> QED BY <2>1, <1>1, <1>3, ChainKept
<1>6. ChainOf(e, entry'[e], hooked'[e], stub', old')
  <2>1. ChainOf(e, entry[e], hooked[e], stub', old') /\ hooked[e] \in Seq(Hooks) /\ old'[h] = f
    BY <1>1, <1>2, <1>5
  <2>2. hooked[e] = <<>> => ReachesIn(f, e, stub')
    BY <2>1 DEF ChainOf
  <2>3. hooked[e] # <<>> => f = entry[e].to
    BY <2>1 DEF ChainOf, Jmp
  <2>4. ChainOf(e, Jmp(Hook(h)), Append(hooked[e], h), stub', old')
    BY <2>1, <2>2, <2>3, ChainLonger
  <2> QED BY <2>4, <1>2, <1>4
<1> QED BY <1>2, <1>4, <1>5, <1>6 DEF Chains

LEMMA SetStep ==
  ASSUME PatchInv, NEW e \in Entries, NEW h \in Hooks, SetFunction(e, h)
  PROVE  PatchInv'
<1>1. /\ PatchTypes /\ Chains /\ StubsApart /\ SumsTrue /\ Replace(e, Hook(h)) /\ h \notin InUse
      /\ old' = [old EXCEPT ![h] = Replaced(e)] /\ hooked' = [hooked EXCEPT ![e] = Append(@, h)]
      /\ refresh_lib_sum(entry', LibOf[e]) /\ alert' = NONE
  BY DEF SetFunction, PatchInv
<1>2. /\ entry' = [entry EXCEPT ![e] = Jmp(Hook(h))]
      /\ stub' \in Seq(Traps) /\ next_stub' \in Nat /\ next_stub' <= STUB_POOL_SIZE
      /\ \A s \in DOMAIN stub : s \in DOMAIN stub' /\ stub'[s] = stub[s]
      /\ entry[e] = Trap(e) => Len(stub) + 1 \in DOMAIN stub' /\ stub'[Len(stub) + 1] = Trap(e)
      /\ StubsApart'
  BY <1>1, ReplaceStubs
<1>3. entry[e].op = "jmp" => Replaced(e) = entry[e].to
  BY DEF Replaced
<1>4. entry[e] = Trap(e) => ReachesIn(Replaced(e), e, stub')
  BY <1>2 DEF Replaced, ReachesIn, Stub, Trap
<1>5. Chains' /\ hooked' \in [Entries -> Seq(Hooks)] /\ old' = [k \in Hooks |-> old'[k]]
  BY <1>1, <1>2, <1>3, <1>4, ChainsLonger
<1>6. /\ lib_Flags' \in [Libs -> SUBSET Flags] /\ lib_Sum' = [k \in Libs |-> lib_Sum'[k]]
      /\ SumsTrue'
  BY <1>1, <1>2, Refreshed
<1>7. PatchTypes'
  BY <1>1, <1>2, <1>5, <1>6, EntryWritten DEF PatchTypes
<1>8. NoFalseAlert'
  BY <1>1 DEF NoFalseAlert
<1> QED BY <1>2, <1>5, <1>6, <1>7, <1>8 DEF PatchInv

LEMMA RestoreStep ==
  ASSUME PatchInv, NEW e \in Entries, RestoreFunction(e)
  PROVE  PatchInv'
<1> DEFINE w == hooked[e]
           f == old[w[Len(w)]]
           v == SubSeq(w, 1, Len(w) - 1)
<1>1. /\ PatchTypes /\ Chains /\ StubsApart /\ SumsTrue /\ Replace(e, f) /\ w # <<>>
      /\ old' = old /\ hooked' = [hooked EXCEPT ![e] = v]
      /\ refresh_lib_sum(entry', LibOf[e]) /\ alert' = NONE
  BY DEF RestoreFunction, PatchInv
<1>2. /\ entry' = [entry EXCEPT ![e] = Jmp(f)]
      /\ stub' \in Seq(Traps) /\ next_stub' \in Nat /\ next_stub' <= STUB_POOL_SIZE
      /\ \A s \in DOMAIN stub : s \in DOMAIN stub' /\ stub'[s] = stub[s]
      /\ StubsApart'
  BY <1>1, ReplaceStubs
<1>3. hooked \in [Entries -> Seq(Hooks)] /\ w \in Seq(Hooks) /\ v \in Seq(Hooks)
      /\ stub \in Seq(Traps)
  BY <1>1, OneLess DEF PatchTypes
<1>4. ChainOf(e, Jmp(f), v, stub, old)
  <2>1. ChainOf(e, entry[e], w, stub, old)
    BY <1>1 DEF Chains
  <2> QED BY <2>1, <1>1, <1>3, ChainShorter
<1> HIDE DEF f, v
<1>5. /\ entry'[e] = Jmp(f) /\ \A x \in Entries \ {e} : entry'[x] = entry[x]
  BY <1>1, <1>2, EntryWritten
<1>6. /\ hooked'[e] = v /\ \A x \in Entries \ {e} : hooked'[x] = hooked[x]
      /\ hooked' \in [Entries -> Seq(Hooks)]
  BY <1>1, <1>3
<1>7. Chains'
  <2> SUFFICES ASSUME NEW x \in Entries
               PROVE  ChainOf(x, entry'[x], hooked'[x], stub', old')
    BY DEF Chains
  <2>1. ChainOf(x, entry'[x], hooked'[x], stub, old) /\ hooked'[x] \in Seq(Hooks)
    BY <1>1, <1>4, <1>5, <1>6 DEF Chains
  <2> QED BY <2>1, <1>1, <1>2, <1>3, ChainKept
<1>8. /\ lib_Flags' \in [Libs -> SUBSET Flags] /\ lib_Sum' = [k \in Libs |-> lib_Sum'[k]]
      /\ SumsTrue'
  BY <1>1, <1>2, Refreshed
<1>9. PatchTypes'
  BY <1>1, <1>2, <1>6, <1>8, EntryWritten DEF PatchTypes
<1>10. NoFalseAlert'
  BY <1>1 DEF NoFalseAlert
<1> QED BY <1>2, <1>7, <1>8, <1>9, <1>10 DEF PatchInv

LEMMA PokeStep ==
  ASSUME PatchInv, NEW e \in Entries, NEW h \in Hooks, NEW told \in BOOLEAN, Poke(e, h, told)
  PROVE  PatchInv'
<1> DEFINE l == LibOf[e]
<1>1. /\ PatchTypes /\ Chains /\ StubsApart /\ SumsTrue /\ h \notin InUse /\ l \notin Builtin
      /\ entry' = [entry EXCEPT ![e] = Jmp(Hook(h))]
      /\ old' = [old EXCEPT ![h] = entry[e].to] /\ hooked' = [hooked EXCEPT ![e] = Append(@, h)]
      /\ alert' = NONE /\ UNCHANGED <<stub, next_stub, lib_Sum>>
  BY DEF Poke, PatchInv
<1>2. entry[e] # Trap(e)
  BY <1>1 DEF StubsApart
<1>3. stub' \in Seq(Traps) /\ \A s \in DOMAIN stub : s \in DOMAIN stub' /\ stub'[s] = stub[s]
  BY <1>1 DEF PatchTypes
<1>4. Chains' /\ hooked' \in [Entries -> Seq(Hooks)] /\ old' = [k \in Hooks |-> old'[k]]
  BY <1>1, <1>2, <1>3, ChainsLonger
<1>5. StubsApart'
  <2>1. entry'[e] # Trap(e) /\ \A x \in Entries \ {e} : entry'[x] = entry[x]
    BY <1>1, EntryWritten
  <2> QED BY <2>1, <1>1 DEF StubsApart
<1>6. l \in Libs /\ lib_Flags \in [Libs -> SUBSET Flags]
  BY <1>1, LibsAssumption DEF PatchTypes
<1>7. \A k \in Libs \ {l} : checksum(entry', k) = checksum(entry, k)
  BY <1>1, OtherSum
<1> HIDE DEF l
<1>8. lib_Flags' \in [Libs -> SUBSET Flags] /\ SumsTrue'
  <2>1. CASE told
    <3>1. lib_Flags' = [lib_Flags EXCEPT ![l] = @ \union {"CHANGED"}] /\ untold' = untold
      BY <2>1 DEF Poke, l
    <3>2. /\ lib_Flags' \in [Libs -> SUBSET Flags] /\ "CHANGED" \in lib_Flags'[l]
          /\ \A k \in Libs \ {l} : lib_Flags'[k] = lib_Flags[k]
      BY <3>1, <1>6 DEF Flags
    <3> QED BY <3>1, <3>2, <1>1, <1>7 DEF SumsTrue
  <2>2. CASE ~told
    <3>1. lib_Flags' = lib_Flags /\ untold' = untold \union {l}
      BY <2>2 DEF Poke, l
    <3> QED BY <3>1, <1>1, <1>6, <1>7 DEF SumsTrue
  <2> QED BY <2>1, <2>2
<1>9. PatchTypes'
  BY <1>1, <1>3, <1>4, <1>8, EntryWritten DEF PatchTypes
<1>10. NoFalseAlert'
  BY <1>1 DEF NoFalseAlert
<1> QED BY <1>4, <1>5, <1>8, <1>9, <1>10 DEF PatchInv

LEMMA AddLibraryStep ==
  ASSUME PatchInv, NEW l \in Libs, AddLibrary(l)
  PROVE  PatchInv'
<1> DEFINE fl == lib_Flags[l] \union {"SUMUSED", "CHANGED"}
<1>1. /\ PatchTypes /\ SumsTrue /\ sum_library(entry, fl, l) /\ fl \in SUBSET Flags
      /\ untold' = untold \ {l} /\ alert' = NONE
      /\ UNCHANGED <<entry, stub, next_stub, hooked, old>>
  BY DEF AddLibrary, PatchInv, PatchTypes, Flags
<1> HIDE DEF fl
<1>2. /\ lib_Flags' \in [Libs -> SUBSET Flags] /\ lib_Sum' = [k \in Libs |-> lib_Sum'[k]]
      /\ lib_Sum'[l] = SumAfter(entry, fl, l)
      /\ \A k \in Libs \ {l} : lib_Flags'[k] = lib_Flags[k] /\ lib_Sum'[k] = lib_Sum[k]
  BY <1>1, SumMade
<1>3. lib_Sum'[l] = checksum(entry, l)
  BY <1>2 DEF SumAfter, fl
<1>4. SumsTrue'
  BY <1>1, <1>2, <1>3 DEF SumsTrue
<1> QED BY <1>1, <1>2, <1>4 DEF PatchInv, PatchTypes, Chains, StubsApart, NoFalseAlert

LEMMA SumLibraryStep ==
  ASSUME PatchInv, NEW l \in Libs, SumLibrary(l)
  PROVE  PatchInv'
<1> DEFINE fl == lib_Flags[l]
<1>1. /\ PatchTypes /\ SumsTrue /\ sum_library(entry, fl, l) /\ fl \in SUBSET Flags
      /\ alert' = IF "CHANGED" \notin fl /\ lib_Sum[l] # checksum(entry, l) THEN l ELSE NONE
      /\ untold' = IF "CHANGED" \in fl THEN untold \ {l} ELSE untold
      /\ UNCHANGED <<entry, stub, next_stub, hooked, old>>
  BY DEF SumLibrary, PatchInv, PatchTypes
<1>2. /\ lib_Flags' \in [Libs -> SUBSET Flags] /\ lib_Sum' = [k \in Libs |-> lib_Sum'[k]]
      /\ lib_Flags'[l] = fl \ {"CHANGED"} /\ lib_Sum'[l] = SumAfter(entry, fl, l)
      /\ \A k \in Libs \ {l} : lib_Flags'[k] = lib_Flags[k] /\ lib_Sum'[k] = lib_Sum[k]
  BY <1>1, SumMade
<1>3. SumsTrue'
  BY <1>1, <1>2 DEF SumsTrue, SumAfter
<1>4. NoFalseAlert'
  <2> SUFFICES ASSUME alert' # NONE, "SUMUSED" \in lib_Flags'[alert'] PROVE alert' \in untold'
    BY DEF NoFalseAlert
  <2>1. alert' = l /\ "CHANGED" \notin fl /\ lib_Sum[l] # checksum(entry, l)
    BY <1>1
  <2>2. "SUMUSED" \in lib_Flags[l]
    BY <2>1, <1>2
  <2> QED BY <2>1, <2>2, <1>1 DEF SumsTrue
<1> QED BY <1>1, <1>2, <1>3, <1>4 DEF PatchInv, PatchTypes, Chains, StubsApart

LEMMA PatchStep == PatchInv /\ [PatchNext]_patchVars => PatchInv'
<1> SUFFICES ASSUME PatchInv, [PatchNext]_patchVars PROVE PatchInv'
  OBVIOUS
<1>1. ASSUME NEW e \in Entries, StubPoolExhausted(e) PROVE PatchInv'
  BY <1>1 DEF StubPoolExhausted, PatchInv, PatchTypes, Chains, StubsApart, SumsTrue, NoFalseAlert
<1>2. CASE UNCHANGED patchVars
  BY <1>2 DEF patchVars, PatchInv, PatchTypes, Chains, StubsApart, SumsTrue, NoFalseAlert
<1> QED BY <1>1, <1>2, SetStep, RestoreStep, PokeStep, AddLibraryStep, SumLibraryStep DEF PatchNext

LEMMA PatchStart == PatchInit => PatchInv
<1> SUFFICES ASSUME PatchInit PROVE PatchInv
  OBVIOUS
<1>1. \A e \in Entries : entry[e] = IF LibOf[e] \in Builtin THEN Trap(e) ELSE Jmp(Native(e))
  BY DEF PatchInit
<1>2. \A e \in Entries : Jmp(Native(e)) # Trap(e) /\ Jmp(Native(e)).op = "jmp"
                           /\ Jmp(Native(e)).to = Native(e)
  BY DEF Jmp, Trap
<1>3. PatchTypes
  BY <1>1, <1>2, PoolAssumption DEF PatchInit, PatchTypes, Flags
<1>4. \A e \in Entries : hooked[e] = <<>> /\ \A i \in 2 .. Len(hooked[e]) : FALSE
  BY DEF PatchInit
<1>5. Chains
  BY <1>1, <1>2, <1>4 DEF Chains, ChainOf, ReachesIn
<1>6. stub = <<>> /\ DOMAIN stub = {}
  BY DEF PatchInit
<1>7. StubsApart
  BY <1>1, <1>2, <1>6 DEF StubsApart
<1>8. SumsTrue /\ NoFalseAlert
  BY DEF PatchInit, SumsTrue, NoFalseAlert
<1> QED BY <1>3, <1>5, <1>7, <1>8 DEF PatchInv

(* Whatever hooks are put on entries and taken away again, in whatever      *)
(* order: a call runs the hooks of its entry, newest first, and then the    *)
(* function that was there; one stub is used per entry; and SumLibrary      *)
(* accuses only a table written behind exec's back (execsetfunc.rs,         *)
(* refresh_lib_sum).                                                        *)
THEOREM PatchesAlwaysKept == PatchSpec => []PatchesKept
<1>1. PatchInv => PatchesKept
  <2> SUFFICES ASSUME PatchInv PROVE PatchesKept
    OBVIOUS
  <2>1. \A f, e : ReachesIn(f, e, stub) <=> Reaches(f, e)
    BY DEF ReachesIn, Reaches
  <2>2. \A e \in Entries : hooked[e] \in Seq(Hooks) /\ ChainOf(e, entry[e], hooked[e], stub, old)
    BY DEF PatchInv, PatchTypes, Chains
  <2>3. \A e \in Entries : Len(hooked[e]) \in Nat /\ (Len(hooked[e]) = 0 <=> hooked[e] = <<>>)
    BY <2>2
  <2>4. CallsChain
    BY <2>1, <2>2, <2>3 DEF CallsChain, ChainOf, PatchInv, StubsApart, PatchTypes
  <2> QED BY <2>4 DEF PatchesKept, PatchInv
<1> QED BY <1>1, PatchStart, PatchStep, PTL DEF PatchSpec

-----------------------------------------------------------------------------
(* ChainSound and ChunksAreArena of ExecChunks for any pool, size of a unit
   and requests.  A chunk that is cut or a block that is put back replaces a
   few chunks of the chain by others; what lies before and behind them keeps
   its order, and what is free and its sum change by what is given.  Sum is a
   recursive function: that it exists, and that the sums of parts add up, is
   proved by induction over the chain. *)

Chunk == [at : Nat \ {0}, bytes : Nat \ {0}]
EndOf(c) == c.at + c.bytes
Covers(c, x) == c.at <= x /\ x < EndOf(c)
Ordered(F) == \A i, j \in 1..Len(F) : i < j => EndOf(F[i]) < F[j].at
Before(F, G) == \A m \in 1..Len(F), k \in 1..Len(G) : EndOf(F[m]) < G[k].at
Heads(F) == {F[i].at : i \in DOMAIN F}
Clean(sh, units) == \A u \in units : sh[u] # "Freed"

\* Beside ChainSound: what the guest owns is in the pool, not free, and in one
\* block only; no header of the chain is poisoned.
ChunksInv ==
  /\ chain \in Seq(Chunk) /\ Ordered(chain) /\ Free(chain) \subseteq Space
  /\ mh_Free = Sum(chain)
  /\ DOMAIN shadow = Space
  /\ owned \subseteq [at : Nat \ {0}, asked : Nat \ {0}]
  /\ \A b \in owned : Block(b) \subseteq Space /\ Block(b) \intersect Free(chain) = {}
  /\ \A b, c \in owned : b # c => Block(b) \intersect Block(c) = {}
  /\ Clean(shadow, Heads(chain))
  /\ \A b \in owned : Clean(shadow, Block(b))
  /\ alarms = {}

-----------------------------------------------------------------------------
LEMMA Least ==
  ASSUME NEW T, T \subseteq Nat, T # {} PROVE \E m \in T : \A n \in T : m <= n
<1> DEFINE R == {ss \in Nat \X Nat : ss[1] < ss[2]}
<1>1. IsWellFoundedOn(R, Nat)
  BY NatLessThanWellFounded DEF OpToRel
<1>2. PICK m \in T : \A n \in T : ~ (<<n, m>> \in R)
  <2> HIDE DEF R
  <2> QED BY <1>1, WFMin
<1>3. ASSUME NEW n \in T PROVE m <= n
  <2>1. m \in Nat /\ n \in Nat
    OBVIOUS
  <2>2. n < m => <<n, m>> \in R
    BY <2>1
  <2> HIDE DEF R
  <2> QED BY <1>2, <2>1, <2>2
<1> QED BY <1>3

LEMMA Induction ==
  ASSUME NEW T, 0 \in T, \A n \in Nat : n \in T => n + 1 \in T
  PROVE  Nat \subseteq T
<1> SUFFICES ASSUME ~ (Nat \subseteq T) PROVE FALSE
  OBVIOUS
<1>1. PICK m \in Nat \ T : \A n \in Nat \ T : m <= n
  <2> DEFINE F == Nat \ T
  <2>1. F \subseteq Nat /\ F # {}
    OBVIOUS
  <2> HIDE DEF F
  <2>2. \E m \in F : \A n \in F : m <= n
    BY <2>1, Least
  <2> QED BY <2>2 DEF F
<1>2. m # 0 /\ m - 1 \in Nat
  OBVIOUS
<1>3. m - 1 \in T
  BY <1>1, <1>2
<1> QED BY <1>2, <1>3

LEMMA ConcatElements ==
  ASSUME NEW S, NEW P \in Seq(S), NEW B \in Seq(S), NEW R \in Seq(S)
  PROVE  /\ P \o B \o R \in Seq(S)
         /\ Len(P \o B \o R) = Len(P) + Len(B) + Len(R)
         /\ \A k \in 1..Len(P) : (P \o B \o R)[k] = P[k]
         /\ \A k \in 1..Len(B) : (P \o B \o R)[Len(P) + k] = B[k]
         /\ \A k \in 1..Len(R) : (P \o B \o R)[Len(P) + Len(B) + k] = R[k]
OBVIOUS

\* Sequence G of chunks has the elements of P, then those of B, then those of R.
InTurn(G, P, B, R) ==
  /\ G \in Seq(Chunk)
  /\ Len(G) = Len(P) + Len(B) + Len(R)
  /\ \A k \in 1..Len(P) : G[k] = P[k]
  /\ \A k \in 1..Len(B) : G[Len(P) + k] = B[k]
  /\ \A k \in 1..Len(R) : G[Len(P) + Len(B) + k] = R[k]

LEMMA ConcatInTurn ==
  ASSUME NEW P \in Seq(Chunk), NEW B \in Seq(Chunk), NEW R \in Seq(Chunk)
  PROVE  InTurn(P \o B \o R, P, B, R)
<1> DEFINE C == Chunk
<1>1. P \in Seq(C) /\ B \in Seq(C) /\ R \in Seq(C)
  OBVIOUS
<1> HIDE DEF C
<1>2. /\ P \o B \o R \in Seq(C)
      /\ Len(P \o B \o R) = Len(P) + Len(B) + Len(R)
      /\ \A k \in 1..Len(P) : (P \o B \o R)[k] = P[k]
      /\ \A k \in 1..Len(B) : (P \o B \o R)[Len(P) + k] = B[k]
      /\ \A k \in 1..Len(R) : (P \o B \o R)[Len(P) + Len(B) + k] = R[k]
  BY <1>1
<1> QED BY <1>2 DEF InTurn, C

-----------------------------------------------------------------------------
(* What the chunks of a chain add up to. *)

SumBy(ch, f) == f = [i \in 0 .. Len(ch) |-> IF i = 0 THEN 0 ELSE f[i - 1] + ch[i].bytes]
SumsOf(ch) == CHOOSE f : SumBy(ch, f)
Sums(ch, f) == SumBy(ch, f) /\ Len(ch) \in Nat /\ f \in [0 .. Len(ch) -> Nat]
Grow(f, p, g, q, k) == f[p + k] = f[p] + (g[q + k] - g[q])
Alike(a, p, b, q, k) ==
  /\ p \in Nat /\ q \in Nat /\ k \in Nat /\ p + k <= Len(a) /\ q + k <= Len(b)
  /\ \A i \in 1 .. k : a[p + i].bytes = b[q + i].bytes /\ b[q + i].bytes \in Nat

LEMMA ChunkFields ==
  ASSUME NEW F \in Seq(Chunk), NEW i \in 1..Len(F)
  PROVE  /\ F[i] \in Chunk
         /\ F[i].at \in Nat \ {0} /\ F[i].bytes \in Nat \ {0}
         /\ EndOf(F[i]) \in Nat /\ EndOf(F[i]) = F[i].at + F[i].bytes
<1>1. F[i] \in Chunk
  BY ElementOfSeq
<1> QED BY <1>1 DEF Chunk, EndOf

LEMMA SumIs ==
  ASSUME NEW ch, NEW f, SumBy(ch, f), Len(ch) \in Nat
  PROVE  /\ DOMAIN f = 0 .. Len(ch)
         /\ f[0] = 0
         /\ \A i \in 1 .. Len(ch) : f[i] = f[i - 1] + ch[i].bytes
<1>1. f = [i \in 0 .. Len(ch) |-> IF i = 0 THEN 0 ELSE f[i - 1] + ch[i].bytes]
  BY DEF SumBy
<1>2. \A i \in 0 .. Len(ch) : f[i] = IF i = 0 THEN 0 ELSE f[i - 1] + ch[i].bytes
  BY <1>1
<1>3. \A i \in 1 .. Len(ch) : i \in 0 .. Len(ch) /\ i # 0
  OBVIOUS
<1>4. DOMAIN f = 0 .. Len(ch)
  BY <1>1
<1> QED BY <1>2, <1>3, <1>4

LEMMA SumsExist ==
  \A ch \in Seq(Chunk) : SumBy(ch, SumsOf(ch)) /\ SumsOf(ch) \in [0 .. Len(ch) -> Nat]
                         /\ Sum(ch) = SumsOf(ch)[Len(ch)]
<1> DEFINE T == {n \in Nat : \A ch \in Seq(Chunk) : Len(ch) = n =>
                               \E f : SumBy(ch, f) /\ f \in [0 .. Len(ch) -> Nat]}
<1>1. 0 \in T
  <2> SUFFICES ASSUME NEW ch \in Seq(Chunk), Len(ch) = 0
               PROVE  \E f : SumBy(ch, f) /\ f \in [0 .. Len(ch) -> Nat]
    OBVIOUS
  <2> DEFINE f == [i \in 0 .. Len(ch) |-> 0]
  <2>1. \A i \in 0 .. Len(ch) : i = 0
    OBVIOUS
  <2>2. f = [i \in 0 .. Len(ch) |-> IF i = 0 THEN 0 ELSE f[i - 1] + ch[i].bytes]
    BY <2>1
  <2>3. f \in [0 .. Len(ch) -> Nat]
    OBVIOUS
  <2> HIDE DEF f
  <2> QED BY <2>2, <2>3 DEF SumBy
<1>2. ASSUME NEW n \in Nat, n \in T PROVE n + 1 \in T
  <2> SUFFICES ASSUME NEW ch \in Seq(Chunk), Len(ch) = n + 1
               PROVE  \E f : SumBy(ch, f) /\ f \in [0 .. Len(ch) -> Nat]
    OBVIOUS
  <2> DEFINE F == SubSeq(ch, 1, n)
  <2>1. F \in Seq(Chunk) /\ Len(F) = n /\ \A i \in 1 .. n : F[i] = ch[i]
    OBVIOUS
  <2> HIDE DEF F
  <2>2. PICK f : SumBy(F, f) /\ f \in [0 .. Len(F) -> Nat]
    BY <1>2, <2>1
  <2>3. f \in [0 .. n -> Nat] /\ f[0] = 0 /\ \A i \in 1 .. n : f[i] = f[i - 1] + ch[i].bytes
    <3>1. Len(F) \in Nat
      BY <2>1
    <3>2. f[0] = 0 /\ \A i \in 1 .. Len(F) : f[i] = f[i - 1] + F[i].bytes
      BY <2>2, <3>1, SumIs
    <3>3. f \in [0 .. n -> Nat]
      BY <2>1, <2>2
    <3> QED BY <2>1, <3>2, <3>3
  <2>4. ch[n + 1].bytes \in Nat
    BY ChunkFields
  <2> DEFINE g == [i \in 0 .. Len(ch) |-> IF i <= n THEN f[i] ELSE f[n] + ch[n + 1].bytes]
  <2>5. g \in [0 .. Len(ch) -> Nat]
    <3> SUFFICES ASSUME NEW i \in 0 .. Len(ch)
                 PROVE  (IF i <= n THEN f[i] ELSE f[n] + ch[n + 1].bytes) \in Nat
      OBVIOUS
    <3>1. f[n] \in Nat
      BY <2>3
    <3>2. i <= n => f[i] \in Nat
      BY <2>3
    <3> QED BY <2>4, <3>1, <3>2
  <2>6. (\A i \in 0 .. n : g[i] = f[i]) /\ g[n + 1] = f[n] + ch[n + 1].bytes
    OBVIOUS
  <2>7. g = [i \in 0 .. Len(ch) |-> g[i]]
    OBVIOUS
  <2> HIDE DEF g
  <2>8. ASSUME NEW i \in 0 .. Len(ch)
        PROVE  g[i] = IF i = 0 THEN 0 ELSE g[i - 1] + ch[i].bytes
    <3>1. CASE i = 0
      BY <2>3, <2>6, <3>1
    <3>2. CASE i \in 1 .. n
      <4>1. i - 1 \in 0 .. n /\ i \in 0 .. n
        BY <3>2
      <4> QED BY <2>3, <2>6, <3>2, <4>1
    <3>3. CASE i = n + 1
      <4>1. i - 1 = n /\ n \in 0 .. n
        BY <3>3
      <4> QED BY <2>6, <3>3, <4>1
    <3> QED BY <3>1, <3>2, <3>3
  <2>9. [i \in 0 .. Len(ch) |-> g[i]]
        = [i \in 0 .. Len(ch) |-> IF i = 0 THEN 0 ELSE g[i - 1] + ch[i].bytes]
    BY <2>8
  <2>10. SumBy(ch, g)
    BY <2>7, <2>9 DEF SumBy
  <2> QED BY <2>5, <2>10
<1>3. Nat \subseteq T
  <2> HIDE DEF T
  <2> QED BY <1>1, <1>2, Induction
<1> SUFFICES ASSUME NEW ch \in Seq(Chunk)
             PROVE  SumBy(ch, SumsOf(ch)) /\ SumsOf(ch) \in [0 .. Len(ch) -> Nat]
                    /\ Sum(ch) = SumsOf(ch)[Len(ch)]
  OBVIOUS
<1>4. Len(ch) \in Nat
  BY LenProperties
<1>5. PICK f : SumBy(ch, f) /\ f \in [0 .. Len(ch) -> Nat]
  BY <1>3, <1>4
<1>6. SumBy(ch, SumsOf(ch))
  BY <1>5 DEF SumsOf
<1>7. Sum(ch) = SumsOf(ch)[Len(ch)]
  BY DEF Sum, SumsOf, SumBy
<1> DEFINE g == SumsOf(ch)
<1>8. DOMAIN f = 0 .. Len(ch) /\ f[0] = 0
      /\ \A i \in 1 .. Len(ch) : f[i] = f[i - 1] + ch[i].bytes
  BY <1>4, <1>5, SumIs
<1>9. DOMAIN g = 0 .. Len(ch) /\ g[0] = 0
      /\ \A i \in 1 .. Len(ch) : g[i] = g[i - 1] + ch[i].bytes
  BY <1>4, <1>6, SumIs
<1> HIDE DEF g
<1> DEFINE E == {i \in Nat : i <= Len(ch) => g[i] = f[i]}
<1>10. 0 \in E
  BY <1>8, <1>9
<1>11. ASSUME NEW i \in Nat, i \in E PROVE i + 1 \in E
  <2> SUFFICES ASSUME i + 1 <= Len(ch) PROVE g[i + 1] = f[i + 1]
    OBVIOUS
  <2>1. i + 1 \in 1 .. Len(ch) /\ (i + 1) - 1 = i /\ i <= Len(ch)
    BY <1>4
  <2> QED BY <1>8, <1>9, <1>11, <2>1
<1>12. Nat \subseteq E
  <2> HIDE DEF E
  <2> QED BY <1>10, <1>11, Induction
<1>13. \A i \in 0 .. Len(ch) : g[i] \in Nat
  BY <1>4, <1>5, <1>12
<1>14. SumBy(ch, g)
  BY <1>6 DEF g
<1>15. g = [i \in 0 .. Len(ch) |-> IF i = 0 THEN 0 ELSE g[i - 1] + ch[i].bytes]
  BY <1>14 DEF SumBy
<1>16. g = [i \in 0 .. Len(ch) |-> g[i]]
  BY <1>15
<1>17. g \in [0 .. Len(ch) -> Nat]
  BY <1>13, <1>16
<1> QED BY <1>6, <1>7, <1>17 DEF g

\* A stretch of k chunks adds up to the same in any chain.
LEMMA SumOfStretch ==
  ASSUME NEW a, NEW f, NEW b, NEW g, Sums(a, f), Sums(b, g),
         NEW p, NEW q, NEW k, Alike(a, p, b, q, k)
  PROVE  Grow(f, p, g, q, k)
<1> DEFINE E == {i \in Nat : i <= k => f[p + i] = f[p] + (g[q + i] - g[q])}
<1>0. /\ SumBy(a, f) /\ SumBy(b, g) /\ Len(a) \in Nat /\ Len(b) \in Nat
      /\ f \in [0 .. Len(a) -> Nat] /\ g \in [0 .. Len(b) -> Nat]
      /\ p \in Nat /\ q \in Nat /\ k \in Nat /\ p + k <= Len(a) /\ q + k <= Len(b)
      /\ \A i \in 1 .. k : a[p + i].bytes = b[q + i].bytes /\ b[q + i].bytes \in Nat
  BY DEF Sums, Alike
<1>1. /\ \A i \in 1 .. Len(a) : f[i] = f[i - 1] + a[i].bytes
      /\ \A i \in 1 .. Len(b) : g[i] = g[i - 1] + b[i].bytes
  BY <1>0, SumIs
<1>2. (\A i \in 0 .. Len(a) : f[i] \in Nat) /\ (\A i \in 0 .. Len(b) : g[i] \in Nat)
  BY <1>0
<1>3. 0 \in E
  <2>1. p \in 0 .. Len(a) /\ q \in 0 .. Len(b) /\ p + 0 = p /\ q + 0 = q
    BY <1>0
  <2>2. f[p] \in Nat /\ g[q] \in Nat
    BY <1>2, <2>1
  <2>3. f[p] = f[p] + (g[q] - g[q])
    BY <2>2
  <2> QED BY <2>1, <2>3
<1>4. ASSUME NEW i \in Nat, i \in E PROVE i + 1 \in E
  <2> SUFFICES ASSUME i + 1 <= k PROVE f[p + (i + 1)] = f[p] + (g[q + (i + 1)] - g[q])
    OBVIOUS
  <2>1. /\ p + (i + 1) \in 1 .. Len(a) /\ p + (i + 1) - 1 = p + i /\ p + i \in 0 .. Len(a)
        /\ q + (i + 1) \in 1 .. Len(b) /\ q + (i + 1) - 1 = q + i /\ q + i \in 0 .. Len(b)
        /\ i + 1 \in 1 .. k /\ p \in 0 .. Len(a) /\ q \in 0 .. Len(b) /\ i <= k
    <3>1. \A m, l \in Nat : m + k <= l =>
            /\ m + (i + 1) \in 1 .. l /\ m + (i + 1) - 1 = m + i /\ m + i \in 0 .. l /\ m \in 0 .. l
      BY <1>0
    <3>2. i + 1 \in 1 .. k /\ i <= k
      BY <1>0
    <3> QED BY <1>0, <3>1, <3>2
  <2>2. f[p + (i + 1)] = f[p + i] + a[p + (i + 1)].bytes
    <3>1. PICK j \in 1 .. Len(a) : j = p + (i + 1) /\ j - 1 = p + i
      BY <2>1
    <3>2. f[j] = f[j - 1] + a[j].bytes
      BY <1>1
    <3> QED BY <3>1, <3>2, Zenon
  <2>3. g[q + (i + 1)] = g[q + i] + b[q + (i + 1)].bytes
    <3>1. PICK j \in 1 .. Len(b) : j = q + (i + 1) /\ j - 1 = q + i
      BY <2>1
    <3>2. g[j] = g[j - 1] + b[j].bytes
      BY <1>1
    <3> QED BY <3>1, <3>2, Zenon
  <2>4. a[p + (i + 1)].bytes = b[q + (i + 1)].bytes /\ b[q + (i + 1)].bytes \in Nat
    BY <1>0, <2>1
  <2>5. f[p + i] = f[p] + (g[q + i] - g[q])
    BY <1>4, <2>1
  <2>6. f[p + i] \in Nat /\ f[p] \in Nat /\ g[q + i] \in Nat /\ g[q] \in Nat
    BY <1>2, <2>1
  <2>7. \A fi, f0, gi, g0, w \in Nat : fi = f0 + (gi - g0) => fi + w = f0 + ((gi + w) - g0)
    OBVIOUS
  <2> QED BY <2>2, <2>3, <2>4, <2>5, <2>6, <2>7
<1>5. Nat \subseteq E
  <2> HIDE DEF E
  <2> QED BY <1>3, <1>4, Induction
<1> QED BY <1>0, <1>5 DEF Grow

LEMMA SumConcat ==
  ASSUME NEW P \in Seq(Chunk), NEW B \in Seq(Chunk), NEW R \in Seq(Chunk)
  PROVE  Sum(P \o B \o R) = Sum(P) + Sum(B) + Sum(R)
<1> DEFINE G == P \o B \o R
<1>0. InTurn(G, P, B, R)
  BY ConcatInTurn
<1> HIDE DEF G
<1>1. /\ G \in Seq(Chunk)
      /\ Len(G) = Len(P) + Len(B) + Len(R)
      /\ \A k \in 1..Len(P) : G[k] = P[k]
      /\ \A k \in 1..Len(B) : G[Len(P) + k] = B[k]
      /\ \A k \in 1..Len(R) : G[Len(P) + Len(B) + k] = R[k]
  BY <1>0 DEF InTurn
<1>2. PICK p \in Nat : p = Len(P)
  BY LenProperties
<1>3. PICK b \in Nat : b = Len(B)
  BY LenProperties
<1>4. PICK r \in Nat : r = Len(R)
  BY LenProperties
<1>5. PICK f \in [0 .. p + b + r -> Nat] : SumBy(G, f) /\ Sum(G) = f[p + b + r]
  <2>1. Len(G) = p + b + r
    BY <1>1, <1>2, <1>3, <1>4
  <2> QED BY <1>1, <2>1, SumsExist, Zenon
<1>6. PICK fp \in [0 .. p -> Nat] : SumBy(P, fp) /\ Sum(P) = fp[p]
  BY <1>2, SumsExist
<1>7. PICK fb \in [0 .. b -> Nat] : SumBy(B, fb) /\ Sum(B) = fb[b]
  BY <1>3, SumsExist
<1>8. PICK fr \in [0 .. r -> Nat] : SumBy(R, fr) /\ Sum(R) = fr[r]
  BY <1>4, SumsExist
<1>9. f[0] = 0 /\ fp[0] = 0 /\ fb[0] = 0 /\ fr[0] = 0
  BY <1>1, <1>2, <1>3, <1>4, <1>5, <1>6, <1>7, <1>8, SumIs
<1>10. /\ \A k \in 1 .. p : P[k].bytes \in Nat
       /\ \A k \in 1 .. b : B[k].bytes \in Nat
       /\ \A k \in 1 .. r : R[k].bytes \in Nat
  BY <1>2, <1>3, <1>4, ChunkFields
<1>15. Sums(G, f) /\ Sums(P, fp) /\ Sums(B, fb) /\ Sums(R, fr)
  <2>1. Len(G) = p + b + r /\ Len(P) = p /\ Len(B) = b /\ Len(R) = r
    BY <1>1, <1>2, <1>3, <1>4
  <2>2. p + b + r \in Nat
    BY <1>2, <1>3, <1>4
  <2>3. Sums(G, f)
    BY <1>5, <2>1, <2>2, Zenon DEF Sums
  <2>4. Sums(P, fp)
    BY <1>6, <2>1, Zenon DEF Sums
  <2>5. Sums(B, fb)
    BY <1>7, <2>1, Zenon DEF Sums
  <2>6. Sums(R, fr)
    BY <1>8, <2>1, Zenon DEF Sums
  <2> QED BY <2>3, <2>4, <2>5, <2>6
<1>11. f[0 + p] = f[0] + (fp[0 + p] - fp[0])
  <2>1. \A i \in 1 .. p : G[0 + i].bytes = P[0 + i].bytes /\ P[0 + i].bytes \in Nat
    BY <1>1, <1>2, <1>10
  <2>2. Len(G) = p + b + r /\ Len(P) = p
    BY <1>1, <1>2, <1>3, <1>4
  <2>3. Alike(G, 0, P, 0, p)
    BY <2>1, <2>2 DEF Alike
  <2>4. Grow(f, 0, fp, 0, p)
    BY <1>15, <2>3, SumOfStretch
  <2> QED BY <2>4 DEF Grow
<1>12. f[p + b] = f[p] + (fb[0 + b] - fb[0])
  <2>1. \A i \in 1 .. b : G[p + i].bytes = B[0 + i].bytes /\ B[0 + i].bytes \in Nat
    BY <1>1, <1>2, <1>3, <1>10
  <2>2. Len(G) = p + b + r /\ Len(B) = b
    BY <1>1, <1>2, <1>3, <1>4
  <2>3. Alike(G, p, B, 0, b)
    BY <2>1, <2>2 DEF Alike
  <2>4. Grow(f, p, fb, 0, b)
    BY <1>15, <2>3, SumOfStretch
  <2> QED BY <2>4 DEF Grow
<1>13. f[(p + b) + r] = f[p + b] + (fr[0 + r] - fr[0])
  <2>1. \A i \in 1 .. r : G[(p + b) + i].bytes = R[0 + i].bytes /\ R[0 + i].bytes \in Nat
    BY <1>1, <1>2, <1>3, <1>4, <1>10
  <2>2. Len(G) = p + b + r /\ Len(R) = r
    BY <1>1, <1>2, <1>3, <1>4
  <2>3. Alike(G, p + b, R, 0, r)
    BY <2>1, <2>2 DEF Alike
  <2>4. Grow(f, p + b, fr, 0, r)
    BY <1>15, <2>3, SumOfStretch
  <2> QED BY <2>4 DEF Grow
<1>14. /\ 0 + p = p /\ 0 + b = b /\ 0 + r = r /\ p + b \in 0 .. p + b + r /\ p \in 0 .. p + b + r
       /\ p \in 0 .. p /\ b \in 0 .. b /\ r \in 0 .. r
  OBVIOUS
<1>16. fp[p] \in Nat /\ fb[b] \in Nat /\ fr[r] \in Nat /\ f[p] \in Nat /\ f[p + b] \in Nat
  BY <1>14
<1> QED BY <1>5, <1>6, <1>7, <1>8, <1>9, <1>11, <1>12, <1>13, <1>14, <1>16 DEF G

LEMMA SumIsNat == \A ch \in Seq(Chunk) : Sum(ch) \in Nat
<1> SUFFICES ASSUME NEW ch \in Seq(Chunk) PROVE Sum(ch) \in Nat
  OBVIOUS
<1>1. SumsOf(ch) \in [0 .. Len(ch) -> Nat] /\ Sum(ch) = SumsOf(ch)[Len(ch)]
  BY SumsExist
<1>2. Len(ch) \in 0 .. Len(ch)
  BY LenProperties
<1> QED BY <1>1, <1>2

LEMMA SumSmall ==
  /\ Sum(<<>>) = 0
  /\ \A c \in Chunk : Sum(<<c>>) = c.bytes
  /\ \A c, d \in Chunk : Sum(<<c, d>>) = c.bytes + d.bytes
<1>1. Sum(<<>>) = 0
  <2>1. <<>> \in Seq(Chunk) /\ Len(<<>>) = 0
    OBVIOUS
  <2>2. Sum(<<>>) = SumsOf(<<>>)[Len(<<>>)] /\ SumBy(<<>>, SumsOf(<<>>))
    BY <2>1, SumsExist
  <2>3. SumsOf(<<>>)[0] = 0
    BY <2>1, <2>2, SumIs
  <2> QED BY <2>1, <2>2, <2>3
<1>2. ASSUME NEW c \in Chunk PROVE Sum(<<c>>) = c.bytes
  <2>1. <<c>> \in Seq(Chunk) /\ Len(<<c>>) = 1 /\ <<c>>[1] = c /\ c.bytes \in Nat
    BY DEF Chunk
  <2> DEFINE f == SumsOf(<<c>>)
           C == <<c>>
  <2> HIDE DEF C
  <2>0. C \in Seq(Chunk) /\ Len(C) = 1 /\ C[1] = c
    BY <2>1 DEF C
  <2>2. Sum(C) = SumsOf(C)[Len(C)] /\ SumBy(C, SumsOf(C))
    BY <2>0, SumsExist
  <2>5. f = SumsOf(C)
    BY DEF C
  <2> HIDE DEF f
  <2>3. f[0] = 0 /\ \A i \in 1 .. 1 : f[i] = f[i - 1] + C[i].bytes
    BY <2>0, <2>2, <2>5, SumIs
  <2>4. f[1] = f[1 - 1] + c.bytes /\ 1 - 1 = 0
    BY <2>0, <2>3
  <2> QED BY <2>0, <2>1, <2>2, <2>3, <2>4, <2>5 DEF C
<1>3. ASSUME NEW c \in Chunk, NEW d \in Chunk PROVE Sum(<<c, d>>) = c.bytes + d.bytes
  <2>1. <<>> \in Seq(Chunk) /\ <<c>> \in Seq(Chunk) /\ <<d>> \in Seq(Chunk)
    OBVIOUS
  <2>2. <<c, d>> = <<>> \o <<c>> \o <<d>>
    <3>1. /\ <<>> \o <<c>> \o <<d>> \in Seq(Chunk)
          /\ Len(<<>> \o <<c>> \o <<d>>) = 2
          /\ (<<>> \o <<c>> \o <<d>>)[1] = c /\ (<<>> \o <<c>> \o <<d>>)[2] = d
      OBVIOUS
    <3>2. \A D \in Seq(Chunk) : Len(D) = 2 /\ D[1] = c /\ D[2] = d => D = <<c, d>>
      OBVIOUS
    <3> QED BY <3>1, <3>2
  <2>3. Sum(<<>> \o <<c>> \o <<d>>) = Sum(<<>>) + Sum(<<c>>) + Sum(<<d>>)
    BY <2>1, SumConcat
  <2>4. c.bytes \in Nat /\ d.bytes \in Nat
    BY DEF Chunk
  <2>5. Sum(<<c>>) = c.bytes /\ Sum(<<d>>) = d.bytes
    BY <1>2
  <2>6. Sum(<<c, d>>) = Sum(<<>>) + Sum(<<c>>) + Sum(<<d>>)
    BY <2>2, <2>3, Zenon
  <2> QED BY <1>1, <2>4, <2>5, <2>6
<1> QED BY <1>1, <1>2, <1>3

-----------------------------------------------------------------------------
(* Chains made of three parts: what they cover, in which order, how much. *)

LEMMA InFree ==
  ASSUME NEW F \in Seq(Chunk), NEW x
  PROVE  x \in Free(F) <=> x \in Int /\ \E i \in 1..Len(F) : Covers(F[i], x)
<1>1. \A i \in 1..Len(F) : F[i].at \in Int /\ F[i].bytes \in Int
                       /\ EndOf(F[i]) = F[i].at + F[i].bytes
  BY ChunkFields
<1>2. DOMAIN F = 1..Len(F)
  BY LenProperties
<1>3. ASSUME NEW i \in 1..Len(F)
      PROVE  x \in Run(F[i]) <=> x \in Int /\ Covers(F[i], x)
  BY <1>1 DEF Run, Covers
<1> QED BY <1>2, <1>3 DEF Free

LEMMA InHeads ==
  ASSUME NEW F \in Seq(Chunk), NEW x
  PROVE  x \in Heads(F) <=> \E i \in 1..Len(F) : x = F[i].at
BY LenProperties DEF Heads

\* Sequence G is P, then B, then R.
InParts(G, P, B, R) ==
  /\ G \in Seq(Chunk)
  /\ \A k \in 1..Len(P) : k \in 1..Len(G) /\ G[k] = P[k]
  /\ \A k \in 1..Len(B) : Len(P) + k \in 1..Len(G) /\ G[Len(P) + k] = B[k]
  /\ \A k \in 1..Len(R) : Len(P) + Len(B) + k \in 1..Len(G) /\ G[Len(P) + Len(B) + k] = R[k]
  /\ \A k \in 1..Len(G) : \/ k \in 1..Len(P) /\ G[k] = P[k]
                          \/ \E m \in 1..Len(B) : k = Len(P) + m /\ G[k] = B[m]
                          \/ \E m \in 1..Len(R) : k = Len(P) + Len(B) + m /\ G[k] = R[m]

LEMMA ThreeParts ==
  ASSUME NEW P \in Seq(Chunk), NEW B \in Seq(Chunk), NEW R \in Seq(Chunk)
  PROVE  InParts(P \o B \o R, P, B, R)
<1> DEFINE G == P \o B \o R
<1>0. InTurn(G, P, B, R)
  BY ConcatInTurn
<1> HIDE DEF G
<1>1. /\ G \in Seq(Chunk)
      /\ Len(G) = Len(P) + Len(B) + Len(R)
      /\ \A k \in 1..Len(P) : G[k] = P[k]
      /\ \A k \in 1..Len(B) : G[Len(P) + k] = B[k]
      /\ \A k \in 1..Len(R) : G[Len(P) + Len(B) + k] = R[k]
  BY <1>0 DEF InTurn
<1>2. PICK p \in Nat : p = Len(P)
  BY LenProperties
<1>3. PICK b \in Nat : b = Len(B)
  BY LenProperties
<1>4. PICK r \in Nat : r = Len(R)
  BY LenProperties
<1>5. Len(G) = p + b + r
  BY <1>1, <1>2, <1>3, <1>4
<1>6. ASSUME NEW k \in 1..p + b + r
      PROVE  \/ k \in 1..p /\ G[k] = P[k]
             \/ \E m \in 1..b : k = p + m /\ G[k] = B[m]
             \/ \E m \in 1..r : k = p + b + m /\ G[k] = R[m]
  <2>1. CASE k <= p
    BY <1>1, <1>2, <2>1
  <2>2. CASE p < k /\ k <= p + b
    <3>1. k - p \in 1..b /\ p + (k - p) = k
      BY <2>2
    <3> QED BY <1>1, <1>2, <1>3, <3>1
  <2>3. CASE p + b < k
    <3> DEFINE m == k - (p + b)
    <3>1. m \in 1..r /\ p + b + m = k
      BY <2>3
    <3> HIDE DEF m
    <3> QED BY <1>1, <1>2, <1>3, <1>4, <3>1
  <2>4. k <= p \/ (p < k /\ k <= p + b) \/ p + b < k
    OBVIOUS
  <2> QED BY <2>1, <2>2, <2>3, <2>4, Zenon
<1>7. /\ \A k \in 1..p : k \in 1..p + b + r
      /\ \A k \in 1..b : p + k \in 1..p + b + r
      /\ \A k \in 1..r : p + b + k \in 1..p + b + r
  OBVIOUS
<1> QED BY <1>1, <1>2, <1>3, <1>4, <1>5, <1>6, <1>7 DEF InParts, G

LEMMA FreeConcat ==
  ASSUME NEW P \in Seq(Chunk), NEW B \in Seq(Chunk), NEW R \in Seq(Chunk)
  PROVE  /\ Free(P \o B \o R) = Free(P) \union Free(B) \union Free(R)
         /\ Heads(P \o B \o R) = Heads(P) \union Heads(B) \union Heads(R)
<1> DEFINE G == P \o B \o R
<1>1. InParts(G, P, B, R)
  BY ThreeParts
<1> HIDE DEF G
<1>0. G \in Seq(Chunk)
  BY <1>1 DEF InParts
<1>2. ASSUME NEW x
      PROVE  x \in Free(G) <=> x \in Free(P) \/ x \in Free(B) \/ x \in Free(R)
  BY <1>0, <1>1, InFree DEF InParts
<1>3. ASSUME NEW x
      PROVE  x \in Heads(G) <=> x \in Heads(P) \/ x \in Heads(B) \/ x \in Heads(R)
  <2>1. /\ x \in Heads(G) <=> \E i \in 1..Len(G) : x = G[i].at
        /\ x \in Heads(P) <=> \E i \in 1..Len(P) : x = P[i].at
        /\ x \in Heads(B) <=> \E i \in 1..Len(B) : x = B[i].at
        /\ x \in Heads(R) <=> \E i \in 1..Len(R) : x = R[i].at
    BY <1>0, InHeads
  <2>2. ASSUME NEW k \in 1..Len(G)
        PROVE  \/ \E m \in 1..Len(P) : G[k] = P[m]
               \/ \E m \in 1..Len(B) : G[k] = B[m]
               \/ \E m \in 1..Len(R) : G[k] = R[m]
    BY <1>1 DEF InParts
  <2>3. /\ \A m \in 1..Len(P) : \E k \in 1..Len(G) : G[k] = P[m]
        /\ \A m \in 1..Len(B) : \E k \in 1..Len(G) : G[k] = B[m]
        /\ \A m \in 1..Len(R) : \E k \in 1..Len(G) : G[k] = R[m]
    BY <1>1 DEF InParts
  <2>4. ASSUME x \in Heads(G) PROVE x \in Heads(P) \/ x \in Heads(B) \/ x \in Heads(R)
    <3>1. PICK k \in 1..Len(G) : x = G[k].at
      BY <2>1, <2>4
    <3> QED BY <2>1, <2>2, <3>1
  <2>5. ASSUME x \in Heads(P) \/ x \in Heads(B) \/ x \in Heads(R) PROVE x \in Heads(G)
    <3>1. CASE x \in Heads(P)
      BY <2>1, <2>3, <3>1
    <3>2. CASE x \in Heads(B)
      BY <2>1, <2>3, <3>2
    <3>3. CASE x \in Heads(R)
      BY <2>1, <2>3, <3>3
    <3> QED BY <2>5, <3>1, <3>2, <3>3
  <2> QED BY <2>4, <2>5
<1> QED BY <1>2, <1>3 DEF G

(* Three parts are in order if and only if each is, and each wholly before the
   next. *)
LEMMA OrderedConcat ==
  ASSUME NEW P \in Seq(Chunk), NEW B \in Seq(Chunk), NEW R \in Seq(Chunk)
  PROVE  Ordered(P \o B \o R) <=>
           /\ Ordered(P) /\ Ordered(B) /\ Ordered(R)
           /\ Before(P, B) /\ Before(B, R) /\ Before(P, R)
<1> DEFINE G == P \o B \o R
<1>1. InParts(G, P, B, R)
  BY ThreeParts
<1> HIDE DEF G
<1>0. G \in Seq(Chunk)
  BY <1>1 DEF InParts
<1>2. PICK p \in Nat : p = Len(P)
  BY LenProperties
<1>3. PICK b \in Nat : b = Len(B)
  BY LenProperties
<1>4. PICK r \in Nat : r = Len(R)
  BY LenProperties
<1>5. ASSUME Ordered(G)
      PROVE  /\ Ordered(P) /\ Ordered(B) /\ Ordered(R)
             /\ Before(P, B) /\ Before(B, R) /\ Before(P, R)
  <2>0. \A k, l \in 1..Len(G) : k < l => EndOf(G[k]) < G[l].at
    BY <1>5 DEF Ordered
  <2>1. /\ \A k \in 1..p, l \in 1..b : k < p + l
        /\ \A k \in 1..b, l \in 1..r : p + k < p + b + l
        /\ \A k \in 1..p, l \in 1..r : k < p + b + l
        /\ \A k, l \in 1..b : k < l => p + k < p + l
        /\ \A k, l \in 1..r : k < l => p + b + k < p + b + l
    OBVIOUS
  <2>2. Ordered(P)
    BY <1>1, <2>0 DEF InParts, Ordered
  <2>3. Ordered(B)
    BY <1>1, <1>2, <1>3, <2>0, <2>1 DEF InParts, Ordered
  <2>4. Ordered(R)
    BY <1>1, <1>2, <1>3, <1>4, <2>0, <2>1 DEF InParts, Ordered
  <2>5. Before(P, B)
    BY <1>1, <1>2, <1>3, <2>0, <2>1 DEF InParts, Before
  <2>6. Before(B, R)
    BY <1>1, <1>2, <1>3, <1>4, <2>0, <2>1 DEF InParts, Before
  <2>7. Before(P, R)
    BY <1>1, <1>2, <1>3, <1>4, <2>0, <2>1 DEF InParts, Before
  <2> QED BY <2>2, <2>3, <2>4, <2>5, <2>6, <2>7
<1>6. ASSUME Ordered(P), Ordered(B), Ordered(R), Before(P, B), Before(B, R), Before(P, R),
             NEW k \in 1..Len(G), NEW l \in 1..Len(G), k < l
      PROVE  EndOf(G[k]) < G[l].at
  <2>1. CASE l \in 1..p /\ G[l] = P[l]
    <3>1. k \in 1..p /\ G[k] = P[k]
      BY <1>1, <1>2, <1>3, <1>4, <1>6, <2>1 DEF InParts
    <3> QED BY <1>2, <1>6, <2>1, <3>1 DEF Ordered
  <2>2. CASE \E m \in 1..b : l = p + m /\ G[l] = B[m]
    <3>1. PICK m \in 1..b : l = p + m /\ G[l] = B[m]
      BY <2>2
    <3>2. CASE k \in 1..p /\ G[k] = P[k]
      BY <1>2, <1>3, <1>6, <3>1, <3>2 DEF Before
    <3>3. CASE \E n \in 1..b : k = p + n /\ G[k] = B[n]
      <4>1. PICK n \in 1..b : k = p + n /\ G[k] = B[n]
        BY <3>3
      <4>2. n < m
        BY <1>6, <3>1, <4>1
      <4> QED BY <1>3, <1>6, <3>1, <4>1, <4>2 DEF Ordered
    <3>4. ~ \E n \in 1..r : k = p + b + n
      BY <1>6, <3>1
    <3> QED BY <1>1, <1>2, <1>3, <1>4, <3>2, <3>3, <3>4 DEF InParts
  <2>3. CASE \E m \in 1..r : l = p + b + m /\ G[l] = R[m]
    <3>1. PICK m \in 1..r : l = p + b + m /\ G[l] = R[m]
      BY <2>3
    <3>2. CASE k \in 1..p /\ G[k] = P[k]
      BY <1>2, <1>4, <1>6, <3>1, <3>2 DEF Before
    <3>3. CASE \E n \in 1..b : k = p + n /\ G[k] = B[n]
      BY <1>3, <1>4, <1>6, <3>1, <3>3 DEF Before
    <3>4. CASE \E n \in 1..r : k = p + b + n /\ G[k] = R[n]
      <4>1. PICK n \in 1..r : k = p + b + n /\ G[k] = R[n]
        BY <3>4
      <4>2. n < m
        BY <1>6, <3>1, <4>1
      <4> QED BY <1>4, <1>6, <3>1, <4>1, <4>2 DEF Ordered
    <3> QED BY <1>1, <1>2, <1>3, <1>4, <3>2, <3>3, <3>4 DEF InParts
  <2> QED BY <1>1, <1>2, <1>3, <1>4, <2>1, <2>2, <2>3 DEF InParts
<1>7. ASSUME Ordered(P), Ordered(B), Ordered(R), Before(P, B), Before(B, R), Before(P, R)
      PROVE  Ordered(G)
  BY <1>6, <1>7 DEF Ordered
<1> QED BY <1>5, <1>7 DEF G

(* Chunks are replaced by others that keep their distance from the rest, and
   cover no less. *)
LEMMA ChunksReplaced ==
  ASSUME NEW P \in Seq(Chunk), NEW M \in Seq(Chunk), NEW R \in Seq(Chunk),
         NEW B \in Seq(Chunk), Ordered(P \o M \o R), Ordered(B), Before(P, B), Before(B, R)
  PROVE  /\ P \o B \o R \in Seq(Chunk)
         /\ Ordered(P \o B \o R)
         /\ Free(P \o B \o R) = (Free(P \o M \o R) \ Free(M)) \union Free(B)
         /\ Free(M) \subseteq Free(P \o M \o R)
         /\ Heads(P \o B \o R) \subseteq Heads(P \o M \o R) \union Heads(B)
         /\ Sum(P \o B \o R) = (Sum(P \o M \o R) - Sum(M)) + Sum(B)
<1>1. /\ Ordered(P) /\ Ordered(M) /\ Ordered(R)
      /\ Before(P, M) /\ Before(M, R) /\ Before(P, R)
  BY OrderedConcat
<1>2. P \o B \o R \in Seq(Chunk)
  BY ConcatElements
<1>3. Ordered(P \o B \o R)
  BY <1>1, OrderedConcat
<1>4. /\ Free(P \o B \o R) = Free(P) \union Free(B) \union Free(R)
      /\ Free(P \o M \o R) = Free(P) \union Free(M) \union Free(R)
      /\ Heads(P \o B \o R) = Heads(P) \union Heads(B) \union Heads(R)
      /\ Heads(P \o M \o R) = Heads(P) \union Heads(M) \union Heads(R)
  BY FreeConcat
<1>5. ASSUME NEW x \in Free(M), x \in Free(P) \/ x \in Free(R)
      PROVE  FALSE
  <2>1. PICK k \in 1..Len(M) : Covers(M[k], x)
    BY InFree
  <2>2. x \in Int /\ M[k].at \in Nat /\ EndOf(M[k]) \in Nat
    BY ChunkFields, InFree
  <2>3. CASE x \in Free(P)
    <3>1. PICK m \in 1..Len(P) : Covers(P[m], x)
      BY <2>3, InFree
    <3>2. EndOf(P[m]) \in Nat /\ EndOf(P[m]) < M[k].at
      BY <1>1, ChunkFields DEF Before
    <3> QED BY <2>1, <2>2, <3>1, <3>2 DEF Covers
  <2>4. CASE x \in Free(R)
    <3>1. PICK m \in 1..Len(R) : Covers(R[m], x)
      BY <2>4, InFree
    <3>2. R[m].at \in Nat /\ EndOf(M[k]) < R[m].at
      BY <1>1, ChunkFields DEF Before
    <3> QED BY <2>1, <2>2, <3>1, <3>2 DEF Covers
  <2> QED BY <1>5, <2>3, <2>4
<1>6. /\ Sum(P \o B \o R) = Sum(P) + Sum(B) + Sum(R)
      /\ Sum(P \o M \o R) = Sum(P) + Sum(M) + Sum(R)
  BY SumConcat
<1>7. Sum(P) \in Nat /\ Sum(M) \in Nat /\ Sum(R) \in Nat /\ Sum(B) \in Nat
  BY SumIsNat
<1>8. Sum(P \o B \o R) = (Sum(P \o M \o R) - Sum(M)) + Sum(B)
  BY <1>6, <1>7
<1> QED BY <1>2, <1>3, <1>4, <1>5, <1>8

LEMMA NoChunks ==
  /\ <<>> \in Seq(Chunk) /\ Ordered(<<>>) /\ Free(<<>>) = {} /\ Heads(<<>>) = {} /\ Sum(<<>>) = 0
  /\ \A F \in Seq(Chunk) : Before(<<>>, F) /\ Before(F, <<>>)
<1>1. <<>> \in Seq(Chunk) /\ Len(<<>>) = 0 /\ DOMAIN <<>> = {}
  OBVIOUS
<1> QED BY <1>1, SumSmall DEF Ordered, Before, Free, Heads

LEMMA OneChunk ==
  ASSUME NEW c \in Chunk
  PROVE  /\ <<c>> \in Seq(Chunk) /\ Len(<<c>>) = 1 /\ <<c>>[1] = c
         /\ Ordered(<<c>>) /\ Free(<<c>>) = Run(c) /\ Heads(<<c>>) = {c.at} /\ Sum(<<c>>) = c.bytes
<1>1. <<c>> \in Seq(Chunk) /\ DOMAIN <<c>> = {1} /\ <<c>>[1] = c /\ Len(<<c>>) = 1
  OBVIOUS
<1>2. Ordered(<<c>>)
  BY <1>1 DEF Ordered
<1>3. Free(<<c>>) = Run(c) /\ Heads(<<c>>) = {c.at}
  BY <1>1 DEF Free, Heads
<1> QED BY <1>1, <1>2, <1>3, SumSmall

LEMMA TwoChunks ==
  ASSUME NEW c \in Chunk, NEW d \in Chunk
  PROVE  /\ <<c, d>> \in Seq(Chunk) /\ Len(<<c, d>>) = 2 /\ <<c, d>>[1] = c /\ <<c, d>>[2] = d
         /\ Ordered(<<c, d>>) <=> EndOf(c) < d.at
         /\ Free(<<c, d>>) = Run(c) \union Run(d)
         /\ Heads(<<c, d>>) = {c.at, d.at}
         /\ Sum(<<c, d>>) = c.bytes + d.bytes
<1>1. <<c, d>> \in Seq(Chunk) /\ Len(<<c, d>>) = 2 /\ <<c, d>>[1] = c /\ <<c, d>>[2] = d
      /\ DOMAIN <<c, d>> = {1, 2}
  OBVIOUS
<1>2. Ordered(<<c, d>>) <=> EndOf(c) < d.at
  <2>1. \A i, j \in 1..2 : i < j <=> i = 1 /\ j = 2
    OBVIOUS
  <2> QED BY <1>1, <2>1 DEF Ordered
<1>3. Free(<<c, d>>) = Run(c) \union Run(d) /\ Heads(<<c, d>>) = {c.at, d.at}
  BY <1>1 DEF Free, Heads
<1> QED BY <1>1, <1>2, <1>3, SumSmall

LEMMA Parts ==
  ASSUME NEW S, NEW F \in Seq(S), NEW i \in 1..(Len(F) + 1), NEW j \in (i - 1)..Len(F)
  PROVE  /\ SubSeq(F, 1, i - 1) \in Seq(S)
         /\ SubSeq(F, i, j) \in Seq(S)
         /\ SubSeq(F, j + 1, Len(F)) \in Seq(S)
         /\ Len(SubSeq(F, 1, i - 1)) = i - 1
         /\ Len(SubSeq(F, i, j)) = j - i + 1
         /\ Len(SubSeq(F, j + 1, Len(F))) = Len(F) - j
         /\ \A k \in 1..(i - 1) : SubSeq(F, 1, i - 1)[k] = F[k]
         /\ \A k \in 1..(j - i + 1) : SubSeq(F, i, j)[k] = F[i + k - 1]
         /\ \A k \in 1..(Len(F) - j) : SubSeq(F, j + 1, Len(F))[k] = F[j + k]
OBVIOUS

LEMMA PartsMakeWhole ==
  ASSUME NEW S, NEW F \in Seq(S), NEW i \in 1..(Len(F) + 1), NEW j \in (i - 1)..Len(F)
  PROVE  SubSeq(F, 1, i - 1) \o SubSeq(F, i, j) \o SubSeq(F, j + 1, Len(F)) = F
<1> DEFINE P == SubSeq(F, 1, i - 1)
           M == SubSeq(F, i, j)
           R == SubSeq(F, j + 1, Len(F))
           G == P \o M \o R
<1>1. /\ P \in Seq(S) /\ M \in Seq(S) /\ R \in Seq(S)
      /\ Len(P) = i - 1 /\ Len(M) = j - i + 1 /\ Len(R) = Len(F) - j
      /\ \A k \in 1..(i - 1) : P[k] = F[k]
      /\ \A k \in 1..(j - i + 1) : M[k] = F[i + k - 1]
      /\ \A k \in 1..(Len(F) - j) : R[k] = F[j + k]
  BY Parts
<1>2. P \in Seq(S) /\ M \in Seq(S) /\ R \in Seq(S)
  BY <1>1
<1> HIDE DEF P, M, R
<1>3. /\ G \in Seq(S)
      /\ Len(G) = Len(P) + Len(M) + Len(R)
      /\ \A k \in 1..Len(P) : G[k] = P[k]
      /\ \A k \in 1..Len(M) : G[Len(P) + k] = M[k]
      /\ \A k \in 1..Len(R) : G[Len(P) + Len(M) + k] = R[k]
  BY <1>2, ConcatElements
<1> HIDE DEF G
<1>4. Len(F) \in Nat
  BY LenProperties
<1>5. Len(G) = Len(F)
  BY <1>1, <1>3, <1>4
<1>6. ASSUME NEW k \in 1..Len(G)
      PROVE  G[k] = F[k]
  <2>1. CASE k <= i - 1
    <3>1. k \in 1..(i - 1) /\ Len(P) = i - 1
      BY <1>1, <2>1
    <3>2. G[k] = P[k]
      BY <1>3, <3>1
    <3>3. P[k] = F[k]
      BY <1>1, <3>1
    <3> QED
      BY <3>2, <3>3
  <2>2. CASE i - 1 < k /\ k <= j
    <3>1. k - (i - 1) \in 1..(j - i + 1) /\ Len(P) + (k - (i - 1)) = k
      BY <1>1, <1>4, <2>2
    <3>2. G[k] = M[k - (i - 1)]
      BY <1>1, <1>3, <3>1
    <3>3. M[k - (i - 1)] = F[i + (k - (i - 1)) - 1] /\ i + (k - (i - 1)) - 1 = k
      BY <1>1, <3>1
    <3> QED
      BY <3>2, <3>3
  <2>3. CASE j < k
    <3>1. k - j \in 1..(Len(F) - j) /\ Len(P) + Len(M) + (k - j) = k /\ j + (k - j) = k
      BY <1>1, <1>4, <1>5, <2>3
    <3>2. G[k] = R[k - j]
      BY <1>1, <1>3, <3>1
    <3> QED
      BY <1>1, <3>1, <3>2
  <2> QED
    BY <1>4, <2>1, <2>2, <2>3
<1>7. G = F
  BY <1>3, <1>5, <1>6, SeqEqual
<1> QED
  BY <1>7 DEF G, P, M, R


(* A run of n free units lies in one chunk, since no two touch. *)
LEMMA RunsFit ==
  ASSUME NEW F \in Seq(Chunk), Ordered(F), NEW n \in Nat, NEW x \in Free(F),
         \A i \in 1..Len(F) : F[i].bytes < n
  PROVE  ~(x..(x + n - 1) \subseteq Free(F))
<1>1. PICK i \in 1..Len(F) : Covers(F[i], x)
  BY InFree
<1>2. /\ x \in Int /\ F[i].at \in Nat /\ F[i].bytes \in Nat
      /\ EndOf(F[i]) = F[i].at + F[i].bytes
  BY ChunkFields, InFree
<1>3. EndOf(F[i]) \in x..(x + n - 1)
  BY <1>1, <1>2 DEF Covers
<1>4. ASSUME EndOf(F[i]) \in Free(F)
      PROVE  FALSE
  <2>1. PICK j \in 1..Len(F) : Covers(F[j], EndOf(F[i]))
    BY <1>4, InFree
  <2>2. F[j].at \in Nat /\ EndOf(F[j]) \in Nat
    BY ChunkFields
  <2>3. CASE j < i
    <3>1. EndOf(F[j]) < F[i].at
      BY <2>3 DEF Ordered
    <3> QED BY <1>2, <2>1, <2>2, <3>1 DEF Covers
  <2>4. CASE j = i
    BY <1>2, <2>1, <2>4 DEF Covers
  <2>5. CASE i < j
    <3>1. EndOf(F[i]) < F[j].at
      BY <2>5 DEF Ordered
    <3> QED BY <1>2, <2>1, <2>2, <3>1 DEF Covers
  <2> QED BY <2>3, <2>4, <2>5
<1> QED BY <1>3, <1>4

-----------------------------------------------------------------------------
(* What Allocate and Deallocate do to the chain. *)

Between(F, lo, hi) == \A k \in 1..Len(F) : lo <= F[k].at /\ EndOf(F[k]) <= hi

\* What lies before chunk i of a chain in order, and what lies behind chunk j.
LEMMA Around ==
  ASSUME NEW P \in Seq(Chunk), NEW M \in Seq(Chunk), NEW R \in Seq(Chunk), NEW B \in Seq(Chunk),
         Ordered(P \o M \o R), NEW lo \in Nat, NEW hi \in Nat, Between(B, lo, hi),
         P = <<>> \/ \E k \in 1..Len(M) : M[k].at = lo,
         R = <<>> \/ \E k \in 1..Len(M) : EndOf(M[k]) = hi
  PROVE  Before(P, B) /\ Before(B, R)
<1>1. Before(P, M) /\ Before(M, R)
  BY OrderedConcat
<1>2. Before(P, B)
  <2> SUFFICES ASSUME NEW m \in 1..Len(P), NEW k \in 1..Len(B) PROVE EndOf(P[m]) < B[k].at
    BY DEF Before
  <2>1. P # <<>>
    OBVIOUS
  <2>2. EndOf(P[m]) < lo
    BY <1>1, <2>1 DEF Before
  <2>3. EndOf(P[m]) \in Nat /\ B[k].at \in Nat /\ lo <= B[k].at
    BY ChunkFields DEF Between
  <2> QED BY <2>2, <2>3
<1>3. Before(B, R)
  <2> SUFFICES ASSUME NEW m \in 1..Len(B), NEW k \in 1..Len(R) PROVE EndOf(B[m]) < R[k].at
    BY DEF Before
  <2>1. R # <<>>
    OBVIOUS
  <2>2. hi < R[k].at
    BY <1>1, <2>1 DEF Before
  <2>3. EndOf(B[m]) \in Nat /\ R[k].at \in Nat /\ EndOf(B[m]) <= hi
    BY ChunkFields DEF Between
  <2> QED BY <2>2, <2>3
<1> QED BY <1>2, <1>3

LEMMA RunRest ==
  ASSUME NEW u \in Nat, NEW v \in Nat, NEW k \in Nat, k <= v
  PROVE  u + k .. u + k + (v - k) - 1 = (u .. u + v - 1) \ (u .. u + k - 1)
<1>1. ASSUME NEW e \in Int
      PROVE  e \in u + k .. u + k + (v - k) - 1 <=> e \in u .. u + v - 1 /\ e \notin u .. u + k - 1
  OBVIOUS
<1> QED BY <1>1

LEMMA CutLeaves ==
  ASSUME NEW ch \in Seq(Chunk), Ordered(ch), NEW i \in 1..Len(ch), NEW size \in Nat \ {0},
         size <= ch[i].bytes
  PROVE  /\ Cut(ch, i, size) \in Seq(Chunk)
         /\ Ordered(Cut(ch, i, size))
         /\ Free(Cut(ch, i, size)) = Free(ch) \ (ch[i].at .. ch[i].at + size - 1)
         /\ ch[i].at .. ch[i].at + size - 1 \subseteq Free(ch)
         /\ Heads(Cut(ch, i, size)) \subseteq Heads(ch) \union Leftover(ch, i, size)
         /\ Leftover(ch, i, size) \subseteq Free(ch)
         /\ Sum(Cut(ch, i, size)) = Sum(ch) - size
<1> DEFINE left == [at |-> ch[i].at + size, bytes |-> ch[i].bytes - size]
           B == IF left.bytes = 0 THEN <<>> ELSE <<left>>
           P == SubSeq(ch, 1, i - 1)
           M == SubSeq(ch, i, i)
           R == SubSeq(ch, i + 1, Len(ch))
           gone == ch[i].at .. ch[i].at + size - 1
<1>1. Len(ch) \in Nat /\ i \in 1..(Len(ch) + 1) /\ i \in (i - 1)..Len(ch)
  BY LenProperties
<1>2. /\ P \in Seq(Chunk) /\ M \in Seq(Chunk) /\ R \in Seq(Chunk)
      /\ Len(M) = i - i + 1
      /\ \A k \in 1..(i - i + 1) : M[k] = ch[i + k - 1]
  BY <1>1, Parts
<1>3. P \o M \o R = ch
  BY <1>1, PartsMakeWhole
<1>4. PICK c \in Chunk : c = ch[i]
  BY ChunkFields
<1>5. M = <<c>>
  <2>1. Len(M) = 1 /\ M[1] = c
    <3>1. i - i + 1 = 1 /\ i + 1 - 1 = i /\ 1 \in 1..1
      OBVIOUS
    <3> QED BY <1>2, <1>4, <3>1
  <2>2. \A D \in Seq(Chunk) : Len(D) = 1 /\ D[1] = c => D = <<c>>
    OBVIOUS
  <2> QED BY <1>2, <2>1, <2>2
<1>6. Cut(ch, i, size) = P \o B \o R
  BY DEF Cut
<1>7. c.at \in Nat \ {0} /\ c.bytes \in Nat \ {0} /\ EndOf(c) = c.at + c.bytes
  BY DEF Chunk, EndOf
<1>8. /\ B \in Seq(Chunk) /\ Ordered(B) /\ Between(B, c.at, EndOf(c))
      /\ Free(B) = Run(c) \ gone /\ Heads(B) = Leftover(ch, i, size)
      /\ Sum(B) = c.bytes - size
  <2>1. CASE c.bytes = size
    <3>1. B = <<>>
      BY <1>4, <2>1
    <3>2. Run(c) = gone
      BY <1>4, <2>1 DEF Run
    <3>3. Leftover(ch, i, size) = {} /\ c.bytes - size = 0
      BY <1>4, <1>7, <2>1 DEF Leftover
    <3>4. Between(<<>>, c.at, EndOf(c))
      BY DEF Between
    <3> HIDE DEF B, gone
    <3> QED BY <3>1, <3>2, <3>3, <3>4, NoChunks
  <2>2. CASE c.bytes # size
    <3>1. B = <<left>> /\ left \in Chunk
      BY <1>4, <1>7, <2>2 DEF Chunk
    <3>2. Run(left) = Run(c) \ gone /\ left.at = c.at + size /\ left.bytes = c.bytes - size
          /\ c.at <= left.at /\ EndOf(left) = EndOf(c)
      <4>1. left.at = c.at + size /\ left.bytes = c.bytes - size /\ size <= c.bytes
        BY <1>4
      <4>2. gone = c.at .. c.at + size - 1
        BY <1>4
      <4> HIDE DEF left, gone
      <4>3. c.at <= left.at /\ EndOf(left) = EndOf(c)
        BY <1>7, <4>1 DEF EndOf
      <4>4. Run(left) = c.at + size .. c.at + size + (c.bytes - size) - 1
        BY <4>1 DEF Run
      <4>5. Run(c) = c.at .. c.at + c.bytes - 1
        BY DEF Run
      <4>6. Run(left) = Run(c) \ gone
        <5>1. PICK u \in Nat, v \in Nat : u = c.at /\ v = c.bytes /\ size <= v
          BY <1>7, <4>1
        <5>2. u + size .. u + size + (v - size) - 1 = (u .. u + v - 1) \ (u .. u + size - 1)
          <6>1. size \in Nat /\ size <= v
            BY <5>1
          <6> QED BY <6>1, RunRest, Zenon
        <5> QED BY <4>2, <4>4, <4>5, <5>1, <5>2, Zenon
      <4> QED BY <4>1, <4>3, <4>6
    <3>3. Leftover(ch, i, size) = {left.at}
      BY <1>4, <2>2 DEF Leftover
    <3> HIDE DEF B, left, gone
    <3>4. /\ <<left>> \in Seq(Chunk) /\ Len(<<left>>) = 1 /\ <<left>>[1] = left
          /\ Ordered(<<left>>) /\ Free(<<left>>) = Run(left) /\ Heads(<<left>>) = {left.at}
          /\ Sum(<<left>>) = left.bytes
      BY <3>1, OneChunk
    <3>5. Between(<<left>>, c.at, EndOf(c))
      BY <1>7, <3>2, <3>4 DEF Between
    <3> QED BY <3>1, <3>2, <3>3, <3>4, <3>5
  <2> QED BY <2>1, <2>2
<1>9. /\ Len(M) = 1 /\ M[1] = c /\ Free(M) = Run(c) /\ Sum(M) = c.bytes
  BY <1>5, OneChunk
<1>10. gone \subseteq Run(c) /\ Leftover(ch, i, size) \subseteq Run(c)
  BY <1>4, <1>7 DEF Run, Leftover
<1> HIDE DEF P, M, R, B, gone, left
<1>11. Before(P, B) /\ Before(B, R)
  <2>1. Ordered(P \o M \o R)
    BY <1>3
  <2>2. 1 \in 1..Len(M) /\ M[1].at = c.at /\ EndOf(M[1]) = EndOf(c)
    BY <1>9
  <2>3. c.at \in Nat /\ EndOf(c) \in Nat
    BY <1>7
  <2>4. (\E k \in 1..Len(M) : M[k].at = c.at) /\ (\E k \in 1..Len(M) : EndOf(M[k]) = EndOf(c))
    BY <2>2
  <2>5. P \in Seq(Chunk) /\ M \in Seq(Chunk) /\ R \in Seq(Chunk) /\ B \in Seq(Chunk)
    BY <1>2, <1>8
  <2>6. Between(B, c.at, EndOf(c))
    BY <1>8
  <2> QED BY <2>1, <2>3, <2>4, <2>5, <2>6, Around
<1>12. /\ P \o B \o R \in Seq(Chunk)
       /\ Ordered(P \o B \o R)
       /\ Free(P \o B \o R) = (Free(P \o M \o R) \ Free(M)) \union Free(B)
       /\ Free(M) \subseteq Free(P \o M \o R)
       /\ Heads(P \o B \o R) \subseteq Heads(P \o M \o R) \union Heads(B)
       /\ Sum(P \o B \o R) = (Sum(P \o M \o R) - Sum(M)) + Sum(B)
  <2>1. Ordered(P \o M \o R)
    BY <1>3
  <2>2. P \in Seq(Chunk) /\ M \in Seq(Chunk) /\ R \in Seq(Chunk)
    BY <1>2
  <2>3. B \in Seq(Chunk) /\ Ordered(B)
    BY <1>8
  <2> QED BY <1>11, <2>1, <2>2, <2>3, ChunksReplaced
<1>13. Sum(ch) \in Nat
  BY SumIsNat
<1>14. Sum(Cut(ch, i, size)) = Sum(ch) - size
  BY <1>3, <1>6, <1>7, <1>8, <1>9, <1>12, <1>13
<1>15. Free(Cut(ch, i, size)) = Free(ch) \ gone /\ gone \subseteq Free(ch)
       /\ Leftover(ch, i, size) \subseteq Free(ch)
  BY <1>3, <1>6, <1>8, <1>9, <1>10, <1>12
<1> QED BY <1>3, <1>6, <1>8, <1>12, <1>14, <1>15 DEF gone

\* Two chunks in order that may touch, as one or two.
LEMMA Coalesced ==
  ASSUME NEW c \in Chunk, NEW d \in Chunk, EndOf(c) <= d.at
  PROVE  /\ Coalesce(c, d) \in Seq(Chunk)
         /\ Ordered(Coalesce(c, d))
         /\ Free(Coalesce(c, d)) = Run(c) \union Run(d)
         /\ Sum(Coalesce(c, d)) = c.bytes + d.bytes
         /\ Heads(Coalesce(c, d)) = {c.at} \union (IF EndOf(c) = d.at THEN {} ELSE {d.at})
         /\ Between(Coalesce(c, d), c.at, EndOf(d))
<1>1. /\ c.at \in Nat \ {0} /\ c.bytes \in Nat \ {0} /\ EndOf(c) = c.at + c.bytes
      /\ d.at \in Nat \ {0} /\ d.bytes \in Nat \ {0} /\ EndOf(d) = d.at + d.bytes
  BY DEF Chunk, EndOf
<1>2. CASE EndOf(c) = d.at
  <2> DEFINE m == [at |-> c.at, bytes |-> c.bytes + d.bytes]
  <2>1. Coalesce(c, d) = <<m>> /\ m \in Chunk
    BY <1>1, <1>2 DEF Coalesce, Chunk
  <2>2. /\ Run(m) = Run(c) \union Run(d) /\ m.at = c.at /\ EndOf(m) = EndOf(d)
        /\ m.bytes = c.bytes + d.bytes
    BY <1>1, <1>2 DEF Run, EndOf
  <2> HIDE DEF m
  <2>3. /\ <<m>> \in Seq(Chunk) /\ Len(<<m>>) = 1 /\ <<m>>[1] = m
        /\ Ordered(<<m>>) /\ Free(<<m>>) = Run(m) /\ Heads(<<m>>) = {m.at}
        /\ Sum(<<m>>) = m.bytes
    BY <2>1, OneChunk
  <2>4. Between(<<m>>, c.at, EndOf(d))
    BY <1>1, <2>2, <2>3 DEF Between
  <2> QED BY <1>2, <2>1, <2>2, <2>3, <2>4
<1>3. CASE EndOf(c) # d.at
  <2>1. Coalesce(c, d) = <<c, d>>
    BY <1>1, <1>3 DEF Coalesce
  <2>2. /\ <<c, d>> \in Seq(Chunk) /\ Len(<<c, d>>) = 2 /\ <<c, d>>[1] = c /\ <<c, d>>[2] = d
        /\ Ordered(<<c, d>>) <=> EndOf(c) < d.at
        /\ Free(<<c, d>>) = Run(c) \union Run(d)
        /\ Heads(<<c, d>>) = {c.at, d.at}
        /\ Sum(<<c, d>>) = c.bytes + d.bytes
    BY TwoChunks
  <2>3. Ordered(<<c, d>>)
    BY <1>1, <1>3, <2>2
  <2>4. Between(<<c, d>>, c.at, EndOf(d))
    <3>1. \A k \in 1..2 : k = 1 \/ k = 2
      OBVIOUS
    <3>2. c.at <= c.at /\ EndOf(c) <= EndOf(d) /\ c.at <= d.at /\ EndOf(d) <= EndOf(d)
      BY <1>1
    <3> QED BY <2>2, <3>1, <3>2 DEF Between
  <2> QED BY <1>3, <2>1, <2>2, <2>3, <2>4
<1> QED BY <1>2, <1>3

\* B is what M becomes when block x is put among its chunks; joins: x becomes
\* a part of the chunk below it.
Joined(M, B, x, joins) ==
  /\ B \in Seq(Chunk) /\ Ordered(B)
  /\ Free(B) = Free(M) \union Run(x)
  /\ Sum(B) = Sum(M) + x.bytes
  /\ Heads(B) \subseteq Heads(M) \union (IF joins THEN {} ELSE {x.at})

LEMMA JoinedBoth ==
  ASSUME NEW c \in Chunk, NEW x \in Chunk, NEW d \in Chunk, EndOf(c) <= x.at, EndOf(x) <= d.at,
         NEW below, below = Coalesce(c, x),
         NEW B, B = SubSeq(below, 1, Len(below) - 1) \o Coalesce(below[Len(below)], d)
  PROVE  Joined(<<c, d>>, B, x, EndOf(c) = x.at) /\ Between(B, c.at, EndOf(d))
<1>1. /\ c.at \in Nat \ {0} /\ c.bytes \in Nat \ {0} /\ EndOf(c) = c.at + c.bytes
      /\ x.at \in Nat \ {0} /\ x.bytes \in Nat \ {0} /\ EndOf(x) = x.at + x.bytes
      /\ d.at \in Nat \ {0} /\ d.bytes \in Nat \ {0} /\ EndOf(d) = d.at + d.bytes
  BY DEF Chunk, EndOf
<1>0. c.at <= x.at /\ EndOf(c) <= EndOf(d) /\ c.at <= EndOf(d)
  BY <1>1
<1>2. /\ Free(<<c, d>>) = Run(c) \union Run(d)
      /\ Heads(<<c, d>>) = {c.at, d.at}
      /\ Sum(<<c, d>>) = c.bytes + d.bytes
  BY TwoChunks
<1>3. CASE EndOf(c) = x.at
  <2> DEFINE m == [at |-> c.at, bytes |-> c.bytes + x.bytes]
  <2>1. below = <<m>> /\ m \in Chunk
    BY <1>1, <1>3 DEF Coalesce, Chunk
  <2>2. /\ Run(m) = Run(c) \union Run(x) /\ m.at = c.at /\ EndOf(m) = EndOf(x)
        /\ m.bytes = c.bytes + x.bytes
    <3>1. m.at = c.at /\ m.bytes = c.bytes + x.bytes
      OBVIOUS
    <3> HIDE DEF m
    <3>2. EndOf(m) = EndOf(x)
      BY <1>1, <1>3, <3>1 DEF EndOf
    <3>3. /\ Run(m) = c.at .. c.at + (c.bytes + x.bytes) - 1
          /\ Run(c) = c.at .. c.at + c.bytes - 1
          /\ Run(x) = c.at + c.bytes .. c.at + c.bytes + x.bytes - 1
      BY <1>1, <1>3, <3>1 DEF Run
    <3>4. Run(m) = Run(c) \union Run(x)
      <4>1. PICK a \in Nat : a = c.at
        BY <1>1
      <4>2. PICK k \in Nat : k = c.bytes
        BY <1>1
      <4>3. PICK l \in Nat : l = x.bytes
        BY <1>1
      <4>4. /\ Run(m) = a .. a + (k + l) - 1
            /\ Run(c) = a .. a + k - 1
            /\ Run(x) = a + k .. a + k + l - 1
        BY <3>3, <4>1, <4>2, <4>3
      <4> QED BY <4>4
    <3> QED BY <3>1, <3>2, <3>4
  <2> HIDE DEF m
  <2>3. /\ Coalesce(m, d) \in Seq(Chunk)
        /\ Ordered(Coalesce(m, d))
        /\ Free(Coalesce(m, d)) = Run(m) \union Run(d)
        /\ Sum(Coalesce(m, d)) = m.bytes + d.bytes
        /\ Heads(Coalesce(m, d)) = {m.at} \union (IF EndOf(m) = d.at THEN {} ELSE {d.at})
        /\ Between(Coalesce(m, d), m.at, EndOf(d))
    BY <2>1, <2>2, Coalesced
  <2>4. B = Coalesce(m, d)
    <3>1. SubSeq(<<m>>, 1, 1 - 1) = <<>> /\ Len(<<m>>) = 1 /\ <<m>>[1] = m
      OBVIOUS
    <3>2. B = <<>> \o Coalesce(m, d)
      BY <2>1, <3>1
    <3>3. \A F \in Seq(Chunk) : <<>> \o F = F
      OBVIOUS
    <3> QED BY <2>3, <3>2, <3>3
  <2>5. Sum(B) = Sum(<<c, d>>) + x.bytes
    <3>1. Sum(B) = (c.bytes + x.bytes) + d.bytes
      BY <2>2, <2>3, <2>4
    <3>2. (c.bytes + x.bytes) + d.bytes = (c.bytes + d.bytes) + x.bytes
      BY <1>1
    <3> QED BY <1>2, <3>1, <3>2
  <2> QED BY <1>2, <1>3, <2>2, <2>3, <2>4, <2>5 DEF Joined
<1>4. CASE EndOf(c) # x.at
  <2>1. below = <<c, x>>
    BY <1>1, <1>4 DEF Coalesce
  <2> DEFINE K == Coalesce(x, d)
  <2>2. /\ K \in Seq(Chunk) /\ Ordered(K)
        /\ Free(K) = Run(x) \union Run(d)
        /\ Sum(K) = x.bytes + d.bytes
        /\ Heads(K) = {x.at} \union (IF EndOf(x) = d.at THEN {} ELSE {d.at})
        /\ Between(K, x.at, EndOf(d))
    BY Coalesced
  <2>3. B = <<c>> \o K
    <3>1. Len(<<c, x>>) = 2 /\ <<c, x>>[1] = c /\ <<c, x>>[2] = x /\ <<c, x>> \in Seq(Chunk)
      OBVIOUS
    <3>2. \A D \in Seq(Chunk) : Len(D) = 2 =>
            /\ SubSeq(D, 1, 2 - 1) \in Seq(Chunk) /\ Len(SubSeq(D, 1, 2 - 1)) = 1
            /\ SubSeq(D, 1, 2 - 1)[1] = D[1]
      OBVIOUS
    <3>3. \A D \in Seq(Chunk) : Len(D) = 1 => D = <<D[1]>>
      OBVIOUS
    <3>4. SubSeq(<<c, x>>, 1, 2 - 1) = <<c>>
      <4> DEFINE D == <<c, x>>
      <4>1. D \in Seq(Chunk) /\ Len(D) = 2 /\ D[1] = c
        BY <3>1
      <4> HIDE DEF D
      <4>2. SubSeq(D, 1, 2 - 1) = <<c>>
        BY <3>2, <3>3, <4>1
      <4> QED BY <4>2 DEF D
    <3> QED BY <2>1, <3>1, <3>4, Zenon
  <2> HIDE DEF K
  <2>4. /\ <<c>> \in Seq(Chunk) /\ Len(<<c>>) = 1 /\ <<c>>[1] = c
        /\ Ordered(<<c>>) /\ Free(<<c>>) = Run(c) /\ Heads(<<c>>) = {c.at} /\ Sum(<<c>>) = c.bytes
    BY OneChunk
  <2>5. <<>> \o <<c>> \o K = B
    <3>1. <<>> \o <<c>> = <<c>>
      OBVIOUS
    <3> QED BY <2>3, <3>1
  <2>6. /\ B \in Seq(Chunk)
        /\ Free(B) = Free(<<>>) \union Free(<<c>>) \union Free(K)
        /\ Heads(B) = Heads(<<>>) \union Heads(<<c>>) \union Heads(K)
        /\ Sum(B) = Sum(<<>>) + Sum(<<c>>) + Sum(K)
    <3>1. /\ Free(<<>> \o <<c>> \o K) = Free(<<>>) \union Free(<<c>>) \union Free(K)
          /\ Heads(<<>> \o <<c>> \o K) = Heads(<<>>) \union Heads(<<c>>) \union Heads(K)
      <4> DEFINE E == <<>>
                 C == <<c>>
      <4>1. E \in Seq(Chunk) /\ C \in Seq(Chunk) /\ K \in Seq(Chunk)
        BY <2>2, <2>4, NoChunks
      <4> HIDE DEF E, C
      <4>2. /\ Free(E \o C \o K) = Free(E) \union Free(C) \union Free(K)
            /\ Heads(E \o C \o K) = Heads(E) \union Heads(C) \union Heads(K)
        BY <4>1, FreeConcat
      <4> QED BY <4>2 DEF E, C
    <3>0. <<>> \in Seq(Chunk) /\ <<c>> \in Seq(Chunk) /\ K \in Seq(Chunk)
      BY <2>2, <2>4, NoChunks
    <3>2. Sum(<<>> \o <<c>> \o K) = Sum(<<>>) + Sum(<<c>>) + Sum(K)
      BY <3>0, SumConcat, Zenon
    <3>3. <<>> \o <<c>> \o K \in Seq(Chunk)
      BY <3>0, ConcatInTurn, Zenon DEF InTurn
    <3> QED BY <2>5, <3>1, <3>2, <3>3
  <2>7. Before(<<c>>, K)
    <3> SUFFICES ASSUME NEW m \in 1..Len(<<c>>), NEW k \in 1..Len(K)
                 PROVE  EndOf(<<c>>[m]) < K[k].at
      BY DEF Before
    <3>1. <<c>>[m] = c
      BY <2>4
    <3>2. x.at <= K[k].at /\ K[k].at \in Nat
      BY <2>2, ChunkFields DEF Between
    <3>3. EndOf(c) < K[k].at
      BY <1>1, <1>4, <3>2
    <3> QED BY <3>1, <3>3, Zenon
  <2>8. Ordered(B)
    <3>1. Ordered(<<>> \o <<c>> \o K)
      BY <2>2, <2>4, <2>7, NoChunks, OrderedConcat
    <3> QED BY <2>5, <3>1
  <2>9. Between(B, c.at, EndOf(d))
    <3>1. InParts(<<>> \o <<c>> \o K, <<>>, <<c>>, K)
      BY <2>2, <2>4, NoChunks, ThreeParts
    <3>2. InParts(B, <<>>, <<c>>, K)
      BY <2>5, <3>1
    <3> SUFFICES ASSUME NEW k \in 1..Len(B) PROVE c.at <= B[k].at /\ EndOf(B[k]) <= EndOf(d)
      BY DEF Between
    <3>3. (\E m \in 1..Len(<<c>>) : B[k] = <<c>>[m]) \/ (\E m \in 1..Len(K) : B[k] = K[m])
      <4>1. Len(<<>>) = 0 /\ 1 .. 0 = {}
        OBVIOUS
      <4> QED BY <3>2, <4>1 DEF InParts
    <3>4. ASSUME NEW m \in 1..Len(K), B[k] = K[m] PROVE c.at <= B[k].at /\ EndOf(B[k]) <= EndOf(d)
      <4>1. x.at <= K[m].at /\ K[m].at \in Nat /\ EndOf(K[m]) <= EndOf(d)
        BY <2>2, ChunkFields DEF Between
      <4>2. c.at <= K[m].at
        BY <1>0, <1>1, <4>1
      <4> QED BY <3>4, <4>1, <4>2, Zenon
    <3>5. ASSUME B[k] = c PROVE c.at <= B[k].at /\ EndOf(B[k]) <= EndOf(d)
      <4>1. c.at <= c.at
        BY <1>1
      <4> QED BY <1>0, <3>5, <4>1, Zenon
    <3>6. \A m \in 1..Len(<<c>>) : <<c>>[m] = c
      BY <2>4
    <3> QED BY <3>3, <3>4, <3>5, <3>6
  <2>10. Sum(B) = Sum(<<c, d>>) + x.bytes
    BY <1>1, <1>2, <2>2, <2>4, <2>6, NoChunks
  <2> QED BY <1>2, <1>4, <2>2, <2>4, <2>6, <2>8, <2>9, <2>10, NoChunks DEF Joined
<1> QED BY <1>3, <1>4

\* A block put back between the parts of a chain.
LEMMA PutBack ==
  ASSUME NEW P \in Seq(Chunk), NEW M \in Seq(Chunk), NEW R \in Seq(Chunk),
         Ordered(P \o M \o R), NEW x \in Chunk,
         NEW B, NEW joins, Joined(M, B, x, joins), Before(P, B), Before(B, R)
  PROVE  Joined(P \o M \o R, P \o B \o R, x, joins)
<1>1. /\ B \in Seq(Chunk) /\ Ordered(B) /\ Free(B) = Free(M) \union Run(x)
      /\ Sum(B) = Sum(M) + x.bytes
      /\ Heads(B) \subseteq Heads(M) \union (IF joins THEN {} ELSE {x.at})
  BY DEF Joined
<1>3. /\ P \o B \o R \in Seq(Chunk)
      /\ Ordered(P \o B \o R)
      /\ Free(P \o B \o R) = (Free(P \o M \o R) \ Free(M)) \union Free(B)
      /\ Free(M) \subseteq Free(P \o M \o R)
      /\ Heads(P \o B \o R) \subseteq Heads(P \o M \o R) \union Heads(B)
      /\ Sum(P \o B \o R) = (Sum(P \o M \o R) - Sum(M)) + Sum(B)
  BY <1>1, ChunksReplaced
<1>4. Heads(M) \subseteq Heads(P \o M \o R)
  BY FreeConcat
<1>5. Sum(P \o M \o R) \in Nat /\ Sum(M) \in Nat /\ x.bytes \in Nat
  <2>1. P \o M \o R \in Seq(Chunk)
    BY ConcatElements
  <2> QED BY <2>1, SumIsNat DEF Chunk
<1>6. Sum(P \o B \o R) = Sum(P \o M \o R) + x.bytes
  BY <1>1, <1>3, <1>5
<1>7. Free(P \o B \o R) = Free(P \o M \o R) \union Run(x)
  BY <1>1, <1>3
<1> QED BY <1>1, <1>3, <1>4, <1>6, <1>7 DEF Joined

LEMMA Outside ==
  ASSUME NEW ch \in Seq(Chunk)
  PROVE  /\ SubSeq(ch, 1, 1 - 2) = <<>>
         /\ SubSeq(ch, 1, 1 - 1) = <<>>
         /\ SubSeq(ch, Len(ch) + 1, Len(ch)) = <<>>
         /\ SubSeq(ch, (Len(ch) + 1) + 1, Len(ch)) = <<>>
<1>1. Len(ch) \in Nat
  BY LenProperties
<1> QED BY <1>1

\* The chunks below the insertion point end before the block, the others lie
\* behind it.
LEMMA PlaceIsBetween ==
  ASSUME NEW ch \in Seq(Chunk), Ordered(ch), NEW x \in Chunk, Run(x) \intersect Free(ch) = {},
         NEW p, p = Place(ch, x.at)
  PROVE  /\ p \in 1 .. Len(ch) + 1
         /\ p > 1 => p - 1 \in 1 .. Len(ch) /\ EndOf(ch[p - 1]) <= x.at
         /\ p <= Len(ch) => p \in 1 .. Len(ch) /\ EndOf(x) <= ch[p].at
<1>1. PICK n \in Nat : n = Len(ch) /\ DOMAIN ch = 1..n
  BY LenProperties
<1>2. /\ x.at \in Nat \ {0} /\ x.bytes \in Nat \ {0} /\ EndOf(x) = x.at + x.bytes
      /\ Run(x) = x.at .. x.at + x.bytes - 1
  BY DEF Chunk, EndOf, Run
<1>3. \A k \in 1..n : /\ ch[k].at \in Nat \ {0} /\ ch[k].bytes \in Nat \ {0}
                      /\ EndOf(ch[k]) = ch[k].at + ch[k].bytes
  BY <1>1, ChunkFields
<1>4. /\ p \in 1 .. n + 1
      /\ \A k \in 1..n : k < p => ch[k].at < x.at
      /\ p <= n => x.at <= ch[p].at
  <2>1. Above(ch, x.at) \subseteq 1..n
    BY <1>1 DEF Above
  <2>2. CASE Above(ch, x.at) = {}
    <3>1. p = n + 1
      BY <1>1, <2>2 DEF Place
    <3>2. ASSUME NEW k \in 1..n PROVE ch[k].at < x.at
      <4>1. ~ ch[k].at >= x.at
        BY <1>1, <2>2 DEF Above
      <4> QED BY <1>2, <1>3, <4>1
    <3> QED BY <3>1, <3>2
  <2>3. CASE Above(ch, x.at) # {}
    <3> DEFINE T == Above(ch, x.at)
    <3>1. T \subseteq Nat /\ T # {}
      BY <2>1, <2>3
    <3>2. \E m \in T : \A k \in T : m <= k
      <4> HIDE DEF T
      <4> QED BY <3>1, Least
    <3>3. p = CHOOSE m \in T : \A k \in T : m <= k
      BY <2>3 DEF Place
    <3>4. p \in T /\ \A k \in T : p <= k
      <4> HIDE DEF T
      <4> QED BY <3>2, <3>3
    <3>5. p \in 1..n /\ x.at <= ch[p].at
      BY <2>1, <3>4 DEF Above
    <3>6. ASSUME NEW k \in 1..n, k < p PROVE ch[k].at < x.at
      <4>1. k \notin T
        BY <3>4, <3>5, <3>6
      <4> QED BY <1>1, <1>2, <1>3, <4>1 DEF Above
    <3> QED BY <3>5, <3>6
  <2> QED BY <2>2, <2>3
<1>5. ASSUME p > 1 PROVE p - 1 \in 1..n /\ EndOf(ch[p - 1]) <= x.at
  <2>1. p - 1 \in 1..n /\ p - 1 < p
    BY <1>4, <1>5
  <2>2. ch[p - 1].at < x.at
    BY <1>4, <2>1
  <2>3. x.at \in Run(x)
    BY <1>2
  <2>4. x.at \notin Free(ch)
    BY <2>3
  <2>5. ~ Covers(ch[p - 1], x.at)
    BY <1>1, <1>2, <2>1, <2>4, InFree
  <2>6. ch[p - 1].at \in Nat /\ EndOf(ch[p - 1]) \in Nat
    BY <1>3, <2>1
  <2>7. EndOf(ch[p - 1]) <= x.at
    BY <1>2, <2>2, <2>5, <2>6 DEF Covers
  <2> QED BY <2>1, <2>7
<1>6. ASSUME p <= n PROVE p \in 1..n /\ EndOf(x) <= ch[p].at
  <2>1. p \in 1..n /\ x.at <= ch[p].at
    BY <1>4, <1>6
  <2>2. Covers(ch[p], ch[p].at) /\ ch[p].at \in Int
    BY <1>3, <2>1 DEF Covers
  <2>3. ch[p].at \in Free(ch)
    BY <1>1, <2>1, <2>2, InFree
  <2>4. ch[p].at \notin x.at .. x.at + x.bytes - 1
    BY <1>2, <2>3
  <2> QED BY <1>2, <1>3, <2>1, <2>4
<1> QED BY <1>1, <1>4, <1>5, <1>6

LEMMA MergedJoins ==
  ASSUME NEW ch \in Seq(Chunk), Ordered(ch), NEW x \in Chunk, Run(x) \intersect Free(ch) = {},
         NEW p, p = Place(ch, x.at)
  PROVE  Joined(ch, Merged(ch, p, x), x, Joins(ch, p, x.at))
<1>1. PICK n \in Nat : n = Len(ch)
  BY LenProperties
<1>2. /\ p \in 1 .. n + 1
      /\ p > 1 => p - 1 \in 1..n /\ EndOf(ch[p - 1]) <= x.at
      /\ p <= n => p \in 1..n /\ EndOf(x) <= ch[p].at
  BY <1>1, PlaceIsBetween
<1>3. /\ x.at \in Nat \ {0} /\ x.bytes \in Nat \ {0} /\ EndOf(x) = x.at + x.bytes
  BY DEF Chunk, EndOf
<1> DEFINE below == IF p = 1 THEN <<x>> ELSE Coalesce(ch[p - 1], x)
           B == IF p > Len(ch) THEN below
                ELSE SubSeq(below, 1, Len(below) - 1) \o Coalesce(below[Len(below)], ch[p])
           i == IF p = 1 THEN 1 ELSE p - 1
           j == IF p > n THEN n ELSE p
           P == SubSeq(ch, 1, i - 1)
           M == SubSeq(ch, i, j)
           R == SubSeq(ch, j + 1, Len(ch))
           joins == Joins(ch, p, x.at)
<1>4. i \in 1..(Len(ch) + 1) /\ j \in (i - 1)..Len(ch)
  BY <1>1, <1>2
<1>5. Merged(ch, p, x) = P \o B \o R
  <2>1. SubSeq(ch, 1, p - 2) = P
    <3>1. CASE p = 1
      BY <3>1, Outside
    <3>2. CASE p # 1
      <4>1. p - 2 = i - 1
        BY <1>2, <3>2
      <4> QED BY <4>1
    <3> QED BY <3>1, <3>2
  <2>2. SubSeq(ch, p + 1, Len(ch)) = R
    <3>1. CASE p > n
      <4>1. p = Len(ch) + 1 /\ j = Len(ch)
        BY <1>1, <1>2, <3>1
      <4> QED BY <4>1, Outside
    <3>2. CASE ~ p > n
      BY <3>2
    <3> QED BY <3>1, <3>2
  <2> QED BY <2>1, <2>2 DEF Merged
<1>6. /\ P \in Seq(Chunk) /\ M \in Seq(Chunk) /\ R \in Seq(Chunk)
      /\ Len(M) = j - i + 1
      /\ \A k \in 1..(j - i + 1) : M[k] = ch[i + k - 1]
  <2> HIDE DEF i, j
  <2> QED BY <1>4, Parts
<1>7. P \o M \o R = ch
  <2> HIDE DEF i, j
  <2> QED BY <1>4, PartsMakeWhole
<1>8. (p = 1 => P = <<>>) /\ (p > n => R = <<>>)
  BY <1>1, <1>2, Outside
<1>9. joins <=> p > 1 /\ EndOf(ch[p - 1]) = x.at
  BY DEF Joins, EndOf
<1>10. /\ p = 1 /\ p > n => M = <<>> /\ B = <<x>>
       /\ p = 1 /\ ~ p > n => M = <<ch[p]>> /\ B = Coalesce(x, ch[p])
       /\ p > 1 /\ p > n => M = <<ch[p - 1]>> /\ B = Coalesce(ch[p - 1], x)
       /\ p > 1 /\ ~ p > n => M = <<ch[p - 1], ch[p]>>
  <2>0. \A D \in Seq(Chunk) : /\ Len(D) = 0 => D = <<>>
                              /\ Len(D) = 1 => D = <<D[1]>>
                              /\ Len(D) = 2 => D = <<D[1], D[2]>>
    OBVIOUS
  <2>1. CASE p = 1 /\ p > n
    <3>1. j - i + 1 = 0
      BY <1>1, <1>2, <2>1
    <3> QED BY <1>1, <1>6, <2>0, <2>1, <3>1
  <2>2. CASE p = 1 /\ ~ p > n
    <3>1. j - i + 1 = 1 /\ 1 \in 1 .. j - i + 1 /\ i + 1 - 1 = p
      BY <1>1, <1>2, <2>2
    <3>2. Len(M) = 1 /\ M[1] = ch[p]
      BY <1>6, <3>1
    <3>3. M = <<ch[p]>>
      BY <1>6, <2>0, <3>2
    <3>4. below = <<x>> /\ SubSeq(<<x>>, 1, 1 - 1) = <<>> /\ Len(<<x>>) = 1 /\ <<x>>[1] = x
      BY <2>2
    <3>5. B = <<>> \o Coalesce(x, ch[p])
      BY <1>1, <2>2, <3>4
    <3>6. Coalesce(x, ch[p]) \in Seq(Chunk)
      BY <1>1, <1>2, <2>2, ChunkFields, Coalesced
    <3>7. \A D \in Seq(Chunk) : <<>> \o D = D
      OBVIOUS
    <3> QED BY <2>2, <3>3, <3>5, <3>6, <3>7
  <2>3. CASE p > 1 /\ p > n
    <3>1. j - i + 1 = 1 /\ 1 \in 1 .. j - i + 1 /\ i + 1 - 1 = p - 1
      BY <1>1, <1>2, <2>3
    <3>2. Len(M) = 1 /\ M[1] = ch[p - 1]
      BY <1>6, <3>1
    <3>3. M = <<ch[p - 1]>>
      BY <1>6, <2>0, <3>2
    <3>4. B = Coalesce(ch[p - 1], x)
      BY <1>1, <2>3
    <3> HIDE DEF M, B
    <3> QED BY <2>3, <3>3, <3>4
  <2>4. CASE p > 1 /\ ~ p > n
    <3>1. j - i + 1 = 2 /\ 1 \in 1 .. j - i + 1 /\ i + 1 - 1 = p - 1
          /\ 2 \in 1 .. j - i + 1 /\ i + 2 - 1 = p
      BY <1>1, <1>2, <2>4
    <3>2. Len(M) = 2 /\ M[1] = ch[p - 1] /\ M[2] = ch[p]
      BY <1>6, <3>1
    <3>3. M = <<ch[p - 1], ch[p]>>
      <4>1. M = <<M[1], M[2]>>
        BY <1>6, <2>0, <3>2
      <4> HIDE DEF M
      <4> QED BY <3>2, <4>1
    <3> HIDE DEF M, B
    <3> QED BY <2>4, <3>3
  <2> QED BY <1>2, <2>1, <2>2, <2>3, <2>4
<1> DEFINE lo == IF p = 1 THEN x.at ELSE ch[p - 1].at
           hi == IF p > n THEN EndOf(x) ELSE EndOf(ch[p])
<1>11. Joined(M, B, x, joins) /\ Between(B, lo, hi)
  <2>0. (p > 1 => ch[p - 1] \in Chunk) /\ (~ p > n => ch[p] \in Chunk)
    BY <1>1, <1>2, ChunkFields
  <2>1. CASE p = 1 /\ p > n
    <3>1. M = <<>> /\ B = <<x>> /\ ~ joins /\ lo = x.at /\ hi = EndOf(x)
      BY <1>9, <1>10, <2>1
    <3>2. /\ <<x>> \in Seq(Chunk) /\ Len(<<x>>) = 1 /\ <<x>>[1] = x
          /\ Ordered(<<x>>) /\ Free(<<x>>) = Run(x) /\ Heads(<<x>>) = {x.at}
          /\ Sum(<<x>>) = x.bytes
      BY OneChunk
    <3>3. Between(<<x>>, x.at, EndOf(x))
      BY <1>3, <3>2 DEF Between
    <3> HIDE DEF M, B, joins, lo, hi
    <3> QED BY <1>3, <3>1, <3>2, <3>3, NoChunks DEF Joined
  <2>2. CASE p = 1 /\ ~ p > n
    <3>1. M = <<ch[p]>> /\ B = Coalesce(x, ch[p]) /\ ~ joins /\ lo = x.at /\ hi = EndOf(ch[p])
      BY <1>9, <1>10, <2>2
    <3>2. PICK d \in Chunk : d = ch[p]
      BY <2>0, <2>2
    <3>3. EndOf(x) <= d.at
      BY <1>2, <2>2, <3>2
    <3>4. /\ Coalesce(x, d) \in Seq(Chunk) /\ Ordered(Coalesce(x, d))
          /\ Free(Coalesce(x, d)) = Run(x) \union Run(d)
          /\ Sum(Coalesce(x, d)) = x.bytes + d.bytes
          /\ Heads(Coalesce(x, d)) = {x.at} \union (IF EndOf(x) = d.at THEN {} ELSE {d.at})
          /\ Between(Coalesce(x, d), x.at, EndOf(d))
      BY <3>3, Coalesced
    <3>5. Free(<<d>>) = Run(d) /\ Heads(<<d>>) = {d.at} /\ Sum(<<d>>) = d.bytes
      BY OneChunk
    <3>6. d.bytes + x.bytes = x.bytes + d.bytes
      BY <1>3 DEF Chunk
    <3> HIDE DEF M, B, joins, lo, hi
    <3>7. M = <<d>> /\ B = Coalesce(x, d) /\ lo = x.at /\ hi = EndOf(d)
      BY <3>1, <3>2
    <3>8. Joined(<<d>>, Coalesce(x, d), x, FALSE)
      BY <3>4, <3>5, <3>6 DEF Joined
    <3>9. joins = FALSE
      BY <3>1
    <3> QED BY <3>4, <3>7, <3>8, <3>9
  <2>3. CASE p > 1 /\ p > n
    <3>1. /\ M = <<ch[p - 1]>> /\ B = Coalesce(ch[p - 1], x) /\ lo = ch[p - 1].at /\ hi = EndOf(x)
          /\ joins <=> EndOf(ch[p - 1]) = x.at
      BY <1>9, <1>10, <2>3
    <3>2. PICK c \in Chunk : c = ch[p - 1]
      BY <2>0, <2>3
    <3>3. EndOf(c) <= x.at
      BY <1>2, <2>3, <3>2
    <3>4. /\ Coalesce(c, x) \in Seq(Chunk) /\ Ordered(Coalesce(c, x))
          /\ Free(Coalesce(c, x)) = Run(c) \union Run(x)
          /\ Sum(Coalesce(c, x)) = c.bytes + x.bytes
          /\ Heads(Coalesce(c, x)) = {c.at} \union (IF EndOf(c) = x.at THEN {} ELSE {x.at})
          /\ Between(Coalesce(c, x), c.at, EndOf(x))
      BY <3>3, Coalesced
    <3>5. Free(<<c>>) = Run(c) /\ Heads(<<c>>) = {c.at} /\ Sum(<<c>>) = c.bytes
      BY OneChunk
    <3> HIDE DEF M, B, joins, lo, hi
    <3>6. M = <<c>> /\ B = Coalesce(c, x) /\ lo = c.at /\ hi = EndOf(x)
          /\ (joins <=> EndOf(c) = x.at)
      BY <3>1, <3>2
    <3> QED BY <3>4, <3>5, <3>6 DEF Joined
  <2>4. CASE p > 1 /\ ~ p > n
    <3>1. /\ M = <<ch[p - 1], ch[p]>> /\ lo = ch[p - 1].at /\ hi = EndOf(ch[p])
          /\ joins <=> EndOf(ch[p - 1]) = x.at
      BY <1>9, <1>10, <2>4
    <3>2. PICK c \in Chunk : c = ch[p - 1]
      BY <2>0, <2>4
    <3>3. PICK d \in Chunk : d = ch[p]
      BY <2>0, <2>4
    <3>4. EndOf(c) <= x.at /\ EndOf(x) <= d.at
      BY <1>2, <2>4, <3>2, <3>3
    <3>5. below = Coalesce(c, x)
      BY <2>4, <3>2
    <3>6. B = SubSeq(below, 1, Len(below) - 1) \o Coalesce(below[Len(below)], d)
      <4>1. ~ p > Len(ch)
        BY <1>1, <2>4
      <4> QED BY <4>1, <3>3, Zenon
    <3> HIDE DEF M, B, joins, lo, hi, below
    <3>7. Joined(<<c, d>>, B, x, EndOf(c) = x.at) /\ Between(B, c.at, EndOf(d))
      BY <3>4, <3>5, <3>6, JoinedBoth
    <3>8. M = <<c, d>> /\ lo = c.at /\ hi = EndOf(d) /\ (joins <=> EndOf(c) = x.at)
      BY <3>1, <3>2, <3>3
    <3> QED BY <3>7, <3>8 DEF Joined
  <2> QED BY <1>2, <2>1, <2>2, <2>3, <2>4
<1>12. lo \in Nat /\ hi \in Nat
  BY <1>1, <1>2, <1>3, ChunkFields
<1>13. /\ P = <<>> \/ \E k \in 1..Len(M) : M[k].at = lo
       /\ R = <<>> \/ \E k \in 1..Len(M) : EndOf(M[k]) = hi
  <2>1. CASE p = 1 /\ p > n
    BY <1>8, <2>1
  <2>2. CASE p = 1 /\ ~ p > n
    <3>1. P = <<>> /\ M = <<ch[p]>> /\ hi = EndOf(ch[p])
      BY <1>8, <1>10, <2>2
    <3> HIDE DEF P, M, R, lo, hi
    <3>2. 1 \in 1..Len(M) /\ M[1] = ch[p]
      BY <3>1
    <3> QED BY <3>1, <3>2
  <2>3. CASE p > 1 /\ p > n
    <3>1. R = <<>> /\ M = <<ch[p - 1]>> /\ lo = ch[p - 1].at
      BY <1>8, <1>10, <2>3
    <3> HIDE DEF P, M, R, lo, hi
    <3>2. 1 \in 1..Len(M) /\ M[1] = ch[p - 1]
      BY <3>1
    <3> QED BY <3>1, <3>2
  <2>4. CASE p > 1 /\ ~ p > n
    <3>1. M = <<ch[p - 1], ch[p]>> /\ lo = ch[p - 1].at /\ hi = EndOf(ch[p])
      BY <1>10, <2>4
    <3> HIDE DEF P, M, R, lo, hi
    <3>2. 1 \in 1..Len(M) /\ 2 \in 1..Len(M) /\ M[1] = ch[p - 1] /\ M[2] = ch[p]
      BY <3>1
    <3> QED BY <3>1, <3>2
  <2>5. (p = 1 \/ p > 1) /\ (p > n \/ ~ p > n)
    BY <1>2
  <2> HIDE DEF P, M, R, lo, hi
  <2> QED BY <2>1, <2>2, <2>3, <2>4, <2>5, Zenon
<1> HIDE DEF P, M, R, B, lo, hi, joins, i, j, below
<1>14. B \in Seq(Chunk)
  BY <1>11 DEF Joined
<1>15. Ordered(P \o M \o R)
  BY <1>7
<1>16. Before(P, B) /\ Before(B, R)
  BY <1>6, <1>11, <1>12, <1>13, <1>14, <1>15, Around
<1>17. Joined(P \o M \o R, P \o B \o R, x, joins)
  BY <1>6, <1>11, <1>15, <1>16, PutBack
<1> QED BY <1>5, <1>7, <1>17 DEF joins

-----------------------------------------------------------------------------
(* The invariant, and the calls as steps of Arena. *)

LEMMA RoundUp ==
  ASSUME NEW n \in Nat \ {0}
  PROVE  round_up_to_memchunk(n) \in Nat \ {0}
<1>1. PICK m \in Nat \ {0} : m = MEMCHUNK_SIZE
  BY UnitAssumption
<1>2. PICK k \in Nat : k = n - 1
  OBVIOUS
<1>3. round_up_to_memchunk(n) = (k + m) \div m
  <2>1. n + m - 1 = k + m
    BY <1>1, <1>2
  <2> QED BY <1>1, <2>1 DEF round_up_to_memchunk
<1>4. (k + m) \div m \in Int /\ (k + m) = m * ((k + m) \div m) + ((k + m) % m)
      /\ (k + m) % m \in 0 .. m - 1
  OBVIOUS
<1>5. PICK q \in Int : q = (k + m) \div m
  BY <1>4
<1>6. q >= 1
  <2>1. m * q >= 1
    BY <1>4, <1>5
  <2>2. q <= 0 => m * q <= 0
    OBVIOUS
  <2> QED BY <2>1, <2>2
<1> QED BY <1>3, <1>5, <1>6

LEMMA HeadsAreFree ==
  ASSUME NEW ch \in Seq(Chunk)
  PROVE  Heads(ch) \subseteq Free(ch)
<1> SUFFICES ASSUME NEW k \in 1..Len(ch) PROVE ch[k].at \in Free(ch)
  BY InHeads
<1>1. ch[k].at \in Int /\ Covers(ch[k], ch[k].at)
  BY ChunkFields DEF Covers
<1> QED BY <1>1, InFree

LEMMA ChunkAtMostSum ==
  ASSUME NEW ch \in Seq(Chunk), NEW i \in 1..Len(ch)
  PROVE  ch[i].bytes <= Sum(ch)
<1> DEFINE P == SubSeq(ch, 1, i - 1)
           M == SubSeq(ch, i, i)
           R == SubSeq(ch, i + 1, Len(ch))
<1>1. Len(ch) \in Nat /\ i \in 1..(Len(ch) + 1) /\ i \in (i - 1)..Len(ch)
  BY LenProperties
<1>2. /\ P \in Seq(Chunk) /\ M \in Seq(Chunk) /\ R \in Seq(Chunk)
      /\ Len(M) = i - i + 1
      /\ \A k \in 1..(i - i + 1) : M[k] = ch[i + k - 1]
  BY <1>1, Parts
<1>3. P \o M \o R = ch
  BY <1>1, PartsMakeWhole
<1>4. M = <<ch[i]>>
  <2>1. Len(M) = 1 /\ M[1] = ch[i]
    <3>1. i - i + 1 = 1 /\ i + 1 - 1 = i /\ 1 \in 1..1
      OBVIOUS
    <3> QED BY <1>2, <3>1
  <2>2. \A D \in Seq(Chunk) : Len(D) = 1 => D = <<D[1]>>
    OBVIOUS
  <2>3. M = <<M[1]>>
    BY <1>2, <2>1, <2>2
  <2> HIDE DEF M
  <2> QED BY <2>1, <2>3
<1> HIDE DEF P, M, R
<1>5. Sum(P \o M \o R) = Sum(P) + Sum(M) + Sum(R)
  BY <1>2, SumConcat
<1>6. Sum(P) \in Nat /\ Sum(R) \in Nat
  BY <1>2, SumIsNat
<1>7. ch[i] \in Chunk /\ ch[i].bytes \in Nat
  BY ChunkFields
<1>8. Sum(M) = ch[i].bytes
  BY <1>4, <1>7, SumSmall
<1>9. Sum(ch) = Sum(P) + Sum(M) + Sum(R)
  BY <1>3, <1>5
<1> QED BY <1>6, <1>7, <1>8, <1>9

LEMMA PoolIsChain ==
  /\ Pool \in Seq(Chunk) /\ Ordered(Pool) /\ Free(Pool) = Space
<1>1. Pool \in Seq(Chunk)
  BY ChainAssumption DEF Chunk
<1>2. DOMAIN Pool = 1..Len(Pool)
  BY <1>1, LenProperties
<1> QED BY <1>1, <1>2, ChainAssumption DEF Ordered, EndOf, Space

LEMMA ChunksInvInit == ChunksInit => ChunksInv
<1> SUFFICES ASSUME ChunksInit PROVE ChunksInv
  OBVIOUS
<1>1. chain = Pool /\ mh_Free = Sum(chain) /\ owned = {} /\ alarms = {}
      /\ shadow = [u \in Space |-> "Valid"]
  BY DEF ChunksInit
<1>2. Heads(chain) \subseteq Space
  BY <1>1, PoolIsChain, HeadsAreFree
<1>3. Clean(shadow, Heads(chain))
  BY <1>1, <1>2 DEF Clean
<1> QED BY <1>1, <1>3, PoolIsChain DEF ChunksInv

LEMMA MarkIs ==
  ASSUME NEW sh, NEW units, NEW state
  PROVE  /\ DOMAIN Mark(sh, units, state) = DOMAIN sh
         /\ \A u \in DOMAIN sh : Mark(sh, units, state)[u] = IF u \in units THEN state ELSE sh[u]
BY DEF Mark

LEMMA NonePoisoned ==
  ASSUME NEW sh, NEW units
  PROVE  Clean(sh, units) <=> Poisoned(sh, units) = {}
BY DEF Clean, Poisoned

LEMMA WalkedAreHeads ==
  ASSUME NEW ch, NEW i, NEW sh, Clean(sh, Heads(ch))
  PROVE  Poisoned(sh, Walked(ch, i)) = {}
BY DEF Clean, Poisoned, Walked, Heads

\* What Allocate does when it grants n bytes: size units at at.
Granted(n, size, at) ==
  /\ size = round_up_to_memchunk(n) /\ size \in Nat \ {0} /\ at \in Nat \ {0}
  /\ at .. at + size - 1 \subseteq Free(chain)
  /\ chain' \in Seq(Chunk) /\ Ordered(chain')
  /\ Free(chain') = Free(chain) \ (at .. at + size - 1)
  /\ Sum(chain') = Sum(chain) - size
  /\ mh_Free' = mh_Free - size
  /\ DOMAIN shadow' = DOMAIN shadow
  /\ Clean(shadow', Heads(chain'))
  /\ Clean(shadow', at .. at + size - 1)
  /\ \A units : units \subseteq Space /\ Clean(shadow, units) => Clean(shadow', units)
  /\ alarms' = alarms
  /\ owned' = owned \union {[at |-> at, asked |-> n]}
  /\ reply' = <<"granted", at>>

LEMMA GrantGrants ==
  ASSUME ChunksInv, NEW n \in Nat \ {0}, Grant(n)
  PROVE  \E size, at : Granted(n, size, at)
<1> DEFINE size == round_up_to_memchunk(n)
           i == FirstFit(size)
           at == chain[i].at
           gone == at .. at + size - 1
           sh == Exempted(shadow, chain, i, size)
           rest == Leftover(chain, i, size)
<1>1. size \in Nat \ {0}
  BY RoundUp
<1>2. /\ chain \in Seq(Chunk) /\ Ordered(chain) /\ Free(chain) \subseteq Space
      /\ DOMAIN shadow = Space /\ Clean(shadow, Heads(chain)) /\ alarms = {}
  BY DEF ChunksInv
<1>3. /\ Fits(size) # {}
      /\ chain' = Cut(chain, i, size)
      /\ mh_Free' = mh_Free - size
      /\ alarms' = alarms \union Poisoned(shadow, Walked(chain, i)) \union Poisoned(sh, rest)
      /\ shadow' = Mark(sh, gone, "Uninit")
      /\ owned' = owned \union {[at |-> at, asked |-> n]}
      /\ reply' = <<"granted", at>>
  BY DEF Grant
<1>4. i \in 1..Len(chain) /\ chain[i].bytes >= size
  <2> DEFINE T == Fits(size)
  <2>1. T \subseteq 1..Len(chain) /\ T # {} /\ \A k \in T : chain[k].bytes >= size
    BY <1>2, <1>3, LenProperties DEF Fits
  <2>2. i = CHOOSE k \in T : \A l \in T : k <= l
    BY DEF FirstFit
  <2> HIDE DEF T
  <2>3. T \subseteq Nat
    BY <2>1
  <2>4. \E k \in T : \A l \in T : k <= l
    BY <2>1, <2>3, Least
  <2>5. i \in T
    BY <2>2, <2>4
  <2> QED BY <2>1, <2>5
<1>5. at \in Nat \ {0} /\ chain[i].bytes \in Nat
  BY <1>2, <1>4, ChunkFields
<1>6. /\ Cut(chain, i, size) \in Seq(Chunk)
      /\ Ordered(Cut(chain, i, size))
      /\ Free(Cut(chain, i, size)) = Free(chain) \ gone
      /\ gone \subseteq Free(chain)
      /\ Heads(Cut(chain, i, size)) \subseteq Heads(chain) \union rest
      /\ rest \subseteq Free(chain)
      /\ Sum(Cut(chain, i, size)) = Sum(chain) - size
  <2>1. size <= chain[i].bytes
    BY <1>1, <1>4, <1>5
  <2> HIDE DEF size, i
  <2> QED BY <1>1, <1>2, <1>4, <2>1, CutLeaves
<1>7. /\ DOMAIN sh = Space
      /\ \A u \in Space : sh[u] = IF u \in rest THEN "Valid" ELSE shadow[u]
  <2>1. CASE chain[i].bytes = size
    BY <1>2, <2>1 DEF Exempted, Leftover
  <2>2. CASE chain[i].bytes # size
    BY <1>2, <2>2, MarkIs DEF Exempted, Leftover
  <2> QED BY <2>1, <2>2
<1> HIDE DEF size, i, at, gone, sh, rest
<1>8. /\ DOMAIN shadow' = Space
      /\ \A u \in Space : shadow'[u] = IF u \in gone THEN "Uninit" ELSE sh[u]
  BY <1>3, <1>7, MarkIs
<1>9. ASSUME NEW units, units \subseteq Space, Clean(shadow, units)
      PROVE  Clean(shadow', units)
  BY <1>7, <1>8, <1>9 DEF Clean
<1>10. Clean(shadow', gone)
  BY <1>2, <1>6, <1>8 DEF Clean
<1>11. Clean(shadow', Heads(chain'))
  <2>1. Heads(chain') \subseteq Heads(chain) \union rest /\ rest \subseteq Space
    BY <1>2, <1>3, <1>6
  <2>2. Heads(chain) \subseteq Space
    BY <1>2, HeadsAreFree
  <2> QED BY <1>2, <1>7, <1>8, <2>1, <2>2 DEF Clean
<1>12. alarms' = alarms
  <2>1. Poisoned(shadow, Walked(chain, i)) = {}
    BY <1>2, WalkedAreHeads
  <2>2. Poisoned(sh, rest) = {}
    BY <1>2, <1>6, <1>7 DEF Poisoned
  <2> QED BY <1>3, <2>1, <2>2
<1>13. /\ chain' \in Seq(Chunk) /\ Ordered(chain') /\ Free(chain') = Free(chain) \ gone
       /\ Sum(chain') = Sum(chain) - size
  BY <1>3, <1>6
<1>14. gone = at .. at + size - 1
  BY DEF gone
<1>15. Granted(n, size, at)
  BY <1>1, <1>2, <1>3, <1>5, <1>6, <1>8, <1>9, <1>10, <1>11, <1>12, <1>13, <1>14 DEF Granted, size
<1> QED BY <1>15

\* What Deallocate does with block b.
Freed(b) ==
  /\ chain' \in Seq(Chunk) /\ Ordered(chain')
  /\ Free(chain') = Free(chain) \union Block(b)
  /\ mh_Free' = Sum(chain')
  /\ DOMAIN shadow' = DOMAIN shadow
  /\ Clean(shadow', Heads(chain'))
  /\ \A units : units \subseteq Space /\ Clean(shadow, units) /\ units \intersect Block(b) = {}
                  => Clean(shadow', units)
  /\ alarms' = alarms
  /\ owned' = owned \ {b}
  /\ reply' = <<"freed", b.at>>

LEMMA OwnedBlock ==
  ASSUME ChunksInv, NEW b \in owned
  PROVE  /\ b.at \in Nat \ {0} /\ b.asked \in Nat \ {0}
         /\ round_up_to_memchunk(b.asked) \in Nat \ {0}
         /\ b.at \in Block(b) /\ Block(b) \subseteq Space
         /\ Block(b) \intersect Free(chain) = {} /\ Clean(shadow, Block(b))
<1>1. b.at \in Nat \ {0} /\ b.asked \in Nat \ {0}
  BY DEF ChunksInv
<1>2. round_up_to_memchunk(b.asked) \in Nat \ {0}
  BY <1>1, RoundUp
<1>3. b.at \in Block(b)
  BY <1>1, <1>2 DEF Block
<1> QED BY <1>1, <1>2, <1>3 DEF ChunksInv

LEMMA DeallocateFrees ==
  ASSUME ChunksInv, NEW b \in owned, Deallocate(b)
  PROVE  Freed(b)
<1> DEFINE size == round_up_to_memchunk(b.asked)
           p == Place(chain, b.at)
           joins == Joins(chain, p, b.at)
           sh == IF joins THEN shadow ELSE Mark(shadow, {b.at}, "Valid")
           x == [at |-> b.at, bytes |-> size]
           dead == IF joins THEN b.at .. b.at + size - 1 ELSE b.at + 1 .. b.at + size - 1
<1>1. /\ b.at \in Nat \ {0} /\ size \in Nat \ {0} /\ b.at \in Block(b) /\ Block(b) \subseteq Space
      /\ Block(b) \intersect Free(chain) = {} /\ Clean(shadow, Block(b))
  BY OwnedBlock
<1>2. /\ chain \in Seq(Chunk) /\ Ordered(chain) /\ Free(chain) \subseteq Space
      /\ DOMAIN shadow = Space /\ Clean(shadow, Heads(chain)) /\ mh_Free = Sum(chain)
  BY DEF ChunksInv
<1>3. /\ chain' = Merged(chain, p, x)
      /\ mh_Free' = mh_Free + size
      /\ alarms' = alarms \union Poisoned(shadow, Walked(chain, p))
                          \union (IF joins THEN {} ELSE Poisoned(shadow, {b.at}))
      /\ shadow' = FreedShadow(sh, b.at, size, joins)
      /\ owned' = owned \ {b}
      /\ reply' = <<"freed", b.at>>
  BY DEF Deallocate
<1>4. x \in Chunk /\ x.at = b.at /\ x.bytes = size
  BY <1>1 DEF Chunk
<1>5. Run(x) = Block(b)
  BY DEF Run, Block
<1>6. p = Place(chain, x.at) /\ joins = Joins(chain, p, x.at)
  OBVIOUS
<1>7. shadow' = Mark(sh, dead, "Freed")
  BY <1>3 DEF FreedShadow
<1>8. dead \subseteq Block(b) /\ (~ joins => b.at \notin dead)
  BY <1>1 DEF Block
<1>9. /\ DOMAIN sh = Space
      /\ \A u \in Space : sh[u] = IF ~ joins /\ u = b.at THEN "Valid" ELSE shadow[u]
  <2>1. CASE joins
    BY <1>2, <2>1
  <2>2. CASE ~ joins
    BY <1>2, <2>2, MarkIs
  <2> QED BY <2>1, <2>2
<1> HIDE DEF size, p, joins, sh, x, dead
<1>10. Joined(chain, chain', x, joins)
  <2>1. Run(x) \intersect Free(chain) = {}
    BY <1>1, <1>5
  <2>2. Joined(chain, Merged(chain, p, x), x, Joins(chain, p, x.at))
    BY <1>2, <1>4, <1>6, <2>1, MergedJoins
  <2> QED BY <1>3, <1>6, <2>2
<1>11. /\ chain' \in Seq(Chunk) /\ Ordered(chain') /\ Free(chain') = Free(chain) \union Block(b)
       /\ mh_Free' = Sum(chain')
       /\ Heads(chain') \subseteq Heads(chain) \union (IF joins THEN {} ELSE {b.at})
  BY <1>2, <1>3, <1>4, <1>5, <1>10 DEF Joined
<1>12. /\ DOMAIN shadow' = Space
       /\ \A u \in Space : shadow'[u] = IF u \in dead THEN "Freed" ELSE sh[u]
  BY <1>7, <1>9, MarkIs
<1>13. ASSUME NEW units, units \subseteq Space, Clean(shadow, units), units \intersect Block(b) = {}
       PROVE  Clean(shadow', units)
  BY <1>8, <1>9, <1>12, <1>13 DEF Clean
<1>14. Clean(shadow', Heads(chain'))
  <2> SUFFICES ASSUME NEW u \in Heads(chain') PROVE shadow'[u] # "Freed"
    BY DEF Clean
  <2>1. CASE u \in Heads(chain)
    <3>1. u \in Free(chain)
      BY <1>2, <2>1, HeadsAreFree
    <3>2. u \in Space /\ u \notin Block(b) /\ shadow[u] # "Freed"
      BY <1>1, <1>2, <2>1, <3>1 DEF Clean
    <3> QED BY <1>8, <1>9, <1>12, <3>2
  <2>2. CASE ~ joins /\ u = b.at
    BY <1>1, <1>8, <1>9, <1>12, <2>2
  <2> QED BY <1>11, <2>1, <2>2
<1>15. alarms' = alarms
  <2>1. Poisoned(shadow, Walked(chain, p)) = {}
    BY <1>2, WalkedAreHeads
  <2>2. Poisoned(shadow, {b.at}) = {}
    BY <1>1 DEF Clean, Poisoned
  <2> QED BY <1>3, <2>1, <2>2
<1> QED BY <1>2, <1>3, <1>11, <1>12, <1>13, <1>14, <1>15 DEF Freed

\* What was asked for as a block.
LEMMA NewBlock ==
  ASSUME NEW n, NEW size, NEW at, size = round_up_to_memchunk(n)
  PROVE  Block([at |-> at, asked |-> n]) = at .. at + size - 1
BY DEF Block

LEMMA GrantKeeps ==
  ASSUME ChunksInv, NEW n \in Nat \ {0}, Grant(n)
  PROVE  ChunksInv'
<1>1. PICK size, at : Granted(n, size, at)
  BY GrantGrants
<1> DEFINE new == [at |-> at, asked |-> n]
           gone == at .. at + size - 1
<1>2. /\ at \in Nat \ {0} /\ gone \subseteq Free(chain)
      /\ chain' \in Seq(Chunk) /\ Ordered(chain') /\ Free(chain') = Free(chain) \ gone
      /\ Sum(chain') = Sum(chain) - size /\ mh_Free' = mh_Free - size
      /\ DOMAIN shadow' = DOMAIN shadow /\ Clean(shadow', Heads(chain'))
      /\ Clean(shadow', gone)
      /\ \A units : units \subseteq Space /\ Clean(shadow, units) => Clean(shadow', units)
      /\ alarms' = alarms /\ owned' = owned \union {new}
  BY <1>1 DEF Granted
<1>3. Block(new) = gone
  BY <1>1, NewBlock DEF Granted
<1>4. new \in [at : Nat \ {0}, asked : Nat \ {0}]
  BY <1>2
<1> HIDE DEF new, gone
<1>5. /\ Free(chain) \subseteq Space /\ mh_Free = Sum(chain) /\ DOMAIN shadow = Space
      /\ owned \subseteq [at : Nat \ {0}, asked : Nat \ {0}] /\ alarms = {}
      /\ \A b \in owned : /\ Block(b) \subseteq Space /\ Block(b) \intersect Free(chain) = {}
                          /\ Clean(shadow, Block(b))
      /\ \A b, c \in owned : b # c => Block(b) \intersect Block(c) = {}
  BY DEF ChunksInv
<1>6. \A b \in owned' : Block(b) \subseteq Space /\ Block(b) \intersect Free(chain') = {}
  BY <1>2, <1>3, <1>5
<1>7. \A b, c \in owned' : b # c => Block(b) \intersect Block(c) = {}
  BY <1>2, <1>3, <1>5
<1>8. \A b \in owned' : Clean(shadow', Block(b))
  BY <1>2, <1>3, <1>5
<1>9. \A b : Block(b)' = Block(b)
  BY DEF Block
<1> QED BY <1>2, <1>4, <1>5, <1>6, <1>7, <1>8, <1>9 DEF ChunksInv

LEMMA DeallocateKeeps ==
  ASSUME ChunksInv, NEW b \in owned, Deallocate(b)
  PROVE  ChunksInv'
<1>1. Freed(b)
  BY DeallocateFrees
<1>2. /\ chain' \in Seq(Chunk) /\ Ordered(chain') /\ Free(chain') = Free(chain) \union Block(b)
      /\ mh_Free' = Sum(chain') /\ DOMAIN shadow' = DOMAIN shadow
      /\ Clean(shadow', Heads(chain'))
      /\ \A units : units \subseteq Space /\ Clean(shadow, units)
                      /\ units \intersect Block(b) = {} => Clean(shadow', units)
      /\ alarms' = alarms /\ owned' = owned \ {b}
  BY <1>1 DEF Freed
<1>3. /\ Free(chain) \subseteq Space /\ DOMAIN shadow = Space
      /\ owned \subseteq [at : Nat \ {0}, asked : Nat \ {0}] /\ alarms = {}
      /\ \A c \in owned : /\ Block(c) \subseteq Space /\ Block(c) \intersect Free(chain) = {}
                          /\ Clean(shadow, Block(c))
      /\ \A c, d \in owned : c # d => Block(c) \intersect Block(d) = {}
  BY DEF ChunksInv
<1>4. \A c \in owned' : c \in owned /\ Block(c) \intersect Block(b) = {}
  BY <1>2, <1>3
<1>5. \A c \in owned' : Block(c) \subseteq Space /\ Block(c) \intersect Free(chain') = {}
  BY <1>2, <1>3, <1>4
<1>6. \A c \in owned' : Clean(shadow', Block(c))
  BY <1>2, <1>3, <1>4
<1>7. Free(chain') \subseteq Space
  BY <1>2, <1>3
<1>8. \A c, d \in owned' : c # d => Block(c) \intersect Block(d) = {}
  BY <1>3, <1>4
<1> QED BY <1>2, <1>3, <1>5, <1>6, <1>7, <1>8 DEF ChunksInv

LEMMA ChunksInvNext == ChunksInv /\ [ChunksNext]_chunksVars => ChunksInv'
<1> SUFFICES ASSUME ChunksInv, [ChunksNext]_chunksVars PROVE ChunksInv'
  OBVIOUS
<1>1. ASSUME UNCHANGED <<chain, mh_Free, shadow, owned, alarms>> PROVE ChunksInv'
  BY <1>1 DEF ChunksInv, Block
<1>2. ASSUME NEW n \in 0 .. MaxRequest, Allocate(n) PROVE ChunksInv'
  <2>1. CASE n > 0 /\ Grant(n)
    <3>1. n \in Nat \ {0}
      BY <2>1, UnitAssumption
    <3> QED BY <2>1, <3>1, GrantKeeps
  <2>2. CASE NoChunk(n)
    <3>1. Poisoned(shadow, Walked(chain, Len(chain))) = {} /\ alarms = {}
      BY WalkedAreHeads DEF ChunksInv
    <3>2. UNCHANGED <<chain, mh_Free, shadow, owned, alarms>>
      BY <2>2, <3>1 DEF NoChunk
    <3> QED BY <1>1, <3>2
  <2> QED BY <1>2, <2>1, <2>2 DEF Allocate
<1>3. ASSUME NEW b \in owned, Deallocate(b) PROVE ChunksInv'
  BY <1>3, DeallocateKeeps
<1>4. CASE DeallocateNothing
  BY <1>1, <1>4 DEF DeallocateNothing
<1>5. CASE UNCHANGED chunksVars
  BY <1>1, <1>5 DEF chunksVars
<1> QED BY <1>2, <1>3, <1>4, <1>5 DEF ChunksNext

(* No header the allocator touches is poisoned, nor a unit the guest owns; the
   chain stays in order and coalesced, and mh_Free is what it adds up to. *)
THEOREM ChainsStaySound == ChunksSpec => []ChainSound
<1>1. ChunksInv => ChainSound
  <2> SUFFICES ASSUME ChunksInv PROVE ChainSound
    OBVIOUS
  <2>1. \A b \in owned : Poisoned(shadow, Block(b)) = {}
    BY NonePoisoned DEF ChunksInv
  <2>2. \A i \in 1 .. Len(chain) - 1 : chain[i].at + chain[i].bytes < chain[i + 1].at
    <3> SUFFICES ASSUME NEW i \in 1 .. Len(chain) - 1
                 PROVE  EndOf(chain[i]) < chain[i + 1].at
      BY DEF EndOf
    <3>1. Len(chain) \in Nat
      BY LenProperties DEF ChunksInv
    <3>2. i \in 1..Len(chain) /\ i + 1 \in 1..Len(chain) /\ i < i + 1
      BY <3>1
    <3> QED BY <3>2 DEF ChunksInv, Ordered
  <2> QED BY <2>1, <2>2 DEF ChainSound, ChunksInv
<1> QED BY <1>1, ChunksInvInit, ChunksInvNext, PTL DEF ChunksSpec

Runs == {<<b.at, b.at, b.at + round_up_to_memchunk(b.asked) - 1>> : b \in owned}

LEMMA GrantTakes ==
  ASSUME ChunksInv, NEW n \in Nat \ {0}, Grant(n)
  PROVE  arena!Next
<1>1. PICK size, at : Granted(n, size, at)
  BY GrantGrants
<1> DEFINE new == [at |-> at, asked |-> n]
           top == at + size - 1
<1>2. /\ at \in Nat \ {0} /\ size \in Nat \ {0} /\ size = round_up_to_memchunk(n)
      /\ at .. top \subseteq Free(chain) /\ Free(chain') = Free(chain) \ (at .. top)
      /\ owned' = owned \union {new} /\ reply' = <<"granted", at>>
  BY <1>1 DEF Granted
<1>3. at \in at .. top
  BY <1>2
<1>4. \A b \in owned : b.at # at
  <2> SUFFICES ASSUME NEW b \in owned PROVE b.at # at
    OBVIOUS
  <2>1. b.at \in Block(b) /\ Block(b) \intersect Free(chain) = {}
    BY OwnedBlock
  <2> QED BY <1>2, <1>3, <2>1
<1>5. Runs' = Runs \union {<<at, at, top>>}
  <2> DEFINE J(b) == <<b.at, b.at, b.at + round_up_to_memchunk(b.asked) - 1>>
  <2>1. Runs = {J(b) : b \in owned} /\ Runs' = {J(b) : b \in owned'}
    BY DEF Runs
  <2>2. J(new) = <<at, at, top>>
    BY <1>2
  <2> HIDE DEF J, new, top
  <2> QED BY <1>2, <2>1, <2>2
<1>6. <<at, at, top>> \in Runs' \ Runs
  BY <1>4, <1>5 DEF Runs
<1>7. arena!Take(at, at, top)
  BY <1>2, <1>3, <1>5 DEF arena!Take, Runs
<1> HIDE DEF top
<1> QED BY <1>6, <1>7 DEF arena!Next, Runs

LEMMA NoChunkRefuses ==
  ASSUME ChunksInv, NEW n \in Nat, NoChunk(n)
  PROVE  arena!Next
<1> DEFINE size == round_up_to_memchunk(n)
<1>1. /\ n = 0 \/ size > mh_Free \/ Fits(size) = {}
      /\ reply' = IF n = 0 THEN <<"none", 0>> ELSE <<"out of memory", size>>
      /\ UNCHANGED <<chain, owned>>
  BY DEF NoChunk
<1>2. Runs' = Runs
  BY <1>1 DEF Runs
<1>3. CASE n = 0
  <2>1. arena!Withdraw
    BY <1>1, <1>2, <1>3 DEF arena!Withdraw, Runs
  <2> QED BY <2>1 DEF arena!Next
<1>4. CASE n # 0
  <2>1. size \in Nat \ {0}
    BY <1>4, RoundUp
  <2> HIDE DEF size
  <2>2. chain \in Seq(Chunk) /\ Ordered(chain) /\ mh_Free = Sum(chain)
    BY DEF ChunksInv
  <2>3. ASSUME NEW i \in 1..Len(chain) PROVE chain[i].bytes < size
    <3>1. chain[i].bytes \in Nat
      BY <2>2, ChunkFields
    <3>2. CASE size > mh_Free
      <4>1. chain[i].bytes <= Sum(chain) /\ Sum(chain) \in Nat
        BY <2>2, ChunkAtMostSum, SumIsNat
      <4> QED BY <2>1, <2>2, <3>1, <3>2, <4>1
    <3>3. CASE Fits(size) = {}
      <4>1. ~ chain[i].bytes >= size
        BY <2>2, <3>3, LenProperties DEF Fits
      <4> QED BY <2>1, <3>1, <4>1
    <3> QED BY <1>1, <1>4, <3>2, <3>3
  <2>4. \A x \in Free(chain) : ~(x..(x + size - 1) \subseteq Free(chain))
    BY <2>1, <2>2, <2>3, RunsFit
  <2>5. arena!Refuse(size)
    BY <1>1, <1>2, <1>4, <2>4 DEF arena!Refuse, Runs
  <2>6. reply' \in arena!Replies \X Nat /\ reply'[2] = size
    BY <1>1, <1>4, <2>1 DEF arena!Replies
  <2> QED BY <2>5, <2>6 DEF arena!Next
<1> QED BY <1>3, <1>4

LEMMA DeallocateReleases ==
  ASSUME ChunksInv, NEW b \in owned, Deallocate(b)
  PROVE  arena!Next
<1> DEFINE top == b.at + round_up_to_memchunk(b.asked) - 1
<1>1. /\ Free(chain') = Free(chain) \union (b.at .. top)
      /\ owned' = owned \ {b} /\ reply' = <<"freed", b.at>>
  BY DeallocateFrees DEF Freed, Block
<1>2. <<b.at, b.at, top>> \in Runs
  BY DEF Runs
<1>3. \A c \in owned : c # b => c.at # b.at
  <2> SUFFICES ASSUME NEW c \in owned, c # b PROVE c.at # b.at
    OBVIOUS
  <2>1. c.at \in Block(c) /\ b.at \in Block(b)
    BY OwnedBlock
  <2> QED BY <2>1 DEF ChunksInv
<1>4. Runs' = Runs \ {<<b.at, b.at, top>>}
  BY <1>1, <1>3 DEF Runs
<1>5. arena!Release(b.at, b.at, top)
  BY <1>1, <1>4 DEF arena!Release, Runs
<1> HIDE DEF top
<1> QED BY <1>2, <1>5 DEF arena!Next, Runs

(* The pool implements Arena: what is given was free and is nobody else's, a
   request is refused only when no run of free units is long enough, and what
   is freed is free at once. *)
THEOREM ChunksImplementArena == ChunksSpec => ChunksAreArena
<1>1. ChunksInit => arena!Init
  BY PoolIsChain DEF ChunksInit, arena!Init
<1>2. ChunksInv /\ [ChunksNext]_chunksVars => [arena!Next]_(arena!vars)
  <2> SUFFICES ASSUME ChunksInv, [ChunksNext]_chunksVars PROVE [arena!Next]_(arena!vars)
    OBVIOUS
  <2>1. ASSUME NEW n \in 0 .. MaxRequest, Allocate(n) PROVE arena!Next
    <3>1. n \in Nat
      BY UnitAssumption
    <3>2. n > 0 => n \in Nat \ {0}
      BY <3>1
    <3> QED BY <2>1, <3>1, <3>2, GrantTakes, NoChunkRefuses DEF Allocate
  <2>2. ASSUME NEW b \in owned, Deallocate(b) PROVE arena!Next
    BY <2>2, DeallocateReleases
  <2>3. CASE DeallocateNothing
    <3>1. arena!Withdraw
      BY <2>3 DEF DeallocateNothing, arena!Withdraw
    <3> QED BY <3>1 DEF arena!Next
  <2>4. CASE UNCHANGED chunksVars
    BY <2>4 DEF chunksVars, arena!vars
  <2> QED BY <2>1, <2>2, <2>3, <2>4 DEF ChunksNext
<1> QED BY <1>1, <1>2, ChunksInvInit, ChunksInvNext, PTL DEF ChunksSpec, ChunksAreArena, arena!Spec

-----------------------------------------------------------------------------
(* PortsAreQueues of ExecPorts for any ports, lists, nodes and priorities.
   There is a sequence of nodes for each list such that the pointers of its
   header and of those nodes are the two ways through it (Threaded), no node
   is in two places, and the nodes that are in none have no pointers.  Linking
   and unlinking a node keep that, in the sequences that Queues asks for; and
   the chain from a header, as a handler walks it, is the sequence. *)

\* Places in a list of the nodes Q: its header, the nodes, its header again.
Stage(Q, l, i) == IF i = 0 THEN Front(l) ELSE IF i = Len(Q) + 1 THEN Back(l) ELSE Node(Q[i])
Threaded(Q, l, s, p) ==
  /\ s[Back(l)] = Nowhere
  /\ \A i \in 0..Len(Q) : /\ s[Stage(Q, l, i)] = Stage(Q, l, i + 1)
                          /\ p[Stage(Q, l, i + 1)] = Stage(Q, l, i)
Unmade(Q, l, s) == Q = <<>> /\ s[Back(l)] = Nowhere /\ s[Front(l)] \in {Nowhere, Back(l)}
Singly(q) == \A l, m \in Headers : \A i \in 1..Len(q[l]), j \in 1..Len(q[m]) :
               q[l][i] = q[m][j] => l = m /\ i = j
Absent(q, n) == \A l \in Headers : \A i \in 1..Len(q[l]) : q[l][i] # n
Lined(q, s, p, live) ==
  /\ q \in [Headers -> Seq(Nodes)] /\ live \subseteq Headers
  /\ s \in [Places -> Places \union {Nowhere}]
  /\ p \in [Places -> Places \union {Nowhere}]
  /\ Singly(q)
  /\ \A l \in Headers : IF l \in live THEN Threaded(q[l], l, s, p) ELSE Unmade(q[l], l, s)
  /\ \A n \in Nodes : Absent(q, n) => s[Node(n)] = Nowhere

LEMMA SeqFacts ==
  ASSUME NEW S, NEW Q \in Seq(S)
  PROVE  Len(Q) \in Nat /\ DOMAIN Q = 1..Len(Q) /\ \A i \in 1..Len(Q) : Q[i] \in S
OBVIOUS

LEMMA PlacesDiffer ==
  ASSUME NEW l \in Headers, NEW m \in Headers, NEW n \in Nodes, NEW k \in Nodes
  PROVE  /\ Front(l) \in Places /\ Back(l) \in Places /\ Node(n) \in Places
         /\ Front(l) # Back(m) /\ Front(l) # Node(n) /\ Back(l) # Node(n)
         /\ Front(l) # Nowhere /\ Back(l) # Nowhere /\ Node(n) # Nowhere
         /\ (Front(l) = Front(m) => l = m) /\ (Back(l) = Back(m) => l = m)
         /\ (Node(n) = Node(k) => n = k)
         /\ Node(n)[1] = n
BY NodesAssumption DEF Places, Front, Back, Node, Nowhere

LEMMA StagesArePlaces ==
  ASSUME NEW Q \in Seq(Nodes), NEW l \in Headers, NEW i \in 0 .. Len(Q) + 1
  PROVE  Stage(Q, l, i) \in Places /\ Stage(Q, l, i) # Nowhere
<1>1. CASE i = 0
  BY <1>1, NodesAssumption DEF Stage, Places, Front, Nowhere
<1>2. CASE i = Len(Q) + 1
  BY <1>2, NodesAssumption, SeqFacts DEF Stage, Places, Back, Front, Nowhere
<1>3. CASE i # 0 /\ i # Len(Q) + 1
  <2>1. i \in 1..Len(Q)
    BY <1>3, SeqFacts
  <2>2. Q[i] \in Nodes
    BY <2>1, SeqFacts
  <2>3. Stage(Q, l, i) = Node(Q[i])
    BY <1>3 DEF Stage
  <2> QED BY <2>2, <2>3, NodesAssumption DEF Places, Node, Nowhere
<1> QED BY <1>1, <1>2, <1>3

LEMMA StagesDiffer ==
  ASSUME NEW q \in [Headers -> Seq(Nodes)], Singly(q), NEW l \in Headers, NEW m \in Headers,
         NEW i \in 0 .. Len(q[l]) + 1, NEW j \in 0 .. Len(q[m]) + 1,
         Stage(q[l], l, i) = Stage(q[m], m, j)
  PROVE  l = m /\ i = j
<1>1. q[l] \in Seq(Nodes) /\ q[m] \in Seq(Nodes)
  OBVIOUS
<1>2. PICK a \in Nat, b \in Nat : a = Len(q[l]) /\ b = Len(q[m])
  BY <1>1, SeqFacts
<1>3. i = 0 \/ i = a + 1 \/ i \in 1..a
  BY <1>2
<1>4. j = 0 \/ j = b + 1 \/ j \in 1..b
  BY <1>2
<1>5. Stage(q[l], l, i) = IF i = 0 THEN Front(l) ELSE IF i = a + 1 THEN Back(l) ELSE Node(q[l][i])
  BY <1>2 DEF Stage
<1>6. Stage(q[m], m, j) = IF j = 0 THEN Front(m) ELSE IF j = b + 1 THEN Back(m) ELSE Node(q[m][j])
  BY <1>2 DEF Stage
<1>7. i \in 1..a => q[l][i] \in Nodes
  BY <1>1, <1>2, SeqFacts
<1>8. j \in 1..b => q[m][j] \in Nodes
  BY <1>1, <1>2, SeqFacts
<1>9. CASE i \in 1..a /\ j \in 1..b
  <2>1. i # 0 /\ i # a + 1 /\ j # 0 /\ j # b + 1
    BY <1>9, <1>2
  <2>2. Node(q[l][i]) = Node(q[m][j])
    BY <2>1, <1>5, <1>6
  <2>3. q[l][i] = q[m][j]
    BY <2>2, <1>7, <1>8, <1>9, PlacesDiffer
  <2> QED BY <2>3, <1>9, <1>2 DEF Singly
<1>10. CASE i \in 1..a /\ (j = 0 \/ j = b + 1)
  <2>1. i # 0 /\ i # a + 1
    BY <1>10, <1>2
  <2>2. Stage(q[l], l, i) = Node(q[l][i]) /\ q[l][i] \in Nodes
    BY <2>1, <1>5, <1>7, <1>10
  <2>3. Stage(q[m], m, j) \in {Front(m), Back(m)}
    BY <1>6, <1>10
  <2> QED BY <2>2, <2>3, PlacesDiffer
<1>11. CASE j \in 1..b /\ (i = 0 \/ i = a + 1)
  <2>1. j # 0 /\ j # b + 1
    BY <1>11, <1>2
  <2>2. Stage(q[m], m, j) = Node(q[m][j]) /\ q[m][j] \in Nodes
    BY <2>1, <1>6, <1>8, <1>11
  <2>3. Stage(q[l], l, i) \in {Front(l), Back(l)}
    BY <1>5, <1>11
  <2> QED BY <2>2, <2>3, PlacesDiffer
<1>12. CASE (i = 0 \/ i = a + 1) /\ (j = 0 \/ j = b + 1)
  <2>1. a + 1 # 0 /\ b + 1 # 0
    BY <1>2
  <2>2. (i = 0 <=> j = 0) /\ l = m
    <3>1. CASE i = 0
      BY <3>1, <2>1, <1>12, <1>5, <1>6, PlacesDiffer DEF Front, Back
    <3>2. CASE i = a + 1
      BY <3>2, <2>1, <1>12, <1>5, <1>6, PlacesDiffer DEF Front, Back
    <3> QED BY <3>1, <3>2, <1>12
  <2> QED BY <2>2, <1>12, <1>2
<1> QED BY <1>3, <1>4, <1>9, <1>10, <1>11, <1>12

\* A node on a list has no stage but its own; a node on none has none.
LEMMA StageOfNode ==
  ASSUME NEW Q \in Seq(Nodes), NEW l \in Headers, NEW i \in 0 .. Len(Q) + 1, NEW n \in Nodes,
         Stage(Q, l, i) = Node(n)
  PROVE  i \in 1..Len(Q) /\ Q[i] = n
<1>1. PICK a \in Nat : a = Len(Q)
  BY SeqFacts
<1>2. i = 0 \/ i = a + 1 \/ i \in 1..a
  BY <1>1
<1>3. i # 0
  BY PlacesDiffer DEF Stage
<1>4. i # a + 1
  BY PlacesDiffer, <1>1, <1>3 DEF Stage
<1>5. Node(Q[i]) = Node(n) /\ Q[i] \in Nodes
  BY <1>1, <1>2, <1>3, <1>4, SeqFacts DEF Stage
<1> QED BY <1>1, <1>2, <1>3, <1>4, <1>5, PlacesDiffer

-----------------------------------------------------------------------------
(* Walking a chain. *)

Walks(s, w) == w = [at \in Places |-> IF s[at] = Nowhere THEN <<at>> ELSE <<at>> \o w[s[at]]]
WalkOf(s) == CHOOSE w : Walks(s, w)
Rest(Q, l, i) == [k \in 1 .. Len(Q) + 2 - i |-> Stage(Q, l, i + k - 1)]

\* Each list that has pointers leads to its end, stage by stage.
Leads(q, s) == \A l \in Headers :
  /\ s[Back(l)] = Nowhere
  /\ \/ s[Front(l)] = Nowhere /\ q[l] = <<>>
     \/ \A i \in 0..Len(q[l]) : s[Stage(q[l], l, i)] = Stage(q[l], l, i + 1)

LEMMA RestSteps ==
  ASSUME NEW Q \in Seq(Nodes), NEW l \in Headers, NEW i \in 0..Len(Q)
  PROVE  Rest(Q, l, i) = <<Stage(Q, l, i)>> \o Rest(Q, l, i + 1)
<1>1. PICK a \in Nat : a = Len(Q)
  BY SeqFacts
<1> DEFINE st(k) == Stage(Q, l, k)
<1>2. Rest(Q, l, i) = [k \in 1 .. a + 2 - i |-> st(i + k - 1)]
  BY <1>1 DEF Rest
<1>3. Rest(Q, l, i + 1) = [k \in 1 .. a + 2 - (i + 1) |-> st((i + 1) + k - 1)]
  BY <1>1 DEF Rest
<1> HIDE DEF st
<1>4. i \in 0..a
  BY <1>1
<1> DEFINE U == [k \in 1 .. a + 2 - (i + 1) |-> st((i + 1) + k - 1)]
<1>5. U \in Seq({st(k) : k \in Int}) /\ Len(U) = a + 1 - i
  BY <1>4
<1>6. \A k \in 1 .. a + 1 - i : U[k] = st(i + k)
  BY <1>4
<1> HIDE DEF U
<1> DEFINE V == <<st(i)>> \o U
<1>7. Len(V) = a + 2 - i /\ V[1] = st(i) /\ \A k \in 2 .. a + 2 - i : V[k] = U[k - 1]
  BY <1>4, <1>5
<1>8. V = [k \in 1 .. a + 2 - i |-> V[k]]
  BY <1>5, <1>7
<1>9. \A k \in 1 .. a + 2 - i : V[k] = st(i + k - 1)
  BY <1>4, <1>6, <1>7
<1>10. V = [k \in 1 .. a + 2 - i |-> st(i + k - 1)]
  BY <1>8, <1>9
<1> QED BY <1>2, <1>3, <1>10 DEF U, V, st

LEMMA RestEnds ==
  ASSUME NEW Q \in Seq(Nodes), NEW l \in Headers
  PROVE  Rest(Q, l, Len(Q) + 1) = <<Back(l)>>
<1>1. PICK a \in Nat : a = Len(Q)
  BY SeqFacts
<1>2. Rest(Q, l, a + 1) = [k \in 1 .. 1 |-> Stage(Q, l, a + 1 + k - 1)]
  BY <1>1 DEF Rest
<1>3. \A k \in 1..1 : Stage(Q, l, a + 1 + k - 1) = Back(l)
  BY <1>1 DEF Stage
<1>4. Rest(Q, l, a + 1) = [k \in 1 .. 1 |-> Back(l)]
  BY <1>2, <1>3
<1> DEFINE c == Back(l)
<1> HIDE DEF c
<1>5. [k \in 1 .. 1 |-> c] = <<c>>
  OBVIOUS
<1> QED BY <1>1, <1>4, <1>5 DEF c

LEMMA LinedLeads ==
  ASSUME NEW q, NEW s, NEW p, NEW live, Lined(q, s, p, live)
  PROVE  Leads(q, s)
<1> SUFFICES ASSUME NEW l \in Headers
             PROVE  /\ s[Back(l)] = Nowhere
                    /\ \/ s[Front(l)] = Nowhere /\ q[l] = <<>>
                       \/ \A i \in 0..Len(q[l]) : s[Stage(q[l], l, i)] = Stage(q[l], l, i + 1)
  BY DEF Leads
<1>1. IF l \in live THEN Threaded(q[l], l, s, p) ELSE Unmade(q[l], l, s)
  BY DEF Lined
<1>2. CASE l \in live
  BY <1>1, <1>2 DEF Threaded
<1>3. CASE l \notin live
  <2>1. q[l] = <<>> /\ s[Back(l)] = Nowhere /\ s[Front(l)] \in {Nowhere, Back(l)}
    BY <1>1, <1>3 DEF Unmade
  <2>2. CASE s[Front(l)] = Nowhere
    BY <2>1, <2>2
  <2>3. CASE s[Front(l)] = Back(l)
    <3>1. Len(q[l]) = 0
      BY <2>1
    <3>2. Stage(q[l], l, 0) = Front(l) /\ Stage(q[l], l, 1) = Back(l)
      BY <3>1 DEF Stage
    <3>3. \A i \in 0..Len(q[l]) : i = 0
      BY <3>1
    <3> QED BY <2>1, <2>3, <3>2, <3>3
  <2> QED BY <2>1, <2>2, <2>3
<1> QED BY <1>2, <1>3

\* Every place is a stage of a list with pointers, or it leads nowhere.
LEMMA PlacesLead ==
  ASSUME NEW q, NEW s, NEW p, NEW live, Lined(q, s, p, live), NEW at \in Places
  PROVE  \/ s[at] = Nowhere
         \/ \E l \in Headers : \E i \in 0..Len(q[l]) + 1 :
              at = Stage(q[l], l, i) /\ s[Front(l)] # Nowhere
<1>1. Leads(q, s)
  BY LinedLeads
<1>2. SUFFICES ASSUME s[at] # Nowhere
      PROVE \E l \in Headers : \E i \in 0..Len(q[l]) + 1 :
              at = Stage(q[l], l, i) /\ s[Front(l)] # Nowhere
  OBVIOUS
<1>3. q \in [Headers -> Seq(Nodes)]
  BY DEF Lined
<1>4. CASE \E l \in Headers : at = Front(l)
  <2>1. PICK l \in Headers : at = Front(l)
    BY <1>4
  <2>2. at = Stage(q[l], l, 0) /\ 0 \in 0..Len(q[l]) + 1
    BY <2>1, <1>3, SeqFacts DEF Stage
  <2> QED BY <2>1, <2>2, <1>2
<1>5. CASE \E l \in Headers : at = Back(l)
  BY <1>5, <1>1, <1>2 DEF Leads
<1>6. CASE \E n \in Nodes : at = Node(n)
  <2>1. PICK n \in Nodes : at = Node(n)
    BY <1>6
  <2>2. ~ Absent(q, n)
    BY <2>1, <1>2 DEF Lined
  <2>9. PICK l \in Headers : \E i \in 1..Len(q[l]) : q[l][i] = n
    BY <2>2 DEF Absent
  <2>3. PICK i \in 1..Len(q[l]) : q[l][i] = n
    BY <2>9
  <2>4. PICK a \in Nat : a = Len(q[l])
    BY <1>3, SeqFacts
  <2>5. at = Stage(q[l], l, i) /\ i \in 0..Len(q[l]) + 1
    BY <2>1, <2>3, <2>4 DEF Stage
  <2>6. q[l] # <<>>
    BY <2>3
  <2>7. \A k \in 0..Len(q[l]) : s[Stage(q[l], l, k)] = Stage(q[l], l, k + 1)
    BY <2>6, <1>1 DEF Leads
  <2>8. s[Front(l)] = Stage(q[l], l, 1)
    BY <2>7, <2>4 DEF Stage
  <2>10. Stage(q[l], l, 1) # Nowhere
    BY <1>3, <2>4, StagesArePlaces
  <2> QED BY <2>5, <2>8, <2>10
<1> QED BY <1>4, <1>5, <1>6 DEF Places

\* Where a list goes on from a stage.
LEMMA NextStage ==
  ASSUME NEW q, NEW s, NEW p, NEW live, Lined(q, s, p, live), NEW l \in Headers,
         s[Front(l)] # Nowhere, NEW i \in 0..Len(q[l]) + 1
  PROVE  /\ i = Len(q[l]) + 1 => s[Stage(q[l], l, i)] = Nowhere
         /\ i # Len(q[l]) + 1 => s[Stage(q[l], l, i)] = Stage(q[l], l, i + 1)
<1>1. q[l] \in Seq(Nodes)
  BY DEF Lined
<1>2. PICK a \in Nat : a = Len(q[l])
  BY <1>1, SeqFacts
<1>3. Leads(q, s)
  BY LinedLeads
<1>4. CASE i = Len(q[l]) + 1
  <2>1. Stage(q[l], l, i) = Back(l)
    BY <1>2, <1>4 DEF Stage
  <2> QED BY <2>1, <1>3, <1>4 DEF Leads
<1>5. CASE i # Len(q[l]) + 1
  BY <1>5, <1>2, <1>3 DEF Leads
<1> QED BY <1>4, <1>5

LEMMA WalkExists ==
  ASSUME NEW q, NEW s, NEW p, NEW live, Lined(q, s, p, live)
  PROVE  Walks(s, WalkOf(s))
<1>q. q \in [Headers -> Seq(Nodes)] /\ Singly(q)
  BY DEF Lined
<1> DEFINE W(at, r) == \E l \in Headers : \E i \in 0..Len(q[l]) + 1 :
                         at = Stage(q[l], l, i) /\ s[Front(l)] # Nowhere /\ r = Rest(q[l], l, i)
           Val(at) == IF \E r : W(at, r) THEN CHOOSE r : W(at, r) ELSE <<at>>
           g == [at \in Places |-> Val(at)]
<1>1. ASSUME NEW l \in Headers, NEW i \in 0..Len(q[l]) + 1, s[Front(l)] # Nowhere
      PROVE  Val(Stage(q[l], l, i)) = Rest(q[l], l, i)
  <2> DEFINE at == Stage(q[l], l, i)
  <2>1. W(at, Rest(q[l], l, i))
    BY <1>1
  <2>2. ASSUME NEW r, W(at, r) PROVE r = Rest(q[l], l, i)
    <3>3. PICK m \in Headers : \E j \in 0..Len(q[m]) + 1 :
            at = Stage(q[m], m, j) /\ s[Front(m)] # Nowhere /\ r = Rest(q[m], m, j)
      BY <2>2
    <3>1. PICK j \in 0..Len(q[m]) + 1 :
            at = Stage(q[m], m, j) /\ s[Front(m)] # Nowhere /\ r = Rest(q[m], m, j)
      BY <3>3
    <3>2. l = m /\ i = j
      BY <1>q, <3>1, StagesDiffer
    <3> QED BY <3>1, <3>2
  <2> HIDE DEF W, at
  <2> QED BY <2>1, <2>2 DEF at
<1>2. ASSUME NEW at \in Places
      PROVE  Val(at) = IF s[at] = Nowhere THEN <<at>> ELSE <<at>> \o g[s[at]]
  <2>1. CASE \E l \in Headers : \E i \in 0..Len(q[l]) + 1 :
               at = Stage(q[l], l, i) /\ s[Front(l)] # Nowhere
    <3>6. PICK l \in Headers : \E i \in 0..Len(q[l]) + 1 :
            at = Stage(q[l], l, i) /\ s[Front(l)] # Nowhere
      BY <2>1
    <3>1. PICK i \in 0..Len(q[l]) + 1 : at = Stage(q[l], l, i) /\ s[Front(l)] # Nowhere
      BY <3>6
    <3>2. PICK a \in Nat : a = Len(q[l]) /\ q[l] \in Seq(Nodes)
      BY <1>q, SeqFacts
    <3>3. Val(at) = Rest(q[l], l, i)
      <4> HIDE DEF Val
      <4> QED BY <3>1, <1>1
    <3>4. CASE i = a + 1
      <4>1. s[at] = Nowhere /\ at = Back(l)
        BY <3>1, <3>2, <3>4, NextStage DEF Stage
      <4>2. Rest(q[l], l, i) = <<at>>
        BY <3>2, <3>4, <4>1, RestEnds
      <4> HIDE DEF g, Val
      <4> QED BY <3>3, <4>1, <4>2
    <3>5. CASE i # a + 1
      <4>1. i \in 0..Len(q[l]) /\ i + 1 \in 0..Len(q[l]) + 1
        BY <3>2, <3>5
      <4>2. s[at] = Stage(q[l], l, i + 1)
        BY <3>1, <3>2, <3>5, NextStage
      <4>3. s[at] \in Places /\ s[at] # Nowhere
        BY <4>1, <4>2, <3>2, StagesArePlaces
      <4>4. Val(s[at]) = Rest(q[l], l, i + 1)
        <5> HIDE DEF Val
        <5>1. Val(Stage(q[l], l, i + 1)) = Rest(q[l], l, i + 1)
          BY <4>1, <3>1, <1>1
        <5> QED BY <4>2, <5>1
      <4>5. Rest(q[l], l, i) = <<at>> \o Rest(q[l], l, i + 1)
        BY <3>1, <3>2, <4>1, RestSteps
      <4> HIDE DEF Val
      <4>6. g[s[at]] = Rest(q[l], l, i + 1)
        BY <4>3, <4>4
      <4> HIDE DEF g
      <4> QED BY <3>3, <4>3, <4>5, <4>6
    <3> QED BY <3>4, <3>5
  <2>2. CASE ~ \E l \in Headers : \E i \in 0..Len(q[l]) + 1 :
                 at = Stage(q[l], l, i) /\ s[Front(l)] # Nowhere
    <3>1. s[at] = Nowhere
      BY <2>2, PlacesLead
    <3>2. Val(at) = <<at>>
      BY <2>2
    <3> HIDE DEF Val, g
    <3> QED BY <3>1, <3>2
  <2> QED BY <2>1, <2>2
<1> HIDE DEF Val
<1>3. Walks(s, g)
  BY <1>2 DEF Walks
<1> HIDE DEF g
<1> QED BY <1>3 DEF WalkOf

\* A chain read from the pointers is the rest of the list.
LEMMA ChainIsRest ==
  ASSUME NEW q, NEW s, NEW p, NEW live, Lined(q, s, p, live), NEW l \in Headers,
         s[Front(l)] # Nowhere, NEW i \in 0..Len(q[l]) + 1
  PROVE  Chain(s, Stage(q[l], l, i)) = Rest(q[l], l, i)
<1>1. q[l] \in Seq(Nodes)
  BY DEF Lined
<1>2. PICK a \in Nat : a = Len(q[l])
  BY <1>1, SeqFacts
<1> DEFINE w == WalkOf(s)
           T == {d \in Nat : d <= a + 1 => w[Stage(q[l], l, a + 1 - d)] = Rest(q[l], l, a + 1 - d)}
<1>3. Walks(s, w)
  BY WalkExists
<1> HIDE DEF w
<1>4. \A at \in Places : w[at] = IF s[at] = Nowhere THEN <<at>> ELSE <<at>> \o w[s[at]]
  <2> DEFINE val(at) == IF s[at] = Nowhere THEN <<at>> ELSE <<at>> \o w[s[at]]
  <2>1. w = [at \in Places |-> val(at)]
    BY <1>3 DEF Walks
  <2> HIDE DEF val
  <2>2. \A at \in Places : w[at] = val(at)
    BY <2>1
  <2> QED BY <2>2 DEF val
<1>5. 0 \in T
  <2>1. Stage(q[l], l, a + 1) \in Places /\ Stage(q[l], l, a + 1) = Back(l)
    BY <1>1, <1>2, StagesArePlaces DEF Stage
  <2>2. s[Stage(q[l], l, a + 1)] = Nowhere
    BY <1>2, NextStage
  <2>3. w[Stage(q[l], l, a + 1)] = <<Back(l)>>
    BY <1>4, <2>1, <2>2
  <2>4. Rest(q[l], l, a + 1) = <<Back(l)>>
    BY <1>1, <1>2, RestEnds
  <2>5. a + 1 - 0 = a + 1
    BY <1>2
  <2> QED BY <2>3, <2>4, <2>5
<1>6. ASSUME NEW d \in T PROVE d + 1 \in T
  <2> SUFFICES ASSUME d + 1 <= a + 1
               PROVE  w[Stage(q[l], l, a + 1 - (d + 1))] = Rest(q[l], l, a + 1 - (d + 1))
    OBVIOUS
  <2>1. PICK k \in 0..a : k = a + 1 - (d + 1) /\ k + 1 = a + 1 - d
    OBVIOUS
  <2>2. w[Stage(q[l], l, k + 1)] = Rest(q[l], l, k + 1)
    BY <2>1
  <2>3. /\ k \in 0..Len(q[l]) + 1 /\ k # Len(q[l]) + 1 /\ k \in 0..Len(q[l])
        /\ k + 1 \in 0..Len(q[l]) + 1
    BY <1>2
  <2>4. Stage(q[l], l, k) \in Places /\ Stage(q[l], l, k + 1) # Nowhere
    BY <1>1, <2>3, StagesArePlaces
  <2>5. s[Stage(q[l], l, k)] = Stage(q[l], l, k + 1)
    BY <2>3, NextStage
  <2>6. w[Stage(q[l], l, k)] = <<Stage(q[l], l, k)>> \o w[Stage(q[l], l, k + 1)]
    BY <1>4, <2>4, <2>5
  <2>7. Rest(q[l], l, k) = <<Stage(q[l], l, k)>> \o Rest(q[l], l, k + 1)
    BY <1>1, <2>3, RestSteps
  <2>8. w[Stage(q[l], l, k)] = Rest(q[l], l, k)
    BY <2>2, <2>6, <2>7, Zenon
  <2> QED BY <2>1, <2>8
<1>7. Nat \subseteq T
  <2> HIDE DEF T
  <2>1. \A d \in Nat : d \in T => d + 1 \in T
    BY <1>6
  <2> QED BY <1>5, <2>1, Induction
<1>8. a + 1 - i \in T /\ a + 1 - (a + 1 - i) = i /\ a + 1 - i <= a + 1
  <2> HIDE DEF T
  <2> QED BY <1>2, <1>7
<1>9. w[Stage(q[l], l, i)] = Rest(q[l], l, i)
  BY <1>8
<1>10. Chain(s, Stage(q[l], l, i)) = w[Stage(q[l], l, i)]
  BY DEF Chain, w, WalkOf, Walks
<1> QED BY <1>9, <1>10

\* What NodesOf makes of it.
LEMMA RestIsNodes ==
  ASSUME NEW Q \in Seq(Nodes), NEW l \in Headers
  PROVE  /\ Len(Rest(Q, l, 1)) = Len(Q) + 1
         /\ [i \in 1 .. Len(Rest(Q, l, 1)) - 1 |-> Rest(Q, l, 1)[i][1]] = Q
         /\ \A i \in 1 .. Len(Q) + 1 : Rest(Q, l, 1)[i] = Stage(Q, l, i)
<1>1. PICK a \in Nat : a = Len(Q)
  BY SeqFacts
<1> DEFINE st(k) == Stage(Q, l, k)
           R == Rest(Q, l, 1)
<1>2. R = [k \in 1 .. a + 1 |-> st(k)]
  BY <1>1 DEF Rest
<1> HIDE DEF st, R
<1>3. Len(R) = a + 1 /\ \A k \in 1 .. a + 1 : R[k] = st(k)
  BY <1>2
<1>4. \A k \in 1 .. a : st(k)[1] = Q[k]
  <2> SUFFICES ASSUME NEW k \in 1..a PROVE st(k)[1] = Q[k]
    OBVIOUS
  <2>1. st(k) = Node(Q[k])
    BY <1>1 DEF st, Stage
  <2> QED BY <2>1 DEF Node
<1>5. [i \in 1 .. Len(R) - 1 |-> R[i][1]] = [i \in 1..a |-> Q[i]]
  <2>1. 1 .. Len(R) - 1 = 1 .. a
    BY <1>3
  <2>2. \A k \in 1..a : R[k][1] = Q[k]
    BY <1>3, <1>4
  <2> QED BY <2>1, <2>2
<1>6. [i \in 1..a |-> Q[i]] = Q
  BY <1>1
<1> QED BY <1>1, <1>3, <1>5, <1>6 DEF R, st

\* A list that is there is what its chain says.
LEMMA ChainOfList ==
  ASSUME NEW q, NEW s, NEW p, NEW live, Lined(q, s, p, live), NEW l \in live
  PROVE  /\ l \in Headers /\ q[l] \in Seq(Nodes) /\ s[Front(l)] = Stage(q[l], l, 1)
         /\ Chain(s, s[Front(l)]) = Rest(q[l], l, 1)
<1>1. l \in Headers /\ q[l] \in Seq(Nodes) /\ Threaded(q[l], l, s, p)
  BY DEF Lined
<1>2. PICK a \in Nat : a = Len(q[l])
  BY <1>1, SeqFacts
<1>3. s[Front(l)] = Stage(q[l], l, 1)
  <2>1. Stage(q[l], l, 0) = Front(l) /\ 0 \in 0..Len(q[l]) /\ 0 + 1 = 1
    BY <1>2 DEF Stage
  <2> QED BY <1>1, <2>1 DEF Threaded
<1>4. 1 \in 0..Len(q[l]) + 1
  BY <1>2
<1>5. s[Front(l)] # Nowhere
  BY <1>1, <1>3, <1>4, StagesArePlaces
<1>6. Chain(s, Stage(q[l], l, 1)) = Rest(q[l], l, 1)
  BY <1>1, <1>4, <1>5, ChainIsRest
<1> QED BY <1>1, <1>3, <1>6

-----------------------------------------------------------------------------
(* Linking a node and unlinking one. *)

Spliced(Q, n, x) == SubSeq(Q, 1, n) \o <<x>> \o SubSeq(Q, n + 1, Len(Q))
Without(Q, n) == SubSeq(Q, 1, n - 1) \o SubSeq(Q, n + 1, Len(Q))

LEMMA SplicedElements ==
  ASSUME NEW Q \in Seq(Nodes), NEW n \in 0..Len(Q), NEW x \in Nodes
  PROVE  /\ Spliced(Q, n, x) \in Seq(Nodes) /\ Len(Spliced(Q, n, x)) = Len(Q) + 1
         /\ \A i \in 1..n : Spliced(Q, n, x)[i] = Q[i]
         /\ Spliced(Q, n, x)[n + 1] = x
         /\ \A i \in n + 2 .. Len(Q) + 1 : Spliced(Q, n, x)[i] = Q[i - 1]
<1>1. PICK a \in Nat : a = Len(Q)
  OBVIOUS
<1> DEFINE F == SubSeq(Q, 1, n)
           G == SubSeq(Q, n + 1, Len(Q))
           B == <<x>>
<1>2. F \in Seq(Nodes) /\ Len(F) = n /\ \A i \in 1..n : F[i] = Q[i]
  BY <1>1
<1>3. G \in Seq(Nodes) /\ Len(G) = a - n /\ \A i \in 1 .. a - n : G[i] = Q[n + i]
  BY <1>1
<1>4. B \in Seq(Nodes) /\ Len(B) = 1 /\ B[1] = x
  OBVIOUS
<1> DEFINE H == F \o B \o G
<1> HIDE DEF F, G, B
<1>5. /\ H \in Seq(Nodes) /\ Len(H) = Len(F) + Len(B) + Len(G)
      /\ \A k \in 1..Len(F) : H[k] = F[k]
      /\ \A k \in 1..Len(B) : H[Len(F) + k] = B[k]
      /\ \A k \in 1..Len(G) : H[Len(F) + Len(B) + k] = G[k]
  <2>1. F \in Seq(Nodes) /\ B \in Seq(Nodes) /\ G \in Seq(Nodes)
    BY <1>2, <1>3, <1>4
  <2> QED BY <2>1, ConcatElements
<1> HIDE DEF H
<1>6. Len(H) = a + 1
  BY <1>1, <1>2, <1>3, <1>4, <1>5
<1>7. \A i \in 1..n : H[i] = Q[i]
  BY <1>2, <1>5
<1>8. H[n + 1] = x
  BY <1>2, <1>4, <1>5
<1>9. ASSUME NEW i \in n + 2 .. a + 1 PROVE H[i] = Q[i - 1]
  <2>1. PICK k \in 1 .. a - n : k = i - n - 1
    BY <1>1
  <2>2. H[n + 1 + k] = G[k] /\ n + 1 + k = i
    BY <1>2, <1>3, <1>4, <1>5, <2>1
  <2>3. G[k] = Q[n + k]
    BY <1>3
  <2>4. n + k = i - 1
    BY <2>1
  <2> QED BY <2>2, <2>3, <2>4
<1> QED BY <1>1, <1>5, <1>6, <1>7, <1>8, <1>9 DEF Spliced, H, F, B, G

LEMMA WithoutElements ==
  ASSUME NEW Q \in Seq(Nodes), NEW n \in 1..Len(Q)
  PROVE  /\ Without(Q, n) \in Seq(Nodes) /\ Len(Without(Q, n)) = Len(Q) - 1
         /\ \A i \in 1 .. n - 1 : Without(Q, n)[i] = Q[i]
         /\ \A i \in n .. Len(Q) - 1 : Without(Q, n)[i] = Q[i + 1]
<1>1. PICK a \in Nat : a = Len(Q)
  OBVIOUS
<1> DEFINE F == SubSeq(Q, 1, n - 1)
           G == SubSeq(Q, n + 1, Len(Q))
<1>2. F \in Seq(Nodes) /\ Len(F) = n - 1 /\ \A i \in 1 .. n - 1 : F[i] = Q[i]
  BY <1>1
<1>3. G \in Seq(Nodes) /\ Len(G) = a - n /\ \A i \in 1 .. a - n : G[i] = Q[n + i]
  BY <1>1
<1> DEFINE H == F \o G
<1> HIDE DEF F, G
<1>5. /\ H \in Seq(Nodes) /\ Len(H) = Len(F) + Len(G)
      /\ \A k \in 1..Len(F) : H[k] = F[k]
      /\ \A k \in 1..Len(G) : H[Len(F) + k] = G[k]
  <2>1. F \in Seq(Nodes) /\ G \in Seq(Nodes)
    BY <1>2, <1>3
  <2> QED BY <2>1
<1> HIDE DEF H
<1>6. Len(H) = a - 1
  BY <1>1, <1>2, <1>3, <1>5
<1>7. \A i \in 1 .. n - 1 : H[i] = Q[i]
  BY <1>2, <1>5
<1>9. ASSUME NEW i \in n .. a - 1 PROVE H[i] = Q[i + 1]
  <2>1. PICK k \in 1 .. a - n : k = i - n + 1
    BY <1>1
  <2>2. H[n - 1 + k] = G[k] /\ n - 1 + k = i
    BY <1>2, <1>3, <1>5, <2>1
  <2>3. G[k] = Q[n + k] /\ n + k = i + 1
    BY <1>3, <2>1
  <2> QED BY <2>2, <2>3
<1> QED BY <1>1, <1>5, <1>6, <1>7, <1>9 DEF Without, H, F, G

LEMMA SplicedStages ==
  ASSUME NEW Q \in Seq(Nodes), NEW l \in Headers, NEW n \in 0..Len(Q), NEW x \in Nodes
  PROVE  /\ \A i \in 0..n : Stage(Spliced(Q, n, x), l, i) = Stage(Q, l, i)
         /\ Stage(Spliced(Q, n, x), l, n + 1) = Node(x)
         /\ \A i \in n + 2 .. Len(Q) + 2 : Stage(Spliced(Q, n, x), l, i) = Stage(Q, l, i - 1)
<1>1. PICK a \in Nat : a = Len(Q)
  BY SeqFacts
<1> DEFINE H == Spliced(Q, n, x)
<1>2. /\ Len(H) = a + 1 /\ H[n + 1] = x
      /\ \A i \in 1..n : H[i] = Q[i]
      /\ \A i \in n + 2 .. a + 1 : H[i] = Q[i - 1]
  <2>2. /\ Len(H) = Len(Q) + 1 /\ H[n + 1] = x
        /\ \A i \in 1..n : H[i] = Q[i]
        /\ \A i \in n + 2 .. Len(Q) + 1 : H[i] = Q[i - 1]
    BY SplicedElements
  <2> QED BY <1>1, <2>2
<1> HIDE DEF H
<1>3. ASSUME NEW i \in 0..n PROVE Stage(H, l, i) = Stage(Q, l, i)
  <2>1. i # a + 1 /\ i # a + 2 /\ (i = 0 \/ i \in 1..n)
    BY <1>1
  <2> QED BY <1>1, <1>2, <2>1 DEF Stage
<1>4. Stage(H, l, n + 1) = Node(x)
  BY <1>1, <1>2 DEF Stage
<1>5. ASSUME NEW i \in n + 2 .. a + 2 PROVE Stage(H, l, i) = Stage(Q, l, i - 1)
  <2>1. i # 0 /\ i - 1 # 0 /\ (i = a + 2 <=> i - 1 = a + 1) /\ (i = a + 2 \/ i \in n + 2 .. a + 1)
    BY <1>1
  <2> QED BY <1>1, <1>2, <2>1 DEF Stage
<1> QED BY <1>1, <1>3, <1>4, <1>5 DEF H

LEMMA WithoutStages ==
  ASSUME NEW Q \in Seq(Nodes), NEW l \in Headers, NEW n \in 1..Len(Q)
  PROVE  /\ \A i \in 0 .. n - 1 : Stage(Without(Q, n), l, i) = Stage(Q, l, i)
         /\ \A i \in n .. Len(Q) : Stage(Without(Q, n), l, i) = Stage(Q, l, i + 1)
<1>1. PICK a \in Nat : a = Len(Q)
  BY SeqFacts
<1> DEFINE H == Without(Q, n)
<1>2. /\ Len(H) = a - 1
      /\ \A i \in 1 .. n - 1 : H[i] = Q[i]
      /\ \A i \in n .. a - 1 : H[i] = Q[i + 1]
  BY <1>1, WithoutElements
<1> HIDE DEF H
<1>3. ASSUME NEW i \in 0 .. n - 1 PROVE Stage(H, l, i) = Stage(Q, l, i)
  <2>1. i # a + 1 /\ i # a /\ (i = 0 \/ i \in 1 .. n - 1)
    BY <1>1
  <2> QED BY <1>1, <1>2, <2>1 DEF Stage
<1>5. ASSUME NEW i \in n .. a PROVE Stage(H, l, i) = Stage(Q, l, i + 1)
  <2>1. i # 0 /\ i + 1 # 0 /\ (i = a - 1 + 1 <=> i + 1 = a + 1) /\ (i = a \/ i \in n .. a - 1)
    BY <1>1
  <2> QED BY <1>1, <1>2, <2>1 DEF Stage
<1> QED BY <1>1, <1>3, <1>5 DEF H

\* A list keeps its thread when no place of it is written.
LEMMA ThreadKept ==
  ASSUME NEW Q \in Seq(Nodes), NEW m \in Headers, NEW s, NEW p, NEW s1, NEW p1,
         \A i \in 0 .. Len(Q) + 1 : /\ s1[Stage(Q, m, i)] = s[Stage(Q, m, i)]
                                    /\ p1[Stage(Q, m, i)] = p[Stage(Q, m, i)]
  PROVE  /\ Threaded(Q, m, s, p) => Threaded(Q, m, s1, p1)
         /\ Unmade(Q, m, s) => Unmade(Q, m, s1)
<1>1. PICK a \in Nat : a = Len(Q)
  BY SeqFacts
<1>2. Stage(Q, m, 0) = Front(m) /\ Stage(Q, m, a + 1) = Back(m)
  BY <1>1 DEF Stage
<1>3. 0 \in 0 .. Len(Q) + 1 /\ a + 1 \in 0 .. Len(Q) + 1
  BY <1>1
<1>4. s1[Front(m)] = s[Front(m)] /\ s1[Back(m)] = s[Back(m)]
  BY <1>2, <1>3
<1>5. ASSUME Threaded(Q, m, s, p) PROVE Threaded(Q, m, s1, p1)
  <2>1. ASSUME NEW i \in 0..Len(Q)
        PROVE  s1[Stage(Q, m, i)] = Stage(Q, m, i + 1) /\ p1[Stage(Q, m, i + 1)] = Stage(Q, m, i)
    <3>1. i \in 0 .. Len(Q) + 1 /\ i + 1 \in 0 .. Len(Q) + 1
      BY <1>1
    <3> QED BY <1>5, <3>1 DEF Threaded
  <2> QED BY <1>4, <1>5, <2>1 DEF Threaded
<1>6. ASSUME Unmade(Q, m, s) PROVE Unmade(Q, m, s1)
  BY <1>4, <1>6 DEF Unmade
<1> QED BY <1>5, <1>6

\* at is a stage of l, the node x is on no other list, and only three places
\* of s and p are changed.
IsStage(Q, l, at) == \E i \in 0..Len(Q) + 1 : at = Stage(Q, l, i)
OnlyIn(q, l, x) == \A m \in Headers \ {l} : \A i \in 1..Len(q[m]) : q[m][i] # x
SameBut(s, s1, at, succ, x) == \A e \in Places \ {at, succ, Node(x)} : s1[e] = s[e]
Held(Q, m, s, p, live) == IF m \in live THEN Threaded(Q, m, s, p) ELSE Unmade(Q, m, s)

LEMMA OthersKept ==
  ASSUME NEW q, NEW s, NEW p, NEW live, Lined(q, s, p, live), NEW l \in Headers,
         NEW x \in Nodes, OnlyIn(q, l, x), NEW at, IsStage(q[l], l, at),
         NEW succ, IsStage(q[l], l, succ), NEW s1, SameBut(s, s1, at, succ, x),
         NEW p1, SameBut(p, p1, at, succ, x), NEW m \in Headers, m # l
  PROVE  Held(q[m], m, s1, p1, live)
<1>1. q \in [Headers -> Seq(Nodes)] /\ Singly(q) /\ q[m] \in Seq(Nodes)
  BY DEF Lined
<1>2. ASSUME NEW i \in 0 .. Len(q[m]) + 1
      PROVE  /\ s1[Stage(q[m], m, i)] = s[Stage(q[m], m, i)]
             /\ p1[Stage(q[m], m, i)] = p[Stage(q[m], m, i)]
  <2>1. Stage(q[m], m, i) \in Places
    BY <1>1, StagesArePlaces
  <2>2. Stage(q[m], m, i) # at /\ Stage(q[m], m, i) # succ
    BY <1>1, StagesDiffer DEF IsStage
  <2>3. Stage(q[m], m, i) # Node(x)
    <3>1. SUFFICES ASSUME Stage(q[m], m, i) = Node(x) PROVE FALSE
      OBVIOUS
    <3>2. i \in 1..Len(q[m]) /\ q[m][i] = x
      BY <1>1, <3>1, StageOfNode
    <3> QED BY <3>2 DEF OnlyIn
  <2> QED BY <2>1, <2>2, <2>3 DEF SameBut
<1>3. /\ Threaded(q[m], m, s, p) => Threaded(q[m], m, s1, p1)
      /\ Unmade(q[m], m, s) => Unmade(q[m], m, s1)
  BY <1>1, <1>2, ThreadKept
<1>4. IF m \in live THEN Threaded(q[m], m, s, p) ELSE Unmade(q[m], m, s)
  BY DEF Lined
<1> QED BY <1>3, <1>4 DEF Held

\* The sequences of the lists, with one of them changed.
LEMMA SinglySpliced ==
  ASSUME NEW q \in [Headers -> Seq(Nodes)], Singly(q), NEW l \in Headers,
         NEW n \in 0..Len(q[l]), NEW x \in Nodes, Absent(q, x)
  PROVE  LET r == [q EXCEPT ![l] = Spliced(q[l], n, x)] IN
         /\ r \in [Headers -> Seq(Nodes)] /\ Singly(r)
         /\ \A y \in Nodes : Absent(r, y) => y # x /\ Absent(q, y)
<1> DEFINE H == Spliced(q[l], n, x)
           r == [q EXCEPT ![l] = H]
<1>1. PICK a \in Nat : a = Len(q[l]) /\ q[l] \in Seq(Nodes)
  BY SeqFacts
<1>2. /\ H \in Seq(Nodes) /\ Len(H) = a + 1 /\ H[n + 1] = x
      /\ \A i \in 1..n : H[i] = q[l][i]
      /\ \A i \in n + 2 .. a + 1 : H[i] = q[l][i - 1]
  <2>1. /\ H \in Seq(Nodes) /\ Len(H) = Len(q[l]) + 1 /\ H[n + 1] = x
        /\ \A i \in 1..n : H[i] = q[l][i]
        /\ \A i \in n + 2 .. Len(q[l]) + 1 : H[i] = q[l][i - 1]
    <3>1. PICK Q \in Seq(Nodes) : Q = q[l]
      OBVIOUS
    <3>2. n \in 0..Len(Q) /\ H = Spliced(Q, n, x)
      BY <3>1
    <3> HIDE DEF H
    <3>3. /\ H \in Seq(Nodes) /\ Len(H) = Len(Q) + 1 /\ H[n + 1] = x
          /\ \A i \in 1..n : H[i] = Q[i]
          /\ \A i \in n + 2 .. Len(Q) + 1 : H[i] = Q[i - 1]
      <4>1. n \in 0..Len(Q)
        BY <3>2
      <4>2. /\ Spliced(Q, n, x) \in Seq(Nodes) /\ Len(Spliced(Q, n, x)) = Len(Q) + 1
            /\ Spliced(Q, n, x)[n + 1] = x
            /\ \A i \in 1..n : Spliced(Q, n, x)[i] = Q[i]
            /\ \A i \in n + 2 .. Len(Q) + 1 : Spliced(Q, n, x)[i] = Q[i - 1]
        BY <4>1, SplicedElements
      <4> QED BY <3>2, <4>2, Zenon
    <3> QED BY <3>1, <3>3
  <2> HIDE DEF H
  <2> QED BY <1>1, <2>1
<1> HIDE DEF H
<1>3. r \in [Headers -> Seq(Nodes)] /\ r[l] = H /\ \A m \in Headers : m # l => r[m] = q[m]
  BY <1>2
<1> HIDE DEF r
<1> DEFINE Old(m, i) == IF m # l \/ i <= n THEN i ELSE i - 1
<1>4. ASSUME NEW m \in Headers, NEW i \in 1..Len(r[m])
      PROVE  \/ m = l /\ i = n + 1 /\ r[m][i] = x
             \/ (m = l => i # n + 1) /\ Old(m, i) \in 1..Len(q[m]) /\ r[m][i] = q[m][Old(m, i)]
  <2>1. CASE m # l
    BY <1>3, <2>1
  <2>2. CASE m = l
    <3>1. i \in 1 .. a + 1
      BY <1>2, <1>3, <2>2
    <3>2. CASE i <= n
      BY <1>1, <1>2, <1>3, <2>2, <3>1, <3>2
    <3>3. CASE i = n + 1
      BY <1>2, <1>3, <2>2, <3>3
    <3>4. CASE i > n + 1
      <4>1. i \in n + 2 .. a + 1 /\ i - 1 \in 1..a /\ ~ i <= n /\ i # n + 1
        BY <3>1, <3>4, <1>1
      <4> QED BY <1>1, <1>2, <1>3, <2>2, <4>1
    <3> QED BY <3>1, <3>2, <3>3, <3>4, <1>1
  <2> QED BY <2>1, <2>2
<1>5. Singly(r)
  <2> SUFFICES ASSUME NEW m \in Headers, NEW k \in Headers, NEW i \in 1..Len(r[m]),
                      NEW j \in 1..Len(r[k]), r[m][i] = r[k][j]
               PROVE  m = k /\ i = j
    BY DEF Singly
  <2>1. i \in Nat /\ j \in Nat /\ n \in Nat
    BY <1>1
  <2>2. CASE m = l /\ i = n + 1 /\ r[m][i] = x
    <3>1. ~ (Old(k, j) \in 1..Len(q[k]) /\ r[k][j] = q[k][Old(k, j)])
      BY <2>2 DEF Absent
    <3> QED BY <1>4, <2>2, <3>1
  <2>3. CASE (m = l => i # n + 1) /\ Old(m, i) \in 1..Len(q[m]) /\ r[m][i] = q[m][Old(m, i)]
    <3>1. r[m][i] # x
      BY <2>3 DEF Absent
    <3>2. (k = l => j # n + 1) /\ Old(k, j) \in 1..Len(q[k]) /\ r[k][j] = q[k][Old(k, j)]
      BY <1>4, <3>1
    <3>3. m = k /\ Old(m, i) = Old(k, j)
      <4>1. PICK u \in 1..Len(q[m]) : u = Old(m, i) /\ r[m][i] = q[m][u]
        BY <2>3
      <4>2. PICK v \in 1..Len(q[k]) : v = Old(k, j) /\ r[k][j] = q[k][v]
        BY <3>2
      <4>3. q[m][u] = q[k][v]
        BY <4>1, <4>2
      <4> HIDE DEF Old
      <4>4. m = k /\ u = v
        BY <4>3 DEF Singly
      <4> QED BY <4>1, <4>2, <4>4
    <3> QED BY <2>1, <2>3, <3>2, <3>3
  <2> QED BY <1>4, <2>2, <2>3
<1>6. ASSUME NEW y \in Nodes, Absent(r, y) PROVE y # x /\ Absent(q, y)
  <2>1. y # x
    <3>1. n + 1 \in 1..Len(r[l]) /\ r[l][n + 1] = x
      BY <1>1, <1>2, <1>3
    <3> QED BY <3>1, <1>6 DEF Absent
  <2>2. ASSUME NEW m \in Headers, NEW i \in 1..Len(q[m]) PROVE q[m][i] # y
    <3>1. CASE m # l
      BY <3>1, <1>3, <1>6 DEF Absent
    <3>2. CASE m = l
      <4>1. i \in 1..a
        BY <3>2, <1>1
      <4>2. CASE i <= n
        <5>1. i \in 1..Len(r[l]) /\ r[l][i] = q[l][i]
          BY <1>1, <1>2, <1>3, <4>1, <4>2
        <5> QED BY <3>2, <5>1, <1>6 DEF Absent
      <4>3. CASE i > n
        <5>1. i + 1 \in n + 2 .. a + 1 /\ i + 1 - 1 = i
          BY <1>1, <4>1, <4>3
        <5>3. i + 1 \in 1 .. a + 1
          BY <5>1, <4>1
        <5>4. H[i + 1] = q[l][i]
          BY <1>2, <5>1
        <5>2. i + 1 \in 1..Len(r[l]) /\ r[l][i + 1] = q[l][i]
          BY <1>2, <1>3, <5>3, <5>4
        <5> QED BY <3>2, <5>2, <1>6 DEF Absent
      <4> QED BY <4>1, <4>2, <4>3, <1>1
    <3> QED BY <3>1, <3>2
  <2> QED BY <2>1, <2>2 DEF Absent
<1> QED BY <1>3, <1>5, <1>6 DEF r, H

LEMMA SinglyWithout ==
  ASSUME NEW q \in [Headers -> Seq(Nodes)], Singly(q), NEW l \in Headers, NEW n \in 1..Len(q[l])
  PROVE  LET r == [q EXCEPT ![l] = Without(q[l], n)] IN
         /\ r \in [Headers -> Seq(Nodes)] /\ Singly(r)
         /\ Absent(r, q[l][n])
         /\ \A y \in Nodes : Absent(r, y) => y = q[l][n] \/ Absent(q, y)
<1> DEFINE H == Without(q[l], n)
           r == [q EXCEPT ![l] = H]
<1>1. PICK a \in Nat : a = Len(q[l]) /\ q[l] \in Seq(Nodes)
  BY SeqFacts
<1>2. /\ H \in Seq(Nodes) /\ Len(H) = a - 1
      /\ \A i \in 1 .. n - 1 : H[i] = q[l][i]
      /\ \A i \in n .. a - 1 : H[i] = q[l][i + 1]
  <2>1. /\ H \in Seq(Nodes) /\ Len(H) = Len(q[l]) - 1
        /\ \A i \in 1 .. n - 1 : H[i] = q[l][i]
        /\ \A i \in n .. Len(q[l]) - 1 : H[i] = q[l][i + 1]
    BY <1>1, WithoutElements
  <2> HIDE DEF H
  <2> QED BY <1>1, <2>1
<1> HIDE DEF H
<1>3. r \in [Headers -> Seq(Nodes)] /\ r[l] = H /\ \A m \in Headers : m # l => r[m] = q[m]
  BY <1>2
<1> HIDE DEF r
<1> DEFINE Old(m, i) == IF m # l \/ i < n THEN i ELSE i + 1
<1>4. ASSUME NEW m \in Headers, NEW i \in 1..Len(r[m])
      PROVE  Old(m, i) \in 1..Len(q[m]) /\ r[m][i] = q[m][Old(m, i)] /\ ~ (m = l /\ Old(m, i) = n)
  <2>1. CASE m # l
    BY <1>3, <2>1
  <2>2. CASE m = l
    <3>1. i \in 1 .. a - 1
      BY <1>2, <1>3, <2>2
    <3>2. CASE i < n
      BY <1>1, <1>2, <1>3, <2>2, <3>1, <3>2
    <3>4. CASE ~ i < n
      <4>1. i \in n .. a - 1 /\ i + 1 \in 1..a /\ i + 1 # n
        BY <3>1, <3>4, <1>1
      <4> QED BY <1>1, <1>2, <1>3, <2>2, <3>4, <4>1
    <3> QED BY <3>2, <3>4
  <2> QED BY <2>1, <2>2
<1>5. Singly(r)
  <2> SUFFICES ASSUME NEW m \in Headers, NEW k \in Headers, NEW i \in 1..Len(r[m]),
                      NEW j \in 1..Len(r[k]), r[m][i] = r[k][j]
               PROVE  m = k /\ i = j
    BY DEF Singly
  <2>1. i \in Nat /\ j \in Nat /\ n \in Nat
    BY <1>1
  <2>2. /\ Old(m, i) \in 1..Len(q[m]) /\ r[m][i] = q[m][Old(m, i)]
        /\ Old(k, j) \in 1..Len(q[k]) /\ r[k][j] = q[k][Old(k, j)]
    BY <1>4
  <2>3. m = k /\ Old(m, i) = Old(k, j)
    <3>1. PICK u \in 1..Len(q[m]) : u = Old(m, i) /\ r[m][i] = q[m][u]
      BY <2>2
    <3>2. PICK v \in 1..Len(q[k]) : v = Old(k, j) /\ r[k][j] = q[k][v]
      BY <2>2
    <3>3. q[m][u] = q[k][v]
      BY <3>1, <3>2
    <3> HIDE DEF Old
    <3>4. m = k /\ u = v
      BY <3>3 DEF Singly
    <3> QED BY <3>1, <3>2, <3>4
  <2> QED BY <2>1, <2>3
<1>6. Absent(r, q[l][n])
  <2> SUFFICES ASSUME NEW m \in Headers, NEW i \in 1..Len(r[m]), r[m][i] = q[l][n] PROVE FALSE
    BY DEF Absent
  <2>1. Old(m, i) \in 1..Len(q[m]) /\ r[m][i] = q[m][Old(m, i)] /\ ~ (m = l /\ Old(m, i) = n)
    BY <1>4
  <2>2. PICK u \in 1..Len(q[m]) : u = Old(m, i) /\ r[m][i] = q[m][u] /\ ~ (m = l /\ u = n)
    BY <2>1
  <2> HIDE DEF Old
  <2>3. q[m][u] = q[l][n]
    BY <2>2
  <2>4. m = l /\ u = n
    BY <2>3 DEF Singly
  <2> QED BY <2>2, <2>4
<1>7. ASSUME NEW y \in Nodes, Absent(r, y) PROVE y = q[l][n] \/ Absent(q, y)
  <2> SUFFICES ASSUME y # q[l][n], NEW m \in Headers, NEW i \in 1..Len(q[m]) PROVE q[m][i] # y
    BY DEF Absent
  <2>1. CASE m # l
    BY <2>1, <1>3, <1>7 DEF Absent
  <2>2. CASE m = l
    <3>1. i \in 1..a
      BY <2>2, <1>1
    <3>2. CASE i < n
      <4>1. i \in 1..Len(r[l]) /\ r[l][i] = q[l][i]
        BY <1>1, <1>2, <1>3, <3>1, <3>2
      <4> QED BY <2>2, <4>1, <1>7 DEF Absent
    <3>3. CASE i = n
      BY <2>2, <3>3
    <3>4. CASE i > n
      <4>1. i - 1 \in n .. a - 1 /\ i - 1 + 1 = i
        BY <1>1, <3>1, <3>4
      <4>2. i - 1 \in 1..Len(r[l]) /\ r[l][i - 1] = q[l][i]
        BY <1>1, <1>2, <1>3, <4>1
      <4> QED BY <2>2, <4>2, <1>7 DEF Absent
    <3> QED BY <3>1, <3>2, <3>3, <3>4, <1>1
  <2> QED BY <2>1, <2>2
<1> QED BY <1>3, <1>5, <1>6, <1>7 DEF r, H

Linked(f, a, b, c, d) == [f EXCEPT ![a] = b, ![c] = d]

\* A node linked in at a stage of a list is in the sequence there.
LEMMA LinkingSplices ==
  ASSUME NEW q, NEW s, NEW p, NEW live, Lined(q, s, p, live), NEW l \in live,
         NEW n \in 0..Len(q[l]), NEW x \in Nodes, Absent(q, x), NEW at, NEW succ,
         at = Stage(q[l], l, n), succ = Stage(q[l], l, n + 1)
  PROVE  Lined([q EXCEPT ![l] = Spliced(q[l], n, x)], Linked(s, Node(x), succ, at, Node(x)),
               Linked(p, Node(x), at, succ, Node(x)), live)
<1> DEFINE Q == q[l]
           H == Spliced(q[l], n, x)
           r == [q EXCEPT ![l] = H]
           s1 == Linked(s, Node(x), succ, at, Node(x))
           p1 == Linked(p, Node(x), at, succ, Node(x))
<1>1. /\ q \in [Headers -> Seq(Nodes)] /\ Singly(q) /\ l \in Headers /\ Q \in Seq(Nodes)
      /\ live \subseteq Headers
      /\ s \in [Places -> Places \union {Nowhere}] /\ p \in [Places -> Places \union {Nowhere}]
      /\ Threaded(Q, l, s, p)
  BY DEF Lined
<1>2. PICK a \in Nat : a = Len(Q)
  BY <1>1, SeqFacts
<1>3. /\ r \in [Headers -> Seq(Nodes)] /\ Singly(r)
      /\ \A y \in Nodes : Absent(r, y) => y # x /\ Absent(q, y)
  BY <1>1, SinglySpliced
<1>4. n \in 0..a + 1 /\ n + 1 \in 0..a + 1 /\ n \in 0..a /\ n \in Nat
  BY <1>2
<1>5. Node(x) \in Places /\ at \in Places /\ succ \in Places
  BY <1>1, <1>2, <1>4, PlacesDiffer, StagesArePlaces
<1>6. ASSUME NEW i \in 0 .. a + 1 PROVE Stage(Q, l, i) # Node(x)
  <2>1. SUFFICES ASSUME Stage(Q, l, i) = Node(x) PROVE FALSE
    OBVIOUS
  <2>2. i \in 1..Len(Q) /\ Q[i] = x
    BY <1>1, <1>2, <2>1, StageOfNode
  <2> QED BY <1>1, <2>2 DEF Absent
<1>7. at # Node(x) /\ succ # Node(x)
  BY <1>4, <1>6
<1>8. /\ s1 \in [Places -> Places \union {Nowhere}] /\ p1 \in [Places -> Places \union {Nowhere}]
      /\ s1[Node(x)] = succ /\ s1[at] = Node(x)
      /\ p1[Node(x)] = at /\ p1[succ] = Node(x)
      /\ \A e \in Places : e # Node(x) /\ e # at => s1[e] = s[e]
      /\ \A e \in Places : e # Node(x) /\ e # succ => p1[e] = p[e]
  BY <1>1, <1>5, <1>7 DEF Linked
<1> HIDE DEF s1, p1
<1>9. /\ \A i \in 0..n : Stage(H, l, i) = Stage(Q, l, i)
      /\ Stage(H, l, n + 1) = Node(x)
      /\ \A i \in n + 2 .. a + 2 : Stage(H, l, i) = Stage(Q, l, i - 1)
  BY <1>1, <1>2, SplicedStages
<1>10. Len(H) = a + 1 /\ r[l] = H
  BY <1>1, <1>2, SplicedElements
<1> HIDE DEF H, r
<1>11. ASSUME NEW i \in 0..a + 1, NEW j \in 0..a + 1, Stage(Q, l, i) = Stage(Q, l, j) PROVE i = j
  BY <1>1, <1>2, <1>11, StagesDiffer
<1>12. ASSUME NEW i \in 0..a + 1
       PROVE  /\ Stage(Q, l, i) \in Places
              /\ i # n => s1[Stage(Q, l, i)] = s[Stage(Q, l, i)]
              /\ i # n + 1 => p1[Stage(Q, l, i)] = p[Stage(Q, l, i)]
  <2>1. Stage(Q, l, i) \in Places /\ Stage(Q, l, i) # Node(x)
    BY <1>1, <1>2, <1>6, StagesArePlaces
  <2>2. i # n => Stage(Q, l, i) # at
    BY <1>4, <1>11
  <2>3. i # n + 1 => Stage(Q, l, i) # succ
    BY <1>4, <1>11
  <2> QED BY <1>8, <2>1, <2>2, <2>3
<1>13. \A i \in 0..a : /\ s[Stage(Q, l, i)] = Stage(Q, l, i + 1)
                       /\ p[Stage(Q, l, i + 1)] = Stage(Q, l, i)
  BY <1>1, <1>2 DEF Threaded
<1> HIDE DEF Q
<1>14. Threaded(H, l, s1, p1)
  <2>1. s1[Back(l)] = Nowhere
    <3>1. Stage(Q, l, a + 1) = Back(l)
      BY <1>2 DEF Stage
    <3>2. a + 1 \in 0..a + 1 /\ a + 1 # n
      BY <1>2, <1>4
    <3> QED BY <1>1, <1>12, <3>1, <3>2 DEF Threaded
  <2>2. ASSUME NEW i \in 0..a + 1
        PROVE  s1[Stage(H, l, i)] = Stage(H, l, i + 1) /\ p1[Stage(H, l, i + 1)] = Stage(H, l, i)
    <3>1. CASE i < n
      <4>1. /\ i \in 0..n /\ i + 1 \in 0..n /\ i \in 0..a /\ i + 1 \in 0..a + 1 /\ i # n
            /\ i + 1 # n + 1
        BY <3>1, <1>4
      <4>2. Stage(H, l, i) = Stage(Q, l, i) /\ Stage(H, l, i + 1) = Stage(Q, l, i + 1)
        BY <1>9, <4>1
      <4>3. s1[Stage(Q, l, i)] = s[Stage(Q, l, i)] /\ p1[Stage(Q, l, i + 1)] = p[Stage(Q, l, i + 1)]
        BY <1>12, <4>1
      <4> QED BY <1>13, <4>1, <4>2, <4>3
    <3>2. CASE i = n
      <4>1. Stage(H, l, i) = at /\ Stage(H, l, i + 1) = Node(x)
        BY <3>2, <1>4, <1>9 DEF Q
      <4> QED BY <1>8, <4>1
    <3>3. CASE i = n + 1
      <4>1. n + 2 \in n + 2 .. a + 2 /\ n + 2 - 1 = n + 1 /\ i + 1 = n + 2
        BY <3>3, <1>4
      <4>2. Stage(H, l, i) = Node(x) /\ Stage(H, l, i + 1) = succ
        BY <3>3, <4>1, <1>9 DEF Q
      <4> QED BY <1>8, <4>2
    <3>4. CASE i > n + 1
      <4>1. PICK k \in 0..a : k = i - 1 /\ k + 1 = i /\ k # n /\ i # n + 1
        BY <3>4, <1>4
      <4>2. i \in n + 2 .. a + 2 /\ i + 1 \in n + 2 .. a + 2 /\ i + 1 - 1 = i /\ k \in 0 .. a + 1
        BY <3>4, <1>4, <4>1
      <4>3. Stage(H, l, i) = Stage(Q, l, k) /\ Stage(H, l, i + 1) = Stage(Q, l, i)
        BY <1>9, <4>1, <4>2
      <4>4. s1[Stage(Q, l, k)] = s[Stage(Q, l, k)] /\ p1[Stage(Q, l, i)] = p[Stage(Q, l, i)]
        BY <1>12, <4>1, <4>2
      <4>5. s[Stage(Q, l, k)] = Stage(Q, l, i) /\ p[Stage(Q, l, i)] = Stage(Q, l, k)
        BY <1>13, <4>1
      <4> QED BY <4>3, <4>4, <4>5
    <3> QED BY <3>1, <3>2, <3>3, <3>4, <1>4
  <2> QED BY <1>10, <2>1, <2>2 DEF Threaded
<1>15. ASSUME NEW m \in Headers
       PROVE  IF m \in live THEN Threaded(r[m], m, s1, p1) ELSE Unmade(r[m], m, s1)
  <2>1. CASE m = l
    BY <2>1, <1>10, <1>14
  <2>2. CASE m # l
    <3>1. r[m] = q[m]
      BY <1>1, <2>2 DEF r
    <3>2. OnlyIn(q, l, x)
      BY DEF OnlyIn, Absent
    <3>3. SameBut(s, s1, at, succ, x) /\ SameBut(p, p1, at, succ, x)
      BY <1>8 DEF SameBut
    <3>4. IsStage(q[l], l, at) /\ IsStage(q[l], l, succ)
      BY <1>2, <1>4 DEF IsStage, Q
    <3>5. l \in Headers /\ x \in Nodes
      BY <1>1
    <3>6. Held(q[m], m, s1, p1, live)
      BY <2>2, <3>2, <3>3, <3>4, <3>5, OthersKept
    <3> QED BY <3>1, <3>6 DEF Held
  <2> QED BY <2>1, <2>2
<1>16. ASSUME NEW y \in Nodes, Absent(r, y) PROVE s1[Node(y)] = Nowhere
  <2>1. y # x /\ Absent(q, y)
    BY <1>3, <1>16
  <2>2. s[Node(y)] = Nowhere
    BY <2>1 DEF Lined
  <2>3. Node(y) # at
    <3>1. SUFFICES ASSUME Stage(Q, l, n) = Node(y) PROVE FALSE
      BY DEF Q
    <3>2. n \in 1..Len(Q) /\ Q[n] = y
      BY <1>1, <1>2, <1>4, <3>1, StageOfNode
    <3> QED BY <1>1, <2>1, <3>2 DEF Absent, Q
  <2>4. Node(y) \in Places /\ Node(y) # Node(x)
    BY <2>1, PlacesDiffer, <1>1
  <2> QED BY <1>8, <2>2, <2>3, <2>4
<1>17. Lined(r, s1, p1, live)
  BY <1>1, <1>3, <1>8, <1>15, <1>16 DEF Lined
<1> QED BY <1>17 DEF r, H, s1, p1

\* A node unlinked is out of the sequence, and has no pointers.
LEMMA UnlinkingCuts ==
  ASSUME NEW q, NEW s, NEW p, NEW live, Lined(q, s, p, live), NEW l \in live,
         NEW n \in 1..Len(q[l]), NEW x \in Nodes, q[l][n] = x, NEW at, NEW succ,
         at = Stage(q[l], l, n - 1), succ = Stage(q[l], l, n + 1)
  PROVE  Lined([q EXCEPT ![l] = Without(q[l], n)], Linked(s, at, succ, Node(x), Nowhere),
               Linked(p, succ, at, Node(x), Nowhere), live)
<1> DEFINE Q == q[l]
           H == Without(q[l], n)
           r == [q EXCEPT ![l] = H]
           s1 == Linked(s, at, succ, Node(x), Nowhere)
           p1 == Linked(p, succ, at, Node(x), Nowhere)
<1>1. /\ q \in [Headers -> Seq(Nodes)] /\ Singly(q) /\ l \in Headers /\ Q \in Seq(Nodes)
      /\ live \subseteq Headers
      /\ s \in [Places -> Places \union {Nowhere}] /\ p \in [Places -> Places \union {Nowhere}]
      /\ Threaded(Q, l, s, p)
  BY DEF Lined
<1>2. PICK a \in Nat : a = Len(Q)
  BY <1>1, SeqFacts
<1>3. /\ r \in [Headers -> Seq(Nodes)] /\ Singly(r) /\ Absent(r, x)
      /\ \A y \in Nodes : Absent(r, y) => y = x \/ Absent(q, y)
  BY <1>1, SinglyWithout
<1>4. n - 1 \in 0..a + 1 /\ n + 1 \in 0..a + 1 /\ n \in 0..a /\ n \in 1..a /\ n \in 0..a + 1
  BY <1>2
<1>5. x \in Nodes /\ Stage(Q, l, n) = Node(x)
  <2>1. x \in Nodes
    BY <1>1, <1>2, <1>4, SeqFacts
  <2> QED BY <2>1, <1>2, <1>4 DEF Stage
<1>6. Node(x) \in Places /\ at \in Places /\ succ \in Places
  BY <1>1, <1>2, <1>4, <1>5, PlacesDiffer, StagesArePlaces
<1>11. ASSUME NEW i \in 0..a + 1, NEW j \in 0..a + 1, Stage(Q, l, i) = Stage(Q, l, j) PROVE i = j
  BY <1>1, <1>2, <1>11, StagesDiffer
<1>7. at # Node(x) /\ succ # Node(x) /\ at # succ
  <2>1. n - 1 # n /\ n + 1 # n /\ n - 1 # n + 1
    BY <1>4
  <2>2. Stage(Q, l, n - 1) # Stage(Q, l, n) /\ Stage(Q, l, n + 1) # Stage(Q, l, n)
    BY <1>4, <1>11, <2>1
  <2>3. Stage(Q, l, n - 1) # Stage(Q, l, n + 1)
    BY <1>4, <1>11, <2>1
  <2> QED BY <1>5, <2>2, <2>3
<1>8. /\ s1 \in [Places -> Places \union {Nowhere}] /\ p1 \in [Places -> Places \union {Nowhere}]
      /\ s1[Node(x)] = Nowhere /\ s1[at] = succ /\ p1[succ] = at
      /\ \A e \in Places : e # Node(x) /\ e # at => s1[e] = s[e]
      /\ \A e \in Places : e # Node(x) /\ e # succ => p1[e] = p[e]
  BY <1>1, <1>6, <1>7 DEF Linked
<1> HIDE DEF s1, p1
<1>9. /\ \A i \in 0 .. n - 1 : Stage(H, l, i) = Stage(Q, l, i)
      /\ \A i \in n .. a : Stage(H, l, i) = Stage(Q, l, i + 1)
  BY <1>1, <1>2, WithoutStages
<1>10. Len(H) = a - 1 /\ r[l] = H
  BY <1>1, <1>2, WithoutElements
<1> HIDE DEF H, r
<1>12. ASSUME NEW i \in 0..a + 1, i # n
       PROVE  /\ Stage(Q, l, i) \in Places
              /\ i # n - 1 => s1[Stage(Q, l, i)] = s[Stage(Q, l, i)]
              /\ i # n + 1 => p1[Stage(Q, l, i)] = p[Stage(Q, l, i)]
  <2>1. Stage(Q, l, i) \in Places /\ Stage(Q, l, i) # Node(x)
    BY <1>1, <1>2, <1>4, <1>5, <1>11, <1>12, StagesArePlaces
  <2>2. i # n - 1 => Stage(Q, l, i) # at
    BY <1>4, <1>11
  <2>3. i # n + 1 => Stage(Q, l, i) # succ
    BY <1>4, <1>11
  <2> QED BY <1>8, <2>1, <2>2, <2>3
<1>13. \A i \in 0..a : /\ s[Stage(Q, l, i)] = Stage(Q, l, i + 1)
                       /\ p[Stage(Q, l, i + 1)] = Stage(Q, l, i)
  BY <1>1, <1>2 DEF Threaded
<1> HIDE DEF Q
<1>14. Threaded(H, l, s1, p1)
  <2>1. s1[Back(l)] = Nowhere
    <3>1. Stage(Q, l, a + 1) = Back(l)
      BY <1>2 DEF Stage
    <3>2. a + 1 \in 0..a + 1 /\ a + 1 # n /\ a + 1 # n - 1
      BY <1>2, <1>4
    <3> QED BY <1>1, <1>12, <3>1, <3>2 DEF Threaded
  <2>2. ASSUME NEW i \in 0 .. a - 1
        PROVE  s1[Stage(H, l, i)] = Stage(H, l, i + 1) /\ p1[Stage(H, l, i + 1)] = Stage(H, l, i)
    <3>1. CASE i < n - 1
      <4>1. /\ i \in 0 .. n - 1 /\ i + 1 \in 0 .. n - 1 /\ i \in 0..a /\ i \in 0 .. a + 1
            /\ i + 1 \in 0..a + 1 /\ i # n - 1 /\ i + 1 # n + 1 /\ i # n /\ i + 1 # n
        BY <3>1, <1>4
      <4>2. Stage(H, l, i) = Stage(Q, l, i) /\ Stage(H, l, i + 1) = Stage(Q, l, i + 1)
        BY <1>9, <4>1
      <4>3. s1[Stage(Q, l, i)] = s[Stage(Q, l, i)] /\ p1[Stage(Q, l, i + 1)] = p[Stage(Q, l, i + 1)]
        BY <1>12, <4>1
      <4> QED BY <1>13, <4>1, <4>2, <4>3
    <3>2. CASE i = n - 1
      <4>1. i \in 0 .. n - 1 /\ i + 1 = n /\ n \in n .. a
        BY <3>2, <1>4
      <4>2. Stage(H, l, i) = at /\ Stage(H, l, i + 1) = succ
        BY <3>2, <4>1, <1>9 DEF Q
      <4> QED BY <1>8, <4>2
    <3>4. CASE i > n - 1
      <4>1. PICK k \in 0..a : k = i + 1 /\ k # n /\ k # n - 1
        BY <3>4, <1>4
      <4>2. /\ i \in n .. a /\ k \in n .. a /\ k \in 0..a + 1 /\ k + 1 \in 0..a + 1
            /\ k + 1 # n /\ k + 1 # n + 1
        BY <3>4, <1>4, <4>1
      <4>3. Stage(H, l, i) = Stage(Q, l, k) /\ Stage(H, l, i + 1) = Stage(Q, l, k + 1)
        BY <1>9, <4>1, <4>2
      <4>4. s1[Stage(Q, l, k)] = s[Stage(Q, l, k)] /\ p1[Stage(Q, l, k + 1)] = p[Stage(Q, l, k + 1)]
        BY <1>12, <4>1, <4>2
      <4>5. s[Stage(Q, l, k)] = Stage(Q, l, k + 1) /\ p[Stage(Q, l, k + 1)] = Stage(Q, l, k)
        BY <1>13, <4>1
      <4> QED BY <4>3, <4>4, <4>5
    <3> QED BY <3>1, <3>2, <3>4, <1>4
  <2> QED BY <1>10, <2>1, <2>2 DEF Threaded
<1>15. ASSUME NEW m \in Headers
       PROVE  IF m \in live THEN Threaded(r[m], m, s1, p1) ELSE Unmade(r[m], m, s1)
  <2>1. CASE m = l
    BY <2>1, <1>10, <1>14
  <2>2. CASE m # l
    <3>1. r[m] = q[m]
      BY <1>1, <2>2 DEF r
    <3>2. OnlyIn(q, l, x)
      BY <1>1 DEF OnlyIn, Singly
    <3>3. SameBut(s, s1, at, succ, x) /\ SameBut(p, p1, at, succ, x)
      BY <1>8 DEF SameBut
    <3>4. IsStage(q[l], l, at) /\ IsStage(q[l], l, succ)
      BY <1>2, <1>4 DEF IsStage, Q
    <3>5. l \in Headers /\ x \in Nodes
      BY <1>1, <1>5
    <3>6. Held(q[m], m, s1, p1, live)
      BY <2>2, <3>2, <3>3, <3>4, <3>5, OthersKept
    <3> QED BY <3>1, <3>6 DEF Held
  <2> QED BY <2>1, <2>2
<1>16. ASSUME NEW y \in Nodes, Absent(r, y) PROVE s1[Node(y)] = Nowhere
  <2>1. CASE y = x
    BY <1>8, <2>1
  <2>2. CASE y # x
    <3>1. Absent(q, y)
      BY <1>3, <1>16, <2>2
    <3>2. s[Node(y)] = Nowhere
      BY <3>1 DEF Lined
    <3>3. Node(y) # at
      <4>1. SUFFICES ASSUME Stage(Q, l, n - 1) = Node(y) PROVE FALSE
        BY DEF Q
      <4>2. n - 1 \in 1..Len(Q) /\ Q[n - 1] = y
        BY <1>1, <1>2, <1>4, <4>1, StageOfNode
      <4> QED BY <1>1, <3>1, <4>2 DEF Absent, Q
    <3>4. Node(y) \in Places /\ Node(y) # Node(x)
      BY <2>2, PlacesDiffer, <1>1, <1>5
    <3> QED BY <1>8, <3>2, <3>3, <3>4
  <2> QED BY <2>1, <2>2
<1>17. Lined(r, s1, p1, live)
  BY <1>1, <1>3, <1>8, <1>15, <1>16 DEF Lined
<1> QED BY <1>17 DEF r, H, s1, p1

-----------------------------------------------------------------------------
(* The sequences read from the pointers, and what the calls do to them. *)

NodesIn(s, l) ==
  LET w == Chain(s, s[Front(l)])
  IN  [i \in 1 .. Len(w) - 1 |-> w[i][1]]
QueuesIn(s, live) == [l \in Headers |-> IF l \in live THEN NodesIn(s, l) ELSE <<>>]

LEMMA QueuesRead ==
  ASSUME NEW q, NEW s, NEW p, NEW live, Lined(q, s, p, live)
  PROVE  QueuesIn(s, live) = q
<1>1. q \in [Headers -> Seq(Nodes)]
  BY DEF Lined
<1>2. ASSUME NEW l \in Headers PROVE q[l] = IF l \in live THEN NodesIn(s, l) ELSE <<>>
  <2>1. CASE l \in live
    <3>1. Chain(s, s[Front(l)]) = Rest(q[l], l, 1) /\ q[l] \in Seq(Nodes)
      BY <2>1, ChainOfList
    <3>2. [i \in 1 .. Len(Rest(q[l], l, 1)) - 1 |-> Rest(q[l], l, 1)[i][1]] = q[l]
      BY <3>1, RestIsNodes
    <3>3. NodesIn(s, l) = q[l]
      BY <3>1, <3>2, Zenon DEF NodesIn
    <3> QED BY <2>1, <3>3
  <2>2. CASE l \notin live
    BY <2>2 DEF Lined, Unmade
  <2> QED BY <2>1, <2>2
<1> DEFINE val(l) == IF l \in live THEN NodesIn(s, l) ELSE <<>>
<1>3. QueuesIn(s, live) = [l \in Headers |-> val(l)]
  BY DEF QueuesIn
<1>4. \A l \in Headers : q[l] = val(l)
  BY <1>2
<1> HIDE DEF val
<1> QED BY <1>1, <1>3, <1>4

Shape ==
  /\ ports \subseteq MsgPorts /\ requests \subseteq Nodes
  /\ ln_Type \in [Nodes -> {"none", "NT_MESSAGE", "NT_REPLYMSG"}]
  /\ mn_ReplyPort \in [Nodes -> ports \union {NULL}]
  /\ \A n \in Nodes \ requests : mn_ReplyPort[n] = NULL
PortsInv == Shape /\ Lined(contents, ln_Succ, ln_Pred, Lists)

LEMMA QueuesNow == contents = QueuesIn(ln_Succ, Lists)
BY DEF contents, QueuesIn, NodesOf, NodesIn

LEMMA QueuesThen == contents' = QueuesIn(ln_Succ', Lists')
BY DEF contents, QueuesIn, NodesOf, NodesIn

LEMMA QueuesBecome ==
  ASSUME NEW q, Lined(q, ln_Succ', ln_Pred', Lists')
  PROVE  contents' = q /\ Lined(contents', ln_Succ', ln_Pred', Lists')
BY QueuesThen, QueuesRead

LEMMA NodesOfQueue ==
  ASSUME NEW l \in Lists, l \in Headers
  PROVE  NodesOf(l) = contents[l]
BY DEF contents

\* A node has pointers exactly when it is on a list.
LEMMA LooseIsAbsent ==
  ASSUME NEW q, NEW s, NEW p, NEW live, Lined(q, s, p, live), NEW x \in Nodes
  PROVE  Absent(q, x) <=> s[Node(x)] = Nowhere
<1>1. Absent(q, x) => s[Node(x)] = Nowhere
  BY DEF Lined
<1>2. ASSUME NEW l \in Headers, NEW i \in 1..Len(q[l]), q[l][i] = x PROVE s[Node(x)] # Nowhere
  <2>1. q[l] \in Seq(Nodes)
    BY DEF Lined
  <2>2. PICK a \in Nat : a = Len(q[l])
    BY <2>1, SeqFacts
  <2>3. l \in live
    <3>1. q[l] # <<>>
      OBVIOUS
    <3> QED BY <3>1 DEF Lined, Unmade
  <2>4. Stage(q[l], l, i) = Node(x)
    BY <1>2, <2>2 DEF Stage
  <2>5. i \in 0..Len(q[l]) /\ i + 1 \in 0..Len(q[l]) + 1
    BY <2>2
  <2>6. s[Stage(q[l], l, i)] = Stage(q[l], l, i + 1)
    BY <2>3, <2>5 DEF Lined, Threaded
  <2>7. Stage(q[l], l, i + 1) # Nowhere
    BY <2>1, <2>5, StagesArePlaces
  <2> QED BY <2>4, <2>6, <2>7
<1> QED BY <1>1, <1>2 DEF Absent

LEMMA NextAndBefore ==
  ASSUME NEW q, NEW s, NEW p, NEW live, Lined(q, s, p, live), NEW l \in live
  PROVE  /\ l \in Headers /\ q[l] \in Seq(Nodes) /\ Len(q[l]) \in Nat
         /\ \A n \in 0..Len(q[l]) : /\ s[Stage(q[l], l, n)] = Stage(q[l], l, n + 1)
                                    /\ p[Stage(q[l], l, n + 1)] = Stage(q[l], l, n)
<1>1. l \in Headers /\ q[l] \in Seq(Nodes) /\ Threaded(q[l], l, s, p)
  BY DEF Lined
<1> QED BY <1>1, SeqFacts DEF Threaded

\* Linking after a stage, or before one, puts a node there.
LEMMA LinkPuts ==
  ASSUME PortsInv, NEW l \in Lists, NEW n \in 0..Len(contents[l]), NEW x \in Nodes, ~ OnList(x),
         \/ LinkAfter(Stage(contents[l], l, n), Node(x))
         \/ LinkBefore(Stage(contents[l], l, n + 1), Node(x)),
         Lists' = Lists
  PROVE  /\ Absent(contents, x)
         /\ contents' = [contents EXCEPT ![l] = Spliced(contents[l], n, x)]
         /\ Lined(contents', ln_Succ', ln_Pred', Lists')
<1>1. Lined(contents, ln_Succ, ln_Pred, Lists)
  BY DEF PortsInv
<1>2. Absent(contents, x)
  BY <1>1, LooseIsAbsent DEF OnList
<1> DEFINE at == Stage(contents[l], l, n)
           succ == Stage(contents[l], l, n + 1)
<1>3. ln_Succ[at] = succ /\ ln_Pred[succ] = at
  BY <1>1, NextAndBefore
<1>4. /\ ln_Succ' = Linked(ln_Succ, Node(x), succ, at, Node(x))
      /\ ln_Pred' = Linked(ln_Pred, Node(x), at, succ, Node(x))
  <2> HIDE DEF at, succ
  <2>1. LinkAfter(at, Node(x)) \/ LinkBefore(succ, Node(x))
    BY DEF at, succ
  <2> QED BY <1>3, <2>1, Zenon DEF LinkAfter, LinkBefore, Linked
<1> DEFINE r == [contents EXCEPT ![l] = Spliced(contents[l], n, x)]
<1>5. Lined(r, Linked(ln_Succ, Node(x), succ, at, Node(x)),
            Linked(ln_Pred, Node(x), at, succ, Node(x)), Lists)
  BY <1>1, <1>2, LinkingSplices
<1> HIDE DEF r, at, succ
<1>6. Lined(r, ln_Succ', ln_Pred', Lists')
  BY <1>4, <1>5, Zenon
<1>7. contents' = r /\ Lined(contents', ln_Succ', ln_Pred', Lists')
  BY <1>6, QueuesBecome
<1> QED BY <1>2, <1>7 DEF r

LEMMA RemoveCuts ==
  ASSUME PortsInv, NEW l \in Lists, NEW n \in 1..Len(contents[l]),
         remove_impl(Node(contents[l][n])), Lists' = Lists
  PROVE  /\ contents' = [contents EXCEPT ![l] = Without(contents[l], n)]
         /\ Lined(contents', ln_Succ', ln_Pred', Lists')
<1>1. Lined(contents, ln_Succ, ln_Pred, Lists)
  BY DEF PortsInv
<1> DEFINE at == Stage(contents[l], l, n - 1)
           succ == Stage(contents[l], l, n + 1)
<1>2. PICK x \in Nodes : x = contents[l][n]
  BY <1>1, NextAndBefore, SeqFacts
<1>3. ln_Pred[Node(x)] = at /\ ln_Succ[Node(x)] = succ
  <2>1. PICK a \in Nat : a = Len(contents[l])
    BY <1>1, NextAndBefore
  <2>2. Stage(contents[l], l, n) = Node(x)
    BY <1>2, <2>1 DEF Stage
  <2>3. n - 1 \in 0..Len(contents[l]) /\ n - 1 + 1 = n /\ n \in 0..Len(contents[l])
    BY <2>1
  <2>4. \A k \in 0..Len(contents[l]) :
           /\ ln_Succ[Stage(contents[l], l, k)] = Stage(contents[l], l, k + 1)
           /\ ln_Pred[Stage(contents[l], l, k + 1)] = Stage(contents[l], l, k)
    BY <1>1, NextAndBefore
  <2>5. ln_Pred[Stage(contents[l], l, n - 1 + 1)] = Stage(contents[l], l, n - 1)
    BY <2>3, <2>4
  <2>6. ln_Succ[Stage(contents[l], l, n)] = Stage(contents[l], l, n + 1)
    BY <2>3, <2>4
  <2> QED BY <2>2, <2>3, <2>5, <2>6
<1>4. /\ ln_Succ' = Linked(ln_Succ, at, succ, Node(x), Nowhere)
      /\ ln_Pred' = Linked(ln_Pred, succ, at, Node(x), Nowhere)
  <2> HIDE DEF at, succ
  <2>1. remove_impl(Node(x))
    BY <1>2
  <2> QED BY <1>3, <2>1, Zenon DEF remove_impl, Linked
<1> DEFINE r == [contents EXCEPT ![l] = Without(contents[l], n)]
<1>5. Lined(r, Linked(ln_Succ, at, succ, Node(x), Nowhere),
            Linked(ln_Pred, succ, at, Node(x), Nowhere), Lists)
  BY <1>1, <1>2, UnlinkingCuts
<1> HIDE DEF r, at, succ
<1>6. Lined(r, ln_Succ', ln_Pred', Lists')
  BY <1>4, <1>5, Zenon
<1>7. contents' = r /\ Lined(contents', ln_Succ', ln_Pred', Lists')
  BY <1>6, QueuesBecome
<1> QED BY <1>7 DEF r

LEMMA NothingMoves ==
  ASSUME PortsInv, UNCHANGED <<ln_Succ, ln_Pred>>, Lists' = Lists
  PROVE  contents' = contents /\ Lined(contents', ln_Succ', ln_Pred', Lists')
<1>1. Lined(contents, ln_Succ', ln_Pred', Lists')
  BY DEF PortsInv
<1> QED BY <1>1, QueuesBecome

\* What a call did to the sequences.
PutInto(l, x) == \E n \in 0..Len(contents[l]) :
  Absent(contents, x) /\ contents' = [contents EXCEPT ![l] = Spliced(contents[l], n, x)]
CutFrom(l, x) == \E n \in 1..Len(contents[l]) :
  contents[l][n] = x /\ contents' = [contents EXCEPT ![l] = Without(contents[l], n)]

LEMMA QueueTypes ==
  ASSUME PortsInv
  PROVE  /\ contents \in [Headers -> Seq(Nodes)] /\ Lists \subseteq Headers
         /\ \A l \in Lists : l \in Headers /\ contents[l] \in Seq(Nodes) /\ Len(contents[l]) \in Nat
                             /\ DOMAIN contents[l] = 1..Len(contents[l])
BY DEF PortsInv, Lined

\* Both ends of a list.
LEMMA ListEnds ==
  ASSUME PortsInv, NEW l \in Lists
  PROVE  /\ First(l) = Stage(contents[l], l, 1) /\ Last(l) = Stage(contents[l], l, Len(contents[l]))
         /\ Empty(l) <=> contents[l] = <<>>
         /\ contents[l] # <<>> =>
              /\ Len(contents[l]) \in 1..Len(contents[l]) /\ 1 \in 1..Len(contents[l])
              /\ First(l) = Node(contents[l][1]) /\ Last(l) = Node(contents[l][Len(contents[l])])
<1>1. Lined(contents, ln_Succ, ln_Pred, Lists)
  BY DEF PortsInv
<1>2. /\ l \in Headers /\ contents[l] \in Seq(Nodes)
      /\ \A n \in 0..Len(contents[l]) :
           /\ ln_Succ[Stage(contents[l], l, n)] = Stage(contents[l], l, n + 1)
           /\ ln_Pred[Stage(contents[l], l, n + 1)] = Stage(contents[l], l, n)
  BY <1>1, NextAndBefore
<1>3. PICK a \in Nat : a = Len(contents[l])
  BY <1>2, SeqFacts
<1>4. Stage(contents[l], l, 0) = Front(l) /\ Stage(contents[l], l, a + 1) = Back(l)
  BY <1>3 DEF Stage
<1>5. First(l) = Stage(contents[l], l, 1) /\ Last(l) = Stage(contents[l], l, a)
  <2>1. 0 \in 0..a /\ a \in 0..a /\ 0 + 1 = 1
    OBVIOUS
  <2> QED BY <1>2, <1>3, <1>4, <2>1 DEF First, Last
<1>6. CASE contents[l] = <<>>
  <2>1. a = 0
    BY <1>3, <1>6
  <2>2. First(l) = Back(l)
    BY <1>4, <1>5, <2>1
  <2>3. ln_Succ[Back(l)] = Nowhere
    BY <1>1 DEF Lined, Threaded
  <2> QED BY <1>3, <1>5, <1>6, <2>2, <2>3 DEF Empty
<1>7. CASE contents[l] # <<>>
  <2>1. a \in 1..a /\ 1 \in 1..a /\ 1 + 1 = 2 /\ 2 \in 0..a + 1 /\ 1 \in 0..a
    BY <1>2, <1>3, <1>7
  <2>2. ln_Succ[First(l)] = Stage(contents[l], l, 2)
    BY <1>2, <1>3, <1>5, <2>1
  <2>3. Stage(contents[l], l, 2) # Nowhere
    BY <1>2, <1>3, <2>1, StagesArePlaces
  <2>4. /\ Stage(contents[l], l, 1) = Node(contents[l][1])
        /\ Stage(contents[l], l, a) = Node(contents[l][a])
    BY <1>3, <2>1 DEF Stage
  <2> QED BY <1>3, <1>5, <1>7, <2>1, <2>2, <2>3, <2>4 DEF Empty
<1> QED BY <1>6, <1>7

LEMMA PutsInSequence ==
  ASSUME PortsInv, NEW l \in Lists, NEW n, NEW x, NEW op, Absent(contents, x),
         contents' = [contents EXCEPT ![l] = Spliced(contents[l], n, x)], last' = <<op, NULL>>
  PROVE  sequences!Put(op, l, n, x)
<1>1. sequences!Loose(x)
  BY QueueTypes DEF sequences!Loose, Absent
<1>2. contents' = [contents EXCEPT ![l] =
            SubSeq(contents[l], 1, n) \o <<x>> \o SubSeq(contents[l], n + 1, Len(contents[l]))]
  BY DEF Spliced
<1> QED BY <1>1, <1>2 DEF sequences!Put

LEMMA AddHeadPuts ==
  ASSUME PortsInv, NEW l \in Lists, NEW x \in Nodes, AddHead(l, x), Lists' = Lists
  PROVE  sequences!AddHead(l, x) /\ PutInto(l, x) /\ Lined(contents', ln_Succ', ln_Pred', Lists')
<1>1. Stage(contents[l], l, 0) = Front(l) /\ 0 \in 0..Len(contents[l])
  BY QueueTypes DEF Stage
<1>2. ~ OnList(x) /\ LinkAfter(Stage(contents[l], l, 0), Node(x)) /\ last' = <<"AddHead", NULL>>
  BY <1>1 DEF AddHead, Loose
<1>3. /\ Absent(contents, x) /\ contents' = [contents EXCEPT ![l] = Spliced(contents[l], 0, x)]
      /\ Lined(contents', ln_Succ', ln_Pred', Lists')
  BY <1>1, <1>2, LinkPuts
<1>4. sequences!Put("AddHead", l, 0, x)
  BY <1>2, <1>3, PutsInSequence
<1> QED BY <1>1, <1>3, <1>4 DEF sequences!AddHead, PutInto

\* AddTail, PutMsg, ReplyMsg and the answer to a packet.
LEMMA LinkBeforeBackPuts ==
  ASSUME PortsInv, NEW l \in Lists, NEW x \in Nodes, Loose(x), LinkBefore(Back(l), Node(x)),
         last' = <<"AddTail", NULL>>, Lists' = Lists
  PROVE  sequences!AddTail(l, x) /\ PutInto(l, x) /\ Lined(contents', ln_Succ', ln_Pred', Lists')
<1>0. PICK a \in Nat : a = Len(contents[l])
  BY QueueTypes
<1>1. Stage(contents[l], l, a + 1) = Back(l) /\ a \in 0..Len(contents[l])
  BY <1>0 DEF Stage
<1>2. ~ OnList(x) /\ LinkBefore(Stage(contents[l], l, a + 1), Node(x))
  BY <1>1 DEF Loose
<1>3. /\ Absent(contents, x) /\ contents' = [contents EXCEPT ![l] = Spliced(contents[l], a, x)]
      /\ Lined(contents', ln_Succ', ln_Pred', Lists')
  BY <1>1, <1>2, LinkPuts
<1>4. sequences!Put("AddTail", l, a, x)
  BY <1>3, PutsInSequence
<1> QED BY <1>0, <1>1, <1>3, <1>4 DEF sequences!AddTail, PutInto

LEMMA InsertPuts ==
  ASSUME PortsInv, NEW l \in Lists, NEW x \in Nodes,
         NEW pred \in {Front(l)} \union {Node(m) : m \in Elements(l)}, Insert(l, x, pred),
         Lists' = Lists
  PROVE  sequences!Insert(l, x) /\ PutInto(l, x) /\ Lined(contents', ln_Succ', ln_Pred', Lists')
<1>1. PICK a \in Nat : a = Len(contents[l]) /\ l \in Headers /\ DOMAIN contents[l] = 1..a
  BY QueueTypes
<1>2. PICK n \in 0..a : pred = Stage(contents[l], l, n)
  <2>1. CASE pred = Front(l)
    <3>1. Stage(contents[l], l, 0) = Front(l) /\ 0 \in 0..a
      BY DEF Stage
    <3> QED BY <2>1, <3>1
  <2>2. CASE pred # Front(l)
    <3>1. PICK m \in Elements(l) : pred = Node(m)
      BY <2>2
    <3>2. NodesOf(l) = contents[l]
      BY <1>1, NodesOfQueue
    <3>3. PICK n \in 1..a : m = contents[l][n]
      BY <3>2, <1>1 DEF Elements
    <3>4. Stage(contents[l], l, n) = pred /\ n \in 0..a
      BY <1>1, <3>1, <3>3 DEF Stage
    <3> QED BY <3>4
  <2> QED BY <2>1, <2>2
<1>3. ~ OnList(x) /\ LinkAfter(Stage(contents[l], l, n), Node(x)) /\ last' = <<"Insert", NULL>>
  BY <1>2 DEF Insert, Loose
<1>4. /\ Absent(contents, x) /\ contents' = [contents EXCEPT ![l] = Spliced(contents[l], n, x)]
      /\ Lined(contents', ln_Succ', ln_Pred', Lists')
  BY <1>1, <1>3, LinkPuts
<1>5. sequences!Put("Insert", l, n, x)
  BY <1>3, <1>4, PutsInSequence
<1> QED BY <1>1, <1>4, <1>5 DEF sequences!Insert, PutInto

\* Enqueue stops where Queues says the node belongs.
LEMMA StopIsAhead ==
  ASSUME PortsInv, NEW l \in Lists, NEW x \in Nodes
  PROVE  \E k \in 0..Len(contents[l]) : /\ sequences!Ahead(l, x) = k
                                      /\ Stop(l, x) = Stage(contents[l], l, k + 1)
<1> DEFINE Q == contents[l]
<1>1. PICK a \in Nat : a = Len(Q) /\ l \in Headers /\ DOMAIN Q = 1..a /\ Q \in Seq(Nodes)
  BY QueueTypes
<1>2. Chain(ln_Succ, First(l)) = Rest(Q, l, 1)
  BY ChainOfList DEF First, PortsInv
<1> DEFINE w == Rest(Q, l, 1)
           lower == {i \in DOMAIN w : i = Len(w) \/ Pri[w[i][1]] < Pri[x]}
           less == {i \in DOMAIN Q : Pri[Q[i]] < Pri[x]}
<1>3. DOMAIN w = 1..a + 1 /\ Len(w) = a + 1 /\ \A i \in 1..a + 1 : w[i] = Stage(Q, l, i)
  <2>1. Len(w) = a + 1 /\ \A i \in 1..a + 1 : w[i] = Stage(Q, l, i)
    BY <1>1, RestIsNodes
  <2>2. DOMAIN w = 1 .. Len(Q) + 2 - 1
    BY DEF Rest
  <2> QED BY <1>1, <2>1, <2>2
<1>4. \A i \in 1..a : w[i][1] = Q[i]
  <2> SUFFICES ASSUME NEW i \in 1..a PROVE w[i][1] = Q[i]
    OBVIOUS
  <2>1. w[i] = Stage(Q, l, i)
    BY <1>3
  <2>2. Stage(Q, l, i) = Node(Q[i])
    BY <1>1 DEF Stage
  <2> QED BY <2>1, <2>2 DEF Node
<1>5. Stop(l, x) = w[CHOOSE i \in lower : \A j \in lower : i <= j]
  BY <1>2, Zenon DEF Stop
<1>6. sequences!Ahead(l, x) = IF less = {} THEN Len(Q)
                              ELSE (CHOOSE i \in less : \A j \in less : i <= j) - 1
  BY DEF sequences!Ahead
<1> HIDE DEF w, Q
<1>7. lower = less \union {a + 1} /\ less \subseteq 1..a
  BY <1>1, <1>3, <1>4
<1> HIDE DEF lower, less
<1>8. CASE less = {}
  <2>1. lower = {a + 1}
    BY <1>7, <1>8
  <2>2. (CHOOSE i \in lower : \A j \in lower : i <= j) = a + 1
    BY <2>1
  <2>3. Stop(l, x) = Stage(Q, l, a + 1)
    <3>1. Stop(l, x) = w[a + 1]
      BY <1>5, <2>2, Zenon
    <3>2. a + 1 \in 1 .. a + 1
      BY <1>1
    <3> QED BY <1>3, <3>1, <3>2
  <2> QED BY <1>1, <1>6, <1>8, <2>3 DEF Q
<1>9. CASE less # {}
  <2>1. PICK k \in less : \A j \in less : k <= j
    <3>1. less \subseteq Nat
      BY <1>7
    <3> QED BY <1>9, <3>1, Least
  <2>2. k \in 1..a /\ k \in lower /\ \A j \in lower : k <= j
    BY <1>7, <2>1
  <2>3. (CHOOSE i \in less : \A j \in less : i <= j) = k
    <3>1. \A i \in less : (\A j \in less : i <= j) => i = k
      BY <1>7, <2>1
    <3> QED BY <2>1, <3>1
  <2>4. (CHOOSE i \in lower : \A j \in lower : i <= j) = k
    <3>1. \A i \in lower : (\A j \in lower : i <= j) => i = k
      BY <1>7, <2>2
    <3> QED BY <2>2, <3>1
  <2>5. Stop(l, x) = Stage(Q, l, k)
    <3>1. Stop(l, x) = w[k]
      BY <1>5, <2>4, Zenon
    <3>2. k \in 1 .. a + 1
      BY <2>2
    <3> QED BY <1>3, <3>1, <3>2
  <2>6. k - 1 \in 0..a /\ k - 1 + 1 = k
    BY <2>2
  <2> QED BY <1>1, <1>6, <1>9, <2>3, <2>5, <2>6 DEF Q
<1> QED BY <1>8, <1>9

LEMMA EnqueuePuts ==
  ASSUME PortsInv, NEW l \in Lists, NEW x \in Nodes, Enqueue(l, x), Lists' = Lists
  PROVE  sequences!Enqueue(l, x) /\ PutInto(l, x) /\ Lined(contents', ln_Succ', ln_Pred', Lists')
<1>1. PICK k \in 0..Len(contents[l]) : /\ sequences!Ahead(l, x) = k
                                     /\ Stop(l, x) = Stage(contents[l], l, k + 1)
  BY StopIsAhead
<1>2. ln_Pred[Stop(l, x)] = Stage(contents[l], l, k)
  BY <1>1, NextAndBefore DEF PortsInv
<1>3. ~ OnList(x) /\ LinkAfter(Stage(contents[l], l, k), Node(x)) /\ last' = <<"Enqueue", NULL>>
  BY <1>2 DEF Enqueue, Loose
<1>4. /\ Absent(contents, x) /\ contents' = [contents EXCEPT ![l] = Spliced(contents[l], k, x)]
      /\ Lined(contents', ln_Succ', ln_Pred', Lists')
  BY <1>3, LinkPuts
<1>5. sequences!Put("Enqueue", l, k, x)
  BY <1>3, <1>4, PutsInSequence
<1> QED BY <1>1, <1>4, <1>5 DEF sequences!Enqueue, PutInto

LEMMA CutsInSequence ==
  ASSUME PortsInv, NEW l \in Lists, NEW n \in 1..Len(contents[l]),
         remove_impl(Node(contents[l][n])), Lists' = Lists
  PROVE  /\ sequences!Cut(l, n) /\ CutFrom(l, contents[l][n])
         /\ Lined(contents', ln_Succ', ln_Pred', Lists')
<1>1. /\ contents' = [contents EXCEPT ![l] = Without(contents[l], n)]
      /\ Lined(contents', ln_Succ', ln_Pred', Lists')
  BY RemoveCuts
<1> QED BY <1>1 DEF sequences!Cut, Without, CutFrom

LEMMA RemoveRemoves ==
  ASSUME PortsInv, NEW x \in Nodes, Remove(x), Lists' = Lists
  PROVE  \E l \in Lists : /\ sequences!Remove(l) /\ CutFrom(l, x)
                          /\ Lined(contents', ln_Succ', ln_Pred', Lists')
<1>1. ~ Absent(contents, x)
  BY LooseIsAbsent DEF Remove, OnList, PortsInv
<1>2. PICK l \in Headers : \E n \in 1..Len(contents[l]) : contents[l][n] = x
  BY <1>1 DEF Absent
<1>3. PICK n \in 1..Len(contents[l]) : contents[l][n] = x
  BY <1>2
<1>4. l \in Lists
  <2>1. contents[l] # <<>>
    BY <1>3
  <2> QED BY <2>1 DEF PortsInv, Lined, Unmade
<1>5. remove_impl(Node(contents[l][n])) /\ last' = <<"Remove", NULL>>
  BY <1>3 DEF Remove
<1>6. /\ sequences!Cut(l, n) /\ CutFrom(l, x) /\ Lined(contents', ln_Succ', ln_Pred', Lists')
  BY <1>3, <1>4, <1>5, CutsInSequence
<1>7. n \in DOMAIN contents[l]
  BY <1>4, QueueTypes
<1> QED BY <1>4, <1>5, <1>6, <1>7 DEF sequences!Remove

\* Taking a node from either end, or none.
LEMMA RemHeadTakes ==
  ASSUME PortsInv, NEW l \in Lists, RemHead(l), Lists' = Lists
  PROVE  /\ Lined(contents', ln_Succ', ln_Pred', Lists')
         /\ \/ sequences!RemHead(l) /\ CutFrom(l, First(l)[1])
                 /\ asked' = [asked EXCEPT ![First(l)[1]] = NULL]
            \/ sequences!Find("RemHead", l) /\ contents' = contents /\ asked' = asked
<1>1. CASE Empty(l)
  <2>1. contents[l] = <<>>
    BY <1>1, ListEnds
  <2>2. /\ UNCHANGED <<ln_Succ, ln_Pred>> /\ last' = <<"RemHead", NULL>> /\ asked' = asked
    BY <1>1 DEF RemHead, TakeNode
  <2>3. contents' = contents /\ Lined(contents', ln_Succ', ln_Pred', Lists')
    BY <2>2, NothingMoves
  <2> QED BY <2>1, <2>2, <2>3 DEF sequences!Find
<1>2. CASE ~ Empty(l)
  <2>1. contents[l] # <<>> /\ 1 \in 1..Len(contents[l]) /\ First(l) = Node(contents[l][1])
    BY <1>2, ListEnds
  <2>2. /\ remove_impl(First(l)) /\ last' = <<"RemHead", First(l)[1]>>
        /\ asked' = [asked EXCEPT ![First(l)[1]] = NULL]
    BY <1>2 DEF RemHead, TakeNode
  <2>3. First(l)[1] = contents[l][1]
    BY <2>1 DEF Node
  <2>4. /\ sequences!Cut(l, 1) /\ CutFrom(l, contents[l][1])
        /\ Lined(contents', ln_Succ', ln_Pred', Lists')
    BY <2>1, <2>2, CutsInSequence
  <2>5. Head(contents[l]) = contents[l][1]
    OBVIOUS
  <2> QED BY <2>1, <2>2, <2>3, <2>4, <2>5 DEF sequences!RemHead
<1> QED BY <1>1, <1>2

LEMMA RemTailTakes ==
  ASSUME PortsInv, NEW l \in Lists, RemTail(l), Lists' = Lists
  PROVE  /\ Lined(contents', ln_Succ', ln_Pred', Lists')
         /\ \/ sequences!RemTail(l) /\ CutFrom(l, Last(l)[1])
                 /\ asked' = [asked EXCEPT ![Last(l)[1]] = NULL]
            \/ sequences!Find("RemTail", l) /\ contents' = contents /\ asked' = asked
<1>1. CASE Empty(l)
  <2>1. contents[l] = <<>>
    BY <1>1, ListEnds
  <2>2. /\ UNCHANGED <<ln_Succ, ln_Pred>> /\ last' = <<"RemTail", NULL>> /\ asked' = asked
    BY <1>1 DEF RemTail, TakeNode
  <2>3. contents' = contents /\ Lined(contents', ln_Succ', ln_Pred', Lists')
    BY <2>2, NothingMoves
  <2> QED BY <2>1, <2>2, <2>3 DEF sequences!Find
<1>2. CASE ~ Empty(l)
  <2>1. PICK a \in Nat : a = Len(contents[l])
    BY QueueTypes
  <2>2. a \in 1..Len(contents[l]) /\ Last(l) = Node(contents[l][a])
    BY <1>2, <2>1, ListEnds
  <2>3. /\ remove_impl(Last(l)) /\ last' = <<"RemTail", Last(l)[1]>>
        /\ asked' = [asked EXCEPT ![Last(l)[1]] = NULL]
    BY <1>2 DEF RemTail, TakeNode
  <2>4. Last(l)[1] = contents[l][a]
    BY <2>2 DEF Node
  <2>5. /\ sequences!Cut(l, a) /\ CutFrom(l, contents[l][a])
        /\ Lined(contents', ln_Succ', ln_Pred', Lists')
    BY <2>2, <2>3, CutsInSequence
  <2>6. a > 0
    BY <2>1, <2>2
  <2>7. sequences!RemTail(l)
    BY <2>1, <2>3, <2>4, <2>5, <2>6 DEF sequences!RemTail
  <2> QED BY <2>3, <2>4, <2>5, <2>7
<1> QED BY <1>1, <1>2

LEMMA WaitPortLooks ==
  ASSUME PortsInv, NEW l \in Lists, WaitPort(l), Lists' = Lists
  PROVE  /\ Lined(contents', ln_Succ', ln_Pred', Lists') /\ contents' = contents
         /\ sequences!Look(l) \/ sequences!Other
<1>1. contents' = contents /\ Lined(contents', ln_Succ', ln_Pred', Lists')
  BY NothingMoves DEF WaitPort
<1>2. CASE Empty(l)
  <2>1. last' = <<"none", NULL>>
    BY <1>2 DEF WaitPort
  <2> QED BY <1>1, <2>1 DEF sequences!Other
<1>3. CASE ~ Empty(l)
  <2>1. contents[l] # <<>> /\ First(l) = Node(contents[l][1])
    BY <1>3, ListEnds
  <2>2. last' = <<"WaitPort", First(l)[1]>>
    BY <1>3 DEF WaitPort
  <2>3. First(l)[1] = Head(contents[l])
    BY <2>1 DEF Node
  <2> QED BY <1>1, <2>1, <2>2, <2>3 DEF sequences!Look
<1> QED BY <1>2, <1>3

\* A new port is an empty list; a deleted one was.
LEMMA PortMade ==
  ASSUME PortsInv, NEW l \in MsgPorts, CreateMsgPort(l)
  PROVE  /\ contents' = contents /\ Lined(contents', ln_Succ', ln_Pred', Lists')
         /\ sequences!Other
<1>1. Lined(contents, ln_Succ, ln_Pred, Lists) /\ ports \subseteq MsgPorts
  BY DEF PortsInv, Shape
<1>2. l \in Headers /\ l \notin Lists
  BY NodesAssumption DEF CreateMsgPort, Headers, Lists
<1>3. contents[l] = <<>>
  BY <1>1, <1>2 DEF Lined, Unmade
<1>4. Lists' = Lists \union {l} /\ last' = <<"none", NULL>>
  BY DEF CreateMsgPort, Lists
<1>5. /\ ln_Succ \in [Places -> Places \union {Nowhere}]
      /\ ln_Pred \in [Places -> Places \union {Nowhere}]
      /\ contents \in [Headers -> Seq(Nodes)] /\ Singly(contents) /\ Lists \subseteq Headers
  BY <1>1 DEF Lined
<1>6. Front(l) \in Places /\ Back(l) \in Places /\ Front(l) # Back(l)
  BY <1>2 DEF Places, Front, Back
<1>7. /\ ln_Succ' \in [Places -> Places \union {Nowhere}]
      /\ ln_Pred' \in [Places -> Places \union {Nowhere}]
      /\ ln_Succ'[Front(l)] = Back(l) /\ ln_Succ'[Back(l)] = Nowhere /\ ln_Pred'[Back(l)] = Front(l)
      /\ \A e \in Places : e # Front(l) /\ e # Back(l) =>
           ln_Succ'[e] = ln_Succ[e] /\ ln_Pred'[e] = ln_Pred[e]
  <2>1. /\ ln_Succ' = [ln_Succ EXCEPT ![Front(l)] = Back(l), ![Back(l)] = Nowhere]
        /\ ln_Pred' = [ln_Pred EXCEPT ![Back(l)] = Front(l), ![Front(l)] = Nowhere]
    BY DEF CreateMsgPort, init_list_header
  <2> QED BY <1>5, <1>6, <2>1
<1>8. Threaded(contents[l], l, ln_Succ', ln_Pred')
  <2>1. Len(contents[l]) = 0
    BY <1>3
  <2>2. Stage(contents[l], l, 0) = Front(l) /\ Stage(contents[l], l, 1) = Back(l)
    BY <2>1 DEF Stage
  <2>3. \A i \in 0..Len(contents[l]) : i = 0
    BY <2>1
  <2> QED BY <1>7, <2>2, <2>3 DEF Threaded
<1>9. ASSUME NEW m \in Headers
      PROVE  IF m \in Lists' THEN Threaded(contents[m], m, ln_Succ', ln_Pred')
             ELSE Unmade(contents[m], m, ln_Succ')
  <2>1. CASE m = l
    BY <1>4, <1>8, <2>1
  <2>2. CASE m # l
    <3>1. contents[m] \in Seq(Nodes) /\ contents[l] \in Seq(Nodes)
      BY <1>2, <1>5
    <3>2. ASSUME NEW i \in 0 .. Len(contents[m]) + 1
          PROVE  /\ ln_Succ'[Stage(contents[m], m, i)] = ln_Succ[Stage(contents[m], m, i)]
                 /\ ln_Pred'[Stage(contents[m], m, i)] = ln_Pred[Stage(contents[m], m, i)]
      <4>1. Stage(contents[m], m, i) \in Places
        BY <3>1, StagesArePlaces
      <4>2. /\ Stage(contents[l], l, 0) = Front(l) /\ Stage(contents[l], l, 1) = Back(l)
            /\ Len(contents[l]) = 0
        BY <1>3 DEF Stage
      <4>3. 0 \in 0 .. Len(contents[l]) + 1 /\ 1 \in 0 .. Len(contents[l]) + 1
        BY <4>2
      <4>4. /\ Stage(contents[m], m, i) # Stage(contents[l], l, 0)
            /\ Stage(contents[m], m, i) # Stage(contents[l], l, 1)
        BY <1>2, <1>5, <2>2, <4>3, StagesDiffer
      <4> QED BY <1>7, <4>1, <4>2, <4>4
    <3>3. /\ Threaded(contents[m], m, ln_Succ, ln_Pred) =>
               Threaded(contents[m], m, ln_Succ', ln_Pred')
          /\ Unmade(contents[m], m, ln_Succ) => Unmade(contents[m], m, ln_Succ')
      BY <3>1, <3>2, ThreadKept
    <3>4. IF m \in Lists
             THEN Threaded(contents[m], m, ln_Succ, ln_Pred)
             ELSE Unmade(contents[m], m, ln_Succ)
      BY <1>1 DEF Lined
    <3> QED BY <1>4, <2>2, <3>3, <3>4
  <2> QED BY <2>1, <2>2
<1>10. ASSUME NEW n \in Nodes, Absent(contents, n) PROVE ln_Succ'[Node(n)] = Nowhere
  <2>1. ln_Succ[Node(n)] = Nowhere
    BY <1>1, <1>10 DEF Lined
  <2>2. Node(n) \in Places /\ Node(n) # Front(l) /\ Node(n) # Back(l)
    BY <1>2, PlacesDiffer
  <2> QED BY <1>7, <2>1, <2>2
<1>11. Lists' \subseteq Headers
  BY <1>2, <1>4, <1>5
<1>12. Lined(contents, ln_Succ', ln_Pred', Lists')
  BY <1>5, <1>7, <1>9, <1>10, <1>11 DEF Lined
<1>13. contents' = contents /\ Lined(contents', ln_Succ', ln_Pred', Lists')
  BY <1>12, QueuesBecome
<1> QED BY <1>4, <1>13 DEF sequences!Other

LEMMA PortDeleted ==
  ASSUME PortsInv, NEW l \in ports, DeleteMsgPort(l)
  PROVE  /\ contents' = contents /\ Lined(contents', ln_Succ', ln_Pred', Lists')
         /\ sequences!Other /\ contents[l] = <<>>
<1>1. Lined(contents, ln_Succ, ln_Pred, Lists) /\ ports \subseteq MsgPorts
  BY DEF PortsInv, Shape
<1>2. l \in Lists /\ Lists' = Lists \ {l}
  BY <1>1, NodesAssumption DEF DeleteMsgPort, Lists
<1>3. contents[l] = <<>>
  BY <1>2, ListEnds DEF DeleteMsgPort
<1>4. UNCHANGED <<ln_Succ, ln_Pred>> /\ last' = <<"none", NULL>>
  BY DEF DeleteMsgPort
<1>5. Unmade(contents[l], l, ln_Succ)
  <2>1. First(l) = Stage(contents[l], l, 1)
    BY <1>2, ListEnds
  <2>2. Stage(contents[l], l, 1) = Back(l)
    BY <1>3 DEF Stage
  <2>3. ln_Succ[Back(l)] = Nowhere
    BY <1>1, <1>2 DEF Lined, Threaded
  <2> QED BY <1>3, <2>1, <2>2, <2>3 DEF Unmade, First
<1>6. Lined(contents, ln_Succ', ln_Pred', Lists')
  BY <1>1, <1>2, <1>4, <1>5 DEF Lined
<1>7. contents' = contents /\ Lined(contents', ln_Succ', ln_Pred', Lists')
  BY <1>6, QueuesBecome
<1> QED BY <1>3, <1>4, <1>7 DEF sequences!Other

LEMMA PortsInvInit ==
  ASSUME PortsInit
  PROVE  PortsInv /\ contents = [l \in Headers |-> <<>>]
<1> DEFINE q == [l \in Headers |-> <<>>]
           blank == [e \in Places |-> Nowhere]
<1>1. Lists = OtherLists /\ Lists \subseteq Headers
  BY DEF PortsInit, Lists, Headers
<1>2. /\ ln_Succ = [e \in Places |-> IF e[1] \in OtherLists
                                        THEN init_list_header(blank, e[1], "succ")[e]
                                     ELSE Nowhere]
      /\ ln_Pred = [e \in Places |-> IF e[1] \in OtherLists
                                        THEN init_list_header(blank, e[1], "pred")[e]
                                     ELSE Nowhere]
  BY DEF PortsInit
<1>3. ASSUME NEW l \in Headers
      PROVE  /\ Front(l) \in Places /\ Back(l) \in Places /\ Front(l) # Back(l)
             /\ Front(l)[1] = l /\ Back(l)[1] = l
  BY DEF Places, Front, Back
<1>4. ASSUME NEW l \in OtherLists
      PROVE  /\ ln_Succ[Front(l)] = Back(l) /\ ln_Succ[Back(l)] = Nowhere
             /\ ln_Pred[Back(l)] = Front(l) /\ ln_Pred[Front(l)] = Nowhere
  <2>1. /\ Front(l) \in Places /\ Back(l) \in Places /\ Front(l) # Back(l)
        /\ Front(l)[1] = l /\ Back(l)[1] = l
    BY <1>3 DEF Headers
  <2>2. /\ init_list_header(blank, l, "succ") =
             [blank EXCEPT ![Front(l)] = Back(l), ![Back(l)] = Nowhere]
        /\ init_list_header(blank, l, "pred") =
             [blank EXCEPT ![Back(l)] = Front(l), ![Front(l)] = Nowhere]
    BY DEF init_list_header
  <2>3. /\ ln_Succ[Front(l)] = init_list_header(blank, l, "succ")[Front(l)]
        /\ ln_Succ[Back(l)] = init_list_header(blank, l, "succ")[Back(l)]
        /\ ln_Pred[Back(l)] = init_list_header(blank, l, "pred")[Back(l)]
        /\ ln_Pred[Front(l)] = init_list_header(blank, l, "pred")[Front(l)]
    BY <1>2, <2>1
  <2> QED BY <2>1, <2>2, <2>3
<1>5. ASSUME NEW l \in Headers, l \notin OtherLists
      PROVE  ln_Succ[Front(l)] = Nowhere /\ ln_Succ[Back(l)] = Nowhere
  BY <1>2, <1>3, <1>5
<1>6. ASSUME NEW n \in Nodes PROVE ln_Succ[Node(n)] = Nowhere
  <2>1. Node(n) \in Places /\ Node(n)[1] = n /\ n \notin OtherLists
    BY NodesAssumption DEF Places, Node, Headers
  <2> QED BY <1>2, <2>1
<1>7. /\ ln_Succ \in [Places -> Places \union {Nowhere}]
      /\ ln_Pred \in [Places -> Places \union {Nowhere}]
  <2>1. ASSUME NEW e \in Places
        PROVE  ln_Succ[e] \in Places \union {Nowhere} /\ ln_Pred[e] \in Places \union {Nowhere}
    <3>1. CASE e[1] \notin OtherLists
      BY <1>2, <3>1
    <3>2. CASE e[1] \in OtherLists
      <4>1. PICK l \in Headers : l = e[1] /\ l \in OtherLists
        BY <3>2 DEF Headers
      <4>2. e = Front(l) \/ e = Back(l)
        <5>1. \A n \in Nodes : e # Node(n)
          BY <4>1, NodesAssumption DEF Node
        <5>2. \A m \in Headers : e = Front(m) \/ e = Back(m) => m = l
          BY <1>3, <4>1
        <5> QED BY <5>1, <5>2 DEF Places
      <4> QED BY <1>3, <1>4, <4>1, <4>2
    <3> QED BY <3>1, <3>2
  <2>2. /\ DOMAIN ln_Succ = Places /\ ln_Pred = [e \in Places |-> ln_Pred[e]]
        /\ ln_Succ = [e \in Places |-> ln_Succ[e]]
    BY <1>2
  <2> QED BY <2>1, <2>2
<1>8. q \in [Headers -> Seq(Nodes)] /\ \A l \in Headers : q[l] = <<>> /\ Len(q[l]) = 0
  OBVIOUS
<1> HIDE DEF q
<1>9. Singly(q)
  BY <1>8 DEF Singly
<1>10. ASSUME NEW l \in Headers
       PROVE  IF l \in Lists THEN Threaded(q[l], l, ln_Succ, ln_Pred) ELSE Unmade(q[l], l, ln_Succ)
  <2>1. CASE l \in OtherLists
    <3>1. Stage(q[l], l, 0) = Front(l) /\ Stage(q[l], l, 1) = Back(l)
      BY <1>8 DEF Stage
    <3>2. \A i \in 0..Len(q[l]) : i = 0
      BY <1>8
    <3>3. Threaded(q[l], l, ln_Succ, ln_Pred)
      BY <1>4, <2>1, <3>1, <3>2 DEF Threaded
    <3> QED BY <1>1, <2>1, <3>3
  <2>2. CASE l \notin OtherLists
    BY <1>1, <1>5, <1>8, <2>2 DEF Unmade
  <2> QED BY <2>1, <2>2
<1>11. Lined(q, ln_Succ, ln_Pred, Lists)
  BY <1>1, <1>6, <1>7, <1>8, <1>9, <1>10 DEF Lined
<1>12. contents = q
  BY <1>11, QueuesNow, QueuesRead
<1>13. Shape
  BY DEF PortsInit, Shape
<1> QED BY <1>11, <1>12, <1>13 DEF PortsInv, q

LEMMA ShapeNext ==
  ASSUME Shape, PortsNext
  PROVE  Shape'
<1> USE DEF Shape
<1>1. \A p \in MsgPorts : p # NULL
  BY NodesAssumption DEF Headers
<1>2. ASSUME UNCHANGED <<ln_Type, mn_ReplyPort, ports, requests>> PROVE Shape'
  BY <1>2
<1>3. ASSUME NEW n \in Nodes, NEW t \in {"NT_MESSAGE", "NT_REPLYMSG"},
             ln_Type' = [ln_Type EXCEPT ![n] = t],
             UNCHANGED <<mn_ReplyPort, ports, requests>>
      PROVE  Shape'
  BY <1>3
<1>4. ASSUME NEW n \in Nodes, NEW p \in ports \union {NULL}, CreateIORequest(n, p) PROVE Shape'
  BY <1>4 DEF CreateIORequest
<1>5. ASSUME NEW n \in Nodes, DeleteIORequest(n) PROVE Shape'
  BY <1>5 DEF DeleteIORequest
<1>6. ASSUME NEW p \in MsgPorts, CreateMsgPort(p) PROVE Shape'
  BY <1>6 DEF CreateMsgPort
<1>7. ASSUME NEW p \in ports, DeleteMsgPort(p) PROVE Shape'
  <2>1. ports' = ports \ {p} /\ UNCHANGED <<ln_Type, mn_ReplyPort, requests>>
        /\ \A n \in requests : mn_ReplyPort[n] # p
    BY <1>7 DEF DeleteMsgPort
  <2>2. \A n \in Nodes : mn_ReplyPort[n] # p
    BY <1>1, <2>1
  <2> QED BY <2>1, <2>2
<1>8. ASSUME NEW n \in Nodes, NEW p \in ports, PutMsg(p, n) \/ handle_fs_packet(p, n) PROVE Shape'
  <2>1. \E t \in {"NT_MESSAGE", "NT_REPLYMSG"} : ln_Type' = [ln_Type EXCEPT ![n] = t]
    BY <1>8 DEF PutMsg, handle_fs_packet, put_msg_impl
  <2>2. UNCHANGED <<mn_ReplyPort, ports, requests>>
    BY <1>8 DEF PutMsg, handle_fs_packet
  <2> QED BY <1>3, <2>1, <2>2
<1>9. ASSUME NEW n \in Nodes, ReplyMsg(n) PROVE Shape'
  <2>1. /\ ln_Type' = [ln_Type EXCEPT ![n] = "NT_REPLYMSG"]
        /\ UNCHANGED <<mn_ReplyPort, ports, requests>>
    BY <1>9 DEF ReplyMsg, reply_msg, put_msg_impl
  <2> QED BY <1>3, <2>1
<1>10. ASSUME NEW n \in Nodes, Remove(n) PROVE Shape'
  BY <1>2, <1>10 DEF Remove
<1>11. ASSUME NEW n \in Nodes, NEW l \in OtherLists, AddHead(l, n) \/ AddTail(l, n) \/ Enqueue(l, n)
       PROVE Shape'
  BY <1>2, <1>11 DEF AddHead, AddTail, Enqueue
<1>12. ASSUME NEW n \in Nodes, NEW l \in OtherLists, NEW pred, Insert(l, n, pred) PROVE Shape'
  BY <1>2, <1>12 DEF Insert
<1>13. ASSUME NEW l \in Lists, RemHead(l) \/ RemTail(l) PROVE Shape'
  BY <1>2, <1>13 DEF RemHead, RemTail, TakeNode
<1>14. ASSUME NEW p \in ports, WaitPort(p) PROVE Shape'
  BY <1>2, <1>14 DEF WaitPort
<1> QED BY <1>4, <1>5, <1>6, <1>7, <1>8, <1>9, <1>10, <1>11, <1>12, <1>13, <1>14 DEF PortsNext

LEMMA PortsStep ==
  ASSUME PortsInv, PortsNext
  PROVE  sequences!Next /\ Lined(contents', ln_Succ', ln_Pred', Lists')
<1> DEFINE Goal == sequences!Next /\ Lined(contents', ln_Succ', ln_Pred', Lists')
<1>1. OtherLists \subseteq Lists /\ ports \subseteq Lists /\ Lists \subseteq Headers
  BY DEF Lists, PortsInv, Shape, Headers
<1>2. ports' = ports => Lists' = Lists
  BY DEF Lists
<1>3. ASSUME NEW l \in Lists, NEW x \in Nodes, sequences!AddHead(l, x) \/ sequences!AddTail(l, x)
                                              \/ sequences!Insert(l, x) \/ sequences!Enqueue(l, x)
      PROVE  sequences!Next
  BY <1>1, <1>3 DEF sequences!Next
<1>4. ASSUME NEW l \in Lists, \/ sequences!Remove(l) \/ sequences!RemHead(l) \/ sequences!RemTail(l)
                             \/ sequences!Look(l) \/ sequences!Find("RemHead", l)
                             \/ sequences!Find("RemTail", l)
      PROVE  sequences!Next
  BY <1>1, <1>4 DEF sequences!Next
<1>5. sequences!Other => sequences!Next
  BY DEF sequences!Next
<1>6. ASSUME NEW n \in Nodes, NEW l \in OtherLists, AddHead(l, n) PROVE Goal
  BY <1>1, <1>2, <1>3, <1>6, AddHeadPuts DEF AddHead
<1>7. ASSUME NEW n \in Nodes, NEW l \in OtherLists, AddTail(l, n) PROVE Goal
  BY <1>1, <1>2, <1>3, <1>7, LinkBeforeBackPuts DEF AddTail
<1>8. ASSUME NEW n \in Nodes, NEW l \in OtherLists, Enqueue(l, n) PROVE Goal
  BY <1>1, <1>2, <1>3, <1>8, EnqueuePuts DEF Enqueue
<1>9. ASSUME NEW n \in Nodes, NEW l \in OtherLists,
             NEW pred \in {Front(l)} \union {Node(m) : m \in Elements(l)}, Insert(l, n, pred)
      PROVE  Goal
  <2>1. Lists' = Lists /\ l \in Lists
    BY <1>1, <1>2, <1>9 DEF Insert
  <2>2. sequences!Insert(l, n) /\ Lined(contents', ln_Succ', ln_Pred', Lists')
    BY <1>9, <2>1, InsertPuts
  <2> QED BY <1>3, <2>1, <2>2
<1>10. ASSUME NEW n \in Nodes, NEW p \in ports, NEW t, put_msg_impl(p, n, t), Loose(n),
              ports' = ports
       PROVE  Goal
  <2>1. LinkBefore(Back(p), Node(n)) /\ last' = <<"AddTail", NULL>> /\ p \in Lists /\ Lists' = Lists
    BY <1>1, <1>2, <1>10 DEF put_msg_impl
  <2>2. sequences!AddTail(p, n) /\ Lined(contents', ln_Succ', ln_Pred', Lists')
    BY <1>10, <2>1, LinkBeforeBackPuts
  <2> QED BY <1>3, <2>1, <2>2
<1>11. ASSUME NEW n \in Nodes, NEW p \in ports, PutMsg(p, n) PROVE Goal
  BY <1>10, <1>11 DEF PutMsg
<1>12. ASSUME NEW n \in Nodes, NEW p \in ports, handle_fs_packet(p, n) PROVE Goal
  BY <1>10, <1>12 DEF handle_fs_packet
<1>13. ASSUME UNCHANGED <<ln_Succ, ln_Pred, ports>>, last' = <<"none", NULL>> PROVE Goal
  <2>1. contents' = contents /\ Lined(contents', ln_Succ', ln_Pred', Lists')
    BY <1>2, <1>13, NothingMoves
  <2> QED BY <1>5, <1>13, <2>1 DEF sequences!Other
<1>14. ASSUME NEW n \in Nodes, ReplyMsg(n) PROVE Goal
  <2>1. Loose(n) /\ ports' = ports
    BY <1>14 DEF ReplyMsg, reply_msg
  <2>2. CASE mn_ReplyPort[n] # NULL /\ put_msg_impl(mn_ReplyPort[n], n, "NT_REPLYMSG")
    <3>1. mn_ReplyPort[n] \in ports
      BY <2>2 DEF PortsInv, Shape
    <3> QED BY <1>10, <2>1, <2>2, <3>1
  <2>3. CASE mn_ReplyPort[n] = NULL /\ last' = <<"none", NULL>> /\ UNCHANGED <<ln_Succ, ln_Pred>>
    BY <1>13, <2>1, <2>3
  <2> QED BY <1>14, <2>2, <2>3 DEF ReplyMsg, reply_msg
<1>15. ASSUME NEW n \in Nodes, Remove(n) PROVE Goal
  <2>1. Lists' = Lists
    BY <1>2, <1>15 DEF Remove
  <2> QED BY <1>4, <1>15, <2>1, RemoveRemoves
<1>16. ASSUME NEW n \in Nodes, DeleteIORequest(n) PROVE Goal
  BY <1>13, <1>16 DEF DeleteIORequest
<1>17. ASSUME NEW n \in Nodes, NEW p \in ports \union {NULL}, CreateIORequest(n, p) PROVE Goal
  BY <1>13, <1>17 DEF CreateIORequest
<1>18. ASSUME NEW l \in Lists, RemHead(l) PROVE Goal
  <2>1. Lists' = Lists
    BY <1>2, <1>18 DEF RemHead, TakeNode
  <2> QED BY <1>4, <1>18, <2>1, RemHeadTakes
<1>19. ASSUME NEW l \in Lists, RemTail(l) PROVE Goal
  <2>1. Lists' = Lists
    BY <1>2, <1>19 DEF RemTail, TakeNode
  <2> QED BY <1>4, <1>19, <2>1, RemTailTakes
<1>20. ASSUME NEW p \in ports, WaitPort(p) PROVE Goal
  <2>1. Lists' = Lists /\ p \in Lists
    BY <1>1, <1>2, <1>20 DEF WaitPort
  <2> QED BY <1>4, <1>5, <1>20, <2>1, WaitPortLooks
<1>21. ASSUME NEW p \in ports, DeleteMsgPort(p) PROVE Goal
  BY <1>5, <1>21, PortDeleted
<1>22. ASSUME NEW p \in MsgPorts, CreateMsgPort(p) PROVE Goal
  BY <1>5, <1>22, PortMade
<1> HIDE DEF Goal
<1>23. Goal
  BY <1>6, <1>7, <1>8, <1>9, <1>11, <1>12, <1>14, <1>15, <1>16, <1>17, <1>18, <1>19, <1>20, <1>21,
     <1>22 DEF PortsNext
<1> QED BY <1>23 DEF Goal

LEMMA PortsInvNext ==
  ASSUME PortsInv, [PortsNext]_portVars
  PROVE  PortsInv'
<1>1. CASE PortsNext
  <2>1. Shape' /\ Lined(contents', ln_Succ', ln_Pred', Lists')
    BY <1>1, ShapeNext, PortsStep DEF PortsInv
  <2>2. (Lined(contents, ln_Succ, ln_Pred, Lists))' <=> Lined(contents', ln_Succ', ln_Pred', Lists')
    BY DEF Lined, Threaded, Unmade, Singly, Absent, Stage
  <2> QED BY <2>1, <2>2 DEF PortsInv
<1>2. CASE UNCHANGED portVars
  BY <1>2 DEF portVars, PortsInv, Shape, Lined, contents, NodesOf, Lists
<1> QED BY <1>1, <1>2

\* For any ports, lists, nodes and priorities, whichever calls are mixed: all
\* that is done through the pointers of neighbours and of the two sentinels of
\* a header is what sequences would do; a node is in one place or in none, and
\* each call finds, links and unlinks what its name says.
THEOREM PortsAreSequences == PortsSpec => PortsAreQueues
<1>1. PortsInit => sequences!Init
  <2>1. PortsInit => last = <<"none", NULL>>
    BY DEF PortsInit
  <2> QED BY <2>1, PortsInvInit DEF sequences!Init
<1>2. PortsInv /\ [PortsNext]_portVars => [sequences!Next]_(sequences!vars)
  <2>1. PortsInv /\ PortsNext => sequences!Next
    BY PortsStep
  <2>2. UNCHANGED portVars => UNCHANGED sequences!vars
    BY DEF portVars, sequences!vars, contents, NodesOf, Lists
  <2> QED BY <2>1, <2>2
<1>3. PortsInit => PortsInv
  BY PortsInvInit
<1>4. PortsInv /\ [PortsNext]_portVars => PortsInv'
  BY PortsInvNext
<1> QED BY <1>1, <1>2, <1>3, <1>4, PTL DEF PortsSpec, PortsAreQueues, sequences!Spec

-----------------------------------------------------------------------------
(* PacketsAnswered of ExecPorts.  What is on a list exists (Known), so that a
   block that is made into a request is no packet; and an answer stays where it
   was put until it is taken, when the history forgets it. *)

Members(Q) == {Q[i] : i \in 1..Len(Q)}
Known(q, made) == \A l \in Headers : Members(q[l]) \subseteq made
Answered(q, as, ty, po) == \A n \in Nodes : as[n] # NULL =>
  ty[n] = "NT_REPLYMSG" /\ as[n] \in po /\ n \in Members(q[as[n]])
PacketInv ==
  /\ PortsInv /\ Known(contents, requests)
  /\ asked \in [Nodes -> MsgPorts \union {NULL}]
  /\ Answered(contents, asked, ln_Type, ports)

LEMMA MembersPut ==
  ASSUME PortsInv, NEW l \in Lists, NEW x \in Nodes, PutInto(l, x)
  PROVE  /\ Absent(contents, x)
         /\ \A m \in Headers : Members(contents'[m]) =
               IF m = l THEN Members(contents[m]) \union {x} ELSE Members(contents[m])
<1>1. PICK n \in 0..Len(contents[l]) :
        Absent(contents, x) /\ contents' = [contents EXCEPT ![l] = Spliced(contents[l], n, x)]
  BY DEF PutInto
<1>2. contents \in [Headers -> Seq(Nodes)] /\ l \in Headers
  BY QueueTypes
<1> DEFINE H == Spliced(contents[l], n, x)
<1>3. PICK Q \in Seq(Nodes) : Q = contents[l]
  BY <1>2
<1>4. /\ Len(Spliced(Q, n, x)) = Len(Q) + 1
      /\ \A i \in 1..n : Spliced(Q, n, x)[i] = Q[i]
      /\ Spliced(Q, n, x)[n + 1] = x
      /\ \A i \in n + 2 .. Len(Q) + 1 : Spliced(Q, n, x)[i] = Q[i - 1]
  <2>1. n \in 0..Len(Q)
    BY <1>3, <1>1
  <2> QED BY <2>1, SplicedElements, Zenon
<1>5. PICK a \in Nat : a = Len(Q)
  OBVIOUS
<1>6. n \in 0..a
  BY <1>3, <1>5
<1> DEFINE G == Spliced(Q, n, x)
<1> HIDE DEF G
<1>7. /\ Len(G) = a + 1 /\ G[n + 1] = x
      /\ \A i \in 1..n : G[i] = Q[i]
      /\ \A i \in n + 2 .. a + 1 : G[i] = Q[i - 1]
  BY <1>4, <1>5 DEF G
<1>8. Members(G) = Members(Q) \union {x}
  <2>1. ASSUME NEW i \in 1 .. a + 1 PROVE G[i] \in Members(Q) \union {x}
    <3>1. CASE i \in 1..n
      BY <1>5, <1>6, <1>7, <3>1 DEF Members
    <3>2. CASE i = n + 1
      BY <1>7, <3>2
    <3>3. CASE i \in n + 2 .. a + 1
      <4>1. i - 1 \in 1..a
        BY <1>6, <3>3
      <4> QED BY <1>5, <1>7, <3>3, <4>1 DEF Members
    <3> QED BY <1>6, <3>1, <3>2, <3>3
  <2>2. ASSUME NEW i \in 1..a PROVE Q[i] \in Members(G)
    <3>1. CASE i \in 1..n
      <4>1. i \in 1..Len(G) /\ G[i] = Q[i]
        BY <1>7, <3>1
      <4> QED BY <4>1 DEF Members
    <3>2. CASE i \notin 1..n
      <4>1. i + 1 \in n + 2 .. a + 1 /\ i + 1 - 1 = i /\ i + 1 \in 1 .. a + 1
        BY <1>6, <3>2
      <4>2. G[i + 1] = Q[i]
        BY <1>7, <4>1
      <4> QED BY <1>7, <4>1, <4>2 DEF Members
    <3> QED BY <3>1, <3>2
  <2>3. x \in Members(G)
    <3>1. n + 1 \in 1..a + 1
      BY <1>6
    <3> QED BY <1>7, <3>1 DEF Members
  <2> QED BY <1>5, <1>7, <2>1, <2>2, <2>3 DEF Members
<1>9. contents'[l] = G /\ \A m \in Headers : m # l => contents'[m] = contents[m]
  BY <1>1, <1>2, <1>3 DEF G
<1>10. ASSUME NEW m \in Headers
       PROVE  Members(contents'[m]) =
                IF m = l THEN Members(contents[m]) \union {x} ELSE Members(contents[m])
  <2>1. CASE m = l
    <3>1. Members(contents'[m]) = Members(G) /\ Members(contents[m]) = Members(Q)
      BY <1>3, <1>9, <2>1, Zenon
    <3> QED BY <1>8, <2>1, <3>1, Zenon
  <2>2. CASE m # l
    <3>1. contents'[m] = contents[m]
      BY <1>9, <2>2
    <3> QED BY <2>2, <3>1, Zenon
  <2> QED BY <2>1, <2>2
<1> QED BY <1>1, <1>10

LEMMA MembersCut ==
  ASSUME PortsInv, NEW l \in Lists, NEW x, CutFrom(l, x)
  PROVE  /\ \A m \in Headers : Members(contents'[m]) \subseteq Members(contents[m])
         /\ \A m \in Headers : Members(contents[m]) \subseteq Members(contents'[m]) \union {x}
<1>1. PICK n \in 1..Len(contents[l]) :
        contents[l][n] = x /\ contents' = [contents EXCEPT ![l] = Without(contents[l], n)]
  BY DEF CutFrom
<1>2. contents \in [Headers -> Seq(Nodes)] /\ l \in Headers
  BY QueueTypes
<1>3. PICK Q \in Seq(Nodes) : Q = contents[l]
  BY <1>2
<1>4. /\ Len(Without(Q, n)) = Len(Q) - 1
      /\ \A i \in 1 .. n - 1 : Without(Q, n)[i] = Q[i]
      /\ \A i \in n .. Len(Q) - 1 : Without(Q, n)[i] = Q[i + 1]
  BY <1>3, <1>1, WithoutElements
<1>5. PICK a \in Nat : a = Len(Q)
  OBVIOUS
<1>6. n \in 1..a
  BY <1>3, <1>5
<1> DEFINE G == Without(Q, n)
<1> HIDE DEF G
<1>7. /\ Len(G) = a - 1
      /\ \A i \in 1 .. n - 1 : G[i] = Q[i]
      /\ \A i \in n .. a - 1 : G[i] = Q[i + 1]
  BY <1>4, <1>5 DEF G
<1>8. Members(G) \subseteq Members(Q)
  <2>1. ASSUME NEW i \in 1 .. a - 1 PROVE G[i] \in Members(Q)
    <3>1. CASE i \in 1 .. n - 1
      BY <1>5, <1>6, <1>7, <3>1 DEF Members
    <3>3. CASE i \in n .. a - 1
      <4>1. i + 1 \in 1..a
        BY <1>6, <3>3
      <4> QED BY <1>5, <1>7, <3>3, <4>1 DEF Members
    <3> QED BY <1>6, <3>1, <3>3
  <2> QED BY <1>7, <2>1 DEF Members
<1>9. Members(Q) \subseteq Members(G) \union {x}
  <2>2. ASSUME NEW i \in 1..a PROVE Q[i] \in Members(G) \union {x}
    <3>1. CASE i \in 1 .. n - 1
      <4>1. i \in 1 .. a - 1 /\ G[i] = Q[i]
        BY <1>6, <1>7, <3>1
      <4> QED BY <1>7, <4>1 DEF Members
    <3>2. CASE i = n
      BY <1>1, <1>3, <3>2
    <3>3. CASE i \in n + 1 .. a
      <4>1. i - 1 \in n .. a - 1 /\ i - 1 + 1 = i /\ i - 1 \in 1 .. a - 1
        BY <1>6, <3>3
      <4>2. G[i - 1] = Q[i]
        BY <1>7, <4>1
      <4> QED BY <1>7, <4>1, <4>2 DEF Members
    <3> QED BY <1>6, <3>1, <3>2, <3>3
  <2> QED BY <1>5, <2>2 DEF Members
<1>10. contents'[l] = G /\ \A m \in Headers : m # l => contents'[m] = contents[m]
  BY <1>1, <1>2, <1>3 DEF G
<1>11. ASSUME NEW m \in Headers
       PROVE  /\ Members(contents'[m]) \subseteq Members(contents[m])
              /\ Members(contents[m]) \subseteq Members(contents'[m]) \union {x}
  BY <1>3, <1>8, <1>9, <1>10
<1> QED BY <1>11

\* A loose node is no packet that waits.
LEMMA AbsentNotAsked ==
  ASSUME PacketInv, NEW x \in Nodes, Absent(contents, x)
  PROVE  asked[x] = NULL
<1>1. SUFFICES ASSUME asked[x] # NULL PROVE FALSE
  OBVIOUS
<1>2. asked[x] \in Headers /\ x \in Members(contents[asked[x]])
  BY <1>1 DEF PacketInv, Answered, PortsInv, Shape, Headers
<1> QED BY <1>2 DEF Absent, Members

\* The three ways the sequences change, and a packet's answer.
LEMMA PutKeepsPackets ==
  ASSUME PacketInv, NEW l \in Lists, NEW x \in Nodes, PutInto(l, x), x \in requests,
         UNCHANGED <<asked, ports, requests>>,
         \A n \in Nodes : n # x => ln_Type'[n] = ln_Type[n]
  PROVE  Known(contents', requests') /\ Answered(contents', asked', ln_Type', ports')
<1>1. /\ Absent(contents, x)
      /\ \A m \in Headers : Members(contents'[m]) =
               IF m = l THEN Members(contents[m]) \union {x} ELSE Members(contents[m])
  BY MembersPut DEF PacketInv
<1>2. asked[x] = NULL
  BY <1>1, AbsentNotAsked
<1>3. Known(contents', requests')
  BY <1>1 DEF PacketInv, Known
<1>4. ASSUME NEW n \in Nodes, asked[n] # NULL
      PROVE  ln_Type'[n] = "NT_REPLYMSG" /\ asked[n] \in ports /\ n \in Members(contents'[asked[n]])
  <2>1. ln_Type[n] = "NT_REPLYMSG" /\ asked[n] \in ports /\ n \in Members(contents[asked[n]])
    BY <1>4 DEF PacketInv, Answered
  <2>2. asked[n] \in Headers
    BY <2>1 DEF PacketInv, PortsInv, Shape, Headers
  <2> QED BY <1>1, <1>2, <1>4, <2>1, <2>2
<1> QED BY <1>3, <1>4 DEF Answered

LEMMA CutKeepsPackets ==
  ASSUME PacketInv, NEW l \in Lists, NEW x, CutFrom(l, x),
         UNCHANGED <<ln_Type, ports, requests>>, asked' = [asked EXCEPT ![x] = NULL]
  PROVE  Known(contents', requests') /\ Answered(contents', asked', ln_Type', ports')
<1>1. /\ \A m \in Headers : Members(contents'[m]) \subseteq Members(contents[m])
      /\ \A m \in Headers : Members(contents[m]) \subseteq Members(contents'[m]) \union {x}
  BY MembersCut DEF PacketInv
<1>2. Known(contents', requests')
  BY <1>1 DEF PacketInv, Known
<1>3. ASSUME NEW n \in Nodes, asked'[n] # NULL
      PROVE  /\ ln_Type[n] = "NT_REPLYMSG" /\ asked'[n] \in ports
             /\ n \in Members(contents'[asked'[n]])
  <2>1. n # x /\ asked'[n] = asked[n]
    BY <1>3 DEF PacketInv
  <2>2. ln_Type[n] = "NT_REPLYMSG" /\ asked[n] \in ports /\ n \in Members(contents[asked[n]])
    BY <1>3, <2>1 DEF PacketInv, Answered
  <2>3. asked[n] \in Headers
    BY <2>2 DEF PacketInv, PortsInv, Shape, Headers
  <2> QED BY <1>1, <2>1, <2>2, <2>3
<1> QED BY <1>2, <1>3 DEF Answered

LEMMA AnswerWaits ==
  ASSUME PacketInv, NEW p \in ports, NEW x \in Nodes, handle_fs_packet(p, x)
  PROVE  Known(contents', requests') /\ Answered(contents', asked', ln_Type', ports')
<1>1. /\ Loose(x) /\ LinkBefore(Back(p), Node(x)) /\ last' = <<"AddTail", NULL>>
      /\ ln_Type' = [ln_Type EXCEPT ![x] = "NT_REPLYMSG"] /\ asked' = [asked EXCEPT ![x] = p]
      /\ UNCHANGED <<ports, requests>>
  BY DEF handle_fs_packet, put_msg_impl
<1>2. p \in Lists /\ Lists' = Lists /\ PortsInv /\ p \in Headers
  BY <1>1 DEF Lists, PacketInv, PortsInv, Shape, Headers
<1>3. PutInto(p, x)
  BY <1>1, <1>2, LinkBeforeBackPuts
<1>4. \A m \in Headers : Members(contents'[m]) =
               IF m = p THEN Members(contents[m]) \union {x} ELSE Members(contents[m])
  BY <1>2, <1>3, MembersPut
<1>5. Known(contents', requests')
  BY <1>1, <1>4 DEF PacketInv, Known, Loose
<1>6. ASSUME NEW n \in Nodes, asked'[n] # NULL
      PROVE  /\ ln_Type'[n] = "NT_REPLYMSG" /\ asked'[n] \in ports
             /\ n \in Members(contents'[asked'[n]])
  <2>0. /\ ln_Type \in [Nodes -> {"none", "NT_MESSAGE", "NT_REPLYMSG"}]
        /\ asked \in [Nodes -> MsgPorts \union {NULL}]
    BY DEF PacketInv, PortsInv, Shape
  <2>1. CASE n = x
    BY <1>1, <1>2, <1>4, <2>0, <2>1
  <2>2. CASE n # x
    <3>1. asked'[n] = asked[n] /\ ln_Type'[n] = ln_Type[n]
      BY <1>1, <2>0, <2>2
    <3>2. ln_Type[n] = "NT_REPLYMSG" /\ asked[n] \in ports /\ n \in Members(contents[asked[n]])
      BY <1>6, <3>1 DEF PacketInv, Answered
    <3>3. asked[n] \in Headers
      BY <3>2 DEF PacketInv, PortsInv, Shape, Headers
    <3> QED BY <1>4, <3>1, <3>2, <3>3
  <2> QED BY <2>1, <2>2
<1> QED BY <1>1, <1>5, <1>6 DEF Answered

LEMMA PacketStep ==
  ASSUME PacketInv, PortsNext
  PROVE  Known(contents', requests') /\ Answered(contents', asked', ln_Type', ports')
<1> DEFINE Goal == Known(contents', requests') /\ Answered(contents', asked', ln_Type', ports')
<1>0. PortsInv
  BY DEF PacketInv
<1>1. OtherLists \subseteq Lists /\ ports \subseteq Lists /\ Lists \subseteq Headers
  BY <1>0 DEF Lists, PortsInv, Shape, Headers
<1>2. ports' = ports => Lists' = Lists
  BY DEF Lists
<1>3. ASSUME NEW l \in Lists, NEW x \in Nodes, PutInto(l, x), Loose(x),
             UNCHANGED <<asked, ports, requests>>,
             \A n \in Nodes : n # x => ln_Type'[n] = ln_Type[n]
      PROVE  Goal
  BY <1>3, PutKeepsPackets DEF Loose
<1>4. ASSUME contents' = contents, UNCHANGED <<asked, requests>>,
             \A n \in Nodes : asked[n] # NULL => ln_Type'[n] = ln_Type[n] /\ asked[n] \in ports'
      PROVE  Goal
  BY <1>4 DEF PacketInv, Known, Answered
<1>6. ASSUME NEW n \in Nodes, NEW l \in OtherLists, AddHead(l, n) PROVE Goal
  <2>1. l \in Lists /\ Lists' = Lists /\ Loose(n) /\ UNCHANGED <<asked, ports, requests, ln_Type>>
    BY <1>1, <1>2, <1>6 DEF AddHead
  <2> QED BY <1>0, <1>3, <1>6, <2>1, AddHeadPuts
<1>7. ASSUME NEW n \in Nodes, NEW l \in OtherLists, AddTail(l, n) PROVE Goal
  <2>1. /\ l \in Lists /\ Lists' = Lists /\ Loose(n)
        /\ UNCHANGED <<asked, ports, requests, ln_Type>>
        /\ LinkBefore(Back(l), Node(n)) /\ last' = <<"AddTail", NULL>>
    BY <1>1, <1>2, <1>7 DEF AddTail
  <2>2. PutInto(l, n)
    BY <1>0, <2>1, LinkBeforeBackPuts
  <2> QED BY <1>3, <2>1, <2>2
<1>8. ASSUME NEW n \in Nodes, NEW l \in OtherLists, Enqueue(l, n) PROVE Goal
  <2>1. l \in Lists /\ Lists' = Lists /\ Loose(n) /\ UNCHANGED <<asked, ports, requests, ln_Type>>
    BY <1>1, <1>2, <1>8 DEF Enqueue
  <2> QED BY <1>0, <1>3, <1>8, <2>1, EnqueuePuts
<1>9. ASSUME NEW n \in Nodes, NEW l \in OtherLists,
             NEW pred \in {Front(l)} \union {Node(m) : m \in Elements(l)}, Insert(l, n, pred)
      PROVE  Goal
  <2>1. l \in Lists /\ Lists' = Lists /\ Loose(n) /\ UNCHANGED <<asked, ports, requests, ln_Type>>
    BY <1>1, <1>2, <1>9 DEF Insert
  <2>2. PutInto(l, n)
    BY <1>0, <1>9, <2>1, InsertPuts
  <2> QED BY <1>3, <2>1, <2>2
<1>10. ASSUME NEW n \in Nodes, NEW p \in ports, NEW t, put_msg_impl(p, n, t), Loose(n),
              UNCHANGED <<asked, ports, requests>>
       PROVE  Goal
  <2>1. /\ LinkBefore(Back(p), Node(n)) /\ last' = <<"AddTail", NULL>> /\ p \in Lists
        /\ Lists' = Lists
        /\ \A m \in Nodes : m # n => ln_Type'[m] = ln_Type[m]
    BY <1>0, <1>1, <1>2, <1>10 DEF put_msg_impl, PortsInv, Shape
  <2>2. PutInto(p, n)
    BY <1>0, <1>10, <2>1, LinkBeforeBackPuts
  <2> QED BY <1>3, <1>10, <2>1, <2>2
<1>11. ASSUME NEW n \in Nodes, NEW p \in ports, PutMsg(p, n) PROVE Goal
  BY <1>10, <1>11 DEF PutMsg
<1>12. ASSUME NEW n \in Nodes, NEW p \in ports, handle_fs_packet(p, n) PROVE Goal
  BY <1>12, AnswerWaits
<1>13. ASSUME NEW n \in Nodes, Loose(n) \/ n \notin requests,
              UNCHANGED <<ln_Succ, ln_Pred, ports, asked>>
       PROVE  contents' = contents /\ asked[n] = NULL /\ Absent(contents, n)
  <2>1. contents' = contents
    BY <1>0, <1>2, <1>13, NothingMoves
  <2>2. Absent(contents, n)
    <3>1. CASE Loose(n)
      BY <1>0, <3>1, LooseIsAbsent DEF Loose, OnList, PortsInv
    <3>2. CASE n \notin requests
      BY <3>2 DEF PacketInv, Known, Members, Absent
    <3> QED BY <1>13, <3>1, <3>2
  <2> QED BY <2>1, <2>2, AbsentNotAsked
<1>14. ASSUME NEW n \in Nodes, ReplyMsg(n) PROVE Goal
  <2>1. Loose(n) /\ UNCHANGED <<asked, ports, requests>>
    BY <1>14 DEF ReplyMsg, reply_msg
  <2>2. CASE mn_ReplyPort[n] # NULL /\ put_msg_impl(mn_ReplyPort[n], n, "NT_REPLYMSG")
    <3>1. mn_ReplyPort[n] \in ports
      BY <1>0, <2>2 DEF PortsInv, Shape
    <3> QED BY <1>10, <2>1, <2>2, <3>1
  <2>3. CASE /\ mn_ReplyPort[n] = NULL /\ UNCHANGED <<ln_Succ, ln_Pred>>
             /\ ln_Type' = [ln_Type EXCEPT ![n] = "NT_REPLYMSG"]
    <3>1. contents' = contents /\ asked[n] = NULL
      BY <1>13, <2>1, <2>3
    <3>2. \A m \in Nodes : m # n => ln_Type'[m] = ln_Type[m]
      BY <1>0, <2>3 DEF PortsInv, Shape
    <3>3. \A m \in Nodes : asked[m] # NULL => asked[m] \in ports
      BY DEF PacketInv, Answered
    <3> QED BY <1>4, <2>1, <3>1, <3>2, <3>3
  <2> QED BY <1>14, <2>2, <2>3 DEF ReplyMsg, reply_msg
<1>15. ASSUME NEW n \in Nodes, Remove(n) PROVE Goal
  <2>1. /\ Lists' = Lists /\ UNCHANGED <<ln_Type, ports, requests>>
        /\ asked' = [asked EXCEPT ![n] = NULL]
    BY <1>2, <1>15 DEF Remove
  <2>2. PICK l \in Lists : CutFrom(l, n)
    BY <1>0, <1>15, <2>1, RemoveRemoves
  <2> QED BY <2>1, <2>2, CutKeepsPackets
<1>16. ASSUME NEW n \in Nodes, DeleteIORequest(n) PROVE Goal
  <2>1. /\ Loose(n) /\ UNCHANGED <<ln_Succ, ln_Pred, ports, asked>> /\ requests' = requests \ {n}
        /\ ln_Type' = [ln_Type EXCEPT ![n] = "none"]
    BY <1>16 DEF DeleteIORequest
  <2>2. contents' = contents /\ asked[n] = NULL /\ Absent(contents, n)
    BY <1>13, <2>1
  <2>3. Known(contents', requests')
    BY <2>1, <2>2 DEF PacketInv, Known, Absent, Members
  <2>4. \A m \in Nodes : m # n => ln_Type'[m] = ln_Type[m]
    BY <1>0, <2>1 DEF PortsInv, Shape
  <2> QED BY <2>1, <2>2, <2>3, <2>4 DEF PacketInv, Answered
<1>17. ASSUME NEW n \in Nodes, NEW p \in ports \union {NULL}, CreateIORequest(n, p) PROVE Goal
  <2>1. /\ n \notin requests /\ UNCHANGED <<ln_Succ, ln_Pred, ports, asked>>
        /\ requests' = requests \union {n} /\ ln_Type' = [ln_Type EXCEPT ![n] = "NT_MESSAGE"]
    BY <1>17 DEF CreateIORequest
  <2>2. contents' = contents /\ asked[n] = NULL
    BY <1>13, <2>1
  <2>3. Known(contents', requests')
    BY <2>1, <2>2 DEF PacketInv, Known
  <2>4. \A m \in Nodes : m # n => ln_Type'[m] = ln_Type[m]
    BY <1>0, <2>1 DEF PortsInv, Shape
  <2> QED BY <2>1, <2>2, <2>3, <2>4 DEF PacketInv, Answered
<1>18. ASSUME NEW l \in Lists, RemHead(l) PROVE Goal
  <2>1. Lists' = Lists /\ UNCHANGED <<ln_Type, ports, requests>>
    BY <1>2, <1>18 DEF RemHead, TakeNode
  <2>2. \/ CutFrom(l, First(l)[1]) /\ asked' = [asked EXCEPT ![First(l)[1]] = NULL]
        \/ contents' = contents /\ asked' = asked
    BY <1>0, <1>18, <2>1, RemHeadTakes
  <2>3. \A m \in Nodes : asked[m] # NULL => asked[m] \in ports
    BY DEF PacketInv, Answered
  <2> QED BY <1>4, <2>1, <2>2, <2>3, CutKeepsPackets
<1>19. ASSUME NEW l \in Lists, RemTail(l) PROVE Goal
  <2>1. Lists' = Lists /\ UNCHANGED <<ln_Type, ports, requests>>
    BY <1>2, <1>19 DEF RemTail, TakeNode
  <2>2. \/ CutFrom(l, Last(l)[1]) /\ asked' = [asked EXCEPT ![Last(l)[1]] = NULL]
        \/ contents' = contents /\ asked' = asked
    BY <1>0, <1>19, <2>1, RemTailTakes
  <2>3. \A m \in Nodes : asked[m] # NULL => asked[m] \in ports
    BY DEF PacketInv, Answered
  <2> QED BY <1>4, <2>1, <2>2, <2>3, CutKeepsPackets
<1>20. ASSUME NEW p \in ports, WaitPort(p) PROVE Goal
  <2>1. Lists' = Lists /\ UNCHANGED <<ln_Succ, ln_Pred, ln_Type, ports, requests, asked>>
    BY <1>2, <1>20 DEF WaitPort
  <2>2. contents' = contents
    BY <1>0, <2>1, NothingMoves
  <2>3. \A m \in Nodes : asked[m] # NULL => asked[m] \in ports
    BY DEF PacketInv, Answered
  <2> QED BY <1>4, <2>1, <2>2, <2>3
<1>21. ASSUME NEW p \in ports, DeleteMsgPort(p) PROVE Goal
  <2>1. ports' = ports \ {p} /\ UNCHANGED <<ln_Type, requests, asked>>
    BY <1>21 DEF DeleteMsgPort
  <2>2. contents' = contents /\ contents[p] = <<>>
    BY <1>0, <1>21, PortDeleted
  <2>3. ASSUME NEW m \in Nodes, asked[m] # NULL PROVE asked[m] \in ports'
    <3>1. asked[m] \in ports /\ m \in Members(contents[asked[m]])
      BY <2>3 DEF PacketInv, Answered
    <3>2. Members(<<>>) = {}
      BY DEF Members
    <3>3. asked[m] # p
      BY <2>2, <3>1, <3>2
    <3> QED BY <2>1, <3>1, <3>3
  <2> QED BY <1>4, <2>1, <2>2, <2>3
<1>22. ASSUME NEW p \in MsgPorts, CreateMsgPort(p) PROVE Goal
  <2>1. ports' = ports \union {p} /\ UNCHANGED <<ln_Type, requests, asked>>
    BY <1>22 DEF CreateMsgPort
  <2>2. contents' = contents
    BY <1>0, <1>22, PortMade
  <2>3. \A m \in Nodes : asked[m] # NULL => asked[m] \in ports'
    BY <2>1 DEF PacketInv, Answered
  <2> QED BY <1>4, <2>1, <2>2, <2>3
<1> HIDE DEF Goal
<1>23. Goal
  BY <1>6, <1>7, <1>8, <1>9, <1>11, <1>12, <1>14, <1>15, <1>16, <1>17, <1>18, <1>19, <1>20, <1>21,
     <1>22 DEF PortsNext
<1> QED BY <1>23 DEF Goal

LEMMA PacketInvNext ==
  ASSUME PacketInv, [PortsNext]_portVars
  PROVE  PacketInv'
<1>1. CASE PortsNext
  <2>1. PortsInv'
    BY PortsInvNext DEF PacketInv
  <2>2. Known(contents', requests') /\ Answered(contents', asked', ln_Type', ports')
    BY <1>1, PacketStep
  <2>3. asked' \in [Nodes -> MsgPorts \union {NULL}]
    <3>1. asked \in [Nodes -> MsgPorts \union {NULL}] /\ ports \subseteq MsgPorts
      BY DEF PacketInv, PortsInv, Shape
    <3>2. \/ asked' = asked
          \/ \E n : asked' = [asked EXCEPT ![n] = NULL]
          \/ \E n : \E p \in ports : asked' = [asked EXCEPT ![n] = p]
      BY <1>1 DEF PortsNext, AddHead, AddTail, Enqueue, Insert, PutMsg, handle_fs_packet, Remove,
                  ReplyMsg, DeleteIORequest, CreateIORequest, RemHead, RemTail, TakeNode, WaitPort,
                  DeleteMsgPort, CreateMsgPort
    <3> QED BY <3>1, <3>2
  <2> QED BY <2>1, <2>2, <2>3 DEF PacketInv, Known, Answered, Members
<1>2. CASE UNCHANGED portVars
  <2>1. PortsInv'
    BY <1>2, PortsInvNext DEF PacketInv
  <2>2. contents' = contents /\ asked' = asked /\ requests' = requests /\ ln_Type' = ln_Type
        /\ ports' = ports
    BY <1>2 DEF portVars, contents, NodesOf, Lists
  <2> QED BY <2>1, <2>2 DEF PacketInv, Known, Answered, Members
<1> QED BY <1>1, <1>2

\* For any ports, nodes and reply ports: what the handler has answered waits at
\* the port that the packet named, until its client takes it from there.
THEOREM PacketsAlwaysAnswered == PortsSpec => []PacketsAnswered
<1>1. PortsInit => PacketInv
  <2> SUFFICES ASSUME PortsInit PROVE PacketInv
    OBVIOUS
  <2>1. PortsInv /\ contents = [l \in Headers |-> <<>>]
    BY PortsInvInit
  <2>2. \A l \in Headers : Members(contents[l]) = {}
    BY <2>1 DEF Members
  <2>3. requests = {} /\ asked = [n \in Nodes |-> NULL]
    BY DEF PortsInit
  <2> QED BY <2>1, <2>2, <2>3 DEF PacketInv, Known, Answered
<1>2. PacketInv /\ [PortsNext]_portVars => PacketInv'
  BY PacketInvNext
<1>3. PacketInv => PacketsAnswered
  <2> SUFFICES ASSUME PacketInv, NEW n \in Nodes, asked[n] # NULL
               PROVE  /\ ln_Type[n] = "NT_REPLYMSG" /\ asked[n] \in ports
                      /\ n \in Elements(asked[n])
    BY DEF PacketsAnswered
  <2>1. ln_Type[n] = "NT_REPLYMSG" /\ asked[n] \in ports /\ n \in Members(contents[asked[n]])
    BY DEF PacketInv, Answered
  <2>2. PICK p \in Lists : p = asked[n] /\ p \in Headers
    BY <2>1, QueueTypes DEF Lists, PacketInv
  <2>3. NodesOf(p) = contents[p] /\ DOMAIN contents[p] = 1..Len(contents[p])
    BY <2>2, NodesOfQueue, QueueTypes DEF PacketInv
  <2>4. Elements(p) = Members(contents[p])
    BY <2>3 DEF Elements, Members
  <2> QED BY <2>1, <2>2, <2>4, Zenon
<1> QED BY <1>1, <1>2, <1>3, PTL DEF PortsSpec
==============================================================================
