------------------------- MODULE RecalcLock_proofs -------------------------
(***************************************************************************)
(* Proofs about RecalcLock, for any number of sellers, replicas, requests  *)
(* and sweeps: type correctness, that a dict entry marked running stands   *)
(* for a live run, and, where the lock fails closed (Production) and no    *)
(* run outlives its lease (~Overrun), that a lock has one holder who keeps *)
(* it, hence that no seller is recalculated twice at a time.               *)
(***************************************************************************)
EXTENDS RecalcLock, TLAPS

Steps == {"granted", "queued", "computing", "marking", "direct", "closing",
          "cleaning", "locking"}

(* A run that is past its first step knows its seller and its replica.     *)
Placed ==
  \A r \in Run :
    /\ pc[r] \in Steps => seller[r] \in Seller /\ home[r] \in Replica
    /\ pc[r] = "sweeping" => home[r] \in Replica

LEMMA InitType == Init => TypeOK /\ Placed
BY BoundAssumption DEF Init, TypeOK, Placed, Holding, Steps, Run

LEMMA RequestStepType ==
  ASSUME TypeOK, Placed, NEW r \in Request, RequestStep(r)
  PROVE  TypeOK' /\ Placed'
<1> USE NameAssumption, BoundAssumption
    DEF TypeOK, Placed, Holding, Steps, Run, jobs, place, Goto, Leave
<1>1. ASSUME NEW w \in Replica, NEW s \in Seller, Ask(r, w, s)
      PROVE  TypeOK' /\ Placed'
  BY <1>1 DEF Ask
<1>2. ASSUME NEW s \in Seller, Forget(r, s)
      PROVE  TypeOK' /\ Placed'
  BY <1>2 DEF Forget
<1>3. ASSUME NEW s \in Seller, ForgetRaises(r, s)
      PROVE  TypeOK' /\ Placed'
  BY <1>3 DEF ForgetRaises
<1>4. CASE CheckMemory(r)
  BY SMTT(30), <1>4 DEF CheckMemory
<1>5. CASE RunInPlace(r)
  BY <1>5 DEF RunInPlace
<1>6. CASE Enqueue(r)
  BY <1>6 DEF Enqueue, SetMem
<1>7. CASE StartQueued(r)
  BY <1>7 DEF StartQueued, SetMem
<1>8. CASE ComputingEnds(r)
  BY <1>8 DEF ComputingEnds, SetMem
<1>9. CASE ComputingRaises(r)
  BY <1>9 DEF ComputingRaises
<1>10. QED
  BY <1>1, <1>2, <1>3, <1>4, <1>5, <1>6, <1>7, <1>8, <1>9 DEF RequestStep

LEMMA RunStepType ==
  ASSUME TypeOK, Placed, NEW r \in Run, RunStep(r)
  PROVE  TypeOK' /\ Placed'
<1> USE NameAssumption, BoundAssumption
    DEF TypeOK, Placed, Holding, Steps, Run, jobs, place, Goto, Leave
<1>1. CASE LockGranted(r)
  BY <1>1 DEF LockGranted, TakeJob, Proceed
<1>2. CASE LockRefused(r)
  BY <1>2 DEF LockRefused
<1>3. CASE LockRpcFails(r)
  <2>1. job' \in [Seller -> {"free", "running"}] /\ jobAge' \in [Seller -> 0..StaleAfter]
    BY <1>3 DEF LockRpcFails, TakeJob
  <2>2. faults' \in 0..MaxFaults
    BY <1>3 DEF LockRpcFails, Fault
  <2>3. Leave(r) \/ Proceed(r)
    BY <1>3 DEF LockRpcFails
  <2>4. UNCHANGED <<mem, todo, old, up>> /\ pc[r] = "locking"
    BY <1>3 DEF LockRpcFails
  <2>5. QED
    BY SMTT(30), <2>1, <2>2, <2>3, <2>4 DEF Proceed
<1>4. CASE DirectEnds(r)
  BY <1>4 DEF DirectEnds
<1>5. CASE Mark(r)
  BY <1>5 DEF Mark
<1>6. CASE MarkRpcFails(r)
  BY <1>6 DEF MarkRpcFails, Fault
<1>7. QED
  BY <1>1, <1>2, <1>3, <1>4, <1>5, <1>6 DEF RunStep

LEMMA SweepStepType ==
  ASSUME TypeOK, Placed, NEW k \in Sweep, SweepStep(k)
  PROVE  TypeOK' /\ Placed'
<1> USE NameAssumption, BoundAssumption
    DEF TypeOK, Placed, Holding, Steps, Run, jobs
<1>1. ASSUME NEW w \in Replica, SweepStart(k, w)
      PROVE  TypeOK' /\ Placed'
  BY <1>1 DEF SweepStart
<1>2. ASSUME NEW s \in Seller, SweepNext(k, s)
      PROVE  TypeOK' /\ Placed'
  BY <1>2 DEF SweepNext
<1>3. CASE SweepEnd(k)
  BY <1>3 DEF SweepEnd
<1>4. QED
  BY <1>1, <1>2, <1>3 DEF SweepStep

LEMMA CrashType ==
  ASSUME TypeOK, Placed, NEW w \in Replica, Crash(w)
  PROVE  TypeOK' /\ Placed'
<1> USE NameAssumption, BoundAssumption
    DEF TypeOK, Placed, Holding, Steps, Run, jobs, Crash
<1>1. up' \subseteq Replica /\ faults' \in 0..MaxFaults
  BY DEF Fault
<1>2. mem' \in [Replica -> [Seller -> {"none", "running", "finished"}]]
  OBVIOUS
<1>3. QED
  BY <1>1, <1>2

LEMMA NextType == TypeOK /\ Placed /\ [Next]_vars => TypeOK' /\ Placed'
<1> SUFFICES ASSUME TypeOK, Placed, [Next]_vars
             PROVE  TypeOK' /\ Placed'
  OBVIOUS
<1>1. CASE \E r \in Request : RequestStep(r)
  BY <1>1, RequestStepType
<1>2. CASE \E r \in Run : RunStep(r)
  BY <1>2, RunStepType
<1>3. CASE \E k \in Sweep : SweepStep(k)
  BY <1>3, SweepStepType
<1>4. CASE \E w \in Replica : Crash(w)
  BY <1>4, CrashType
<1>5. CASE \E w \in Replica : Restart(w)
  BY <1>5 DEF Restart, TypeOK, Placed, Run, jobs, place
<1>6. CASE Tick
  BY <1>6, BoundAssumption DEF Tick, TypeOK, Placed, Run, place
<1>7. CASE UNCHANGED vars
  BY <1>7 DEF vars, TypeOK, Placed, Run
<1>8. QED
  BY <1>1, <1>2, <1>3, <1>4, <1>5, <1>6, <1>7 DEF Next

(* Type correctness of the lock, the dicts and the runs, for every value   *)
(* of the constants.                                                       *)
THEOREM TypeCorrect == Spec => [](TypeOK /\ Placed)
<1>1. Init => TypeOK /\ Placed
  BY InitType
<1>2. TypeOK /\ Placed /\ [Next]_vars => (TypeOK /\ Placed)'
  BY NextType
<1>3. QED
  BY <1>1, <1>2, PTL DEF Spec

-----------------------------------------------------------------------------
(* A lock has one holder.                                                  *)
OneHolder ==
  \A r, q \in Run :
    pc[r] \in Holding /\ pc[q] \in Holding /\ seller[r] = seller[q] => r = q

LeaseInv == TypeOK /\ Placed /\ OneHolder /\ HolderKeepsLock

(* The run r leaves the lock as it is and does not become a holder: it was *)
(* one before, of the same seller, or is none afterwards.                  *)
Harmless(r) ==
  /\ UNCHANGED jobs
  /\ \A q \in Run \ {r} : pc'[q] = pc[q] /\ seller'[q] = seller[q]
  /\ pc'[r] \in Holding => pc[r] \in Holding /\ seller'[r] = seller[r]

LEMMA HarmlessStep ==
  ASSUME TypeOK, Placed, OneHolder, HolderKeepsLock, NEW r \in Run, Harmless(r)
  PROVE  OneHolder' /\ HolderKeepsLock'
<1>1. \A q \in Run : pc'[q] \in Holding => pc[q] \in Holding /\ seller'[q] = seller[q]
  BY DEF Harmless
<1>2. OneHolder'
  BY <1>1 DEF OneHolder
<1>3. HolderKeepsLock'
  BY <1>1 DEF HolderKeepsLock, Takeable, Harmless, jobs
<1>4. QED
  BY <1>2, <1>3

LEMMA RequestStepHarmless ==
  ASSUME TypeOK, Placed, NEW r \in Request, RequestStep(r)
  PROVE  Harmless(r)
<1> USE DEF TypeOK, Holding, Run, Harmless, jobs, place, Goto, Leave
<1>1. ASSUME NEW w \in Replica, NEW s \in Seller, Ask(r, w, s)
      PROVE  Harmless(r)
  BY <1>1 DEF Ask
<1>2. ASSUME NEW s \in Seller, Forget(r, s) \/ ForgetRaises(r, s)
      PROVE  Harmless(r)
  BY <1>2 DEF Forget, ForgetRaises
<1>3. CASE CheckMemory(r)
  BY <1>3 DEF CheckMemory
<1>4. CASE RunInPlace(r) \/ Enqueue(r) \/ StartQueued(r)
  BY <1>4 DEF RunInPlace, Enqueue, StartQueued
<1>5. CASE ComputingEnds(r) \/ ComputingRaises(r)
  BY <1>5, NameAssumption DEF ComputingEnds, ComputingRaises
<1>6. QED
  BY <1>1, <1>2, <1>3, <1>4, <1>5 DEF RequestStep

LEMMA SweepStepHarmless ==
  ASSUME TypeOK, Placed, NEW k \in Sweep, SweepStep(k)
  PROVE  Harmless(k)
<1> USE DEF TypeOK, Holding, Run, Harmless, jobs
<1>1. ASSUME NEW w \in Replica, SweepStart(k, w)
      PROVE  Harmless(k)
  BY <1>1 DEF SweepStart
<1>2. ASSUME NEW s \in Seller, SweepNext(k, s)
      PROVE  Harmless(k)
  BY <1>2 DEF SweepNext
<1>3. CASE SweepEnd(k)
  BY <1>3 DEF SweepEnd
<1>4. QED
  BY <1>1, <1>2, <1>3 DEF SweepStep

(* Taking the lock: by HolderKeepsLock nobody held it.                     *)
LEMMA TakeJobStep ==
  ASSUME LeaseInv, NEW r \in Run, pc[r] = "locking", TakeJob(seller[r]),
         Proceed(r) \/ Leave(r)
  PROVE  OneHolder' /\ HolderKeepsLock'
<1> USE DEF LeaseInv, TypeOK, Run
<1>1. seller[r] \in Seller
  BY DEF Placed, Steps
<1>2. \A q \in Run : pc[q] \in Holding => seller[q] # seller[r]
  BY DEF HolderKeepsLock, TakeJob
<1>3. \A q \in Run \ {r} : pc'[q] = pc[q] /\ seller'[q] = seller[q]
  BY DEF Proceed, Goto, Leave
<1>4. pc'[r] \in Holding => seller'[r] = seller[r]
  BY DEF Proceed, Goto, Leave, Holding
<1>5. OneHolder'
  BY <1>2, <1>3, <1>4 DEF OneHolder
<1>6. ASSUME NEW q \in Run, pc'[q] \in Holding
      PROVE  ~(Takeable(seller[q]))'
  <2>1. CASE q = r
    BY <1>1, <1>4, <1>6, <2>1, BoundAssumption DEF Takeable, TakeJob
  <2>2. CASE q # r
    BY <1>2, <1>3, <1>6, <2>2 DEF Takeable, TakeJob, HolderKeepsLock
  <2>3. QED
    BY <2>1, <2>2
<1>7. HolderKeepsLock'
  BY <1>6 DEF HolderKeepsLock
<1>8. QED
  BY <1>5, <1>7

LEMMA RunStepLock ==
  ASSUME Production, LeaseInv, NEW r \in Run, RunStep(r)
  PROVE  OneHolder' /\ HolderKeepsLock'
<1> USE DEF LeaseInv
<1>1. CASE LockGranted(r)
  BY <1>1, TakeJobStep DEF LockGranted
<1>2. CASE LockRpcFails(r)
  <2>1. Leave(r) /\ pc[r] = "locking"
    BY <1>2 DEF LockRpcFails
  <2>2. CASE TakeJob(seller[r])
    BY <2>1, <2>2, TakeJobStep
  <2>3. CASE UNCHANGED jobs
    BY <2>1, <2>3, HarmlessStep DEF Harmless, Leave, TypeOK, Holding
  <2>4. QED
    BY <1>2, <2>2, <2>3 DEF LockRpcFails
<1>3. CASE LockRefused(r) \/ MarkRpcFails(r) \/ DirectEnds(r)
  <2>1. Harmless(r)
    BY <1>3 DEF LockRefused, MarkRpcFails, DirectEnds, Harmless, Leave, Goto, TypeOK, Holding
  <2>2. QED
    BY <2>1, HarmlessStep
<1>4. CASE Mark(r)
  <2>1. \A q \in Run : pc'[q] \in Holding =>
          q # r /\ pc[q] \in Holding /\ seller'[q] = seller[q] /\ seller[q] # seller[r]
    <3>1. pc[r] \in Holding /\ pc'[r] \notin Holding
      BY <1>4 DEF Mark, Leave, Holding, TypeOK
    <3>2. \A q \in Run \ {r} : pc'[q] = pc[q] /\ seller'[q] = seller[q]
      BY <1>4 DEF Mark, Leave, TypeOK
    <3>3. QED
      BY <3>1, <3>2 DEF OneHolder
  <2>2. OneHolder'
    BY <2>1 DEF OneHolder
  <2>3. HolderKeepsLock'
    BY <1>4, <2>1 DEF HolderKeepsLock, Takeable, Mark, TypeOK
  <2>4. QED
    BY <2>2, <2>3
<1>5. QED
  BY <1>1, <1>2, <1>3, <1>4 DEF RunStep

LEMMA CrashLock ==
  ASSUME LeaseInv, NEW w \in Replica, Crash(w)
  PROVE  OneHolder' /\ HolderKeepsLock'
<1> USE DEF LeaseInv
<1>1. \A q \in Run : pc'[q] \in Holding => pc[q] \in Holding /\ seller'[q] = seller[q]
  BY DEF Crash, Holding
<1>2. OneHolder'
  BY <1>1 DEF OneHolder
<1>3. HolderKeepsLock'
  BY <1>1 DEF HolderKeepsLock, Takeable, Crash, jobs
<1>4. QED
  BY <1>2, <1>3

LEMMA TickLock ==
  ASSUME ~Overrun, LeaseInv, Tick
  PROVE  OneHolder' /\ HolderKeepsLock'
<1> USE DEF LeaseInv, TypeOK
<1>1. OneHolder'
  BY DEF Tick, place, OneHolder
<1>2. ASSUME NEW q \in Run, pc[q] \in Holding
      PROVE  ~(Takeable(seller[q]))'
  <2>1. seller[q] \in Seller
    BY <1>2 DEF Placed, Steps, Holding
  <2>2. job[seller[q]] = "running" /\ jobAge[seller[q]] + 1 < StaleAfter
    BY <1>2 DEF Tick, RunsFitLease, HolderKeepsLock, Takeable
  <2>3. job'[seller[q]] = "running" /\ jobAge'[seller[q]] = jobAge[seller[q]] + 1
    BY <2>1, <2>2, BoundAssumption DEF Tick
  <2>4. seller'[q] = seller[q]
    BY DEF Tick, place
  <2>5. QED
    BY <2>1, <2>2, <2>3, <2>4, BoundAssumption DEF Takeable
<1>3. HolderKeepsLock'
  BY <1>2 DEF HolderKeepsLock, Tick, place
<1>4. QED
  BY <1>1, <1>3

LEMMA NextLease ==
  ASSUME Production, ~Overrun
  PROVE  LeaseInv /\ [Next]_vars => LeaseInv'
<1> SUFFICES ASSUME LeaseInv, [Next]_vars
             PROVE  LeaseInv'
  OBVIOUS
<1> USE DEF LeaseInv
<1>1. TypeOK' /\ Placed'
  BY NextType
<1>2. OneHolder' /\ HolderKeepsLock'
  <2>1. CASE \E r \in Request : RequestStep(r)
    <3>1. PICK r \in Request : RequestStep(r)
      BY <2>1
    <3>2. r \in Run /\ Harmless(r)
      BY <3>1, RequestStepHarmless DEF Run
    <3>3. QED
      BY <3>2, HarmlessStep
  <2>2. CASE \E r \in Run : RunStep(r)
    BY <2>2, RunStepLock
  <2>3. CASE \E k \in Sweep : SweepStep(k)
    <3>1. PICK k \in Sweep : SweepStep(k)
      BY <2>3
    <3>2. k \in Run /\ Harmless(k)
      BY <3>1, SweepStepHarmless DEF Run
    <3>3. QED
      BY <3>2, HarmlessStep
  <2>4. CASE \E w \in Replica : Crash(w)
    BY <2>4, CrashLock
  <2>5. CASE \E w \in Replica : Restart(w)
    BY <2>5 DEF Restart, OneHolder, HolderKeepsLock, Takeable, jobs, place
  <2>6. CASE Tick
    BY <2>6, TickLock
  <2>7. CASE UNCHANGED vars
    BY <2>7 DEF vars, OneHolder, HolderKeepsLock, Takeable
  <2>8. QED
    BY <2>1, <2>2, <2>3, <2>4, <2>5, <2>6, <2>7 DEF Next
<1>3. QED
  BY <1>1, <1>2

LEMMA LeaseInvariant ==
  ASSUME Production, ~Overrun
  PROVE  Spec => []LeaseInv
<1>1. Init => LeaseInv
  BY InitType DEF LeaseInv, OneHolder, HolderKeepsLock, Init, Holding
<1>2. LeaseInv /\ [Next]_vars => LeaseInv'
  BY NextLease
<1>3. QED
  BY <1>1, <1>2, PTL DEF Spec

(* Where the lock fails closed and every run is through before its lock is *)
(* stale, a granted lock stays its holder's until the outcome is recorded. *)
THEOREM LockStaysHeld ==
  ASSUME Production, ~Overrun
  PROVE  Spec => []HolderKeepsLock
<1>1. LeaseInv => HolderKeepsLock
  BY DEF LeaseInv
<1>2. QED
  BY <1>1, LeaseInvariant, PTL

(* Under the same two conditions no seller is recalculated twice at a time *)
(* (docs/ARCHITECTURE.md, "Recalc").                                       *)
THEOREM Exclusion ==
  ASSUME Production, ~Overrun
  PROVE  Spec => []OneRecalcPerSeller
<1>1. LeaseInv => OneRecalcPerSeller
  BY DEF LeaseInv, OneHolder, OneRecalcPerSeller, Computing, Holding
<1>2. QED
  BY <1>1, LeaseInvariant, PTL

-----------------------------------------------------------------------------
(* Entries of the dict.                                                    *)

Stands(r, w, s) == home[r] = w /\ seller[r] = s /\ pc[r] \in {"queued", "computing"}

LEMMA RequestStepEntry ==
  ASSUME TypeOK, Placed, NoPhantomRunning, NEW q \in Request, RequestStep(q),
         NEW w \in Replica, NEW s \in Seller, mem'[w][s] = "running"
  PROVE  \E r \in Request : Stands(r, w, s)'
<1> USE DEF TypeOK, Run, place, Goto, Leave, Stands, NoPhantomRunning
<1>1. \A r \in Request \ {q} : Stands(r, w, s) => Stands(r, w, s)'
  BY DEF RequestStep, Ask, Forget, ForgetRaises, CheckMemory, RunInPlace, Enqueue,
         StartQueued, ComputingEnds, ComputingRaises
<1>2. CASE \E v \in Replica, t \in Seller : Ask(q, v, t)
  BY <1>1, <1>2 DEF Ask
<1>3. CASE \E t \in Seller : Forget(q, t) \/ ForgetRaises(q, t)
  <2>1. home[q] \in Replica /\ pc[q] = "cleaning"
    BY <1>3 DEF Forget, ForgetRaises, Placed, Steps
  <2>2. mem[w][s] = "running"
    BY <1>3, <2>1 DEF Forget, ForgetRaises
  <2>3. QED
    BY <1>1, <2>1, <2>2
<1>4. CASE CheckMemory(q) \/ RunInPlace(q)
  BY <1>1, <1>4 DEF CheckMemory, RunInPlace
<1>5. CASE Enqueue(q) \/ StartQueued(q)
  <2>1. home[q] \in Replica /\ seller[q] \in Seller
    BY <1>5 DEF Enqueue, StartQueued, Placed, Steps
  <2>2. CASE home[q] = w /\ seller[q] = s
    BY <1>5, <2>2 DEF Enqueue, StartQueued
  <2>3. CASE ~(home[q] = w /\ seller[q] = s)
    <3>1. mem[w][s] = "running"
      BY <1>5, <2>1, <2>3 DEF Enqueue, StartQueued, SetMem
    <3>2. QED
      BY <1>1, <2>3, <3>1
  <2>4. QED
    BY <2>2, <2>3
<1>6. CASE ComputingEnds(q)
  <2>1. home[q] \in Replica /\ seller[q] \in Seller
    BY <1>6 DEF ComputingEnds, Placed, Steps
  <2>2. mem[w][s] = "running" /\ ~(home[q] = w /\ seller[q] = s)
    BY <1>6, <2>1 DEF ComputingEnds, SetMem
  <2>3. QED
    BY <1>1, <2>2
<1>7. CASE ComputingRaises(q)
  BY <1>1, <1>7 DEF ComputingRaises
<1>8. QED
  BY <1>2, <1>3, <1>4, <1>5, <1>6, <1>7 DEF RequestStep

LEMMA NextEntry ==
  TypeOK /\ Placed /\ NoPhantomRunning /\ [Next]_vars => NoPhantomRunning'
<1> SUFFICES ASSUME TypeOK, Placed, NoPhantomRunning, [Next]_vars,
                    NEW w \in Replica, NEW s \in Seller, mem'[w][s] = "running"
             PROVE  \E r \in Request : Stands(r, w, s)'
  BY DEF NoPhantomRunning, Stands
<1> USE DEF TypeOK, Run, place, Goto, Leave, Stands, NoPhantomRunning
<1>1. CASE \E q \in Request : RequestStep(q)
  BY <1>1, RequestStepEntry
<1>2. CASE \E q \in Run : RunStep(q)
  <2>1. PICK q \in Run : RunStep(q)
    BY <1>2
  <2>2. mem' = mem /\ pc[q] \notin {"queued", "computing"}
    BY <2>1 DEF RunStep, LockGranted, LockRefused, LockRpcFails, DirectEnds, Mark,
                MarkRpcFails
  <2>3. \A r \in Run \ {q} : pc'[r] = pc[r] /\ home'[r] = home[r] /\ seller'[r] = seller[r]
    BY <2>1 DEF RunStep, LockGranted, LockRefused, LockRpcFails, DirectEnds, Mark,
                MarkRpcFails, Proceed
  <2>4. QED
    BY <2>2, <2>3
<1>3. CASE \E k \in Sweep : SweepStep(k)
  BY <1>3, NameAssumption DEF SweepStep, SweepStart, SweepNext, SweepEnd
<1>4. CASE \E v \in Replica : Crash(v)
  BY <1>4 DEF Crash
<1>5. CASE \E v \in Replica : Restart(v)
  BY <1>5 DEF Restart
<1>6. CASE Tick
  BY <1>6 DEF Tick
<1>7. CASE UNCHANGED vars
  BY <1>7 DEF vars
<1>8. QED
  BY <1>1, <1>2, <1>3, <1>4, <1>5, <1>6, <1>7 DEF Next

(* A user is never refused on account of a dict entry that no run of that  *)
(* process will finish: for every value of the constants, so also when     *)
(* locks go stale under their holders or fail open.                        *)
THEOREM NoPhantom == Spec => []NoPhantomRunning
<1>1. Init => TypeOK /\ Placed /\ NoPhantomRunning
  BY InitType DEF Init, NoPhantomRunning
<1>2. TypeOK /\ Placed /\ NoPhantomRunning /\ [Next]_vars
        => (TypeOK /\ Placed /\ NoPhantomRunning)'
  BY NextType, NextEntry
<1>3. QED
  BY <1>1, <1>2, PTL DEF Spec
=============================================================================
