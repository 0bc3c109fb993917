----------------------------- MODULE RecalcLock -----------------------------
(***************************************************************************)
(* Who may recalculate a seller's metrics: HTTP requests (queued for the   *)
(* recalc pool or run in place), the nightly sweep over all sellers and    *)
(* POST /jobs/recalc-all, on any replica of the worker.                    *)
(*                                                                         *)
(* The lock is the seller's row of recalc_jobs, taken by the SQL function  *)
(* try_acquire_recalc_lock and taken over once it is older than            *)
(* StaleAfter; each process also keeps a dict _running_recalcs that lets a *)
(* request be refused, and its progress be shown, without the database.    *)
(***************************************************************************)
EXTENDS Naturals, FiniteSets

CONSTANTS
  Seller, Replica,
  Request,      \* concurrent HTTP requests, with the pool run they start
  Sweep,        \* runs of recalc_all_sellers: the cron job, the endpoint
  NoSeller, NoReplica,
  RecalcConcurrency,
  StaleAfter,   \* p_stale_after, in ticks
  MaxFaults,    \* bound on crashes and failed RPCs in a behaviour
  Production,   \* _is_production()
  Overrun       \* a recalculation may still be at work at StaleAfter

ASSUME NameAssumption ==
  NoSeller \notin Seller /\ NoReplica \notin Replica /\ Request \cap Sweep = {}
ASSUME BoundAssumption ==
  /\ RecalcConcurrency \in Nat \ {0}
  /\ StaleAfter \in Nat \ {0}
  /\ MaxFaults \in Nat
ASSUME ModeAssumption == Production \in BOOLEAN /\ Overrun \in BOOLEAN

Run == Request \cup Sweep

VARIABLES
  job,      \* recalc_jobs.status: "running", or "free" for no row, done, error
  jobAge,   \* ticks since started_at of a running job, capped at StaleAfter
  mem,      \* _running_recalcs of each replica; "finished" is done or error
  pc,       \* where each run is
  home,     \* the replica a run belongs to
  seller,   \* the seller a run works for
  todo,     \* sellers a sweep has not reached yet
  old,      \* expired entries a request has collected and not deleted yet
  up,       \* replicas that are running
  faults

jobs == <<job, jobAge>>
place == <<pc, home, seller>>
vars == <<job, jobAge, mem, pc, home, seller, todo, old, up, faults>>

(* Where a run holds the database lock, and where it recalculates.         *)
Holding == {"granted", "queued", "computing", "marking", "direct", "closing"}
Computing == {"computing", "direct"}

Init ==
  /\ job = [s \in Seller |-> "free"]
  /\ jobAge = [s \in Seller |-> 0]
  /\ mem = [w \in Replica |-> [s \in Seller |-> "none"]]
  /\ pc = [r \in Run |-> "idle"]
  /\ home = [r \in Run |-> NoReplica]
  /\ seller = [r \in Run |-> NoSeller]
  /\ todo = [k \in Sweep |-> {}]
  /\ old = [r \in Request |-> {}]
  /\ up = Replica
  /\ faults = 0

Goto(r, p) ==
  /\ pc' = [pc EXCEPT ![r] = p]
  /\ UNCHANGED <<home, seller>>

(* A request ends, a sweep turns to its next seller.                       *)
Leave(r) ==
  /\ pc' = [pc EXCEPT ![r] = IF r \in Sweep THEN "sweeping" ELSE "idle"]
  /\ home' = [home EXCEPT ![r] = IF r \in Sweep THEN @ ELSE NoReplica]
  /\ seller' = [seller EXCEPT ![r] = NoSeller]

SetMem(r, state) == mem' = [mem EXCEPT ![home[r]][seller[r]] = state]
Fault == faults < MaxFaults /\ faults' = faults + 1

-----------------------------------------------------------------------------
(* POST /jobs/recalc/{seller}: expired dict entries are collected and then *)
(* deleted one by one; an entry that another thread has deleted meanwhile  *)
(* raises KeyError and the request fails.                                  *)

Ask(r, w, s) ==
  /\ pc[r] = "idle" /\ w \in up
  /\ pc' = [pc EXCEPT ![r] = "cleaning"]
  /\ home' = [home EXCEPT ![r] = w]
  /\ seller' = [seller EXCEPT ![r] = s]
  /\ \E expired \in SUBSET {t \in Seller : mem[w][t] = "finished"} :
       old' = [old EXCEPT ![r] = expired]
  /\ UNCHANGED <<jobs, mem, todo, up, faults>>

(* Mutant of Forget: the entry stays, marked as expired.                   *)
Forget_Tombstone(r, s) ==
  /\ pc[r] = "cleaning" /\ s \in old[r]
  /\ mem[home[r]][s] # "none"
  /\ mem' = [mem EXCEPT ![home[r]][s] = "expired"]
  /\ old' = [old EXCEPT ![r] = @ \ {s}]
  /\ UNCHANGED <<jobs, place, todo, up, faults>>

Forget(r, s) ==
  /\ pc[r] = "cleaning" /\ s \in old[r]
  /\ mem[home[r]][s] # "none"
  /\ mem' = [mem EXCEPT ![home[r]][s] = "none"]
  /\ old' = [old EXCEPT ![r] = @ \ {s}]
  /\ UNCHANGED <<jobs, place, todo, up, faults>>

ForgetRaises(r, s) ==
  /\ pc[r] = "cleaning" /\ s \in old[r]
  /\ mem[home[r]][s] = "none"
  /\ old' = [old EXCEPT ![r] = {}]
  /\ Leave(r)
  /\ UNCHANGED <<jobs, mem, todo, up, faults>>

CheckMemory(r) ==
  /\ pc[r] = "cleaning" /\ old[r] = {}
  /\ IF mem[home[r]][seller[r]] = "running" THEN Leave(r) ELSE Goto(r, "locking")
  /\ UNCHANGED <<jobs, mem, todo, old, up, faults>>

-----------------------------------------------------------------------------
(* try_acquire_recalc_lock, for requests and sweeps alike.                 *)

(* Mutants of Takeable: ON CONFLICT DO UPDATE without its WHERE, without   *)
(* the clause on started_at.                                               *)
Takeable_Always(s) == s \in Seller
Takeable_NeverStale(s) == job[s] # "running"

Takeable(s) == job[s] # "running" \/ jobAge[s] = StaleAfter

TakeJob(s) ==
  /\ Takeable(s)
  /\ job' = [job EXCEPT ![s] = "running"]
  /\ jobAge' = [jobAge EXCEPT ![s] = 0]

Proceed(r) == Goto(r, IF r \in Sweep THEN "direct" ELSE "granted")

LockGranted(r) ==
  /\ pc[r] = "locking"
  /\ TakeJob(seller[r])
  /\ Proceed(r)
  /\ UNCHANGED <<mem, todo, old, up, faults>>

LockRefused(r) ==
  /\ pc[r] = "locking"
  /\ ~Takeable(seller[r])
  /\ Leave(r)
  /\ UNCHANGED <<jobs, mem, todo, old, up, faults>>

(* Mutant of LockRpcFails: the lock fails open in production as well.      *)
LockRpcFails_FailOpen(r) ==
  /\ pc[r] = "locking"
  /\ Fault
  /\ TakeJob(seller[r]) \/ UNCHANGED jobs
  /\ Proceed(r)
  /\ UNCHANGED <<mem, todo, old, up>>

(* The RPC raises, before or after the database has committed it.          *)
LockRpcFails(r) ==
  /\ pc[r] = "locking"
  /\ Fault
  /\ TakeJob(seller[r]) \/ UNCHANGED jobs
  /\ IF Production THEN Leave(r) ELSE Proceed(r)
  /\ UNCHANGED <<mem, todo, old, up>>

-----------------------------------------------------------------------------
(* A granted request either recalculates in place (sync=true) or leaves a  *)
(* placeholder in the dict and goes to the pool.                           *)

RunInPlace(r) ==
  /\ pc[r] = "granted"
  /\ Goto(r, "direct")
  /\ UNCHANGED <<jobs, mem, todo, old, up, faults>>

Enqueue(r) ==
  /\ pc[r] = "granted"
  /\ SetMem(r, "running")
  /\ Goto(r, "queued")
  /\ UNCHANGED <<jobs, todo, old, up, faults>>

(* A pool thread is busy with a run until its outcome is recorded.         *)
InPool(w) == {q \in Request : home[q] = w /\ pc[q] \in {"computing", "marking"}}

StartQueued(r) ==
  /\ pc[r] = "queued"
  /\ Cardinality(InPool(home[r])) < RecalcConcurrency
  /\ SetMem(r, "running")
  /\ Goto(r, "computing")
  /\ UNCHANGED <<jobs, todo, old, up, faults>>

(* Mutant of ComputingEnds: an exception leaves the dict entry running.    *)
ComputingEnds_KeepsEntry(r) ==
  /\ pc[r] = "computing"
  /\ mem[home[r]][seller[r]] # "none"
  /\ SetMem(r, "finished") \/ UNCHANGED mem
  /\ Goto(r, "marking")
  /\ UNCHANGED <<jobs, todo, old, up, faults>>

ComputingEnds(r) ==
  /\ pc[r] = "computing"
  /\ mem[home[r]][seller[r]] # "none"
  /\ SetMem(r, "finished")
  /\ Goto(r, "marking")
  /\ UNCHANGED <<jobs, todo, old, up, faults>>

(* The entry has been cleaned away under the run: updating it raises       *)
(* KeyError, in the handler of that KeyError again, and the outcome never  *)
(* reaches the database.                                                   *)
ComputingRaises(r) ==
  /\ pc[r] = "computing"
  /\ mem[home[r]][seller[r]] = "none"
  /\ Leave(r)
  /\ UNCHANGED <<jobs, mem, todo, old, up, faults>>

DirectEnds(r) ==
  /\ pc[r] = "direct"
  /\ Goto(r, "closing")
  /\ UNCHANGED <<jobs, mem, todo, old, up, faults>>

(* mark_recalc_done and mark_recalc_error look at the seller only.         *)
Mark(r) ==
  /\ pc[r] \in {"marking", "closing"}
  /\ job' = [job EXCEPT ![seller[r]] = "free"]
  /\ Leave(r)
  /\ UNCHANGED <<jobAge, mem, todo, old, up, faults>>

(* The exception of a failed RPC is logged and swallowed.                  *)
MarkRpcFails(r) ==
  /\ pc[r] \in {"marking", "closing"}
  /\ Fault
  /\ Leave(r)
  /\ UNCHANGED <<jobs, mem, todo, old, up>>

-----------------------------------------------------------------------------
(* recalc_all_sellers.                                                     *)

SweepStart(k, w) ==
  /\ pc[k] = "idle" /\ w \in up
  /\ todo' = [todo EXCEPT ![k] = Seller]
  /\ home' = [home EXCEPT ![k] = w]
  /\ pc' = [pc EXCEPT ![k] = "sweeping"]
  /\ UNCHANGED <<jobs, mem, seller, old, up, faults>>

SweepNext(k, s) ==
  /\ pc[k] = "sweeping" /\ s \in todo[k]
  /\ todo' = [todo EXCEPT ![k] = @ \ {s}]
  /\ seller' = [seller EXCEPT ![k] = s]
  /\ pc' = [pc EXCEPT ![k] = "locking"]
  /\ UNCHANGED <<jobs, mem, home, old, up, faults>>

SweepEnd(k) ==
  /\ pc[k] = "sweeping" /\ todo[k] = {}
  /\ pc' = [pc EXCEPT ![k] = "idle"]
  /\ home' = [home EXCEPT ![k] = NoReplica]
  /\ UNCHANGED <<jobs, mem, seller, todo, old, up, faults>>

-----------------------------------------------------------------------------
(* A worker process dies with its threads, queue and dict; the row stays.  *)
Crash(w) ==
  /\ w \in up /\ Fault
  /\ up' = up \ {w}
  /\ mem' = [mem EXCEPT ![w] = [s \in Seller |-> "none"]]
  /\ pc' = [r \in Run |-> IF home[r] = w THEN "idle" ELSE pc[r]]
  /\ seller' = [r \in Run |-> IF home[r] = w THEN NoSeller ELSE seller[r]]
  /\ todo' = [k \in Sweep |-> IF home[k] = w THEN {} ELSE todo[k]]
  /\ old' = [r \in Request |-> IF home[r] = w THEN {} ELSE old[r]]
  /\ home' = [r \in Run |-> IF home[r] = w THEN NoReplica ELSE home[r]]
  /\ UNCHANGED jobs

Restart(w) ==
  /\ w \in Replica \ up
  /\ up' = up \cup {w}
  /\ UNCHANGED <<jobs, mem, place, todo, old, faults>>

(* One tick passes.  Unless Overrun, every run is through, its wait in the *)
(* pool queue included, before its lock is stale.                          *)
RunsFitLease ==
  \A r \in Run : pc[r] \in Holding => jobAge[seller[r]] + 1 < StaleAfter

Tick ==
  /\ Overrun \/ RunsFitLease
  /\ jobAge' = [s \in Seller |-> IF job[s] = "running" /\ jobAge[s] < StaleAfter
                                   THEN jobAge[s] + 1 ELSE jobAge[s]]
  /\ UNCHANGED <<job, mem, place, todo, old, up, faults>>

-----------------------------------------------------------------------------
RequestStep(r) ==
  \/ \E w \in Replica, s \in Seller : Ask(r, w, s)
  \/ \E s \in Seller : Forget(r, s) \/ ForgetRaises(r, s)
  \/ CheckMemory(r) \/ RunInPlace(r) \/ Enqueue(r) \/ StartQueued(r)
  \/ ComputingEnds(r) \/ ComputingRaises(r)

RunStep(r) ==
  \/ LockGranted(r) \/ LockRefused(r) \/ LockRpcFails(r)
  \/ DirectEnds(r) \/ Mark(r) \/ MarkRpcFails(r)

SweepStep(k) ==
  \/ \E w \in Replica : SweepStart(k, w)
  \/ \E s \in Seller : SweepNext(k, s)
  \/ SweepEnd(k)

Next ==
  \/ \E r \in Request : RequestStep(r)
  \/ \E r \in Run : RunStep(r)
  \/ \E k \in Sweep : SweepStep(k)
  \/ \E w \in Replica : Crash(w) \/ Restart(w)
  \/ Tick

Spec == Init /\ [][Next]_vars

(* Threads run, the nightly sweep comes every night and ends, replicas are *)
(* restarted and time passes.  Nobody has to send a request.               *)
Fairness ==
  /\ \A r \in Run : WF_vars(RunStep(r))
  /\ \A r \in Request :
       /\ WF_vars(RunInPlace(r) \/ Enqueue(r) \/ ComputingEnds(r) \/ ComputingRaises(r))
       /\ SF_vars(StartQueued(r))
  /\ \A k \in Sweep : WF_vars(SweepStep(k))
  /\ \A w \in Replica : WF_vars(Restart(w))
  /\ WF_vars(Tick)

FairSpec == Spec /\ Fairness

-----------------------------------------------------------------------------
TypeOK ==
  /\ job \in [Seller -> {"free", "running"}]
  /\ jobAge \in [Seller -> 0..StaleAfter]
  /\ mem \in [Replica -> [Seller -> {"none", "running", "finished"}]]
  /\ pc \in [Run -> Holding \cup {"idle", "cleaning", "locking", "sweeping"}]
  /\ home \in [Run -> Replica \cup {NoReplica}]
  /\ seller \in [Run -> Seller \cup {NoSeller}]
  /\ todo \in [Sweep -> SUBSET Seller]
  /\ old \in [Request -> SUBSET Seller]
  /\ up \subseteq Replica
  /\ faults \in 0..MaxFaults

(* "Two recalculations of one seller do not run in parallel"               *)
(* (docs/ARCHITECTURE.md), on whatever replica and however they began: a   *)
(* request queued or run in place, the nightly sweep, a second sweep, a    *)
(* takeover of a lock whose owner has crashed.                             *)
OneRecalcPerSeller ==
  \A r, q \in Run :
    pc[r] \in Computing /\ pc[q] \in Computing /\ seller[r] = seller[q]
      /\ seller[r] # NoSeller => r = q

(* From the moment a run is granted the lock until it records its outcome, *)
(* its wait in the pool queue included, the lock can be taken by nobody:   *)
(* it is neither released by another run's mark nor stale.                 *)
HolderKeepsLock == \A r \in Run : pc[r] \in Holding => ~Takeable(seller[r])

(* A dict entry that refuses requests stands for a recalculation that is   *)
(* really queued or at work in that process: a user is never locked out by *)
(* an entry nobody will finish (the cleanup leaves running entries alone). *)
NoPhantomRunning ==
  \A w \in Replica, s \in Seller :
    mem[w][s] = "running" =>
      \E r \in Request : /\ home[r] = w /\ seller[r] = s
                         /\ pc[r] \in {"queued", "computing"}

(* A lock whose run has died, has lost its outcome or has never begun      *)
(* (crash, failed RPC, KeyError) does not stay taken: it is freed or some  *)
(* run recalculates the seller again.                                      *)
AbandonedLockIsTakenOver ==
  \A s \in Seller :
    job[s] = "running" ~>
      \/ job[s] = "free"
      \/ \E r \in Run : pc[r] \in Computing /\ seller[r] = s
=============================================================================
