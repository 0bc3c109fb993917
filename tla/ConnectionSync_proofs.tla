----------------------- MODULE ConnectionSync_proofs -----------------------
(***************************************************************************)
(* Proofs about ConnectionSync, for any number of warehouses and requests  *)
(* and any thresholds.                                                     *)
(***************************************************************************)
EXTENDS ConnectionSync, TLAPS

(* A run in its handler knows its row; only uploads wait for the web       *)
(* process; cron jobs work on pulled rows.                                 *)
Placed ==
  \A r \in Run :
    /\ pc[r] \in Holding \cup {"checked", "responded"} => conn[r] \in Conn
    /\ pc[r] = "responded" => conn[r] \in CsvConn
    /\ r \in Cron => conn[r] \in ApiConn \cup {NoConn}

TypeInv == TypeOK /\ Placed

LEMMA CappedType ==
  ASSUME NEW cap \in Nat, NEW n \in 0..cap
  PROVE  Capped(n, cap) \in 0..cap
BY DEF Capped

LEMMA InitType == Init => TypeInv
BY BoundAssumption, ConnAssumption, RunAssumption
   DEF Init, TypeInv, TypeOK, Placed, Holding, PC, Run, Conn, Status

LEMMA RequestStepType ==
  ASSUME TypeInv, NEW r \in Request, RequestStep(r)
  PROVE  TypeInv'
<1> USE ConnAssumption, RunAssumption, BoundAssumption
    DEF TypeInv, TypeOK, Placed, Holding, PC, Run, Conn, Status, row, jobs, local,
        Goto, Leave, TakeLock
<1>1. ASSUME NEW c \in Conn, PreCheck(r, c)
      PROVE  TypeInv'
  BY <1>1 DEF PreCheck
<1>2. ASSUME NEW c \in Conn, RefusePaused(r, c)
      PROVE  TypeInv'
  BY <1>2 DEF RefusePaused
<1>3. CASE LockGranted(r)
  BY <1>3 DEF LockGranted
<1>4. CASE LockRefused(r)
  BY <1>4 DEF LockRefused
<1>5. CASE PoolStart(r)
  BY <1>5 DEF PoolStart
<1>6. CASE WebMarkActive(r)
  BY <1>6 DEF WebMarkActive
<1>7. CASE WebGivesUp(r)
  BY <1>7 DEF WebGivesUp
<1>8. CASE LockLost(r)
  BY <1>8 DEF LockLost
<1>9. QED
  BY <1>1, <1>2, <1>3, <1>4, <1>5, <1>6, <1>7, <1>8 DEF RequestStep

LEMMA SyncStepType ==
  ASSUME TypeInv, NEW r \in Run, SyncStep(r)
  PROVE  TypeInv'
<1> USE ConnAssumption, RunAssumption, BoundAssumption
    DEF TypeInv, TypeOK, Placed, Holding, PC, Run, Conn, Status, row, jobs, local,
        Goto, Leave, Fail, NextPlace, ErrorClass
<1>1. CASE Work(r)
  BY <1>1 DEF Work
<1>2. CASE MarkSynced(r)
  BY <1>2 DEF MarkSynced, WriteSynced
<1>3. CASE MarkSyncedRaises(r)
  BY <1>3 DEF MarkSyncedRaises, WriteSynced
<1>4. CASE ReadFailures(r)
  BY <1>4 DEF ReadFailures
<1>5. CASE MarkFailed(r)
  <2>1. Capped(seen[r], AutoPause) \in 0..AutoPause
    BY CappedType
  <2>2. \A c \in Conn : Capped(streak[c], AutoPause) \in 0..AutoPause
    BY CappedType
  <2>3. QED
    BY <1>5, <2>1, <2>2 DEF MarkFailed
<1>6. CASE MarkFailedRaises(r)
  <2>1. \A c \in Conn : Capped(streak[c], AutoPause) \in 0..AutoPause
    BY CappedType
  <2>2. QED
    BY <1>6, <2>1 DEF MarkFailedRaises
<1>7. QED
  BY <1>1, <1>2, <1>3, <1>4, <1>5, <1>6 DEF SyncStep

LEMMA CronStepType ==
  ASSUME TypeInv, NEW j \in Cron, CronStep(j)
  PROVE  TypeInv'
<1> USE ConnAssumption, RunAssumption, BoundAssumption
    DEF TypeInv, TypeOK, Placed, Holding, PC, Run, Conn, Status, row, jobs, local,
        Leave, TakeLock, ErrorClass
<1>1. CASE CronList(j)
  BY <1>1 DEF CronList, Selected
<1>2. CASE CronDone(j)
  BY <1>2 DEF CronDone
<1>3. ASSUME NEW c \in Conn, CronLock(j, c)
      PROVE  TypeInv'
  BY <1>3 DEF CronLock
<1>4. ASSUME NEW c \in Conn, CronSkip(j, c)
      PROVE  TypeInv'
  BY <1>4 DEF CronSkip
<1>5. ASSUME NEW c \in Conn, CronLockRaises(j, c)
      PROVE  TypeInv'
  BY <1>5 DEF CronLockRaises
<1>6. QED
  BY <1>1, <1>2, <1>3, <1>4, <1>5 DEF CronStep

RowStep ==
  \/ WatchdogList
  \/ \E c \in Conn : WatchdogReset(c)
  \/ \E c \in Conn : Resume(c) \/ ResumeRead(c) \/ ResumeWrite(c)

LEMMA RowStepType ==
  ASSUME TypeInv, RowStep
  PROVE  TypeInv'
<1> USE ConnAssumption, BoundAssumption
    DEF TypeInv, TypeOK, Placed, Status, ErrorClass, row, local
<1>1. CASE WatchdogList
  BY <1>1 DEF WatchdogList
<1>2. ASSUME NEW c \in Conn, WatchdogReset(c)
      PROVE  TypeInv'
  BY <1>2 DEF WatchdogReset
<1>3. ASSUME NEW c \in Conn, Resume(c)
      PROVE  TypeInv'
  BY <1>3 DEF Resume, WriteResumed
<1>4. ASSUME NEW c \in Conn, ResumeRead(c)
      PROVE  TypeInv'
  BY <1>4 DEF ResumeRead
<1>5. ASSUME NEW c \in Conn, ResumeWrite(c)
      PROVE  TypeInv'
  BY <1>5 DEF ResumeWrite, WriteResumed
<1>6. QED
  BY <1>1, <1>2, <1>3, <1>4, <1>5 DEF RowStep

LEMMA TickType ==
  ASSUME TypeInv, Tick
  PROVE  TypeInv'
<1> USE BoundAssumption DEF TypeInv, TypeOK, Placed, local, jobs
<1>1. \A c \in Conn : /\ Capped(updatedAge[c], StuckTimeout) \in 0..StuckTimeout
                      /\ Capped(syncedAge[c], RetryMaxAge) \in 0..RetryMaxAge
  BY CappedType
<1>2. QED
  BY <1>1 DEF Tick

LEMMA NextType == TypeInv /\ [Next]_vars => TypeInv'
<1> SUFFICES ASSUME TypeInv, [Next]_vars
             PROVE  TypeInv'
  OBVIOUS
<1>1. CASE \E r \in Request : RequestStep(r)
  BY <1>1, RequestStepType
<1>2. CASE \E r \in Run : SyncStep(r)
  BY <1>2, SyncStepType
<1>3. CASE \E j \in Cron : CronStep(j)
  BY <1>3, CronStepType
<1>4. CASE RowStep
  BY <1>4, RowStepType
<1>5. CASE Crash
  <2> USE <1>5 DEF Crash, TypeInv, TypeOK
  <2>1. pc' \in [Run -> PC]
    BY DEF PC
  <2>2. crashes' \in 0..MaxCrashes
    BY BoundAssumption
  <2>3. Placed'
    BY DEF Placed, Holding
  <2>4. conn' \in [Run -> Conn \cup {NoConn}]
    OBVIOUS
  <2>5. seen' \in [Run -> 0..AutoPause] /\ cause' \in [Run -> ErrorClass \cup {"none"}]
    BY BoundAssumption
  <2>6. todo' \in [Cron -> SUBSET ApiConn] /\ stuck' \subseteq Conn /\ up' \in BOOLEAN
    OBVIOUS
  <2>7. UNCHANGED row /\ resuming' \subseteq Conn
    OBVIOUS
  <2>8. QED
    BY <2>1, <2>2, <2>3, <2>4, <2>5, <2>6, <2>7 DEF row
<1>6. CASE Restart
  BY <1>6 DEF Restart, TypeInv, TypeOK, Placed, row, local, jobs
<1>7. CASE Tick
  BY <1>7, TickType
<1>8. CASE UNCHANGED vars
  BY <1>8 DEF vars, TypeInv, TypeOK, Placed
<1>9. QED
  BY <1>1, <1>2, <1>3, <1>4, <1>5, <1>6, <1>7, <1>8 DEF Next, RowStep

(* Type correctness of rows, runs and cron lists, with any set of faults.  *)
THEOREM TypeCorrect == Spec => [](TypeOK /\ Placed)
<1>1. Init => TypeInv
  BY InitType
<1>2. TypeInv /\ [Next]_vars => TypeInv'
  BY NextType
<1>3. QED
  BY <1>1, <1>2, PTL DEF Spec, TypeInv

-----------------------------------------------------------------------------
(* The lease of a pulled row.                                              *)

LeaseSafe == Faults \cap {"overrun", "lock_error", "lost_answer", "resume_race"} = {}

Owns(r, c) == pc[r] \in Holding /\ conn[r] = c

OwnerLocks ==
  \A r \in Run, c \in ApiConn :
    Owns(r, c) => status[c] = "syncing" /\ updatedAge[c] < StuckTimeout

OneHolder == \A r, q \in Run, c \in ApiConn : Owns(r, c) /\ Owns(q, c) => r = q

ListedOrphans ==
  \A c \in stuck \cap ApiConn : status[c] = "syncing" /\ \A r \in Run : ~Owns(r, c)

Lease == OwnerLocks /\ OneHolder /\ ListedOrphans /\ resuming = {}
LeaseInv == TypeInv /\ Lease

(* A step that gives no pulled row to a new owner, and leaves alone those  *)
(* that have one or are listed by the watchdog.                            *)
Quiet ==
  /\ \A r \in Run, c \in ApiConn :
       Owns(r, c)' => /\ Owns(r, c)
                      /\ status'[c] = status[c] /\ updatedAge'[c] = updatedAge[c]
  /\ stuck' \subseteq stuck
  /\ \A c \in stuck' \cap ApiConn : status'[c] = status[c]
  /\ resuming' = {}

LEMMA QuietStep ==
  ASSUME Lease, Quiet
  PROVE  Lease'
<1> USE DEF Lease, Quiet
<1>1. OwnerLocks'
  BY DEF OwnerLocks
<1>2. OneHolder'
  BY DEF OneHolder
<1>3. ListedOrphans'
  BY DEF ListedOrphans
<1>4. QED
  BY <1>1, <1>2, <1>3

(* Taking the lock: a row that is not syncing has no owner and is not      *)
(* listed by the watchdog.                                                 *)
LEMMA TakeLockStep ==
  ASSUME LeaseInv, NEW r \in Run, NEW c \in ApiConn, TakeLock(c),
         \A q \in Run \ {r} : pc'[q] = pc[q] /\ conn'[q] = conn[q],
         conn'[r] = c, UNCHANGED <<stuck, resuming>>
  PROVE  Lease'
<1> USE DEF LeaseInv, Lease, TypeInv, TypeOK, Conn
<1>1. \A q \in Run : ~Owns(q, c)
  BY DEF OwnerLocks, TakeLock
<1>2. c \notin stuck
  BY DEF ListedOrphans, TakeLock
<1>3. \A q \in Run, d \in ApiConn : Owns(q, d)' => (q = r /\ d = c) \/ (d # c /\ Owns(q, d))
  BY <1>1 DEF Owns
<1>4. \A d \in ApiConn \ {c} : status'[d] = status[d] /\ updatedAge'[d] = updatedAge[d]
  BY DEF TakeLock
<1>5. OwnerLocks'
  <2>1. status'[c] = "syncing" /\ updatedAge'[c] < StuckTimeout
    BY BoundAssumption DEF TakeLock
  <2>2. QED
    BY <1>3, <1>4, <2>1 DEF OwnerLocks
<1>6. OneHolder'
  BY <1>3 DEF OneHolder
<1>7. ListedOrphans'
  BY <1>2, <1>3, <1>4 DEF ListedOrphans
<1>8. QED
  BY <1>5, <1>6, <1>7

LEMMA RequestStepLease ==
  ASSUME LeaseSafe, LeaseInv, NEW r \in Request, RequestStep(r)
  PROVE  Lease'
<1> USE ConnAssumption
    DEF LeaseInv, TypeInv, TypeOK, Placed, Conn, Run, Holding, row, jobs, Goto, Leave, Owns
<1>1. ASSUME NEW c \in Conn, PreCheck(r, c) \/ RefusePaused(r, c)
      PROVE  Lease'
  <2>1. Quiet
    BY <1>1 DEF PreCheck, RefusePaused, Quiet, Lease
  <2>2. QED
    BY <2>1, QuietStep
<1>2. CASE LockGranted(r)
  <2>1. CASE conn[r] \in ApiConn
    BY <1>2, <2>1, TakeLockStep DEF LockGranted
  <2>2. CASE conn[r] \notin ApiConn
    <3>1. conn[r] \in CsvConn
      BY <1>2, <2>2 DEF LockGranted
    <3>2. \A d \in ApiConn : status'[d] = status[d] /\ updatedAge'[d] = updatedAge[d]
      BY <1>2, <3>1 DEF LockGranted, TakeLock
    <3>3. Quiet
      BY <1>2, <2>2, <3>2 DEF LockGranted, Quiet, Lease
    <3>4. QED
      BY <3>3, QuietStep
  <2>3. QED
    BY <2>1, <2>2
<1>3. CASE LockRefused(r) \/ PoolStart(r) \/ WebGivesUp(r)
  <2>1. Quiet
    BY <1>3 DEF LockRefused, PoolStart, WebGivesUp, Quiet, Lease
  <2>2. QED
    BY <2>1, QuietStep
<1>4. CASE WebMarkActive(r)
  <2>1. \A d \in ApiConn : status'[d] = status[d] /\ updatedAge'[d] = updatedAge[d]
    BY <1>4 DEF WebMarkActive
  <2>2. Quiet
    BY <1>4, <2>1 DEF WebMarkActive, Quiet, Lease
  <2>3. QED
    BY <2>2, QuietStep
<1>5. CASE LockLost(r)
  BY <1>5 DEF LockLost, LeaseSafe
<1>6. QED
  BY <1>1, <1>2, <1>3, <1>4, <1>5 DEF RequestStep

(* The outcome of a sync is written by the row's only owner.               *)
LEMMA OutcomeStep ==
  ASSUME LeaseInv, NEW r \in Run, pc[r] \in Holding, conn[r] \in Conn,
         pc'[r] \notin Holding,
         \A q \in Run \ {r} : pc'[q] = pc[q] /\ conn'[q] = conn[q],
         \A d \in Conn \ {conn[r]} : status'[d] = status[d] /\ updatedAge'[d] = updatedAge[d],
         UNCHANGED <<stuck, resuming>>
  PROVE  Lease'
<1>1. \A q \in Run, d \in ApiConn : Owns(q, d)' => Owns(q, d) /\ d # conn[r]
  BY DEF Owns, LeaseInv, Lease, OneHolder
<1>2. \A d \in stuck \cap ApiConn : d # conn[r]
  BY DEF Owns, LeaseInv, Lease, ListedOrphans
<1>3. Quiet
  BY <1>1, <1>2 DEF Quiet, LeaseInv, Lease, Conn
<1>4. QED
  BY <1>3, QuietStep DEF LeaseInv

LEMMA SyncStepLease ==
  ASSUME LeaseSafe, LeaseInv, NEW r \in Run, SyncStep(r)
  PROVE  Lease'
<1> USE DEF LeaseInv, TypeInv, TypeOK, Placed, Holding, row, jobs, Goto, Leave, Fail, NextPlace
<1>1. CASE Work(r) \/ MarkSyncedRaises(r) \/ ReadFailures(r)
  <2>1. Quiet
    BY <1>1 DEF Work, MarkSyncedRaises, ReadFailures, Quiet, Lease, Owns, LeaseSafe
  <2>2. QED
    BY <2>1, QuietStep
<1>2. CASE MarkSynced(r)
  BY <1>2, OutcomeStep DEF MarkSynced, WriteSynced
<1>3. CASE MarkFailed(r)
  BY <1>3, OutcomeStep DEF MarkFailed
<1>4. CASE MarkFailedRaises(r)
  BY <1>4, OutcomeStep DEF MarkFailedRaises
<1>5. QED
  BY <1>1, <1>2, <1>3, <1>4 DEF SyncStep

LEMMA CronStepLease ==
  ASSUME LeaseSafe, LeaseInv, NEW j \in Cron, CronStep(j)
  PROVE  Lease'
<1> USE DEF LeaseInv, TypeInv, TypeOK, Run, Holding, row, jobs, local, Leave
<1>1. CASE CronList(j) \/ CronDone(j)
  <2>1. Quiet
    BY <1>1 DEF CronList, CronDone, Quiet, Lease, Owns
  <2>2. QED
    BY <2>1, QuietStep
<1>2. ASSUME NEW c \in Conn, CronLock(j, c)
      PROVE  Lease'
  <2>1. c \in ApiConn
    BY <1>2 DEF CronLock
  <2>2. QED
    BY <1>2, <2>1, TakeLockStep DEF CronLock
<1>3. ASSUME NEW c \in Conn, CronSkip(j, c)
      PROVE  Lease'
  <2>1. Quiet
    BY <1>3 DEF CronSkip, Quiet, Lease, Owns
  <2>2. QED
    BY <2>1, QuietStep
<1>4. ASSUME NEW c \in Conn, CronLockRaises(j, c)
      PROVE  FALSE
  BY <1>4 DEF CronLockRaises, LeaseSafe
<1>5. QED
  BY <1>1, <1>2, <1>3, <1>4 DEF CronStep

LEMMA RowStepLease ==
  ASSUME LeaseSafe, LeaseInv, RowStep
  PROVE  Lease'
<1> USE DEF LeaseInv, TypeInv, TypeOK, row, local
<1>1. CASE WatchdogList
  <2>1. \A c \in ApiConn : c \in stuck' =>
          status[c] = "syncing" /\ \A r \in Run : ~Owns(r, c)
    BY <1>1, BoundAssumption DEF WatchdogList, IsStuck, Lease, OwnerLocks, Conn
  <2>2. ListedOrphans'
    BY <1>1, <2>1 DEF WatchdogList, ListedOrphans, Owns
  <2>3. OwnerLocks' /\ OneHolder' /\ resuming' = {}
    BY <1>1 DEF WatchdogList, Lease, OwnerLocks, OneHolder, Owns
  <2>4. QED
    BY <2>2, <2>3 DEF Lease
<1>2. ASSUME NEW c \in Conn, WatchdogReset(c)
      PROVE  Lease'
  <2>1. Quiet
    BY <1>2 DEF WatchdogReset, Quiet, Lease, ListedOrphans, Owns, Conn
  <2>2. QED
    BY <2>1, QuietStep
<1>3. ASSUME NEW c \in Conn, Resume(c)
      PROVE  Lease'
  <2>1. Quiet
    BY <1>3 DEF Resume, WriteResumed, Quiet, Lease, OwnerLocks, ListedOrphans, Owns, Conn
  <2>2. QED
    BY <2>1, QuietStep
<1>4. ASSUME NEW c \in Conn, ResumeRead(c) \/ ResumeWrite(c)
      PROVE  FALSE
  BY <1>4 DEF ResumeRead, ResumeWrite, LeaseSafe, Lease
<1>5. QED
  BY <1>1, <1>2, <1>3, <1>4 DEF RowStep

LEMMA TickLease ==
  ASSUME LeaseSafe, LeaseInv, Tick
  PROVE  Lease'
<1> USE DEF LeaseInv, TypeInv, TypeOK, Lease, Tick, local, jobs
<1>1. OwnerLocks'
  <2>1. SUFFICES ASSUME NEW r \in Run, NEW c \in ApiConn, Owns(r, c)
                 PROVE  status[c] = "syncing" /\ updatedAge'[c] < StuckTimeout
    BY DEF OwnerLocks, Owns
  <2>2. status[c] = "syncing" /\ updatedAge[c] + 1 < StuckTimeout
    BY <2>1 DEF LeaseSafe, SyncsFitLease, OwnerLocks, Owns
  <2>3. updatedAge'[c] = updatedAge[c] + 1
    BY <2>2, BoundAssumption DEF Capped, Conn
  <2>4. QED
    BY <2>2, <2>3
<1>2. OneHolder' /\ ListedOrphans' /\ resuming' = {}
  BY DEF OneHolder, ListedOrphans, Owns
<1>3. QED
  BY <1>1, <1>2

LEMMA NextLease ==
  ASSUME LeaseSafe
  PROVE  LeaseInv /\ [Next]_vars => LeaseInv'
<1> SUFFICES ASSUME LeaseInv, [Next]_vars
             PROVE  LeaseInv'
  OBVIOUS
<1>1. TypeInv'
  BY NextType DEF LeaseInv
<1>2. Lease'
  <2>1. CASE \E r \in Request : RequestStep(r)
    BY <2>1, RequestStepLease
  <2>2. CASE \E r \in Run : SyncStep(r)
    BY <2>2, SyncStepLease
  <2>3. CASE \E j \in Cron : CronStep(j)
    BY <2>3, CronStepLease
  <2>4. CASE RowStep
    BY <2>4, RowStepLease
  <2>5. CASE Crash
    <3>1. Quiet
      BY <2>5 DEF Crash, Quiet, LeaseInv, Lease, Owns, Holding, row
    <3>2. QED
      BY <3>1, QuietStep DEF LeaseInv
  <2>6. CASE Restart \/ UNCHANGED vars
    <3>1. Quiet
      BY <2>6 DEF Restart, Quiet, LeaseInv, Lease, Owns, row, local, jobs, vars
    <3>2. QED
      BY <3>1, QuietStep DEF LeaseInv
  <2>7. CASE Tick
    BY <2>7, TickLease
  <2>8. QED
    BY <2>1, <2>2, <2>3, <2>4, <2>5, <2>6, <2>7 DEF Next, RowStep
<1>3. QED
  BY <1>1, <1>2 DEF LeaseInv

LEMMA InitLease == Init => LeaseInv
BY InitType DEF Init, LeaseInv, Lease, OwnerLocks, OneHolder, ListedOrphans, Owns, Holding

LEMMA LeaseInvariant ==
  ASSUME LeaseSafe
  PROVE  Spec => []LeaseInv
<1>1. LeaseInv /\ [Next]_vars => LeaseInv'
  BY NextLease
<1>2. QED
  BY <1>1, InitLease, PTL DEF Spec

(* Where every sync is through before its lease runs out, the lock's       *)
(* UPDATE does not raise, no answer to a committed write is lost and the   *)
(* resume route is not overtaken, no two syncs of a pulled row run at a    *)
(* time.                                                                   *)
THEOREM SyncExclusion ==
  ASSUME LeaseSafe
  PROVE  Spec => []OneSyncPerConnection
<1>1. LeaseInv => OneSyncPerConnection
  BY DEF LeaseInv, Lease, OneHolder, OneSyncPerConnection, Exclusive, Working, Owns
<1>2. QED
  BY <1>1, LeaseInvariant, PTL

(* Under the same conditions the lock stays with its owner ...             *)
THEOREM LockStaysWithOwner ==
  ASSUME LeaseSafe
  PROVE  Spec => []OwnedRowStaysLocked
<1>1. LeaseInv => OwnedRowStaysLocked
  BY DEF LeaseInv, Lease, OwnerLocks, OwnedRowStaysLocked, Owns
<1>2. QED
  BY <1>1, LeaseInvariant, PTL

(* ... and the watchdog's list, though it is older than its writes, never  *)
(* names a row that has an owner.                                          *)
THEOREM WatchdogIsHarmless ==
  ASSUME LeaseSafe
  PROVE  Spec => []WatchdogHitsOnlyOrphans
<1>1. LeaseInv => WatchdogHitsOnlyOrphans
  BY DEF LeaseInv, Lease, ListedOrphans, WatchdogHitsOnlyOrphans, Owns
<1>2. QED
  BY <1>1, LeaseInvariant, PTL

-----------------------------------------------------------------------------
(* failure_count.                                                          *)

SeenIsCurrent ==
  \A r \in Run, c \in ApiConn :
    pc[r] = "marking" /\ conn[r] = c => seen[r] = failures[c]

CountInv == LeaseInv /\ FailuresCountTheStreak /\ SeenIsCurrent

(* A step that counts nothing and reads no counter.                        *)
Uncounted ==
  /\ UNCHANGED <<failures, streak>>
  /\ \A r \in Run : pc'[r] = "marking" =>
       pc[r] = "marking" /\ conn'[r] = conn[r] /\ seen'[r] = seen[r]

LEMMA UncountedStep ==
  ASSUME FailuresCountTheStreak, SeenIsCurrent, Uncounted
  PROVE  FailuresCountTheStreak' /\ SeenIsCurrent'
BY DEF FailuresCountTheStreak, SeenIsCurrent, Uncounted

LEMMA NextCount ==
  ASSUME LeaseSafe, "mark_error" \notin Faults
  PROVE  CountInv /\ [Next]_vars => CountInv'
<1> SUFFICES ASSUME CountInv, [Next]_vars
             PROVE  FailuresCountTheStreak' /\ SeenIsCurrent'
  BY NextLease DEF CountInv
<1> USE ConnAssumption, RunAssumption
    DEF CountInv, LeaseInv, TypeInv, TypeOK, Placed, row, jobs, local, Run, Conn
<1>1. CASE \E r \in Request : RequestStep(r)
  <2>1. Uncounted
    BY <1>1 DEF RequestStep, PreCheck, RefusePaused, LockGranted, LockRefused, LockLost,
                PoolStart, WebMarkActive, WebGivesUp, TakeLock, Goto, Leave, Uncounted
  <2>2. QED
    BY <2>1, UncountedStep
<1>2. CASE \E r \in Run : SyncStep(r)
  <2>1. PICK r \in Run : SyncStep(r)
    BY <1>2
  <2>2. CASE Work(r) \/ MarkSyncedRaises(r)
    <3>1. Uncounted
      BY <2>2 DEF Work, MarkSyncedRaises, Goto, Fail, Uncounted, LeaseSafe
    <3>2. QED
      BY <3>1, UncountedStep
  <2>3. CASE ReadFailures(r)
    <3>1. seen' = [seen EXCEPT ![r] = failures[conn[r]]]
      BY <2>3 DEF ReadFailures
    <3>2. QED
      BY <2>3, <3>1 DEF ReadFailures, FailuresCountTheStreak, SeenIsCurrent
  <2>4. CASE MarkSynced(r)
    <3>1. conn[r] \in Conn /\ failures' = [failures EXCEPT ![conn[r]] = 0]
                           /\ streak' = [streak EXCEPT ![conn[r]] = 0]
      BY <2>4 DEF MarkSynced, WriteSynced, Holding
    <3>2. \A q \in Run, c \in ApiConn : pc'[q] = "marking" /\ conn'[q] = c =>
            c # conn[r] /\ pc[q] = "marking" /\ conn[q] = c /\ seen'[q] = seen[q]
      BY <2>4 DEF MarkSynced, Goto, Leave, NextPlace, Lease, OneHolder, Owns, Holding
    <3>3. QED
      BY <3>1, <3>2 DEF FailuresCountTheStreak, SeenIsCurrent
  <2>5. CASE MarkFailed(r)
    <3>1. /\ conn[r] \in Conn
          /\ failures' = [failures EXCEPT ![conn[r]] = Capped(seen[r], AutoPause)]
          /\ streak' = [streak EXCEPT ![conn[r]] = Capped(streak[conn[r]], AutoPause)]
      BY <2>5 DEF MarkFailed, Holding
    <3>2. conn[r] \in ApiConn => seen[r] = streak[conn[r]]
      BY <2>5 DEF MarkFailed, SeenIsCurrent, FailuresCountTheStreak
    <3>3. \A q \in Run, c \in ApiConn : pc'[q] = "marking" /\ conn'[q] = c =>
            c # conn[r] /\ pc[q] = "marking" /\ conn[q] = c /\ seen'[q] = seen[q]
      BY <2>5 DEF MarkFailed, Leave, NextPlace, Lease, OneHolder, Owns, Holding
    <3>4. QED
      BY <3>1, <3>2, <3>3 DEF FailuresCountTheStreak, SeenIsCurrent
  <2>6. CASE MarkFailedRaises(r)
    BY <2>6 DEF MarkFailedRaises
  <2>7. QED
    BY <2>1, <2>2, <2>3, <2>4, <2>5, <2>6 DEF SyncStep
<1>3. CASE \E j \in Cron : CronStep(j)
  <2>1. Uncounted
    BY <1>3 DEF CronStep, CronList, CronDone, CronLock, CronSkip, CronLockRaises,
                TakeLock, Leave, Uncounted, LeaseSafe
  <2>2. QED
    BY <2>1, UncountedStep
<1>4. CASE RowStep
  <2>1. CASE WatchdogList \/ \E c \in Conn : WatchdogReset(c) \/ ResumeRead(c)
    <3>1. Uncounted
      BY <2>1 DEF WatchdogList, WatchdogReset, ResumeRead, Uncounted
    <3>2. QED
      BY <3>1, UncountedStep
  <2>2. ASSUME NEW c \in Conn, Resume(c)
        PROVE  FailuresCountTheStreak' /\ SeenIsCurrent'
    <3>1. \A q \in Run : pc[q] = "marking" /\ conn[q] \in ApiConn => conn[q] # c
      BY <2>2 DEF Resume, Lease, OwnerLocks, Owns, Holding
    <3>2. QED
      BY <2>2, <3>1 DEF Resume, WriteResumed, FailuresCountTheStreak, SeenIsCurrent
  <2>3. ASSUME NEW c \in Conn, ResumeWrite(c)
        PROVE  FALSE
    BY <2>3 DEF ResumeWrite, Lease
  <2>4. QED
    BY <1>4, <2>1, <2>2, <2>3 DEF RowStep
<1>5. CASE Crash \/ Restart \/ Tick \/ UNCHANGED vars
  <2>1. Uncounted
    BY <1>5 DEF Crash, Restart, Tick, vars, Uncounted
  <2>2. QED
    BY <2>1, UncountedStep
<1>6. QED
  BY <1>1, <1>2, <1>3, <1>4, <1>5 DEF Next, RowStep

(* Under the same conditions, and where no SELECT or UPDATE of an outcome  *)
(* raises, the read-modify-write of failure_count loses and repeats        *)
(* nothing: it is the number of failed syncs in a row, up to AutoPause.    *)
THEOREM FailureCountIsExact ==
  ASSUME LeaseSafe, "mark_error" \notin Faults
  PROVE  Spec => []FailuresCountTheStreak
<1>1. Init => CountInv
  BY InitLease, ConnAssumption
     DEF Init, CountInv, FailuresCountTheStreak, SeenIsCurrent, Conn
<1>2. CountInv /\ [Next]_vars => CountInv'
  BY NextCount
<1>3. CountInv => FailuresCountTheStreak
  BY DEF CountInv
<1>4. QED
  BY <1>1, <1>2, <1>3, PTL DEF Spec

-----------------------------------------------------------------------------
(* Uploads: at most one request is between its pre-check and its response. *)

InLoop(r) == pc[r] \in Holding \cup {"checked"} /\ conn[r] \in CsvConn

OneInLoop == \A r, q \in Run : InLoop(r) /\ InLoop(q) => r = q

LoopInv == TypeInv /\ OneInLoop

LEMMA LoopStep ==
  ASSUME OneInLoop, \A r \in Run : InLoop(r)' => InLoop(r)
  PROVE  OneInLoop'
BY DEF OneInLoop

LEMMA NextLoop == LoopInv /\ [Next]_vars => LoopInv'
<1> SUFFICES ASSUME LoopInv, [Next]_vars
             PROVE  OneInLoop'
  BY NextType DEF LoopInv
<1> USE ConnAssumption, RunAssumption
    DEF LoopInv, TypeInv, TypeOK, Placed, Holding, local, Run, Conn, InLoop
<1>1. CASE \E r \in Request : RequestStep(r)
  <2>1. PICK r \in Request : RequestStep(r)
    BY <1>1
  <2>2. ASSUME NEW c \in Conn, PreCheck(r, c)
        PROVE  OneInLoop'
    <3>1. \A q \in Run : ~InLoop(q)
      BY <2>2 DEF PreCheck, LoopFree
    <3>2. \A q \in Run : InLoop(q)' => q = r
      BY <2>2, <3>1 DEF PreCheck
    <3>3. QED
      BY <3>2 DEF OneInLoop
  <2>3. CASE \E c \in Conn : RefusePaused(r, c)
    BY <2>3, LoopStep DEF RefusePaused
  <2>4. CASE LockGranted(r) \/ LockRefused(r) \/ LockLost(r)
    BY <2>4, LoopStep DEF LockGranted, LockRefused, LockLost, Goto, Leave
  <2>5. CASE PoolStart(r) \/ WebMarkActive(r) \/ WebGivesUp(r)
    BY <2>5, LoopStep DEF PoolStart, WebMarkActive, WebGivesUp, Goto, Leave
  <2>6. QED
    BY <2>1, <2>2, <2>3, <2>4, <2>5 DEF RequestStep
<1>2. CASE \E r \in Run : SyncStep(r)
  BY <1>2, LoopStep DEF SyncStep, Work, MarkSynced, MarkSyncedRaises, ReadFailures,
                        MarkFailed, MarkFailedRaises, Goto, Leave, Fail, NextPlace
<1>3. CASE \E j \in Cron : CronStep(j)
  BY <1>3, LoopStep DEF CronStep, CronList, CronDone, CronLock, CronSkip,
                        CronLockRaises, Leave
<1>4. CASE RowStep
  BY <1>4, LoopStep DEF RowStep, WatchdogList, WatchdogReset, Resume, ResumeRead,
                        ResumeWrite, WriteResumed
<1>5. CASE Crash \/ Restart \/ Tick \/ UNCHANGED vars
  BY <1>5, LoopStep DEF Crash, Restart, Tick, vars
<1>6. QED
  BY <1>1, <1>2, <1>3, <1>4, <1>5 DEF Next, RowStep

(* Two uploads to one warehouse are never persisted at the same time,      *)
(* whatever faults there are and whoever releases the row's lock.          *)
THEOREM UploadExclusion == Spec => []OneUploadPerConnection
<1>1. Init => LoopInv
  BY InitType DEF Init, LoopInv, OneInLoop, InLoop, Holding
<1>2. LoopInv /\ [Next]_vars => LoopInv'
  BY NextLoop
<1>3. LoopInv => OneUploadPerConnection
  BY DEF LoopInv, OneInLoop, InLoop, OneUploadPerConnection, Exclusive, Working
<1>4. QED
  BY <1>1, <1>2, <1>3, PTL DEF Spec
=============================================================================
