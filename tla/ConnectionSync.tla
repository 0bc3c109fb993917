--------------------------- MODULE ConnectionSync ---------------------------
(***************************************************************************)
(* The life of a warehouse row (table data_connections) and of the syncs   *)
(* that work on it: HTTP ingests served by the worker, the nightly and the *)
(* transient-retry cron jobs, the stuck-sync watchdog, the web routes that *)
(* write the row, and crashes of the worker process.                       *)
(*                                                                         *)
(* The column status is the only lock: a sync owns the row from the moment *)
(* its conditional UPDATE sets status to "syncing" until it writes the     *)
(* outcome.  No owner is recorded, so the lock is a lease: the watchdog    *)
(* takes back what has been "syncing" for StuckTimeout.                    *)
(*                                                                         *)
(* Each database call is one step; what happens between two calls of one   *)
(* handler may interleave with everybody else's steps.                     *)
(***************************************************************************)
EXTENDS Naturals, FiniteSets

CONSTANTS
  ApiConn,          \* rows pulled by the worker (google_sheet, marketplace_api)
  CsvConn,          \* rows fed by file uploads (csv_upload)
  Request,          \* identities of concurrent ingest requests
  NoConn,           \* not a connection
  SyncConcurrency,  \* threads of the sync pool
  AutoPause,        \* SYNC_FAILURE_AUTO_PAUSE_THRESHOLD
  StuckTimeout,     \* _STUCK_SYNCING_TIMEOUT_MINUTES, in ticks
  RetryMinAge,      \* _TRANSIENT_RETRY_MIN_AGE_MINUTES, in ticks
  RetryMaxAge,      \* _TRANSIENT_RETRY_MAX_AGE_HOURS, in ticks
  MaxCrashes,       \* bound on worker crashes in a behaviour
  Faults            \* which of AllFaults the environment may produce

(* What can go wrong around the row besides a crash.                       *)
(*   overrun         a sync is still at work when its lease runs out       *)
(*   lock_error      the UPDATE that takes the lock raises                 *)
(*   precheck_error  the SELECT of the paused pre-check raises             *)
(*   mark_error      a SELECT or UPDATE that records the outcome raises    *)
(*   lost_answer     a write is committed and its caller sees an exception *)
(*   resume_race     other steps fall between the two calls of the resume  *)
(*   outage          the scheduler stays down longer than the retry window *)
AllFaults == {"overrun", "lock_error", "precheck_error", "mark_error",
              "lost_answer", "resume_race", "outage"}

Conn == ApiConn \cup CsvConn
Cron == {"nightly", "retry"}
Run == Request \cup Cron

ASSUME ConnAssumption ==
  /\ ApiConn \cap CsvConn = {}
  /\ NoConn \notin Conn
ASSUME RunAssumption == Request \cap Cron = {}
ASSUME BoundAssumption ==
  /\ SyncConcurrency \in Nat \ {0}
  /\ AutoPause \in Nat \ {0}
  /\ StuckTimeout \in Nat \ {0}
  /\ RetryMinAge \in Nat
  /\ RetryMaxAge \in Nat \ {0}
  /\ RetryMinAge < RetryMaxAge
  /\ MaxCrashes \in Nat
ASSUME FaultAssumption == Faults \subseteq AllFaults

VARIABLES
  status,      \* data_connections.status
  failures,    \* failure_count, capped at AutoPause (only compared with >=)
  lastError,   \* what is_transient_sync_error says of last_error
  updatedAge,  \* ticks since updated_at of a syncing row, capped at StuckTimeout
  syncedAge,   \* ticks since last_sync_at of a row in error, capped at RetryMaxAge
  pc,          \* where each run is in its handler
  conn,        \* the row a run works on
  seen,        \* failure_count as a failing run has read it
  cause,       \* class of the exception a failing run has caught
  todo,        \* rows a cron job has listed and not reached yet
  stuck,       \* rows the watchdog has listed and not reset yet
  resuming,    \* rows whose resume request has seen "paused", not written yet
  up,          \* the worker process is running
  crashes,     \* worker crashes so far
  streak       \* history: consecutive failed syncs, capped at AutoPause

row == <<status, failures, lastError, updatedAge, syncedAge, streak>>
local == <<pc, conn, seen, cause>>
jobs == <<todo, stuck, resuming>>
vars == <<status, failures, lastError, updatedAge, syncedAge, pc, conn, seen,
          cause, todo, stuck, resuming, up, crashes, streak>>

Status == {"pending", "active", "syncing", "error", "paused"}
ErrorClass == {"transient", "permanent"}
(* Where a run holds the lock it took (or believes it does).               *)
Holding == {"queued", "working", "persisted", "failed", "marking"}
PC == Holding \cup {"idle", "checked", "responded", "listing"}

Capped(n, cap) == IF n < cap THEN n + 1 ELSE cap

-----------------------------------------------------------------------------
Init ==
  /\ status = [c \in Conn |-> "pending"]
  /\ failures = [c \in Conn |-> 0]
  /\ lastError = [c \in Conn |-> "none"]
  /\ updatedAge = [c \in Conn |-> 0]
  /\ syncedAge = [c \in Conn |-> RetryMaxAge]    \* last_sync_at is null
  /\ pc = [r \in Run |-> "idle"]
  /\ conn = [r \in Run |-> NoConn]
  /\ seen = [r \in Run |-> 0]
  /\ cause = [r \in Run |-> "none"]
  /\ todo = [j \in Cron |-> {}]
  /\ stuck = {}
  /\ resuming = {}
  /\ up = TRUE
  /\ crashes = 0
  /\ streak = [c \in Conn |-> 0]

(* Mutant of TakeLock: the UPDATE without its condition on the status.     *)
TakeLock_Unconditional(c) ==
  /\ status' = [status EXCEPT ![c] = "syncing"]
  /\ lastError' = [lastError EXCEPT ![c] = "none"]
  /\ updatedAge' = [updatedAge EXCEPT ![c] = 0]
  /\ UNCHANGED <<failures, syncedAge, streak>>

(* The UPDATE status='syncing', last_error=null of a lock that is granted. *)
TakeLock(c) ==
  /\ status[c] # "syncing"
  /\ status' = [status EXCEPT ![c] = "syncing"]
  /\ lastError' = [lastError EXCEPT ![c] = "none"]
  /\ updatedAge' = [updatedAge EXCEPT ![c] = 0]
  /\ UNCHANGED <<failures, syncedAge, streak>>

(* Run r leaves the handler for place p and forgets its local variables.   *)
Leave(r, p) ==
  /\ pc' = [pc EXCEPT ![r] = p]
  /\ conn' = [conn EXCEPT ![r] = NoConn]
  /\ seen' = [seen EXCEPT ![r] = 0]
  /\ cause' = [cause EXCEPT ![r] = "none"]

Goto(r, p) ==
  /\ pc' = [pc EXCEPT ![r] = p]
  /\ UNCHANGED <<conn, seen, cause>>

Fail(r, kind) ==
  /\ pc' = [pc EXCEPT ![r] = "failed"]
  /\ cause' = [cause EXCEPT ![r] = kind]
  /\ UNCHANGED <<conn, seen>>

(* Where a run goes when it is done with its row: a cron job to the next   *)
(* row of its list, a request to its response.                             *)
NextPlace(r) == IF r \in Cron THEN "listing" ELSE "idle"

-----------------------------------------------------------------------------
(* HTTP ingest: the status is read first and a paused row refused; the     *)
(* lock is a separate conditional UPDATE.                                  *)

(* Mutant of LoopFree: upload handlers moved from the loop to threads.     *)
LoopFree_Threads == TRUE

(* ingest_csv and ingest_manual are coroutines without an await between    *)
(* the pre-check and the response: an upload keeps the event loop busy,    *)
(* and no other request is accepted meanwhile.  Pulls run in threads.      *)
LoopFree ==
  \A r \in Request : conn[r] \in CsvConn => pc[r] \notin Holding \cup {"checked"}

PreCheck(r, c) ==
  /\ up /\ pc[r] = "idle"
  /\ LoopFree
  /\ status[c] # "paused" \/ "precheck_error" \in Faults
  /\ pc' = [pc EXCEPT ![r] = "checked"]
  /\ conn' = [conn EXCEPT ![r] = c]
  /\ UNCHANGED <<row, seen, cause, jobs, up, crashes>>

(* A refused upload is answered with HTTP 200 and started = false.         *)
RefusePaused(r, c) ==
  /\ up /\ pc[r] = "idle"
  /\ LoopFree
  /\ c \in CsvConn /\ status[c] = "paused"
  /\ pc' = [pc EXCEPT ![r] = "responded"]
  /\ conn' = [conn EXCEPT ![r] = c]
  /\ UNCHANGED <<row, seen, cause, jobs, up, crashes>>

(* A pull is queued for the sync pool, an upload is persisted in place.    *)
LockGranted(r) ==
  /\ pc[r] = "checked"
  /\ TakeLock(conn[r])
  /\ Goto(r, IF conn[r] \in ApiConn THEN "queued" ELSE "working")
  /\ UNCHANGED <<jobs, up, crashes>>

LockRefused(r) ==
  /\ pc[r] = "checked"
  /\ status[conn[r]] = "syncing" \/ "lock_error" \in Faults
  /\ IF conn[r] \in ApiConn THEN Leave(r, "idle") ELSE Goto(r, "responded")
  /\ UNCHANGED <<row, jobs, up, crashes>>

(* The row is locked and the caller does not know: nobody owns it.         *)
LockLost(r) ==
  /\ pc[r] = "checked"
  /\ "lost_answer" \in Faults
  /\ TakeLock(conn[r])
  /\ IF conn[r] \in ApiConn THEN Leave(r, "idle") ELSE Goto(r, "responded")
  /\ UNCHANGED <<jobs, up, crashes>>

(* The requests a pool thread is busy with.                                *)
InPool == {r \in Request : /\ conn[r] \in ApiConn
                           /\ pc[r] \in Holding \ {"queued"}}

PoolStart(r) ==
  /\ pc[r] = "queued"
  /\ Cardinality(InPool) < SyncConcurrency
  /\ Goto(r, "working")
  /\ UNCHANGED <<row, jobs, up, crashes>>

-----------------------------------------------------------------------------
(* The sync itself, the same for a pool thread and a cron job.             *)

(* Fetching from the source and persisting, the part that takes minutes.   *)
Work(r) ==
  /\ pc[r] = "working"
  /\ \/ Goto(r, "persisted")
     \/ \E kind \in ErrorClass : Fail(r, kind)
  /\ UNCHANGED <<row, jobs, up, crashes>>

WriteSynced(c) ==
  /\ status' = [status EXCEPT ![c] = "active"]
  /\ failures' = [failures EXCEPT ![c] = 0]
  /\ lastError' = [lastError EXCEPT ![c] = "none"]
  /\ updatedAge' = [updatedAge EXCEPT ![c] = 0]
  /\ syncedAge' = [syncedAge EXCEPT ![c] = 0]
  /\ streak' = [streak EXCEPT ![c] = 0]

MarkSynced(r) ==
  /\ pc[r] = "persisted"
  /\ WriteSynced(conn[r])
  /\ IF conn[r] \in CsvConn THEN Goto(r, "responded") ELSE Leave(r, NextPlace(r))
  /\ UNCHANGED <<jobs, up, crashes>>

(* The success UPDATE sits in the same try block as the sync: when it      *)
(* raises, committed or not, a failed sync is recorded.                    *)
MarkSyncedRaises(r) ==
  /\ pc[r] = "persisted"
  /\ \/ "mark_error" \in Faults /\ UNCHANGED row
     \/ "lost_answer" \in Faults /\ WriteSynced(conn[r])
  /\ \E kind \in ErrorClass : Fail(r, kind)
  /\ UNCHANGED <<jobs, up, crashes>>

(* A SELECT that raises is swallowed and counts as "no failures so far".   *)
ReadFailures(r) ==
  /\ pc[r] = "failed"
  /\ \E n \in {failures[conn[r]]} \cup (IF "mark_error" \in Faults THEN {0} ELSE {}) :
       seen' = [seen EXCEPT ![r] = n]
  /\ pc' = [pc EXCEPT ![r] = "marking"]
  /\ UNCHANGED <<row, conn, cause, jobs, up, crashes>>

MarkFailed(r) ==
  LET c == conn[r]
      count == Capped(seen[r], AutoPause)
      autoPaused == count >= AutoPause /\ cause[r] # "transient"
  IN
  /\ pc[r] = "marking"
  /\ status' = [status EXCEPT ![c] = IF autoPaused THEN "paused" ELSE "error"]
  /\ failures' = [failures EXCEPT ![c] = count]
  /\ lastError' = [lastError EXCEPT ![c] = cause[r]]
  /\ updatedAge' = [updatedAge EXCEPT ![c] = 0]
  /\ syncedAge' = [syncedAge EXCEPT ![c] = 0]
  /\ streak' = [streak EXCEPT ![c] = Capped(@, AutoPause)]
  /\ Leave(r, NextPlace(r))
  /\ UNCHANGED <<jobs, up, crashes>>

(* The UPDATE itself raises: the row keeps whatever it holds.              *)
MarkFailedRaises(r) ==
  /\ pc[r] = "marking"
  /\ "mark_error" \in Faults
  /\ streak' = [streak EXCEPT ![conn[r]] = Capped(@, AutoPause)]
  /\ Leave(r, NextPlace(r))
  /\ UNCHANGED <<status, failures, lastError, updatedAge, syncedAge, jobs, up, crashes>>

-----------------------------------------------------------------------------
(* Cron jobs list rows first and then sync them one after another.         *)

RetryDue(c) ==
  /\ status[c] = "error" /\ lastError[c] = "transient"
  /\ syncedAge[c] >= RetryMinAge
  /\ syncedAge[c] < RetryMaxAge

Selected(j) ==
  IF j = "nightly" THEN {c \in ApiConn : status[c] = "active"}
                   ELSE {c \in ApiConn : RetryDue(c)}

CronList(j) ==
  /\ up /\ pc[j] = "idle"
  /\ Selected(j) # {}
  /\ todo' = [todo EXCEPT ![j] = Selected(j)]
  /\ pc' = [pc EXCEPT ![j] = "listing"]
  /\ UNCHANGED <<row, conn, seen, cause, stuck, resuming, up, crashes>>

(* No paused check: any listed row whose status is not "syncing" by now.   *)
CronLock(j, c) ==
  /\ pc[j] = "listing" /\ c \in todo[j]
  /\ todo' = [todo EXCEPT ![j] = @ \ {c}]
  /\ TakeLock(c)
  /\ pc' = [pc EXCEPT ![j] = "working"]
  /\ conn' = [conn EXCEPT ![j] = c]
  /\ UNCHANGED <<seen, cause, stuck, resuming, up, crashes>>

CronSkip(j, c) ==
  /\ pc[j] = "listing" /\ c \in todo[j]
  /\ status[c] = "syncing"
  /\ todo' = [todo EXCEPT ![j] = @ \ {c}]
  /\ UNCHANGED <<row, local, stuck, resuming, up, crashes>>

(* The lock UPDATE raises: the caller records a failed sync of a row that  *)
(* the job may never have locked.                                          *)
CronLockRaises(j, c) ==
  /\ pc[j] = "listing" /\ c \in todo[j]
  /\ \/ "lock_error" \in Faults /\ UNCHANGED row
     \/ "lost_answer" \in Faults /\ TakeLock(c)
  /\ todo' = [todo EXCEPT ![j] = @ \ {c}]
  /\ pc' = [pc EXCEPT ![j] = "failed"]
  /\ conn' = [conn EXCEPT ![j] = c]
  /\ \E kind \in ErrorClass : cause' = [cause EXCEPT ![j] = kind]
  /\ UNCHANGED <<seen, stuck, resuming, up, crashes>>

CronDone(j) ==
  /\ pc[j] = "listing" /\ todo[j] = {}
  /\ Leave(j, "idle")
  /\ UNCHANGED <<row, jobs, up, crashes>>

-----------------------------------------------------------------------------
(* The watchdog lists rows that have been "syncing" since StuckTimeout and *)
(* then resets each by id, whatever its status is by then.                 *)

(* Mutants of IsStuck: a window shorter than a sync may take, the age of   *)
(* last_sync_at instead of updated_at, only pulled rows looked at.         *)
IsStuck_Impatient(c) == status[c] = "syncing" /\ updatedAge[c] >= StuckTimeout - 1
IsStuck_BySyncTime(c) == status[c] = "syncing" /\ syncedAge[c] = RetryMaxAge
IsStuck_PulledOnly(c) ==
  c \in ApiConn /\ status[c] = "syncing" /\ updatedAge[c] = StuckTimeout

IsStuck(c) == status[c] = "syncing" /\ updatedAge[c] = StuckTimeout

WatchdogList ==
  /\ up /\ stuck = {}
  /\ \E c \in Conn : IsStuck(c)
  /\ stuck' = {c \in Conn : IsStuck(c)}
  /\ UNCHANGED <<row, local, todo, resuming, up, crashes>>

(* Mutant of WatchdogReset: last_sync_at is left as it was.                *)
WatchdogReset_KeepsSyncTime(c) ==
  /\ c \in stuck
  /\ stuck' = stuck \ {c}
  /\ status' = [status EXCEPT ![c] = "error"]
  /\ lastError' = [lastError EXCEPT ![c] = "transient"]
  /\ updatedAge' = [updatedAge EXCEPT ![c] = 0]
  /\ UNCHANGED <<syncedAge, failures, streak, local, todo, resuming, up, crashes>>

WatchdogReset(c) ==
  /\ c \in stuck
  /\ stuck' = stuck \ {c}
  /\ status' = [status EXCEPT ![c] = "error"]
  /\ lastError' = [lastError EXCEPT ![c] = "transient"]
  /\ updatedAge' = [updatedAge EXCEPT ![c] = 0]
  /\ syncedAge' = [syncedAge EXCEPT ![c] = 0]
  /\ UNCHANGED <<failures, streak, local, todo, resuming, up, crashes>>

-----------------------------------------------------------------------------
(* Web routes that write the row.                                          *)

(* Mutant of WriteResumed: failure_count keeps its value.                  *)
WriteResumed_KeepsCount(c) ==
  /\ status' = [status EXCEPT ![c] = "pending"]
  /\ lastError' = [lastError EXCEPT ![c] = "none"]
  /\ updatedAge' = [updatedAge EXCEPT ![c] = 0]
  /\ streak' = [streak EXCEPT ![c] = 0]
  /\ UNCHANGED <<failures, syncedAge, local, todo, stuck, up, crashes>>

WriteResumed(c) ==
  /\ status' = [status EXCEPT ![c] = "pending"]
  /\ failures' = [failures EXCEPT ![c] = 0]
  /\ lastError' = [lastError EXCEPT ![c] = "none"]
  /\ updatedAge' = [updatedAge EXCEPT ![c] = 0]
  /\ streak' = [streak EXCEPT ![c] = 0]
  /\ UNCHANGED <<syncedAge, local, todo, stuck, up, crashes>>

(* Mutant of Resume: the check that the row is paused is dropped.          *)
Resume_AnyStatus(c) == WriteResumed(c) /\ UNCHANGED resuming

(* The resume route when nothing happens between its two calls.            *)
Resume(c) ==
  /\ status[c] = "paused"
  /\ WriteResumed(c)
  /\ UNCHANGED resuming

ResumeRead(c) ==
  /\ "resume_race" \in Faults
  /\ status[c] = "paused"
  /\ resuming' = resuming \cup {c}
  /\ UNCHANGED <<row, local, todo, stuck, up, crashes>>

ResumeWrite(c) ==
  /\ c \in resuming
  /\ resuming' \in {resuming, resuming \ {c}}   \* one of several requests
  /\ WriteResumed(c)

(* upload-csv marks the row active after every HTTP 200 of the worker, a   *)
(* refusal included.                                                       *)
WebMarkActive(r) ==
  LET c == conn[r] IN
  /\ pc[r] = "responded"
  /\ status' = [status EXCEPT ![c] = "active"]
  /\ lastError' = [lastError EXCEPT ![c] = "none"]
  /\ updatedAge' = [updatedAge EXCEPT ![c] = 0]
  /\ syncedAge' = [syncedAge EXCEPT ![c] = 0]
  /\ Leave(r, "idle")
  /\ UNCHANGED <<failures, streak, jobs, up, crashes>>

(* The web process does not get that far (timeout, closed connection).     *)
WebGivesUp(r) ==
  /\ pc[r] = "responded"
  /\ Leave(r, "idle")
  /\ UNCHANGED <<row, jobs, up, crashes>>

-----------------------------------------------------------------------------
(* The worker process dies: threads, queue and cron lists are gone, the    *)
(* row stays.  A web request that has its response already lives on.       *)

Crash ==
  /\ up /\ crashes < MaxCrashes
  /\ up' = FALSE
  /\ crashes' = crashes + 1
  /\ pc' = [r \in Run |-> IF pc[r] = "responded" THEN "responded" ELSE "idle"]
  /\ conn' = [r \in Run |-> IF pc[r] = "responded" THEN conn[r] ELSE NoConn]
  /\ seen' = [r \in Run |-> 0]
  /\ cause' = [r \in Run |-> "none"]
  /\ todo' = [j \in Cron |-> {}]
  /\ stuck' = {}
  /\ UNCHANGED <<row, resuming>>

Restart ==
  /\ ~up
  /\ up' = TRUE
  /\ UNCHANGED <<row, local, jobs, crashes>>

(* One tick passes.  updated_at is only compared while a row is syncing,   *)
(* last_sync_at only while it is in error, so they age only then.  Without *)
(* "overrun" every sync ends before its lease does; without "outage" the   *)
(* five-minute retry job reaches a due row before the row is too old.      *)
SyncsFitLease ==
  \A r \in Run : pc[r] \in Holding => updatedAge[conn[r]] + 1 < StuckTimeout
RetriesPunctual ==
  \A c \in ApiConn : RetryDue(c) => syncedAge[c] + 1 < RetryMaxAge

Tick ==
  /\ "overrun" \in Faults \/ SyncsFitLease
  /\ "outage" \in Faults \/ RetriesPunctual
  /\ updatedAge' = [c \in Conn |-> IF status[c] = "syncing"
                      THEN Capped(updatedAge[c], StuckTimeout) ELSE updatedAge[c]]
  /\ syncedAge' = [c \in Conn |-> IF status[c] = "error"
                      THEN Capped(syncedAge[c], RetryMaxAge) ELSE syncedAge[c]]
  /\ UNCHANGED <<status, failures, lastError, streak, local, jobs, up, crashes>>

-----------------------------------------------------------------------------
RequestStep(r) ==
  \/ \E c \in Conn : PreCheck(r, c) \/ RefusePaused(r, c)
  \/ LockGranted(r) \/ LockRefused(r) \/ LockLost(r) \/ PoolStart(r)
  \/ WebMarkActive(r) \/ WebGivesUp(r)

SyncStep(r) ==
  \/ Work(r)
  \/ MarkSynced(r) \/ MarkSyncedRaises(r)
  \/ ReadFailures(r) \/ MarkFailed(r) \/ MarkFailedRaises(r)

CronStep(j) ==
  \/ CronList(j) \/ CronDone(j)
  \/ \E c \in Conn : CronLock(j, c) \/ CronSkip(j, c) \/ CronLockRaises(j, c)

Next ==
  \/ \E r \in Request : RequestStep(r)
  \/ \E r \in Run : SyncStep(r)
  \/ \E j \in Cron : CronStep(j)
  \/ WatchdogList
  \/ \E c \in Conn : WatchdogReset(c)
  \/ \E c \in Conn : Resume(c) \/ ResumeRead(c) \/ ResumeWrite(c)
  \/ Crash \/ Restart \/ Tick

Spec == Init /\ [][Next]_vars

(* Threads run to the end of their handlers, the pool queue is first in    *)
(* first out, the scheduler fires its jobs, the supervisor restarts the    *)
(* worker and time passes.  Users and requests are not obliged to come.    *)
(* The retry job finds a database that fails, but not one that fails every *)
(* time for ever.                                                          *)
Fairness ==
  /\ \A r \in Run : WF_vars(SyncStep(r))
  /\ \A r \in Request : WF_vars(LockGranted(r) \/ LockRefused(r)) /\ SF_vars(PoolStart(r))
  /\ WF_vars(CronStep("retry"))
  /\ \A c \in ApiConn : SF_vars(CronLock("retry", c))
  /\ WF_vars(WatchdogList)
  /\ \A c \in Conn : WF_vars(WatchdogReset(c))
  /\ WF_vars(Restart)
  /\ WF_vars(Tick)

FairSpec == Spec /\ Fairness

-----------------------------------------------------------------------------
TypeOK ==
  /\ status \in [Conn -> Status]
  /\ failures \in [Conn -> 0..AutoPause]
  /\ lastError \in [Conn -> ErrorClass \cup {"none"}]
  /\ updatedAge \in [Conn -> 0..StuckTimeout]
  /\ syncedAge \in [Conn -> 0..RetryMaxAge]
  /\ pc \in [Run -> PC]
  /\ conn \in [Run -> Conn \cup {NoConn}]
  /\ seen \in [Run -> 0..AutoPause]
  /\ cause \in [Run -> ErrorClass \cup {"none"}]
  /\ todo \in [Cron -> SUBSET ApiConn]
  /\ stuck \subseteq Conn
  /\ resuming \subseteq Conn
  /\ up \in BOOLEAN
  /\ crashes \in 0..MaxCrashes
  /\ streak \in [Conn -> 0..AutoPause]

Working(r) == pc[r] \in Holding \ {"queued"}
Exclusive(c) ==
  \A r, s \in Run : Working(r) /\ Working(s) /\ conn[r] = c /\ conn[s] = c => r = s

(* Two syncs of one pulled warehouse never run at the same time, whichever *)
(* of the sync button, the nightly job, the retry job and a restarted      *)
(* worker started them: the reason the cron path takes the lock at all     *)
(* (scheduler.py, _run_connection_sync).                                   *)
OneSyncPerConnection == \A c \in ApiConn : Exclusive(c)

(* The same claim for warehouses fed by uploads (main.py, ingest_csv).     *)
(* Here the row's lock is not enough, since upload-csv and the watchdog    *)
(* may release it under its owner; the event loop has to do it.            *)
OneUploadPerConnection == \A c \in CsvConn : Exclusive(c)

(* While a sync of a pulled row owns it, from the pool queue to the write  *)
(* of its outcome, no cron job, watchdog pass or web route moves the row   *)
(* out of "syncing": the lock is not released under its owner.             *)
OwnedRowStaysLocked ==
  \A r \in Run : pc[r] \in Holding /\ conn[r] \in ApiConn => status[conn[r]] = "syncing"

(* A row the watchdog has listed is still ownerless when its turn to be    *)
(* reset comes: the unconditional UPDATE by id never overwrites the        *)
(* outcome of a live sync.                                                 *)
WatchdogHitsOnlyOrphans ==
  \A c \in stuck \cap ApiConn : \A r \in Run : pc[r] \in Holding => conn[r] # c

(* failure_count, read and written back in two calls, is the number of     *)
(* failed syncs since the last success or resume: no failure is lost and   *)
(* none of an earlier episode counts, so auto-pause means AutoPause        *)
(* failures in a row.                                                      *)
FailuresCountTheStreak == \A c \in ApiConn : failures[c] = streak[c]

(* "From paused a warehouse is only taken by hand" (_mark_connection_synced): *)
(* a step that moves a row out of "paused" is the resume route's.          *)
PausedLeftOnlyByResume ==
  [][\A c \in Conn : status[c] = "paused" => status'[c] \in {"paused", "pending"}]_vars

(* "A warehouse we do not pause must be exactly one that retry-transient   *)
(* repeats" (ingest_persist.py): an unpaused row in error has a transient  *)
(* error.                                                                  *)
UnpausedErrorIsRetryable ==
  \A c \in ApiConn : status[c] = "error" => lastError[c] = "transient"

(* No row stays "syncing" for ever, whatever crashes, lost updates and     *)
(* overlapping syncs there are: its owner or the watchdog ends it.         *)
SyncingEnds == \A c \in Conn : status[c] = "syncing" ~> status[c] # "syncing"

(* A pulled row in error with a transient cause is tried again without a   *)
(* user, also when the error is the watchdog's: it leaves the error, or a  *)
(* try that cannot take the lock fails with a cause of its own.            *)
TransientErrorIsRetried ==
  \A c \in ApiConn :
    status[c] = "error" /\ lastError[c] = "transient"
      ~> status[c] # "error" \/ lastError[c] # "transient"
=============================================================================
