--------------------------- MODULE DashboardCache ---------------------------
(***************************************************************************)
(* The cached figures of the dashboard (lib/dashboard-cache.ts) and the    *)
(* recalculation that writes what they are made of (jobs/recalc.py).       *)
(*                                                                         *)
(* A recalculation goes through the windows (7, 30 and 90 days) in order   *)
(* and for each writes the velocities of the products, then one row of     *)
(* warehouse_metrics.  A page load reads the stamp of the newest row and   *)
(* asks the cache under (window, stamp); a miss reads both tables.         *)
(*                                                                         *)
(* One warehouse.  Figures are known by the number of the recalculation    *)
(* that computed them; the rows of the products are written as one.        *)
(***************************************************************************)
EXTENDS Naturals

CONSTANTS
  Windows,      \* the number of windows, by the order they are written in
  Load,         \* page loads under way at the same time
  MaxRuns,      \* bound on recalculations
  MaxDay,       \* bound on midnights
  MaxFailures   \* bound on failed reads and writes

ASSUME DashboardAssumption ==
  /\ Windows \in Nat \ {0}
  /\ MaxRuns \in Nat /\ MaxDay \in Nat \ {0} /\ MaxFailures \in Nat

Window == 1..Windows
Day == 1..MaxDay

VARIABLES
  today,       \* the calendar day of the worker
  velocity,    \* tvelo_metrics: for each window and period_end the run, 0: no row
  metrics,     \* warehouse_metrics: for each window and period_end the run
  computedAt,  \* its computed_at, as a number of the order of writes
  lastStamp,   \* the latest computed_at handed out
  run,         \* the recalculations started
  writing,     \* the window the recalculation is at, 0: none is running
  wrote,       \* the part of that window that is written next
  periodEnd,   \* its period_end
  closed,      \* history: the last run wrote its last row of metrics
  sameDay,     \* history: it wrote all rows, with one period_end
  failures,    \* the failures so far
  cache,       \* entries of the data cache, by window and stamp
  loadAt,      \* where each load is
  asked,       \* the key it asks for: window and stamp
  gotMetrics,  \* the row it has read, once it has
  gotVelocity, \* the velocities it has read
  spoilt       \* history: loads one of whose queries failed

tables == <<velocity, metrics, computedAt>>
worker == <<lastStamp, run, writing, wrote, periodEnd, closed, sameDay>>
loads == <<loadAt, asked, gotMetrics, gotVelocity, spoilt>>
dashboardVars == <<today, tables, worker, failures, cache, loads>>

Key == Window \X Nat
NoRow == [window |-> 0, run |-> 0]
Unread == [window |-> 0, run |-> MaxRuns + 1]

-----------------------------------------------------------------------------
(* What a reader of the tables finds.                                      *)

Rows == {r \in Window \X Day : metrics[r[1]][r[2]] # 0}

(* order by computed_at desc limit 1; 0 stands for "none".                 *)
Stamp == CHOOSE s \in {0} \cup {computedAt[r[1]][r[2]] : r \in Rows} :
           \A r \in Rows : computedAt[r[1]][r[2]] <= s

Newest == {r \in Rows : \A q \in Rows : q[2] <= r[2]}

RowOf(r) == [window |-> r[1], run |-> metrics[r[1]][r[2]]]

(* Mutant: the row is taken by its date alone.                             *)
MetricsFor_AnyWindow(w) ==
  IF Rows = {} THEN {NoRow} ELSE {RowOf(r) : r \in Newest}

(* The row of the latest period_end and the window asked for, else any row *)
(* of that period_end: the rows of one day come in no order.               *)
MetricsFor(w) ==
  IF Rows = {} THEN {NoRow}
  ELSE IF \E r \in Newest : r[1] = w THEN {RowOf(r) : r \in {q \in Newest : q[1] = w}}
  ELSE {RowOf(r) : r \in Newest}

(* get_dashboard_velocities: any window of the latest period_end.          *)
Velocities ==
  LET measured == {r \in Window \X Day : velocity[r[1]][r[2]] # 0}
      newest == {r \in measured : \A q \in measured : q[2] <= r[2]}
  IN  IF measured = {} THEN {NoRow}
      ELSE {[window |-> r[1], run |-> velocity[r[1]][r[2]]] : r \in newest}

-----------------------------------------------------------------------------
DashboardInit ==
  /\ today = 1
  /\ velocity = [w \in Window |-> [d \in Day |-> 0]]
  /\ metrics = [w \in Window |-> [d \in Day |-> 0]]
  /\ computedAt = [w \in Window |-> [d \in Day |-> 0]]
  /\ lastStamp = 0
  /\ run = 0 /\ writing = 0 /\ wrote = "nothing" /\ periodEnd = 1
  /\ closed = TRUE /\ sameDay = TRUE
  /\ failures = 0
  /\ cache = [k \in {} |-> NoRow]
  /\ loadAt = [l \in Load |-> "idle"]
  /\ asked = [l \in Load |-> <<1, 0>>]
  /\ gotMetrics = [l \in Load |-> Unread]
  /\ gotVelocity = [l \in Load |-> Unread]
  /\ spoilt = {}

Midnight ==
  /\ today < MaxDay
  /\ today' = today + 1
  /\ UNCHANGED <<tables, worker, failures, cache, loads>>

-----------------------------------------------------------------------------
(* The recalculation.  The period_end of a window is the day its turn      *)
(* comes.  Whatever fails is logged and the next write follows.            *)

StartWindow(w) ==
  /\ writing' = w
  /\ wrote' = "nothing"
  /\ periodEnd' = today

StartRun ==
  /\ writing = 0 /\ run < MaxRuns
  /\ run' = run + 1
  /\ StartWindow(1)
  /\ closed' = FALSE /\ sameDay' = TRUE
  /\ UNCHANGED <<today, tables, lastStamp, failures, cache, loads>>

NextPart == [nothing |-> "velocity", velocity |-> "metrics", metrics |-> "done"]

(* After the second part of a window comes the next one, or the end.       *)
Advance ==
  LET part == NextPart[wrote]
  IN  IF NextPart[part] # "done"
      THEN wrote' = part /\ UNCHANGED <<writing, periodEnd>>
      ELSE IF writing < Windows
      THEN StartWindow(writing + 1)
      ELSE writing' = 0 /\ wrote' = "nothing" /\ UNCHANGED periodEnd

Writes(part) == writing # 0 /\ NextPart[wrote] = part

OneDay == sameDay /\ (writing < Windows => today = periodEnd)

WriteVelocities ==
  /\ Writes("velocity")
  /\ velocity' = [velocity EXCEPT ![writing][periodEnd] = run]
  /\ Advance
  /\ UNCHANGED <<today, metrics, computedAt, lastStamp, run, closed, sameDay,
                 failures, cache, loads>>

WriteMetrics ==
  /\ Writes("metrics")
  /\ metrics' = [metrics EXCEPT ![writing][periodEnd] = run]
  /\ computedAt' = [computedAt EXCEPT ![writing][periodEnd] = lastStamp + 1]
  /\ lastStamp' = lastStamp + 1
  /\ closed' = (writing = Windows)
  /\ sameDay' = OneDay
  /\ cache' = [k \in {} |-> NoRow]
  /\ Advance
  /\ UNCHANGED <<today, velocity, run, failures, loads>>

(* The write of a product, of a row of metrics, or the whole window.       *)
WriteFails ==
  /\ writing # 0 /\ failures < MaxFailures
  /\ failures' = failures + 1
  /\ closed' = FALSE /\ sameDay' = FALSE
  /\ Advance
  /\ UNCHANGED <<today, tables, lastStamp, run, cache, loads>>

WorkerDies ==
  /\ writing # 0 /\ failures < MaxFailures
  /\ failures' = failures + 1
  /\ writing' = 0 /\ wrote' = "nothing"
  /\ closed' = FALSE /\ sameDay' = FALSE
  /\ UNCHANGED <<today, tables, lastStamp, run, periodEnd, cache, loads>>

-----------------------------------------------------------------------------
(* A load of the page.  unstable_cache keeps what its function returns     *)
(* under the key it was called with; two loads may miss at once.           *)

LoadStamp(l, w) ==
  /\ loadAt[l] = "idle"
  /\ asked' = [asked EXCEPT ![l] = <<w, Stamp>>]
  /\ loadAt' = [loadAt EXCEPT ![l] = "stamped"]
  /\ UNCHANGED <<today, tables, worker, failures, cache, gotMetrics, gotVelocity, spoilt>>

(* The failed query is not told from one without rows.                     *)
LoadStampFails(l, w) ==
  /\ loadAt[l] = "idle" /\ failures < MaxFailures
  /\ failures' = failures + 1
  /\ asked' = [asked EXCEPT ![l] = <<w, 0>>]
  /\ loadAt' = [loadAt EXCEPT ![l] = "stamped"]
  /\ UNCHANGED <<today, tables, worker, cache, gotMetrics, gotVelocity, spoilt>>

Answer(l) ==
  /\ loadAt' = [loadAt EXCEPT ![l] = "idle"]
  /\ asked' = [asked EXCEPT ![l] = <<1, 0>>]
  /\ gotMetrics' = [gotMetrics EXCEPT ![l] = Unread]
  /\ gotVelocity' = [gotVelocity EXCEPT ![l] = Unread]
  /\ spoilt' = spoilt \ {l}

CacheHit(l) ==
  /\ loadAt[l] = "stamped" /\ asked[l] \in DOMAIN cache
  /\ Answer(l)
  /\ UNCHANGED <<today, tables, worker, failures, cache>>

StartFetch(l) == loadAt' = [loadAt EXCEPT ![l] = "fetching"]

CacheMiss(l) ==
  /\ loadAt[l] = "stamped" /\ asked[l] \notin DOMAIN cache
  /\ StartFetch(l)
  /\ UNCHANGED <<today, tables, worker, failures, cache, asked, gotMetrics, gotVelocity, spoilt>>

(* An entry older than a day is served once more and fetched again.        *)
CacheRevalidates(l) ==
  /\ loadAt[l] = "stamped" /\ asked[l] \in DOMAIN cache
  /\ StartFetch(l)
  /\ UNCHANGED <<today, tables, worker, failures, cache, asked, gotMetrics, gotVelocity, spoilt>>

(* The two queries run side by side.                                       *)
ReadMetrics(l) ==
  /\ loadAt[l] = "fetching" /\ gotMetrics[l] = Unread
  /\ \E row \in MetricsFor(asked[l][1]) : gotMetrics' = [gotMetrics EXCEPT ![l] = row]
  /\ UNCHANGED <<today, tables, worker, failures, cache, loadAt, asked, gotVelocity, spoilt>>

ReadVelocity(l) ==
  /\ loadAt[l] = "fetching" /\ gotVelocity[l] = Unread
  /\ \E row \in Velocities : gotVelocity' = [gotVelocity EXCEPT ![l] = row]
  /\ UNCHANGED <<today, tables, worker, failures, cache, loadAt, asked, gotMetrics, spoilt>>

(* supabase-js does not raise: { data: null } reads like an empty table.   *)
ReadMetricsFails(l) ==
  /\ loadAt[l] = "fetching" /\ gotMetrics[l] = Unread /\ failures < MaxFailures
  /\ failures' = failures + 1
  /\ gotMetrics' = [gotMetrics EXCEPT ![l] = NoRow]
  /\ spoilt' = spoilt \cup {l}
  /\ UNCHANGED <<today, tables, worker, cache, loadAt, asked, gotVelocity>>

ReadVelocityFails(l) ==
  /\ loadAt[l] = "fetching" /\ gotVelocity[l] = Unread /\ failures < MaxFailures
  /\ failures' = failures + 1
  /\ gotVelocity' = [gotVelocity EXCEPT ![l] = NoRow]
  /\ spoilt' = spoilt \cup {l}
  /\ UNCHANGED <<today, tables, worker, cache, loadAt, asked, gotMetrics>>

(* Entries of an older stamp are asked for no more: they are forgotten.    *)
FileUnder(k, l) ==
  /\ cache' = [q \in {q \in DOMAIN cache : q[2] = Stamp} \cup {k} |->
                 IF q = k THEN [metrics |-> gotMetrics[l], velocity |-> gotVelocity[l],
                                whole |-> l \notin spoilt]
                 ELSE cache[q]]
  /\ Answer(l)
  /\ UNCHANGED <<today, tables, worker, failures>>

(* Mutant: the entry is filed under the stamp of its own time.             *)
FillCache_Restamped(l) ==
  /\ loadAt[l] = "fetching" /\ gotMetrics[l] # Unread /\ gotVelocity[l] # Unread
  /\ FileUnder(<<asked[l][1], Stamp>>, l)

FillCache(l) ==
  /\ loadAt[l] = "fetching" /\ gotMetrics[l] # Unread /\ gotVelocity[l] # Unread
  /\ FileUnder(asked[l], l)

-----------------------------------------------------------------------------
DashboardNext ==
  \/ Midnight \/ StartRun \/ WriteVelocities \/ WriteMetrics \/ WriteFails \/ WorkerDies
  \/ \E l \in Load :
       \/ \E w \in Window : LoadStamp(l, w) \/ LoadStampFails(l, w)
       \/ CacheHit(l) \/ CacheMiss(l) \/ CacheRevalidates(l)
       \/ ReadMetrics(l) \/ ReadVelocity(l) \/ ReadMetricsFails(l) \/ ReadVelocityFails(l)
       \/ FillCache(l)

DashboardSpec == DashboardInit /\ [][DashboardNext]_dashboardVars

-----------------------------------------------------------------------------
(* Every variable keeps to its domain.                                     *)
DashboardTypeOK ==
  /\ today \in Day /\ periodEnd \in Day
  /\ velocity \in [Window -> [Day -> 0..MaxRuns]]
  /\ metrics \in [Window -> [Day -> 0..MaxRuns]]
  /\ computedAt \in [Window -> [Day -> Nat]]
  /\ lastStamp \in Nat
  /\ run \in 0..MaxRuns /\ writing \in 0..Windows
  /\ wrote \in {"nothing", "velocity", "metrics"}
  /\ closed \in BOOLEAN /\ sameDay \in BOOLEAN
  /\ failures \in 0..MaxFailures
  /\ DOMAIN cache \subseteq Key
  /\ loadAt \in [Load -> {"idle", "stamped", "fetching"}]
  /\ asked \in [Load -> Key]
  /\ spoilt \subseteq Load

(* Between recalculations, what the cache holds under the current stamp is *)
(* what the tables would give now, for every window, as long as the last   *)
(* row of the last run was written and the queries behind the entry did    *)
(* not fail: no page load that overlapped the run left older figures there.*)
CacheIsCurrent ==
  closed =>
    \A k \in DOMAIN cache :
      k[2] = Stamp /\ cache[k].whole =>
        cache[k].metrics \in MetricsFor(k[1]) /\ cache[k].velocity \in Velocities

(* After a run that wrote everything before midnight, the cached figures   *)
(* are those of that run and of the window asked for, though a load in the *)
(* middle of it is given another window's.                                 *)
TilesShowTheLastRun ==
  closed /\ sameDay /\ run > 0 =>
    \A k \in DOMAIN cache :
      k[2] = Stamp /\ cache[k].whole =>
        /\ cache[k].metrics = [window |-> k[1], run |-> run]
        /\ cache[k].velocity.run = run

(* The tiles show what the tables hold and what the last run wrote.        *)
DashboardIsTrue == CacheIsCurrent /\ TilesShowTheLastRun
=============================================================================
