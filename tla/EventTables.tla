---------------------------- MODULE EventTables -----------------------------
(***************************************************************************)
(* The rows a recalculation writes for the days of one product, in         *)
(* inventory_events and in changelog: deleted and inserted for each window *)
(* in turn, by calls any of which may fail or be repeated, while days      *)
(* pass, snapshots come and a second run may have taken the lock over.     *)
(***************************************************************************)
EXTENDS Integers, Sequences

CONSTANTS
  Writer,      \* recalculations of the seller
  Span,        \* days of the windows, in the order they are written
  Kept,        \* _EVENTS_RETENTION_DAYS
  FinalDay,    \* bound on the days
  MaxShots,    \* bound on the snapshots
  MaxWrites,   \* bound on the runs that start
  MaxSlips     \* bound on calls that fail or are repeated

DayShown == {"none", "arrived", "dearer"}  \* what a day's last snapshot shows
RowKind == {"event", "log", "price"}               \* inventory_events; changelog, twice
WideSpan == Span[Len(Span)]

ASSUME EventTablesAssumption ==
  /\ Span \in Seq(Nat) /\ Span # <<>> /\ \A i \in DOMAIN Span : Span[i] \in 1..WideSpan
  /\ Kept \in Nat /\ Kept >= WideSpan - 1
  /\ FinalDay \in Nat \ {0} /\ {MaxShots, MaxWrites, MaxSlips} \subseteq Nat

VARIABLES
  eventDay,   \* today
  daySeen,    \* what the snapshots of each day show
  dayRows,     \* rows of a day and kind: how many, and what they were made of
  writer,     \* each run: window, next call, what it has read
  whole,      \* the last run that wrote its last window alone and without a slip
  shots,      \* snapshots taken
  writes,     \* runs started
  slips

tableVars == <<eventDay, daySeen, dayRows, writer, whole, shots, writes, slips>>

EventDays == 1..FinalDay
NoRows == [copies |-> 0, made |-> "none"]
NotWriting == [window |-> 0, call |-> 0, today |-> 0, read |-> [d \in EventDays |-> "none"],
               alone |-> FALSE]
Nobody == [today |-> 0, read |-> NotWriting.read]

TablesInit ==
  /\ eventDay = 1
  /\ daySeen = [d \in EventDays |-> "none"]
  /\ dayRows = [d \in EventDays |-> [k \in RowKind |-> NoRows]]
  /\ writer = [r \in Writer |-> NotWriting]
  /\ whole = Nobody /\ shots = 0 /\ writes = 0 /\ slips = 0

SnapshotComes ==
  \E shown \in DayShown \ {"none"} :
    /\ daySeen[eventDay] # shown
    /\ shots < MaxShots /\ shots' = shots + 1
    /\ daySeen' = [daySeen EXCEPT ![eventDay] = shown]
    /\ UNCHANGED <<eventDay, dayRows, writer, whole, writes, slips>>

DayBreaks ==
  /\ eventDay < FinalDay
  /\ eventDay' = eventDay + 1
  /\ UNCHANGED <<daySeen, dayRows, writer, whole, shots, writes, slips>>

WindowOf(days, end) == {d \in EventDays : end - days < d /\ d <= end}

(* The days that get a row of the kind: each that has a snapshot; each     *)
(* with an arrival, and each without data after the first with data; each  *)
(* with a new price, if the window has an earlier one to compare.          *)
DaysWithRow(k, days, end, read) ==
  LET window == WindowOf(days, end)
      later(d) == \E e \in window : e < d /\ read[e] # "none"
  IN CASE k = "event" -> {d \in window : read[d] # "none"}
       [] k = "log" -> {d \in window : read[d] = "arrived" \/ (read[d] = "none" /\ later(d))}
       [] k = "price" -> {d \in window : read[d] = "dearer" /\ later(d)}

(* The calls of a window: which kinds they delete, or which they insert.   *)
Deleted(call) == CASE call = 1 -> {"event"} [] call = 3 -> {"log", "price"} [] OTHER -> {}
Inserted(call) ==
  CASE call = 2 -> {"event"} [] call = 4 -> {"log"} [] call = 5 -> {"price"} [] OTHER -> {}

(* Mutant: the first day of the window is kept.                            *)
DeletedDays_AfterFirst(run) ==
  WindowOf(Span[run.window], run.today) \ {run.today - Span[run.window] + 1}

DeletedDays(run) == WindowOf(Span[run.window], run.today)

RowDays(run, k) == DaysWithRow(k, Span[run.window], run.today, run.read)

(* What the tables are after the call has taken effect so many times.      *)
TablesAfter(run, times) ==
  LET deletes(d, k) == k \in Deleted(run.call) /\ d \in DeletedDays(run)
      inserts(d, k) == k \in Inserted(run.call) /\ d \in RowDays(run, k)
      more(rows) == IF rows.copies + times > 2 THEN 2 ELSE rows.copies + times
  IN IF times = 0 THEN dayRows
     ELSE [d \in EventDays |-> [k \in RowKind |->
            IF deletes(d, k) THEN NoRows
            ELSE IF inserts(d, k) THEN [copies |-> more(dayRows[d][k]), made |-> run.read[d]]
            ELSE dayRows[d][k]]]

(* Nothing is inserted without rows, and inventory_events is left alone by *)
(* a window without a snapshot.                                            *)
CallsToMake(run) ==
  {c \in run.call + 1..5 :
     \/ c = 3
     \/ c = 1 /\ RowDays(run, "event") # {}
     \/ \E k \in Inserted(c) : RowDays(run, k) # {}}

(* After the call: the next one, the next window, or the end.              *)
After(run) ==
  LET left == CallsToMake(run)
  IN IF left # {} THEN [run EXCEPT !.call = CHOOSE c \in left : \A e \in left : c <= e]
     ELSE IF run.window < Len(Span) THEN [run EXCEPT !.call = 0]
     ELSE NotWriting

(* A window begins: today and the snapshots are read anew.                 *)
BeginWindow(r) ==
  /\ writer[r].call = 0
  /\ \/ writer[r].window = 0 /\ writes < MaxWrites /\ writes' = writes + 1
     \/ writer[r].window # 0 /\ UNCHANGED writes
  /\ writer' = [writer EXCEPT ![r] = After([window |-> @.window + 1, call |-> 0,
                                            today |-> eventDay, read |-> daySeen,
                                            alone |-> TRUE])]
  /\ UNCHANGED <<eventDay, daySeen, dayRows, whole, shots, slips>>

(* The others are no longer alone.                                         *)
Disturbed(r, mine) ==
  [q \in Writer |-> IF q = r THEN mine ELSE [writer[q] EXCEPT !.alone = FALSE]]

(* A call that takes effect; a transport that saw no answer repeats it.    *)
WriteCall(r) ==
  LET run == writer[r]
      done == After(run) = NotWriting
  IN /\ run.call # 0
     /\ \E times \in {1, 2} :
          /\ times = 2 => slips < MaxSlips
          /\ slips' = slips + times - 1
          /\ dayRows' = TablesAfter(run, times)
          /\ whole' = IF done /\ run.alone /\ times = 1 THEN [today |-> run.today, read |-> run.read]
                      ELSE Nobody
          /\ writer' = Disturbed(r, After([run EXCEPT !.alone = @ /\ times = 1]))
     /\ UNCHANGED <<eventDay, daySeen, shots, writes>>

(* A call that raises, its effect made or not: the rest of the window is   *)
(* given up for this product.                                              *)
WriteRaises(r) ==
  LET run == writer[r]
  IN /\ run.call # 0 /\ slips < MaxSlips
     /\ slips' = slips + 1
     /\ \E times \in {0, 1} : dayRows' = TablesAfter(run, times)
     /\ whole' = Nobody
     /\ writer' = Disturbed(r, After([run EXCEPT !.call = 5]))
     /\ UNCHANGED <<eventDay, daySeen, shots, writes>>

(* The worker dies.                                                        *)
WriterDies(r) ==
  /\ writer[r].window # 0 /\ slips < MaxSlips
  /\ slips' = slips + 1
  /\ writer' = [writer EXCEPT ![r] = NotWriting]
  /\ UNCHANGED <<eventDay, daySeen, dayRows, whole, shots, writes>>

(* _job_metrics_retention deletes what is older than any window.           *)
OldRowsGo ==
  /\ dayRows' = [d \in EventDays |-> IF d < eventDay - Kept THEN [k \in RowKind |-> NoRows]
                                    ELSE dayRows[d]]
  /\ dayRows' # dayRows
  /\ UNCHANGED <<eventDay, daySeen, writer, whole, shots, writes, slips>>

TablesNext ==
  \/ SnapshotComes \/ DayBreaks \/ OldRowsGo
  \/ \E r \in Writer : BeginWindow(r) \/ WriteCall(r) \/ WriteRaises(r) \/ WriterDies(r)

(***************************************************************************)
(* Properties.                                                             *)
(***************************************************************************)

(* A run whose last window went through alone and without a slip leaves    *)
(* each day of that window with exactly the rows its snapshots call for,   *)
(* whatever its earlier windows, the runs before it and those it crossed   *)
(* had left: rows twice, rows missing, rows of an earlier state of the     *)
(* day.  Retention takes none of them while they can be seen.              *)
EventsAreWhole ==
  whole # Nobody =>
    \A d \in WindowOf(WideSpan, whole.today), k \in RowKind :
      d > eventDay - WideSpan =>
        dayRows[d][k] = IF d \in DaysWithRow(k, WideSpan, whole.today, whole.read)
                       THEN [copies |-> 1, made |-> whole.read[d]] ELSE NoRows

TablesSpec == TablesInit /\ [][TablesNext]_tableVars
=============
