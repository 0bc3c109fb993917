----------------------------- MODULE StaleFigures -----------------------------
(***************************************************************************)
(* The stock alarms of one recalculation: its first loop computes the      *)
(* figures of every product and notes whether the product's last snapshot  *)
(* is too old, its second one writes them and opens or closes the low and  *)
(* critical stock alarms.  Who is told, and the cooldown after an alarm    *)
(* was acknowledged, are in Alerts; here an insert may be skipped for it.  *)
(***************************************************************************)
EXTENDS Integers

CONSTANTS
  Products,   \* how many products the seller has
  Lags,       \* days by which a last snapshot is behind the window's end
  Covers      \* the days the stock lasts

ASSUME StaleFiguresAssumption ==
  /\ Products \in Nat \ {0}
  /\ Lags \subseteq Nat
  /\ Covers \subseteq Nat

VARIABLES
  loop,       \* the loop the run is in, or "none" between runs
  at,         \* the product it is at
  dataStale,  \* the variable of the first loop that the second one reads
  read,       \* what the first loop found of each product, or NoFigures
  raised,     \* the alarms open for each product
  dropped     \* the coverage at which the job closed an alarm, or NeverDropped

alarmVars == <<loop, at, dataStale, read, raised, dropped>>

Listed == 1..Products

StaleDataDays == 7

StockAlarm == {"critical", "low"}

NoFigures == [lag |-> 0, cover |-> -1]

NeverDropped == -1

FiguresInit ==
  /\ loop = "none"
  /\ at = 1
  /\ dataStale = FALSE
  /\ read = [p \in Listed |-> NoFigures]
  /\ raised = [p \in Listed |-> {}]
  /\ dropped = [p \in Listed |-> [k \in StockAlarm |-> NeverDropped]]
-----------------------------------------------------------------------------
(* The alarm a coverage calls for: at most one of the two.                 *)
Wanted(cover) ==
  IF cover <= 3 THEN {"critical"} ELSE IF cover <= 7 THEN {"low"} ELSE {}

(* A mutant: a low stock alarm closes at the coverage at which it opens.   *)
StillHeld_OpenThreshold(cover) ==
  {k \in StockAlarm : \/ k = "low" /\ cover <= 7
                      \/ k = "critical" /\ cover <= 5}

(* The open alarms that a coverage is not yet good enough to close.        *)
StillHeld(cover) ==
  {k \in StockAlarm : \/ k = "low" /\ cover <= 10
                      \/ k = "critical" /\ cover <= 5}

TooOld(lag) == lag > StaleDataDays

RunStarts ==
  /\ loop = "none"
  /\ loop' = "first" /\ at' = 1
  /\ UNCHANGED <<dataStale, read, raised, dropped>>

(* The first loop moves on, or makes way for the second.                   *)
FirstLoopMovesOn ==
  IF at = Products THEN loop' = "second" /\ at' = 1
                   ELSE at' = at + 1 /\ UNCHANGED loop

(* No snapshots, or an error before the age is looked at.                  *)
ProductIsPassedOver ==
  /\ loop = "first"
  /\ FirstLoopMovesOn
  /\ UNCHANGED <<dataStale, read, raised, dropped>>

(* The age is looked at; then an error takes the product out of the second *)
(* loop, or its figures are kept for it.                                   *)
ProductIsComputed ==
  /\ loop = "first"
  /\ \E lag \in Lags, cover \in Covers :
       /\ dataStale' = TooOld(lag)
       /\ \/ UNCHANGED read
          \/ read' = [read EXCEPT ![at] = [lag |-> lag, cover |-> cover]]
  /\ FirstLoopMovesOn
  /\ UNCHANGED <<raised, dropped>>
-----------------------------------------------------------------------------
(* What the second loop is told of the age of the figures of p.            *)
ToldStale(p) == dataStale

Desired(p) == IF ToldStale(p) THEN {} ELSE Wanted(read[p].cover)

(* The open alarms of p that its figures close.                            *)
Closing(p) == raised[p] \ (Desired(p) \union StillHeld(read[p].cover))

RunForgets ==
  /\ loop' = "none" /\ at' = 1
  /\ dataStale' = FALSE
  /\ read' = [p \in Listed |-> NoFigures]

SecondLoopMovesOn ==
  IF at = Products THEN RunForgets
                   ELSE at' = at + 1 /\ UNCHANGED <<loop, dataStale, read>>

CloseAlarms(closed, opened) ==
  /\ raised' = [raised EXCEPT ![at] = (@ \ closed) \union opened]
  /\ dropped' = [dropped EXCEPT ![at] = [k \in StockAlarm |->
                   IF k \in opened THEN NeverDropped
                   ELSE IF k \in closed THEN read[at].cover ELSE @[k]]]

(* The figures are written, alarms closed and opened; an alarm that was    *)
(* acknowledged lately is not opened again.                                *)
AlarmsAreWritten ==
  /\ loop = "second" /\ read[at] # NoFigures
  /\ \E opened \in SUBSET (Desired(at) \ raised[at]) :
       CloseAlarms(Closing(at), opened)
  /\ SecondLoopMovesOn

(* A call fails after some of the alarms were closed.                      *)
WritingFails ==
  /\ loop = "second" /\ read[at] # NoFigures
  /\ \E closed \in SUBSET Closing(at) : CloseAlarms(closed, {})
  /\ SecondLoopMovesOn

NothingToWrite ==
  /\ loop = "second" /\ read[at] = NoFigures
  /\ SecondLoopMovesOn
  /\ UNCHANGED <<raised, dropped>>

(* The worker stops in the middle of a run.                                *)
RunDies ==
  /\ loop # "none"
  /\ RunForgets
  /\ UNCHANGED <<raised, dropped>>

FiguresNext ==
  \/ RunStarts
  \/ ProductIsPassedOver
  \/ ProductIsComputed
  \/ AlarmsAreWritten
  \/ WritingFails
  \/ NothingToWrite
  \/ RunDies

FiguresSpec == FiguresInit /\ [][FiguresNext]_alarmVars
-----------------------------------------------------------------------------
(* No alarm to reorder is opened for a product whose last snapshot is too  *)
(* old: recalc.py:283-285 promises it.  The run tells the second loop the  *)
(* age of the last product of the first loop instead (recalc.py:543).      *)
StaleRaisesNoAlarm ==
  [][\A p \in Listed :
       raised'[p] \ raised[p] # {} => ~TooOld(read[p].lag)]_alarmVars

(* An alarm the job has closed opens again only at a coverage more than    *)
(* two days lower: figures that swing around a threshold, runs that fail   *)
(* half-way and alarms left open on stale figures do not make it flap.     *)
AlarmsDoNotFlap ==
  [][\A p \in Listed : \A k \in raised'[p] \ raised[p] :
       dropped[p][k] # NeverDropped =>
         dropped[p][k] - read[p].cover > 2]_alarmVars
=============================================================================
