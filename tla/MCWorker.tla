------------------------------ MODULE MCWorker -------------------------------
(***************************************************************************)
(* The parts of the worker, and of the pages that show what it writes, that*)
(* share no state in their models, checked in one run: in each behaviour   *)
(* one part is at work and the others rest at one of their initial states. *)
(***************************************************************************)
EXTENDS DashboardCache, Alerts, Reports, SourceFetch, SyncErrors,
        RadarPoll, Engine, EventTables, StaleFigures, MonthlyFigures

VARIABLE part  \* the part at work

Least(numbers) == CHOOSE n \in numbers : \A k \in numbers : n <= k

(* The seller whose price list has the model.                              *)
SomeWatcher == CHOOSE s \in Watcher : TRUE

(* The windows of a run in the order they are written.                     *)
SpanUsed == <<1, 2>>

(* What the engine may find of the one product of the reports: it is       *)
(* frozen, its stock with a price or without.                              *)
Frozen(worth) ==
  [cover |-> 200, stock |-> 200, price |-> worth,
   velocity |-> 1, risk |-> FALSE, lost |-> FALSE]
FiguresUsed == <<{Frozen(1), Frozen(0)}>>
HomeUsed == <<"h1">>

(* A month in which a product sold slowly and stock is at the bound of the *)
(* dead, one in which it is beyond, and one in which it also ran out.      *)
HappenedUsed ==
  {[sold |-> 1, in |-> 2, out |-> 0, stock |-> 2, price |-> 1],
   [sold |-> 2, in |-> 2, out |-> 0, stock |-> 5, price |-> 2],
   [sold |-> 2, in |-> 1, out |-> 1, stock |-> 9, price |-> 1]}

Init ==
  /\ part \in {"dashboard", "alerts", "reports", "source", "errors", "poll",
              "engine", "tables", "alarms", "sheets", "monthly"}
  /\ DashboardInit
  /\ AlertsInit /\ (part # "alerts" => chronic /\ \A w \in 1..AlertWindows : figures[w] = "close")
  /\ ReportsInit
  /\ SourceInit /\ (part # "source" => source = "sheet" /\ pageLimit = Least(PageLimits))
  /\ ErrorsInit
  /\ PollInit /\ inPrice = {SomeWatcher}
  /\ EngineInit
  /\ TablesInit
  /\ FiguresInit
  /\ SheetsInit
  /\ MonthlyInit

(* The part p is at work.                                                  *)
Turn(p) == part = p

(* All others rest.                                                        *)
Rest(p) ==
  /\ UNCHANGED part
  /\ IF p = "dashboard" THEN TRUE ELSE UNCHANGED dashboardVars
  /\ IF p = "alerts" THEN TRUE ELSE UNCHANGED alertVars
  /\ IF p = "reports" THEN TRUE ELSE UNCHANGED reportVars
  /\ IF p = "source" THEN TRUE ELSE UNCHANGED sourceVars
  /\ IF p = "errors" THEN TRUE ELSE UNCHANGED errorVars
  /\ IF p = "poll" THEN TRUE ELSE UNCHANGED radarVars
  /\ IF p = "engine" THEN TRUE ELSE UNCHANGED engineVars
  /\ IF p = "tables" THEN TRUE ELSE UNCHANGED tableVars
  /\ IF p = "alarms" THEN TRUE ELSE UNCHANGED alarmVars
  /\ IF p = "sheets" THEN TRUE ELSE UNCHANGED sheetVars
  /\ IF p = "monthly" THEN TRUE ELSE UNCHANGED monthlyVars

Next ==
  \/ Turn("dashboard") /\ DashboardNext /\ Rest("dashboard")
  \/ Turn("alerts") /\ AlertsNext /\ Rest("alerts")
  \/ Turn("reports") /\ ReportsNext /\ Rest("reports")
  \/ Turn("source") /\ SourceNext /\ Rest("source")
  \/ Turn("errors") /\ ErrorsNext /\ Rest("errors")
  \/ Turn("poll") /\ PollNext /\ Rest("poll")
  \/ Turn("engine") /\ EngineNext /\ Rest("engine")
  \/ Turn("tables") /\ TablesNext /\ Rest("tables")
  \/ Turn("alarms") /\ FiguresNext /\ Rest("alarms")
  \/ Turn("sheets") /\ SheetsNext /\ Rest("sheets")
  \/ Turn("monthly") /\ MonthlyNext /\ Rest("monthly")

Spec == Init /\ [][Next]_<<part, dashboardVars, alertVars, reportVars,
                         sourceVars, errorVars, radarVars, engineVars,
                         tableVars, alarmVars, sheetVars, monthlyVars>>
=============================================================================
