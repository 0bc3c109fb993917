---------------------------- MODULE ReportSheets ----------------------------
(***************************************************************************)
(* What the daily report of a seller says: the dispatch takes the kinds    *)
(* that are due, asks for the window and then for the rows of each kind,   *)
(* call by call, and makes a file of them, while a run of the engine may   *)
(* be writing the same tables, window by window and product by product.    *)
(* When and how often it is sent is the matter of Reports.  The limit of   *)
(* rows of a sheet is left out.                                            *)
(***************************************************************************)
EXTENDS Integers, FiniteSets

CONSTANTS
  Items,         \* the seller's products are 1..Items
  ReportWindow,  \* the lengths of the windows a run writes
  Month,         \* the length the reports are about
  Figures,       \* what the engine may compute of each product
  HomeOf,        \* the warehouse of each product
  Offered,       \* the kinds the seller subscribes to
  CriticalBelow, FrozenAbove,  \* coverage_days_threshold of two kinds
  RowLimit,      \* rows latest_30d_window looks at
  LastReportDay, \* bound on the days
  MaxNightRuns   \* bound on the runs

(* The kinds in the order they are asked for; the last one is the summary. *)
AskOrder == <<"critical_stock", "dead_inventory", "underestimated_sku", "weekly_report">>
ListKinds == {AskOrder[i] : i \in 1..3}
Summary == AskOrder[4]

ASSUME ReportSheetsAssumption ==
  /\ Month \in ReportWindow /\ ReportWindow \subseteq Nat
  /\ \A i \in 1..Items : Figures[i] \subseteq
       [cover : Nat, stock : Nat, price : Nat, velocity : Nat, risk : BOOLEAN, lost : BOOLEAN]
  /\ DOMAIN HomeOf = 1..Items /\ Offered \subseteq ListKinds \cup {Summary}
  /\ {Items, CriticalBelow, FrozenAbove, RowLimit, LastReportDay, MaxNightRuns} \subseteq Nat

VARIABLES
  reportDay,  \* today
  lists,      \* tvelo_metrics: rows [day, window, item, figure]
  summaries,  \* store_metrics: rows [day, window]
  nightRun,   \* the run at work: its day, its window and the product it is at
  nightRuns,  \* the runs so far
  due,        \* the kinds of the dispatch
  toAsk,       \* those of them it has still to ask for
  window,     \* the window it has read for the kind it is at
  got,        \* the rows it has read of each kind
  sheets,     \* the file: sheets [kind, home, rows]
  verdict,    \* how the dispatch ended
  crossed     \* a run was at work since it began, or one of its lookups failed

runVars == <<reportDay, lists, summaries, nightRun, nightRuns>>
gotVars == <<due, toAsk, window, got>>
endVars == <<sheets, verdict>>
sheetVars == <<runVars, gotVars, endVars, crossed>>

NoRun == [at |-> "none"]
NoWindow == [found |-> FALSE]
Nothing == [k \in ListKinds \cup {Summary} |-> {}]

SheetsInit ==
  /\ reportDay = 1 /\ lists = {} /\ summaries = {}
  /\ nightRun = NoRun /\ nightRuns = 0
  /\ due = {} /\ toAsk = {} /\ window = NoWindow /\ got = Nothing
  /\ sheets = {} /\ verdict = "none" /\ crossed = FALSE

(***************************************************************************)
(* The run.  A row is inserted, or updated if the day has it already.      *)
(***************************************************************************)
Shortest(ws) == CHOOSE w \in ws : \A v \in ws : w <= v

(* Each window asks anew what day it is.                                   *)
AtWindow(w) == [at |-> "rows", day |-> reportDay, window |-> w, item |-> 1]

(* A dispatch at work is crossed; of one that is over nothing is left.     *)
CrossReport ==
  IF verdict = "none" THEN crossed' = (due # {}) /\ UNCHANGED <<gotVars, sheets, verdict>>
  ELSE /\ crossed' = FALSE
       /\ due' = {} /\ sheets' = {} /\ verdict' = "none"
       /\ UNCHANGED <<toAsk, window, got>>

StartNightRun ==
  /\ nightRun = NoRun /\ nightRuns < MaxNightRuns
  /\ nightRuns' = nightRuns + 1
  /\ nightRun' = AtWindow(Shortest(ReportWindow))
  /\ CrossReport /\ UNCHANGED <<reportDay, lists, summaries>>

(* A product that fails, or has no history, keeps the row it had.          *)
WriteItem ==
  LET row(f) == [day |-> nightRun.day, window |-> nightRun.window,
                 item |-> nightRun.item, figure |-> f]
  IN /\ nightRun # NoRun /\ nightRun.item <= Items
     /\ \/ \E f \in Figures[nightRun.item] :
             lists' = {row(f)} \cup {r \in lists : r # row(r.figure)}
        \/ UNCHANGED lists
     /\ nightRun' = [nightRun EXCEPT !.item = @ + 1]
     /\ CrossReport /\ UNCHANGED <<reportDay, summaries, nightRuns>>

LaterWindow ==
  LET longer == {w \in ReportWindow : w > nightRun.window}
  IN IF longer = {} THEN NoRun ELSE AtWindow(Shortest(longer))

(* The row of the store ends the window, unless writing it fails, or the   *)
(* window has raised before.                                               *)
EndWindow ==
  /\ nightRun # NoRun
  /\ \/ /\ nightRun.item > Items
        /\ summaries' = summaries \cup {[day |-> nightRun.day, window |-> nightRun.window]}
     \/ UNCHANGED summaries
  /\ nightRun' = LaterWindow
  /\ CrossReport /\ UNCHANGED <<reportDay, lists, nightRuns>>

NightRunLost ==
  /\ nightRun # NoRun
  /\ nightRun' = NoRun
  /\ CrossReport /\ UNCHANGED <<reportDay, lists, summaries, nightRuns>>

(***************************************************************************)
(* The dispatch.                                                           *)
(***************************************************************************)
(* Some of the subscriptions fall on this day: daily ones, weekly ones on  *)
(* their day, monthly ones on its first; those of a channel go together.   *)
BeginReport ==
  /\ due = {} \/ verdict # "none"
  /\ \E kinds \in (SUBSET Offered) \ {{}} : due' = kinds /\ toAsk' = kinds
  /\ window' = NoWindow /\ got' = Nothing
  /\ sheets' = {} /\ verdict' = "none"
  /\ crossed' = (nightRun # NoRun)
  /\ UNCHANGED <<runVars>>

Rank(kind) == CHOOSE i \in 1..4 : AskOrder[i] = kind

AskingFor(kind) == kind \in toAsk /\ \A other \in toAsk : Rank(kind) <= Rank(other)

(* The first rows by day, as the table happens to give them.               *)
NewestRows(rows) ==
  {seen \in SUBSET rows :
     /\ Cardinality(seen) = IF Cardinality(rows) < RowLimit THEN Cardinality(rows) ELSE RowLimit
     /\ \A r \in seen, s \in rows \ seen : r.day >= s.day}

LastDayOf(rows) == CHOOSE d \in {r.day : r \in rows} : \A r \in rows : r.day <= d

Apart(w) == IF w > Month THEN w - Month ELSE Month - w

(* Mutant: any of the windows of the day will do.                          *)
Closest_Any(ws) == ws

Closest(ws) == {w \in ws : \A v \in ws : Apart(w) <= Apart(v)}

(* The window of the last day closest to a month, of the rows it has seen. *)
ReadWindow ==
  /\ \E k \in ListKinds : AskingFor(k)
  /\ window = NoWindow /\ lists # {}
  /\ \E seen \in NewestRows(lists) :
       LET day == LastDayOf(seen)
       IN \E w \in Closest({r.window : r \in {s \in seen : s.day = day}}) :
            window' = [found |-> TRUE, day |-> day, window |-> w]
  /\ UNCHANGED <<runVars, endVars, due, toAsk, got, crossed>>

Qualifies(kind, f) ==
  CASE kind = "critical_stock" -> f.cover <= CriticalBelow /\ f.stock > 0 /\ f.velocity > 0
    [] kind = "dead_inventory" -> f.cover > FrozenAbove \/ f.risk
    [] kind = "underestimated_sku" -> f.lost

RowsOf(kind) ==
  {r \in lists : r.day = window.day /\ r.window = window.window /\ Qualifies(kind, r.figure)}

AskRows(kind) ==
  /\ AskingFor(kind) /\ window # NoWindow
  /\ got' = [got EXCEPT ![kind] = RowsOf(kind)]
  /\ toAsk' = toAsk \ {kind} /\ window' = NoWindow
  /\ UNCHANGED <<runVars, endVars, due, crossed>>

(* No figures at all, or a call that raises: the kind has no rows.         *)
GetNoRows(kind) ==
  /\ AskingFor(kind)
  /\ toAsk' = toAsk \ {kind} /\ window' = NoWindow
  /\ crossed' = (crossed \/ (IF kind = Summary THEN summaries ELSE lists) # {})
  /\ UNCHANGED <<runVars, endVars, due, got>>

(* Mutant: the first row of the last day.                                  *)
SummaryRows_First(rows) == {s \in rows : s.day = LastDayOf(rows)}

SummaryRows(rows) ==
  LET last == {s \in rows : s.day = LastDayOf(rows)}
  IN {s \in last : s.window \in Closest({t.window : t \in last})}

ReadSummary ==
  /\ AskingFor(Summary) /\ summaries # {}
  /\ \E s \in SummaryRows(summaries) : got' = [got EXCEPT ![Summary] = {s}]
  /\ toAsk' = {}
  /\ UNCHANGED <<runVars, endVars, due, window, crossed>>

(* Nothing of what was asked for: the day goes by without a report.        *)
SkipReport ==
  /\ toAsk = {} /\ verdict = "none" /\ due # {} /\ \A k \in due : got[k] = {}
  /\ verdict' = "skipped"
  /\ got' = Nothing
  /\ UNCHANGED <<runVars, due, toAsk, window, sheets, crossed>>

(* What is frozen without a price is worth nothing and is not shown.       *)
Shown(kind) ==
  {r \in got[kind] : kind = "dead_inventory" => r.figure.stock * r.figure.price > 0}

(* The summary shows the row of the store, or that there is none.          *)
SummarySheet == [kind |-> Summary, home |-> "all", rows |-> got[Summary]]

(* A line per product, of one warehouse.                                   *)
ListSheet(k, h) == [kind |-> k, home |-> h, rows |-> {r \in Shown(k) : HomeOf[r.item] = h}]

(* A list without rows gets no sheet.                                      *)
Sheets ==
  (IF Summary \in due THEN {SummarySheet} ELSE {})
    \cup {s \in {ListSheet(k, h) : k \in due \ {Summary}, h \in {HomeOf[i] : i \in 1..Items}} :
            s.rows # {}}

MakeFile ==
  /\ toAsk = {} /\ verdict = "none" /\ \E k \in due : got[k] # {}
  /\ sheets' = Sheets
  /\ verdict' = "sent"
  /\ got' = Nothing
  /\ UNCHANGED <<runVars, due, toAsk, window, crossed>>

ReportDayPasses ==
  /\ reportDay < LastReportDay
  /\ reportDay' = reportDay + 1
  /\ UNCHANGED <<lists, summaries, nightRun, nightRuns, gotVars, endVars, crossed>>

SheetsNext ==
  \/ StartNightRun \/ WriteItem \/ EndWindow \/ NightRunLost \/ ReportDayPasses
  \/ BeginReport \/ ReadWindow \/ ReadSummary \/ SkipReport \/ MakeFile
  \/ \E k \in ListKinds : AskRows(k)
  \/ \E k \in due : GetNoRows(k)

(***************************************************************************)
(* Properties.                                                             *)
(***************************************************************************)
MonthRows ==
  {r \in lists : r.day = LastDayOf(lists) /\ r.window = Month}

(* The rows the sheets of a kind show together.                            *)
RowsShown(kind) == UNION {s.rows : s \in {t \in sheets : t.kind = kind}}

(* Unless a run was at work, a lookup failed, the last day has no figures  *)
(* of a month or the table has more rows than are looked at: what a report *)
(* lists are the products that qualify by the month up to the last day,    *)
(* each once and under its own warehouse, whatever other windows and days  *)
(* the table holds and however the runs before ended; and a day goes by    *)
(* without a report only if none qualifies.                                *)
SheetsAreOfTheMonth ==
  ~crossed /\ verdict # "none" /\ lists # {} /\ Cardinality(lists) <= RowLimit /\ MonthRows # {} =>
    \A k \in due \ {Summary} :
      LET fit == {r \in MonthRows : Qualifies(k, r.figure)}
      IN IF verdict = "skipped" THEN fit = {}
         ELSE /\ RowsShown(k) = {r \in fit : k = "dead_inventory" => r.figure.stock * r.figure.price > 0}
              /\ \A s \in sheets : s.kind = k => \A r \in s.rows : HomeOf[r.item] = s.home

(* The summary of a file is of the month up to the last day a run has      *)
(* summed up, if that day has one, and not of another window or day; unless*)
(* a run was at work or the lookup failed.                                 *)
SummaryIsOfTheMonth ==
  ~crossed /\ verdict = "sent" /\ Summary \in due /\ summaries # {} =>
    LET last == [day |-> LastDayOf(summaries), window |-> Month]
    IN last \in summaries => RowsShown(Summary) = {last}

SheetsSpec == SheetsInit /\ [][SheetsNext]_sheetVars
=============================================================================
