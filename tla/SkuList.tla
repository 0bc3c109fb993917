------------------------------ MODULE SkuList -------------------------------
(***************************************************************************)
(* One product in the rows a recalculation leaves for each window, in the  *)
(* tiles of the dashboard, in the list of SKUs a tile leads to, and in the *)
(* file exported from that list.  Of the figures counted anew for a period,*)
(* typed in or before a holiday, only that they are shown and whether they *)
(* tell of losses; the tiles' concentration is left out.                   *)
(* The address of the page, which knows nothing of its rows, is SkuFilters.*)
(***************************************************************************)
EXTENDS Integers, FiniteSets, SkuFilters

CONSTANTS
  MetricWindow,  \* the windows of a recalculation
  LastMetricDay, \* bound on the days
  KeptRows,      \* _TVELO_RETENTION_DAYS
  MaxUpserts,    \* bound on the windows computed
  NoFigures

ASSUME SkuListAssumption ==
  /\ IsFiniteSet(MetricWindow) /\ MetricWindow # {}
  /\ LastMetricDay \in Nat \ {0} /\ {KeptRows, MaxUpserts} \subseteq Nat

VARIABLES
  metricDay,  \* the day in the seller's time zone
  metricRows, \* tvelo_metrics: by period_end and window
  tileOf,     \* per window, what the newest row of warehouse_metrics has counted
  toDo,       \* windows the run still has to compute
  pending,    \* the window whose row was upserted and whose tiles were not
  upserts

listVars == <<metricDay, metricRows, tileOf, toDo, pending, upserts>>

MetricDays == 1..LastMetricDay

(* Coverage: none, 0 of a product that is out of stock, a week, more than  *)
(* half a year.  Days out of stock: none, more than 15.  longSeen: 30 days *)
(* in stock, which matters without a velocity.  moved: a sale or an        *)
(* arrival is among the events; the velocity may be 0 all the same, and be *)
(* positive without (a spike, earlier sales); it is told of a product that *)
(* is out of stock, for nothing asks it of another.                        *)
NoCover == 99
Figures ==
  {f \in [stock : {0, 1}, velocity : {0, 1}, coverage : {0, 7, 200, NoCover},
          stockout : {0, 20}, longSeen : BOOLEAN, moved : BOOLEAN] :
     /\ (f.velocity = 0) <=> (f.coverage = NoCover)
     /\ f.velocity = 1 => (f.stock = 0 <=> f.coverage = 0)
     /\ f.longSeen => f.stock > 0 /\ f.velocity = 0
     /\ f.moved => f.stock = 0}

Untold == [window |-> NoFigures, day |-> 0, figures |-> NoFigures]

SkuListInit ==
  /\ metricDay = 1
  /\ metricRows = [r \in MetricDays \X MetricWindow |-> NoFigures]
  /\ tileOf = [w \in MetricWindow |-> Untold]
  /\ toDo = {} /\ pending = Untold /\ upserts = 0

Idle == toDo = {} /\ pending = Untold

StartListRun ==
  /\ Idle /\ upserts < MaxUpserts
  /\ toDo' = MetricWindow
  /\ UNCHANGED <<metricDay, metricRows, tileOf, pending, upserts>>

(* The figures of a window; their row may fail to be written, and the      *)
(* product is counted all the same.                                        *)
UpsertRow(w) ==
  /\ pending = Untold /\ upserts < MaxUpserts
  /\ upserts' = upserts + 1
  /\ toDo' = toDo \ {w}
  /\ \E f \in Figures :
       /\ metricRows' \in {metricRows, [metricRows EXCEPT ![<<metricDay, w>>] = f]}
       /\ pending' = [window |-> w, day |-> metricDay, figures |-> f]
  /\ UNCHANGED <<metricDay, tileOf>>

(* The window's row of warehouse_metrics, which may fail too.              *)
WriteTiles ==
  /\ pending # Untold
  /\ \/ tileOf' = [tileOf EXCEPT ![pending.window] = pending]
     \/ UNCHANGED tileOf
  /\ pending' = Untold
  /\ UNCHANGED <<metricDay, metricRows, toDo, upserts>>

(* Loading fails, the worker dies, or there is no more to count.           *)
RunStops ==
  /\ ~Idle
  /\ toDo' = {} /\ pending' = Untold
  /\ UNCHANGED <<metricDay, metricRows, tileOf, upserts>>

MetricMidnight ==
  /\ Idle /\ metricDay < LastMetricDay
  /\ metricDay' = metricDay + 1
  /\ UNCHANGED <<metricRows, tileOf, toDo, pending, upserts>>

OldMetricsGo ==
  /\ metricRows' = [r \in MetricDays \X MetricWindow |->
                      IF r[1] < metricDay - KeptRows THEN NoFigures ELSE metricRows[r]]
  /\ metricRows' # metricRows
  /\ UNCHANGED <<metricDay, tileOf, toDo, pending, upserts>>

SkuListNext ==
  \/ StartListRun \/ WriteTiles \/ RunStops \/ MetricMidnight \/ OldMetricsGo
  \/ \E w \in toDo : UpsertRow(w)

(***************************************************************************)
(* The tiles.                                                              *)
(***************************************************************************)
IsDead(f) == f.coverage = 200 \/ (f.velocity = 0 /\ f.stock > 0 /\ f.longSeen)

Loses(f) == f.velocity > 0 /\ f.stockout > 0

(* _compute_aggregates, by the filter the tile leads to.                   *)
Counts(filter, f) ==
  CASE filter = "low_stock" -> f.coverage # NoCover /\ f.coverage <= 7
    [] filter = "lost_revenue" -> Loses(f)
    [] filter = "dead_inventory" -> IsDead(f)
    [] filter = "oos" -> f.stock = 0 /\ f.moved
    [] filter = "inactive" -> f.stock = 0 /\ ~f.moved
    [] filter = "active" -> f.stock > 0 \/ f.moved
    [] filter = "frequently_oos" -> f.stockout > 15

TileFilters == {"low_stock", "lost_revenue", "dead_inventory", "oos", "inactive",
                "active", "frequently_oos"}

(* The page takes the rows of the newest day: the window asked for, or any.*)
TileRows(window) ==
  LET newest == {w \in MetricWindow : \A v \in MetricWindow : tileOf[v].day <= tileOf[w].day}
  IN IF window \in newest THEN {tileOf[window]} ELSE {tileOf[w] : w \in newest}

(***************************************************************************)
(* The list and the file.  A query names a filter or none, the seller's    *)
(* own threshold or the default one, and the fields that are filled in.    *)
(***************************************************************************)
(* A threshold belongs to a filter, and those without any sales are asked  *)
(* for without one.  stocked stands for the ranges both read, soon for the *)
(* range of the coverage, losing for that of the losses; unlike: a brand,  *)
(* category or tag is chosen which the product has not.                    *)
Queries ==
  {q \in [filter : TileFilters \cup {"none"}, ownThreshold : BOOLEAN, inactive : BOOLEAN,
          stocked : BOOLEAN, soon : BOOLEAN, losing : BOOLEAN, unlike : BOOLEAN] :
     /\ q.ownThreshold => q.filter \in {"low_stock", "dead_inventory", "frequently_oos"}
     /\ q.inactive => q.filter = "none"}

(* A tile's link names its filter and the window.                          *)
Shows(filter) ==
  [filter |-> filter, ownThreshold |-> FALSE, inactive |-> FALSE, stocked |-> FALSE,
   soon |-> FALSE, losing |-> FALSE, unlike |-> FALSE]

(* Mutant: the list still has an earlier threshold of the tile.            *)
DefaultFor_Earlier(filter) ==
  CASE filter = "low_stock" -> 5 [] filter = "dead_inventory" -> 180
    [] filter = "frequently_oos" -> 15 [] OTHER -> 0

DefaultFor(filter) ==
  CASE filter = "low_stock" -> 7 [] filter = "dead_inventory" -> 180
    [] filter = "frequently_oos" -> 15 [] OTHER -> 0

Own(filter) == IF filter = "frequently_oos" THEN 25 ELSE 6
Threshold(q) == IF q.ownThreshold THEN Own(q.filter) ELSE DefaultFor(q.filter)

IsActive(f) == f.stock > 0 \/ f.velocity > 0

(* What the filter asks of a row.  A coverage that is NULL fits nothing.   *)
FitsQuery(q, f) ==
  CASE q.filter = "low_stock" -> f.coverage <= Threshold(q) /\ f.stock > 0
    [] q.filter = "lost_revenue" -> Loses(f)
    [] q.filter = "dead_inventory" ->
         \/ f.coverage # NoCover /\ f.coverage > Threshold(q)
         \/ f.velocity = 0 /\ f.stock > 0 /\ f.longSeen
    [] q.filter = "oos" -> f.stock = 0 /\ f.velocity > 0
    [] q.filter = "inactive" -> f.stock = 0 /\ f.velocity = 0
    [] q.filter = "active" -> IsActive(f)
    [] q.filter = "frequently_oos" -> f.stockout > Threshold(q)
    [] q.filter = "none" -> q.inactive \/ IsActive(f)

Stocked(q, f) == q.stocked => f.stock >= 1

(* The list asks a row for everything; of whichever day it is.             *)
ListRows(q) ==
  {r \in DOMAIN metricRows :
     /\ ~q.unlike /\ metricRows[r] # NoFigures
     /\ FitsQuery(q, metricRows[r]) /\ Stocked(q, metricRows[r])
     /\ q.soon => metricRows[r].coverage <= 7}

(* Mutant: a filter of the list that the route was not told of.            *)
FileFilter_Fewer(q) ==
  IF q.filter \in {"active", "frequently_oos"}
  THEN [q EXCEPT !.filter = "none", !.inactive = FALSE] ELSE q

(* The route of the file does not know "active", which is then no filter,  *)
(* nor the coverage, the brand, the category and the tag.                  *)
FileFilter(q) ==
  IF q.filter = "active" THEN [q EXCEPT !.filter = "none", !.inactive = FALSE] ELSE q

FileRows(q) ==
  {r \in DOMAIN metricRows :
     /\ metricRows[r] # NoFigures
     /\ FitsQuery(FileFilter(q), metricRows[r]) /\ Stocked(q, metricRows[r])}

(* The period of a query: a window of the recalculation; one the seller    *)
(* typed; or none, or no more than its end, within the weeks before a      *)
(* holiday, when the page takes the time since they began.                 *)
Periods == {"stored", "typed", "holiday"}

(* What get_skus_period_metrics answers of the product for a period.       *)
Recounts == [loses : BOOLEAN]

(* The page counts for a holiday too, of which the route knows nothing: it *)
(* keeps the stored figures, or counts another time.                       *)
ListAnew(period) == IF period = "stored" THEN {NoFigures} ELSE Recounts
FileAnew(period, anew) ==
  CASE period = "stored" -> {NoFigures}
    [] period = "typed" -> {anew}
    [] period = "holiday" -> {NoFigures} \cup Recounts

(* The line of a product no run has computed.                              *)
Bare == [bare |-> TRUE]

TellsOfLosses(line) ==
  CASE line = Bare -> FALSE
    [] line \in Recounts -> line.loses
    [] OTHER -> Loses(line)

(* The losses are looked at last.                                          *)
Kept(q, line) == IF q.losing /\ ~TellsOfLosses(line) THEN NoFigures ELSE line

(* The figures shown, by the window and the figures counted anew: these if *)
(* there are any, or those of one row of the window, of one of another if  *)
(* there is none; which one the query leaves to the database.              *)
Outcomes(q, rows) ==
  [window \in MetricWindow |->
     LET own == {r \in rows : r[2] = window}
         shown == IF own # {} THEN own ELSE rows
     IN [anew \in {NoFigures} \cup Recounts |->
           CASE rows = {} -> {NoFigures}
             [] rows # {} /\ anew # NoFigures -> {Kept(q, anew)}
             [] OTHER -> {Kept(q, metricRows[r]) : r \in shown}]]

ListShows(q) == Outcomes(q, ListRows(q))

NeverComputed == \A r \in DOMAIN metricRows : metricRows[r] = NoFigures

(* Without any filter the file also has a line for a product no run has    *)
(* computed.                                                               *)
FileShows(q) ==
  IF NeverComputed /\ q.filter = "none" /\ q.inactive /\ ~q.stocked
  THEN [window \in MetricWindow |-> [anew \in {NoFigures} \cup Recounts |->
          {Kept(q, IF anew = NoFigures THEN Bare ELSE anew)}]]
  ELSE Outcomes(q, FileRows(q))

(***************************************************************************)
(* Properties.                                                             *)
(***************************************************************************)

(* The product behind a tile is in the list the tile leads to, between     *)
(* runs, as long as the row that was counted is there; but a tile of       *)
(* little stock counts what has none left, which the list leaves out, and  *)
(* the three tiles of activity go by movements, the list by velocity.      *)
ListedIfCounted ==
  Idle =>
    \A filter \in TileFilters, window \in MetricWindow : \A tile \in TileRows(window) :
      /\ tile.figures # NoFigures
      /\ metricRows[<<tile.day, tile.window>>] = tile.figures
      /\ Counts(filter, tile.figures)
      /\ filter = "low_stock" => tile.figures.stock > 0
      /\ filter \in {"oos", "inactive", "active"} /\ tile.figures.stock = 0 =>
           (tile.figures.moved <=> tile.figures.velocity > 0)
      => NoFigures \notin ListShows(Shows(filter))[window][NoFigures]

(* What both read in the same way.                                         *)
AskedAlike == {q \in Queries : ~q.soon /\ ~q.unlike}

(* Asked for no brand, category, tag or coverage and a period that is      *)
(* stored or typed, the file holds the product exactly if the list does,   *)
(* with the figures the list may show, once it has been computed.          *)
FileIsTheList ==
  Idle /\ ~NeverComputed =>
    \A q \in AskedAlike :
      LET file == FileShows(q)
          list == ListShows(q)
      IN \A window \in MetricWindow, period \in Periods \ {"holiday"} :
           \A anew \in ListAnew(period) : \A told \in FileAnew(period, anew) :
             file[window][told] = list[window][anew]

(* Asked for anything else the file may hold more than the list, against   *)
(* the route's header, but never less: it is made of all the rows the list *)
(* asks for.  Only a range of the losses, for which no row is asked, may   *)
(* then keep the product out of it: the two look the losses up in other    *)
(* rows or, before a holiday, for another period.                          *)
FileMissesNothing ==
  Idle /\ ~NeverComputed =>
    \A q \in {k \in Queries : ~k.losing} : \A r \in ListRows(q) : r \in FileRows(q)

SkuListSpec == SkuListInit /\ [][SkuListNext]_listVars

(* The page: its rows, and apart from them its address.                    *)
ListSpec == SkuListSpec /\ FiltersSpec

(* The list of products is the one that was asked for: behind its tiles, in*)
(* its file, as far as the file is told, and in the address that the       *)
(* filters, the search and the pages write.                                *)
ListIsAsAsked ==
  /\ ListedIfCounted /\ FileIsTheList /\ FileMissesNothing
  /\ ChoicesStand /\ FieldsShowTheFilters /\ PageIsOfThisList
=============
