------------------------------- MODULE Engine -------------------------------
(***************************************************************************)
(* What a recalculation makes of the snapshots of one product: the days    *)
(* before the window give the usual size of a sale, the days of the window *)
(* are classified one after the other, and the label of the product comes  *)
(* from their sums.  Velocities are quotients of which the label sees only *)
(* whether they are positive; medians of positive numbers are positive.    *)
(* The rows it writes for the days are in EventTables.                     *)
(***************************************************************************)
EXTENDS EventTables, TLC

CONSTANTS
  Stock,        \* quantities a snapshot may show
  HistoryDays,  \* days before the window that are fetched
  WindowDays,
  SpikeFloor,   \* anomaly_floor
  SpikeFactor,  \* anomaly_multiplier
  DeadDays      \* dead_min_tracked_days

ASSUME EngineAssumption ==
  /\ Stock \subseteq Nat /\ 0 \in Stock
  /\ HistoryDays \in Nat /\ {WindowDays, SpikeFactor, DeadDays} \subseteq Nat \ {0}
  /\ SpikeFloor \in Nat

VARIABLES
  dayAt,     \* 1 - HistoryDays .. 0 before the window, 1 .. WindowDays in it, then done
  lastSeen,  \* stock of the last snapshot and how many days ago it was taken, or Unseen
  sizes,     \* sales so far, sorted (abs_deltas_history)
  priorSales,\* days with a sale before the window (history_for_median)
  sums,      \* what compute_metrics_for_sku counts over the window
  fallen     \* units by which the stock was seen to fall in the window

engineVars == <<dayAt, lastSeen, sizes, priorSales, sums, fallen>>

Unseen == [stock |-> 0, ago |-> 0]

EngineInit ==
  /\ dayAt = 1 - HistoryDays
  /\ lastSeen = Unseen /\ sizes = <<>> /\ priorSales = 0
  /\ sums = [inStock |-> 0, excluded |-> 0, sold |-> 0, spikes |-> 0]
  /\ fallen = 0

(* round() of a quotient, halves to the even neighbour, and at least 1.    *)
Share(units, days) ==
  LET q == units \div days
      r == 2 * (units % days)
      rounded == IF r < days THEN q ELSE IF r > days THEN q + 1 ELSE q + (q % 2)
  IN IF rounded < 1 THEN 1 ELSE rounded

TwiceMedian(s) ==
  IF Len(s) % 2 = 1 THEN 2 * s[(Len(s) + 1) \div 2]
  ELSE s[Len(s) \div 2] + s[Len(s) \div 2 + 1]

WithSize(size) == SortSeq(Append(sizes, size), <)

(* A fall since the last snapshot counts as that many units a day.         *)
FallTo(stock) == IF lastSeen = Unseen \/ stock >= lastSeen.stock THEN 0
                 ELSE lastSeen.stock - stock
PerDay(stock) == IF lastSeen.ago > 1 THEN Share(FallTo(stock), lastSeen.ago) ELSE FallTo(stock)

SeenStock(stock) == [stock |-> stock, ago |-> 1]
Unchanged(seen) == IF seen = Unseen THEN seen ELSE [seen EXCEPT !.ago = @ + 1]

(* A day without a snapshot, in the window or before it: nobody knows, so  *)
(* it is neither in stock nor out of it.                                   *)
MissingDay ==
  /\ dayAt <= WindowDays
  /\ dayAt' = dayAt + 1
  /\ lastSeen' = Unchanged(lastSeen)
  /\ UNCHANGED <<sizes, priorSales, sums, fallen>>

(* Both readings of the history, for the classification and for the        *)
(* median: sales of holidays are left out.                                 *)
DayOfHistory(stock, holiday) ==
  LET sale == FallTo(stock) > 0 /\ ~holiday
  IN /\ dayAt < 1
     /\ dayAt' = dayAt + 1
     /\ lastSeen' = SeenStock(stock)
     /\ sizes' = IF sale THEN WithSize(Share(FallTo(stock), lastSeen.ago)) ELSE sizes
     /\ priorSales' = IF sale THEN priorSales + 1 ELSE priorSales
     /\ UNCHANGED <<sums, fallen>>

IsSpike(units) ==
  /\ sizes # <<>>
  /\ units > SpikeFloor
  /\ 2 * units > SpikeFactor * TwiceMedian(sizes)

(* classify_event: the type of a day with a snapshot.                      *)
Classified(stock, holiday) ==
  CASE lastSeen = Unseen -> "first_snapshot"
    [] lastSeen # Unseen /\ stock = lastSeen.stock -> "no_change"
    [] lastSeen # Unseen /\ stock > lastSeen.stock -> "replenishment_like"
    [] FallTo(stock) > 0 /\ ~holiday /\ IsSpike(PerDay(stock)) -> "anomaly_like"
    [] FallTo(stock) > 0 /\ (holiday \/ ~IsSpike(PerDay(stock))) -> "sales_like"

(* Mutant: a spike does not count as a day whose sales have to be made up  *)
(* for.                                                                    *)
Excluded_NoSpikes(type) == type \in {"first_snapshot", "replenishment_like"}

Excluded(type) == type \in {"first_snapshot", "replenishment_like", "anomaly_like"}

DayOfWindow(stock, holiday) ==
  LET type == Classified(stock, holiday)
      one(condition) == IF condition THEN 1 ELSE 0
  IN /\ dayAt \in 1..WindowDays
     /\ dayAt' = dayAt + 1
     /\ lastSeen' = SeenStock(stock)
     /\ sizes' = IF type = "sales_like" /\ ~holiday THEN WithSize(PerDay(stock)) ELSE sizes
     /\ sums' = [inStock |-> sums.inStock + one(stock > 0),
                 excluded |-> sums.excluded + one(stock > 0 /\ Excluded(type)),
                 sold |-> sums.sold + (IF type = "sales_like" THEN PerDay(stock) ELSE 0),
                 spikes |-> sums.spikes + one(type = "anomaly_like")]
     /\ fallen' = fallen + FallTo(stock)
     /\ UNCHANGED priorSales

EngineNext ==
  \/ MissingDay
  \/ \E stock \in Stock, holiday \in BOOLEAN :
       DayOfHistory(stock, holiday) \/ DayOfWindow(stock, holiday)

(* median_30d_velocity > 0: sales before the window or in it, else any     *)
(* consumption at all (soft_velocity).                                     *)
UsualSale == priorSales > 0 \/ sums.sold > 0 \/ sums.spikes > 0

(* adjusted_velocity > 0.                                                  *)
Sells == sums.inStock > 0 /\ (sums.sold > 0 \/ (UsualSale /\ sums.excluded > 0))

(* is_dead_no_velocity.                                                    *)
LabelledDead == ~Sells /\ lastSeen.stock > 0 /\ sums.inStock >= DeadDays

Computed == dayAt > WindowDays /\ lastSeen # Unseen

(***************************************************************************)
(* Properties.                                                             *)
(***************************************************************************)

(* A product is called dead for want of any velocity only if its stock was *)
(* never seen to fall in the window: not on a holiday, not by a spike that *)
(* is kept out of the sales, not on a day it sold out, and not across days *)
(* without snapshots.  And no unit is sold that did not leave the stock.   *)
DeadHasNotSold ==
  Computed =>
    /\ LabelledDead => fallen = 0
    /\ sums.sold <= fallen

EngineSpec == EngineInit /\ [][EngineNext]_engineVars

(* The history of a product, its figures and the rows of its days.         *)
HistorySpec == EngineSpec /\ TablesSpec

(* What a recalculation says of a product is what happened to it: a dead   *)
(* one has not sold, and its table of events is whole.                     *)
HistoryIsTold == DeadHasNotSold /\ EventsAreWhole
=============
