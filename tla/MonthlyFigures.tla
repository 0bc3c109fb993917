--------------------------- MODULE MonthlyFigures ---------------------------
(***************************************************************************)
(* What the monthly report of a seller says of the month before: the row   *)
(* of the store for its end, compared with the row for the end of the one  *)
(* before it, and tables made of what each product did in either month,    *)
(* which the database counts from snapshots and events when it is asked.   *)
(* It is asked call by call; a call that fails gives nothing and the       *)
(* report goes on without.  A run of the engine deletes the events of a    *)
(* product before it inserts them anew, and may be at that just then.      *)
(* Whether a report goes out, and how often, is the matter of Reports; what*)
(* the daily and the weekly one say is that of ReportSheets, beside which  *)
(* this one stands without sharing any state with it.                      *)
(***************************************************************************)
EXTENDS ReportSheets

CONSTANTS
  Item,       \* the seller's products
  MonthLen,   \* the days of a month
  LastDayRun, \* bound on the days
  Happened,   \* what a month may be for a product
  Scale,      \* velocities are counted in pieces of 1/Scale
  FastBelow, StableTo, SlowTo,  \* the bounds of the segments in days
  TopRows,    \* rows of the tables of losses and of frozen stock
  MoverRows   \* rows of the tables of movers

ASSUME MonthlyAssumption ==
  /\ IsFiniteSet(Item) /\ MonthLen \in Nat \ {0}
  /\ {LastDayRun, Scale, FastBelow, StableTo, SlowTo, TopRows, MoverRows} \subseteq Nat
  /\ FastBelow <= StableTo /\ StableTo <= SlowTo
  /\ Happened \subseteq [sold : Nat, in : Nat, out : Nat, stock : Nat, price : Nat]
  \* the pieces are small enough for every velocity, which the code does not round
  /\ \A h \in Happened : h.in > 0 => (Scale * h.sold) % h.in = 0

VARIABLES
  calendar,  \* today, a day from 1
  rowsOf,    \* the days store_metrics has a row of thirty days for
  happened,  \* what became of each product in each month that was asked for
  monthly,   \* the report in the making: where it is, its month, what it has read
  marred     \* a call failed, or met the events of a product deleted

monthlyVars == <<calendar, rowsOf, happened, monthly, marred>>

InMonth(d) == (d - 1) \div MonthLen + 1
EndOf(m) == m * MonthLen

NoReport == [at |-> "none"]

MonthlyInit ==
  /\ calendar = 1 /\ rowsOf = {}
  /\ happened = [m \in {} |-> {}]
  /\ monthly = NoReport /\ marred = FALSE

MonthDayPasses ==
  /\ calendar < LastDayRun /\ monthly = NoReport
  /\ calendar' = calendar + 1
  /\ UNCHANGED <<rowsOf, happened, monthly, marred>>

(* The row of a day is there once a run has ended on it.                   *)
RunEnds ==
  /\ calendar \notin rowsOf /\ rowsOf' = rowsOf \cup {calendar}
  /\ UNCHANGED <<calendar, happened, monthly, marred>>

-----------------------------------------------------------------------------
(* The figures of a product in a month, as the database counts them.       *)

Velocity(h) == IF h.in = 0 THEN 0 ELSE (Scale * h.sold) \div h.in

(* Its stock lasts longer than a number of days; it is not known to if     *)
(* nothing was sold.                                                       *)
Covered(h) == Velocity(h) > 0
CoverBelow(h, days) == Covered(h) /\ Scale * h.stock < days * Velocity(h)
CoverAbove(h, days) == Covered(h) /\ Scale * h.stock > days * Velocity(h)

Loss(h) == Velocity(h) * h.out * h.price
Worth(h) == h.stock * h.price

(* With the events of some products deleted.                               *)
Counted(m, deleted) ==
  [p \in Item |-> IF p \in deleted THEN [happened'[m][p] EXCEPT !.sold = 0]
                  ELSE happened'[m][p]]

-----------------------------------------------------------------------------
(* Reading.                                                                *)

(* On the first of a month, or by hand on any day of it.                   *)
BeginMonthly ==
  /\ monthly = NoReport /\ InMonth(calendar) > 2
  /\ monthly' = [at |-> "rows", month |-> InMonth(calendar) - 1]
  /\ marred' = FALSE
  /\ UNCHANGED <<calendar, rowsOf, happened>>

(* The latest row that is not later than a day.                            *)
RowUpTo(day) ==
  LET rows == {d \in rowsOf : d <= day}
  IN {d \in rows : \A e \in rows : e <= d}

(* Mutant: the comparison starts where the month before starts.            *)
ComparedWith_Start(m) == EndOf(m - 2)

(* The end of the month before.                                            *)
ComparedWith(m) == EndOf(m - 1)

(* Without a row for the month itself nothing is sent.                     *)
ReadStoreRows ==
  /\ monthly.at = "rows"
  /\ \E now \in {{}, RowUpTo(EndOf(monthly.month))},
        before \in {{}, RowUpTo(ComparedWith(monthly.month))} :
       IF now = {} THEN monthly' = NoReport /\ UNCHANGED marred
       ELSE /\ monthly' = [at |-> "month", month |-> monthly.month,
                           now |-> now, before |-> before]
            /\ marred' = (before # RowUpTo(ComparedWith(monthly.month)))
  /\ UNCHANGED <<calendar, rowsOf, happened>>

(* What has happened in a month does not change any more.                  *)
Remember(m) ==
  IF m \in DOMAIN happened THEN UNCHANGED happened
  ELSE \E h \in [Item -> Happened] :
         happened' = [k \in DOMAIN happened \cup {m} |-> IF k = m THEN h ELSE happened[k]]

(* Of the products that are asked for; none if a call fails.               *)
ReadsOf(m) ==
  {[of |-> Counted(m, deleted), whole |-> deleted = {}] :
     deleted \in {{}} \cup {{p} : p \in Item}}
    \cup {[of |-> [p \in {} |-> {}], whole |-> FALSE]}

ReadMonth ==
  /\ monthly.at = "month" /\ Remember(monthly.month)
  /\ \E read \in ReadsOf(monthly.month) :
       /\ monthly' = [at |-> "earlier", month |-> monthly.month,
                      now |-> monthly.now, before |-> monthly.before, figures |-> read.of]
       /\ marred' = (marred \/ ~read.whole)
  /\ UNCHANGED <<calendar, rowsOf>>

ReadEarlier ==
  /\ monthly.at = "earlier" /\ Remember(monthly.month - 1)
  /\ \E read \in ReadsOf(monthly.month - 1) :
       /\ monthly' = [at |-> "file", month |-> monthly.month,
                      now |-> monthly.now, before |-> monthly.before,
                      figures |-> monthly.figures, earlier |-> read.of]
       /\ marred' = (marred \/ ~read.whole)
  /\ UNCHANGED <<calendar, rowsOf>>

-----------------------------------------------------------------------------
(* The tables.                                                             *)

(* What the first n of the rows may be when they are sorted, the pairs of  *)
(* ahead in their order.                                                   *)
Tops(rows, ahead, n) ==
  {top \in SUBSET rows :
     /\ Cardinality(top) = IF Cardinality(rows) < n THEN Cardinality(rows) ELSE n
     /\ \A p \in top, q \in rows \ top : <<q, p>> \notin ahead}

Segment(h) ==
  IF ~Covered(h) THEN "insufficient_data"
  ELSE IF CoverBelow(h, FastBelow) THEN "fast_movers"
  ELSE IF ~CoverAbove(h, StableTo) THEN "stable"
  ELSE IF ~CoverAbove(h, SlowTo) THEN "slow_movers"
  ELSE "dead_inventory_risk"

Losing(figures) == {p \in DOMAIN figures : Loss(figures[p]) > 0}

(* Mutant: at the bound a product is frozen already.                       *)
FrozenIn_AtBound(figures) ==
  {p \in DOMAIN figures : /\ Covered(figures[p]) /\ ~CoverBelow(figures[p], SlowTo)
                          /\ Worth(figures[p]) > 0}

FrozenIn(figures) ==
  {p \in DOMAIN figures : CoverAbove(figures[p], SlowTo) /\ Worth(figures[p]) > 0}

(* Those that sold in both months, by how much faster they sold in one.    *)
Moved(now, before) ==
  {p \in DOMAIN now \cap DOMAIN before : Velocity(now[p]) > 0 /\ Velocity(before[p]) > 0}

(* Mutant: by the velocity of the month.                                   *)
Faster_ByVelocity(now, before, p, q) == Velocity(now[p]) > Velocity(now[q])

Faster(now, before, p, q) ==
  Velocity(now[p]) * Velocity(before[q]) > Velocity(now[q]) * Velocity(before[p])

MakeMonthly ==
  LET now == monthly.figures
      before == monthly.earlier
      all == DOMAIN now
      moreLost == {o \in all \X all : Loss(now[o[1]]) > Loss(now[o[2]])}
      moreFrozen == {o \in all \X all : Worth(now[o[1]]) > Worth(now[o[2]])}
      both == Moved(now, before)
      faster == {o \in both \X both : Faster(now, before, o[1], o[2])}
      slower == {o \in both \X both : Faster(now, before, o[2], o[1])}
  IN /\ monthly.at = "file"
     /\ \E lost \in Tops(Losing(now), moreLost, TopRows),
           frozen \in Tops(FrozenIn(now), moreFrozen, TopRows),
           growth \in Tops(both, faster, MoverRows),
           decline \in Tops(both, slower, MoverRows) :
          monthly' = [at |-> "made", month |-> monthly.month,
            now |-> monthly.now, before |-> monthly.before,
            lost |-> lost, frozen |-> frozen, growth |-> growth, decline |-> decline,
            segment |-> [p \in DOMAIN now |-> Segment(now[p])]]
     /\ UNCHANGED <<calendar, rowsOf, happened, marred>>

(* What the months were need not be remembered for the next report.        *)
MonthlyLeaves ==
  /\ monthly.at = "made"
  /\ monthly' = NoReport /\ marred' = FALSE /\ happened' = [m \in {} |-> {}]
  /\ UNCHANGED <<calendar, rowsOf>>

MonthlyNext ==
  \/ MonthDayPasses \/ RunEnds \/ BeginMonthly \/ ReadStoreRows
  \/ ReadMonth \/ ReadEarlier \/ MakeMonthly \/ MonthlyLeaves

MonthlySpec == MonthlyInit /\ [][MonthlyNext]_monthlyVars

-----------------------------------------------------------------------------
(* Properties.                                                             *)

HasRow(m) == \E d \in rowsOf : InMonth(d) = m
Made == monthly.at = "made"

(* The report compares its month with the one before it, if a run has      *)
(* ended in either, and never with itself; nothing of the month that has   *)
(* begun is told.                                                          *)
FiguresAreOfTheirMonths ==
  Made =>
    /\ \A d \in monthly.now : InMonth(d) <= monthly.month
    /\ HasRow(monthly.month) => \A d \in monthly.now : InMonth(d) = monthly.month
    /\ ~marred /\ HasRow(monthly.month - 1) =>
         monthly.before # {} /\ \A d \in monthly.before : InMonth(d) = monthly.month - 1

(* The tables are of the month of the report: a product that lost in it is *)
(* among the losses, unless the table is full of such as lost no less, and *)
(* dead stock of the segments is among the frozen likewise, if it has a    *)
(* price; nothing is frozen that is not dead in the segments.              *)
TablesAreOfTheMonth ==
  Made =>
    LET dead == {p \in DOMAIN monthly.segment : monthly.segment[p] = "dead_inventory_risk"}
        loss(p) == Loss(happened[monthly.month][p])
        worth(p) == Worth(happened[monthly.month][p])
        lostIsFull(p) ==
          Cardinality(monthly.lost) = TopRows /\ \A q \in monthly.lost : loss(q) >= loss(p)
        frozenIsFull(p) ==
          Cardinality(monthly.frozen) = TopRows /\ \A q \in monthly.frozen : worth(q) >= worth(p)
    IN /\ monthly.frozen \subseteq dead
       /\ ~marred =>
            /\ \A p \in Item \ monthly.lost : loss(p) = 0 \/ lostIsFull(p)
            /\ \A p \in dead \ monthly.frozen : worth(p) = 0 \/ frozenIsFull(p)

(* If as many products rose from the month before to this one as the table *)
(* of growth has rows, each product in it did rise, and so for the fall.   *)
MoversMove ==
  Made /\ ~marred /\ monthly.month - 1 \in DOMAIN happened =>
    LET speed(p, m) == Velocity(happened[m][p])
        rose == {p \in Item : speed(p, monthly.month) > speed(p, monthly.month - 1)
                              /\ speed(p, monthly.month - 1) > 0}
        fell == {p \in Item : speed(p, monthly.month) < speed(p, monthly.month - 1)
                              /\ speed(p, monthly.month) > 0}
    IN /\ Cardinality(rose) >= MoverRows => monthly.growth \subseteq rose
       /\ Cardinality(fell) >= MoverRows => monthly.decline \subseteq fell

-----------------------------------------------------------------------------
(* What the reports say, whichever they are.                               *)
ContentsSpec == SheetsSpec /\ MonthlySpec

(* The reports of a month are of that month: the sheets and the summary of *)
(* the daily and weekly files, the figures and tables of the monthly one.  *)
ReportsTellTheMonth ==
  /\ SheetsAreOfTheMonth /\ SummaryIsOfTheMonth
  /\ FiguresAreOfTheirMonths /\ TablesAreOfTheMonth /\ MoversMove
=============================================================================
