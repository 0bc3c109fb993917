--------------------------- MODULE Worker_proofs ----------------------------
(***************************************************************************)
(* Proofs about the parts of the worker, for any windows, jobs and days.  *)
(***************************************************************************)
EXTENDS Alerts, Reports, StaleFigures, DashboardCache, SyncErrors,
        RadarPoll, Engine, EventTables, SourceFetch, MonthlyFigures,
        FiniteSetTheorems, WellFoundedInduction, TLAPS

-----------------------------------------------------------------------------
(* Alerts: an acknowledged alert stays quiet.                             *)

AckRows == [acked : 0..LastDay, seller : 0..LastDay]

(* A row is acknowledged no later than today, and by the seller no later   *)
(* than by anyone.                                                         *)
RowsInv ==
  \A i \in 1..Len(alerts) :
    alerts[i].seller <= alerts[i].acked /\ alerts[i].acked <= date

(* Without overlap one recalculation is at work.  Past its look at the     *)
(* open rows there is none, and past the cooldown no row the seller has    *)
(* acknowledged within it: nobody opens a row in between.                  *)
Alone ==
  \A r, q \in Recalc : stage[r] # "idle" /\ stage[q] # "idle" => r = q

Looked ==
  \A r \in Recalc :
    /\ stage[r] \in {"cooldown", "opening"} => OpenRows = {}
    /\ chronic /\ stage[r] = "opening" =>
         \A i \in 1..Len(alerts) : ~Within(alerts[i].seller)

AlertsInv == AlertsTypeOK /\ RowsInv /\ (~overlap => Alone /\ Looked)

LEMMA RowTypes ==
  ASSUME AlertsTypeOK
  PROVE  /\ alerts \in Seq(AckRows) /\ Len(alerts) \in Nat /\ DOMAIN alerts = 1..Len(alerts)
         /\ \A i \in 1..Len(alerts) :
              /\ alerts[i] \in AckRows
              /\ alerts[i].acked \in 0..LastDay /\ alerts[i].seller \in 0..LastDay
         /\ date \in 1..LastDay /\ LastDay \in Nat /\ Cooldown \in Nat /\ date \in Nat
<1>1. alerts \in Seq(AckRows) /\ date \in 1..LastDay /\ LastDay \in Nat /\ Cooldown \in Nat
  BY AlertAssumption DEF AlertsTypeOK, AckRows
<1>2. Len(alerts) \in Nat /\ DOMAIN alerts = 1..Len(alerts)
  BY <1>1
<1>3. \A i \in 1..Len(alerts) : alerts[i] \in AckRows
  BY <1>1
<1>4. \A i \in 1..Len(alerts) : alerts[i].acked \in 0..LastDay /\ alerts[i].seller \in 0..LastDay
  BY <1>3 DEF AckRows
<1>5. QED
  BY <1>1, <1>2, <1>3, <1>4

LEMMA InitAlerts == AlertsInit => AlertsInv
<1> SUFFICES ASSUME AlertsInit PROVE AlertsInv
  OBVIOUS
<1>1. AlertsTypeOK
  <2>1. /\ alerts \in Seq([acked : 0..LastDay, seller : 0..LastDay]) /\ Len(alerts) <= MaxAlerts
        /\ listed \in [Recalc -> SUBSET DOMAIN alerts]
    BY AlertAssumption DEF AlertsInit
  <2>2. date \in 1..LastDay /\ pass \in [Recalc -> 1..AlertWindows]
    BY AlertAssumption DEF AlertsInit
  <2>3. /\ chronic \in BOOLEAN /\ overlap \in BOOLEAN
        /\ figures \in [1..AlertWindows -> Verdict]
        /\ stage \in [Recalc -> {"idle", "listing", "closing", "cooldown", "opening"}]
    BY DEF AlertsInit
  <2>4. QED
    BY <2>1, <2>2, <2>3 DEF AlertsTypeOK
<1>2. RowsInv /\ Alone /\ Looked
  BY DEF AlertsInit, RowsInv, Alone, Looked
<1>3. QED
  BY <1>1, <1>2 DEF AlertsInv

(* The step to the next window.                                            *)
LEMMA WindowType ==
  ASSUME AlertsTypeOK, NEW r \in Recalc, NextWindow(r)
  PROVE  /\ stage' \in [Recalc -> {"idle", "listing", "closing", "cooldown", "opening"}]
         /\ pass' \in [Recalc -> 1..AlertWindows]
         /\ listed' \in [Recalc -> SUBSET DOMAIN alerts]
         /\ stage'[r] \in {"idle", "listing"}
         /\ \A q \in Recalc \ {r} : stage'[q] = stage[q]
<1>1. listed' \in [Recalc -> SUBSET DOMAIN alerts]
  BY DEF NextWindow, AlertsTypeOK
<1>2. CASE pass[r] < AlertWindows
  <2>1. pass[r] + 1 \in 1..AlertWindows
    BY <1>2, AlertAssumption DEF AlertsTypeOK
  <2>2. pass' \in [Recalc -> 1..AlertWindows]
    BY <1>2, <2>1 DEF NextWindow, AlertsTypeOK
  <2>3. QED
    BY <1>1, <1>2, <2>2 DEF NextWindow, GoTo, AlertsTypeOK
<1>3. CASE ~(pass[r] < AlertWindows)
  <2>1. 1 \in 1..AlertWindows
    BY AlertAssumption
  <2>2. pass' \in [Recalc -> 1..AlertWindows]
    BY <1>3, <2>1 DEF NextWindow, AlertsTypeOK
  <2>3. QED
    BY <1>1, <1>3, <2>2 DEF NextWindow, GoTo, AlertsTypeOK
<1>4. QED
  BY <1>2, <1>3

(* A recalculation's steps that write no row.                              *)
LEMMA QuietStep ==
  ASSUME AlertsInv, NEW r \in Recalc,
         \/ StartRecalc(r) \/ ListOpen(r) \/ Recovered(r) \/ UpdateOpen(r)
         \/ NoneOpen(r) \/ Withhold(r) \/ CooledDown(r) \/ RecalcFails(r)
  PROVE  AlertsInv'
<1>0. UNCHANGED <<date, chronic, figures, alerts>> /\ AlertsTypeOK /\ RowsInv
  BY DEF StartRecalc, ListOpen, Recovered, UpdateOpen, NoneOpen, Withhold, CooledDown,
         RecalcFails, UnchangedAlerts, AlertsInv
<1>1. RowsInv'
  BY <1>0 DEF RowsInv
<1>2. CASE StartRecalc(r)
  <2>1. AlertsTypeOK'
    BY <1>0, <1>2 DEF StartRecalc, GoTo, AlertsTypeOK
  <2>2. ~overlap' => ~overlap /\ \A q \in Recalc : stage[q] = "idle"
    BY <1>0, <1>2 DEF StartRecalc
  <2>3. ~overlap' => Alone' /\ Looked'
    BY <1>0, <1>2, <2>2 DEF StartRecalc, GoTo, Alone, Looked, AlertsTypeOK
  <2>4. QED
    BY <1>1, <2>1, <2>3 DEF AlertsInv
<1>3. CASE ListOpen(r)
  <2>1. listed' = [listed EXCEPT ![r] = IF figures[pass[r]] = "close" THEN OpenRows ELSE {}]
    BY <1>3 DEF ListOpen
  <2>2. AlertsTypeOK'
    BY <1>0, <1>3, <2>1 DEF ListOpen, GoTo, AlertsTypeOK, OpenRows
  <2>3. ~overlap' => Alone' /\ Looked'
    BY <1>0, <1>3 DEF ListOpen, GoTo, AlertsInv, Alone, Looked, AlertsTypeOK, OpenRows, Within
  <2>4. QED
    BY <1>1, <2>2, <2>3 DEF AlertsInv
<1>4. CASE Recovered(r) \/ UpdateOpen(r) \/ Withhold(r) \/ RecalcFails(r)
  <2>1. NextWindow(r) /\ stage[r] # "idle" /\ overlap' = overlap
    BY <1>0, <1>4 DEF Recovered, UpdateOpen, Withhold, RecalcFails, AlertsTypeOK
  <2>2. AlertsTypeOK'
    BY <1>0, <2>1, WindowType DEF AlertsTypeOK
  <2>3. ~overlap' => Alone' /\ Looked'
    BY <1>0, <2>1, WindowType DEF AlertsInv, Alone, Looked, OpenRows, Within
  <2>4. QED
    BY <1>1, <2>2, <2>3 DEF AlertsInv
<1>5. CASE NoneOpen(r)
  <2>1. /\ stage[r] = "closing" /\ OpenRows = {} /\ overlap' = overlap
        /\ stage'[r] = (IF chronic THEN "cooldown" ELSE "opening")
        /\ \A q \in Recalc \ {r} : stage'[q] = stage[q]
    BY <1>0, <1>5 DEF NoneOpen, GoTo, AlertsTypeOK
  <2>2. AlertsTypeOK'
    BY <1>0, <1>5 DEF NoneOpen, GoTo, AlertsTypeOK
  <2>3. ~overlap' => Alone' /\ Looked'
    BY <1>0, <2>1 DEF AlertsInv, Alone, Looked, OpenRows, Within
  <2>4. QED
    BY <1>1, <2>2, <2>3 DEF AlertsInv
<1>6. CASE CooledDown(r)
  <2>1. /\ stage[r] = "cooldown" /\ overlap' = overlap /\ stage'[r] = "opening"
        /\ \A q \in Recalc \ {r} : stage'[q] = stage[q]
    BY <1>0, <1>6 DEF CooledDown, GoTo, AlertsTypeOK
  <2>2. AlertsTypeOK'
    BY <1>0, <1>6 DEF CooledDown, GoTo, AlertsTypeOK
  <2>3. \A i \in 1..Len(alerts) : ~Within(alerts[i].seller)
    <3>1. \A i \in 1..Len(alerts) : ~Within(alerts[i].acked)
      BY <1>0, <1>6, RowTypes DEF CooledDown, CoolingDown
    <3>2. SUFFICES ASSUME NEW i \in 1..Len(alerts), Within(alerts[i].seller) PROVE FALSE
      OBVIOUS
    <3>3. /\ alerts[i].seller <= alerts[i].acked
          /\ alerts[i].seller \in 0..LastDay /\ alerts[i].acked \in 0..LastDay
          /\ LastDay \in Nat /\ Cooldown \in Nat /\ date \in Nat
      BY <1>0, RowTypes DEF RowsInv
    <3>4. Within(alerts[i].acked)
      BY SMTT(30), <3>2, <3>3 DEF Within, NotYet
    <3>5. QED
      BY <3>1, <3>4
  <2>4. ~overlap' => Alone' /\ Looked'
    BY <1>0, <2>1, <2>3 DEF AlertsInv, Alone, Looked, OpenRows, Within
  <2>5. QED
    BY <1>1, <2>2, <2>4 DEF AlertsInv
<1>7. QED
  BY <1>2, <1>3, <1>4, <1>5, <1>6

LEMMA DayStep ==
  ASSUME AlertsInv, NextDay
  PROVE  AlertsInv'
<1>1. AlertsTypeOK'
  <2>1. date' \in 1..LastDay
    BY AlertAssumption DEF AlertsInv, AlertsTypeOK, NextDay
  <2>2. QED
    BY <2>1 DEF AlertsInv, AlertsTypeOK, NextDay, recalcVars
<1>2. RowsInv'
  BY RowTypes DEF AlertsInv, NextDay, RowsInv
<1>3. ~overlap' => Alone' /\ Looked'
  BY RowTypes DEF AlertsInv, NextDay, recalcVars, Alone, Looked, OpenRows, Within
<1>4. QED
  BY <1>1, <1>2, <1>3 DEF AlertsInv

LEMMA FiguresStep ==
  ASSUME AlertsInv, NEW f \in [1..AlertWindows -> Verdict], NewFigures(f)
  PROVE  AlertsInv'
<1>1. /\ UNCHANGED <<date, chronic, alerts, stage, pass, listed, overlap>>
      /\ figures' \in [1..AlertWindows -> Verdict]
  BY DEF NewFigures, recalcVars
<1>2. AlertsTypeOK' /\ RowsInv' /\ (~overlap' => Alone' /\ Looked')
  BY <1>1 DEF AlertsInv, AlertsTypeOK, RowsInv, Alone, Looked, OpenRows, Within
<1>3. QED
  BY <1>2 DEF AlertsInv

(* What a seller's write does to a row.                                    *)
LEMMA AckedRows ==
  ASSUME AlertsInv, NEW rows, SellerAck(rows)
  PROVE  /\ alerts' \in Seq(AckRows) /\ Len(alerts') = Len(alerts)
         /\ \A i \in 1..Len(alerts) :
              /\ alerts'[i].acked \in {alerts[i].acked, date}
              /\ \/ alerts'[i].seller = alerts[i].seller
                 \/ i \in OpenRows /\ alerts'[i].seller = date /\ alerts'[i].acked = date
<1>0. AlertsTypeOK
  BY DEF AlertsInv
<1> DEFINE Row(i) == IF i \notin rows THEN alerts[i]
                     ELSE [acked |-> date,
                           seller |-> IF i \in OpenRows THEN date ELSE alerts[i].seller]
<1>1. alerts' = [i \in 1..Len(alerts) |-> Row(i)]
  BY <1>0, RowTypes DEF SellerAck
<1>2. ASSUME NEW i \in 1..Len(alerts) PROVE Row(i) \in AckRows
  <2>1. alerts[i] \in AckRows /\ alerts[i].seller \in 0..LastDay /\ date \in 0..LastDay
    BY <1>0, RowTypes
  <2>2. (IF i \in OpenRows THEN date ELSE alerts[i].seller) \in 0..LastDay
    BY <2>1
  <2>3. QED
    BY <2>1, <2>2 DEF AckRows
<1>3. \A i \in 1..Len(alerts) :
        /\ Row(i).acked \in {alerts[i].acked, date}
        /\ \/ Row(i).seller = alerts[i].seller
           \/ i \in OpenRows /\ Row(i).seller = date /\ Row(i).acked = date
  OBVIOUS
<1> HIDE DEF Row
<1>4. alerts' \in Seq(AckRows) /\ Len(alerts') = Len(alerts)
  BY <1>0, <1>1, <1>2, RowTypes
<1>5. \A i \in 1..Len(alerts) : alerts'[i] = Row(i)
  BY <1>1
<1>6. QED
  BY <1>3, <1>4, <1>5

LEMMA AckStep ==
  ASSUME AlertsInv, NEW rows, SellerAck(rows)
  PROVE  AlertsInv'
<1>0. /\ AlertsTypeOK /\ RowsInv
      /\ UNCHANGED <<date, chronic, figures, stage, pass, listed, overlap>>
  BY DEF AlertsInv, SellerAck, recalcVars
<1>1. DOMAIN alerts' = DOMAIN alerts
  BY <1>0, AckedRows, RowTypes
<1>2. AlertsTypeOK'
  <2>1. alerts' \in Seq([acked : 0..LastDay, seller : 0..LastDay]) /\ Len(alerts') <= MaxAlerts
    BY <1>0, AckedRows DEF AlertsTypeOK, AckRows
  <2>2. QED
    BY <1>0, <1>1, <2>1 DEF AlertsTypeOK
<1>3. RowsInv'
  BY <1>0, AckedRows, RowTypes DEF RowsInv
<1>4. ASSUME ~overlap, NEW r \in Recalc, stage[r] \in {"cooldown", "opening"}
      PROVE  /\ OpenRows' = {}
             /\ chronic /\ stage[r] = "opening" =>
                  \A i \in 1..Len(alerts') : ~Within(alerts[i].seller) /\ alerts'[i].seller = alerts[i].seller
  <2>1. OpenRows = {}
    BY <1>4 DEF AlertsInv, Looked
  <2>2. \A i \in 1..Len(alerts) : alerts[i].acked # NotYet /\ alerts'[i].acked # NotYet
    BY <1>0, <2>1, AckedRows, RowTypes DEF OpenRows, NotYet
  <2>3. OpenRows' = {}
    BY <1>0, <1>1, <2>2, RowTypes DEF OpenRows
  <2>4. QED
    BY <1>4, <2>1, <2>3, AckedRows DEF AlertsInv, Looked
<1>5. ~overlap' => Alone' /\ Looked'
  BY <1>0, <1>4 DEF AlertsInv, Alone, Looked, Within
<1>6. QED
  BY <1>2, <1>3, <1>5 DEF AlertsInv

LEMMA CloseStep ==
  ASSUME AlertsInv, NEW r \in Recalc, CloseRow(r)
  PROVE  AlertsInv'
<1>0. /\ AlertsTypeOK /\ RowsInv
      /\ UNCHANGED <<date, chronic, figures, stage, pass, overlap>>
  BY DEF AlertsInv, CloseRow
<1>1. PICK i \in listed[r] : /\ alerts' = [alerts EXCEPT ![i].acked = date]
                             /\ listed' = [listed EXCEPT ![r] = @ \ {i}]
  BY DEF CloseRow
<1>2. i \in 1..Len(alerts) /\ alerts[i] \in AckRows
  BY <1>0, RowTypes DEF AlertsTypeOK
<1>3. /\ alerts' \in Seq(AckRows) /\ Len(alerts') = Len(alerts) /\ DOMAIN alerts' = DOMAIN alerts
      /\ \A j \in 1..Len(alerts) :
           /\ alerts'[j].acked = (IF j = i THEN date ELSE alerts[j].acked)
           /\ alerts'[j].seller = alerts[j].seller
  <2>1. [alerts[i] EXCEPT !.acked = date] \in AckRows
    BY <1>0, <1>2, RowTypes DEF AckRows
  <2>2. alerts' = [alerts EXCEPT ![i] = [alerts[i] EXCEPT !.acked = date]]
    BY <1>1
  <2>3. alerts' \in Seq(AckRows) /\ Len(alerts') = Len(alerts) /\ DOMAIN alerts' = DOMAIN alerts
    BY <1>0, <1>2, <2>1, <2>2, RowTypes
  <2>4. \A j \in 1..Len(alerts) :
          alerts'[j] = IF j = i THEN [alerts[i] EXCEPT !.acked = date] ELSE alerts[j]
    BY <1>0, <2>2, RowTypes
  <2>5. QED
    BY <1>0, <1>2, <2>3, <2>4, RowTypes DEF AckRows
<1>4. AlertsTypeOK'
  <2>1. alerts' \in Seq([acked : 0..LastDay, seller : 0..LastDay]) /\ Len(alerts') <= MaxAlerts
    BY <1>0, <1>3 DEF AlertsTypeOK, AckRows
  <2>2. listed' \in [Recalc -> SUBSET DOMAIN alerts']
    BY <1>0, <1>1, <1>3 DEF AlertsTypeOK
  <2>3. QED
    BY <1>0, <2>1, <2>2 DEF AlertsTypeOK
<1>5. RowsInv'
  BY SMTT(30), <1>0, <1>3, RowTypes DEF RowsInv
<1>6. OpenRows' \subseteq OpenRows
  BY <1>0, <1>3, RowTypes DEF OpenRows, NotYet
<1>7. ~overlap' => Alone' /\ Looked'
  BY <1>0, <1>3, <1>6 DEF AlertsInv, Alone, Looked, Within
<1>8. QED
  BY <1>4, <1>5, <1>7 DEF AlertsInv

LEMMA OpenStep ==
  ASSUME AlertsInv, NEW r \in Recalc, OpenRow(r)
  PROVE  AlertsInv'
<1>0. /\ AlertsTypeOK /\ RowsInv /\ NextWindow(r) /\ stage[r] = "opening"
      /\ UNCHANGED <<date, chronic, figures, overlap>>
  BY DEF AlertsInv, OpenRow
<1>1. /\ alerts' \in Seq(AckRows) /\ Len(alerts') <= MaxAlerts /\ DOMAIN alerts \subseteq DOMAIN alerts'
      /\ RowsInv'
  <2>1. CASE alerts' = alerts
    BY <1>0, <2>1, RowTypes DEF AlertsTypeOK, RowsInv
  <2>2. CASE Len(alerts) < MaxAlerts /\ alerts' = Append(alerts, OpenAlert)
    <3>1. OpenAlert \in AckRows /\ OpenAlert.acked = 0 /\ OpenAlert.seller = 0
      BY <1>0, RowTypes DEF OpenAlert, AckRows, NotYet
    <3>2. /\ alerts' \in Seq(AckRows) /\ Len(alerts') = Len(alerts) + 1
          /\ \A i \in 1..Len(alerts') :
               alerts'[i] = IF i = Len(alerts) + 1 THEN OpenAlert ELSE alerts[i]
      BY <1>0, <2>2, <3>1, RowTypes
    <3>3. DOMAIN alerts \subseteq DOMAIN alerts' /\ Len(alerts') <= MaxAlerts
      BY <1>0, <2>2, <3>2, RowTypes, AlertAssumption
    <3>4. RowsInv'
      BY <1>0, <3>1, <3>2, RowTypes DEF RowsInv
    <3>5. QED
      BY <3>2, <3>3, <3>4
  <2>3. QED
    BY <2>1, <2>2 DEF OpenRow
<1>2. AlertsTypeOK'
  <2>1. listed' \in [Recalc -> SUBSET DOMAIN alerts']
    BY <1>0, <1>1, WindowType
  <2>2. QED
    BY <1>0, <1>1, <2>1, WindowType DEF AlertsTypeOK, AckRows
<1>3. ~overlap' => Alone' /\ Looked'
  <2> SUFFICES ASSUME ~overlap' PROVE Alone' /\ Looked'
    OBVIOUS
  <2>1. Alone
    BY <1>0 DEF AlertsInv
  <2>2. \A q \in Recalc \ {r} : stage'[q] = "idle"
    BY <1>0, <2>1, WindowType DEF Alone
  <2>3. stage'[r] \in {"idle", "listing"}
    BY <1>0, WindowType
  <2>4. QED
    BY <2>2, <2>3 DEF Alone, Looked
<1>4. QED
  BY <1>1, <1>2, <1>3 DEF AlertsInv

LEMMA StepAlerts == AlertsInv /\ [AlertsNext]_alertVars => AlertsInv'
<1> SUFFICES ASSUME AlertsInv, [AlertsNext]_alertVars PROVE AlertsInv'
  OBVIOUS
<1>1. CASE UNCHANGED alertVars
  BY <1>1 DEF AlertsInv, AlertsTypeOK, RowsInv, Alone, Looked, OpenRows, Within,
              alertVars, recalcVars
<1>2. CASE NextDay \/ \E f \in [1..AlertWindows -> Verdict] : NewFigures(f)
  BY <1>2, DayStep, FiguresStep
<1>3. CASE AckAll \/ \E i \in DOMAIN alerts : AckOne(i)
  BY <1>3, AckStep DEF AckAll, AckOne
<1>4. ASSUME NEW r \in Recalc,
             \/ StartRecalc(r) \/ ListOpen(r) \/ CloseRow(r) \/ Recovered(r)
             \/ UpdateOpen(r) \/ NoneOpen(r) \/ Withhold(r) \/ CooledDown(r) \/ OpenRow(r)
             \/ RecalcFails(r)
      PROVE  AlertsInv'
  BY <1>4, QuietStep, CloseStep, OpenStep
<1>5. QED
  BY <1>1, <1>2, <1>3, <1>4 DEF AlertsNext

LEMMA InvAlerts == AlertsSpec => []AlertsInv
BY InitAlerts, StepAlerts, PTL DEF AlertsSpec

(* Every reachable state of the alert model is well typed.                 *)
THEOREM AlertsTypeCorrect == AlertsSpec => []AlertsTypeOK
<1>1. AlertsInv => AlertsTypeOK
  BY DEF AlertsInv
<1>2. QED
  BY <1>1, InvAlerts, PTL

(* Only OpenRow adds a row, and it does so past the cooldown.              *)
LEMMA OnlyOpeningAdds ==
  ASSUME AlertsInv, [AlertsNext]_alertVars
  PROVE  chronic /\ ~overlap /\ Len(alerts') > Len(alerts) =>
           ~\E i \in DOMAIN alerts : Within(alerts[i].seller)
<1> SUFFICES ASSUME chronic, ~overlap, Len(alerts') > Len(alerts)
             PROVE  ~\E i \in DOMAIN alerts : Within(alerts[i].seller)
  OBVIOUS
<1>0. AlertsTypeOK
  BY DEF AlertsInv
<1>1. alerts' # alerts
  BY <1>0, RowTypes
<1>2. ASSUME NEW rows PROVE ~SellerAck(rows)
  <2>1. SellerAck(rows) => Len(alerts') = Len(alerts)
    BY AckedRows
  <2>2. QED
    BY <1>0, <2>1, RowTypes
<1>3. ASSUME NEW r \in Recalc PROVE ~CloseRow(r)
  <2>0. AlertsInv'
    BY StepAlerts
  <2>1. ASSUME NEW i, alerts' = [alerts EXCEPT ![i].acked = date] PROVE FALSE
    <3>1. DOMAIN alerts' = DOMAIN alerts
      BY <2>1
    <3>2. Len(alerts') \in Nat /\ DOMAIN alerts' = 1..Len(alerts')
      BY <2>0 DEF AlertsInv, AlertsTypeOK
    <3>3. Len(alerts') = Len(alerts)
      BY <1>0, <3>1, <3>2, RowTypes
    <3>4. QED
      BY <1>0, <3>2, <3>3, RowTypes
  <2>2. QED
    BY <2>1 DEF CloseRow
<1>4. \E r \in Recalc : OpenRow(r)
  BY <1>1, <1>2, <1>3 DEF AlertsNext, alertVars, AckAll, AckOne, NextDay, NewFigures, StartRecalc, ListOpen,
     Recovered, UpdateOpen, NoneOpen, Withhold, CooledDown, RecalcFails, UnchangedAlerts
<1>5. QED
  BY <1>0, <1>4, RowTypes DEF OpenRow, AlertsInv, Looked

(* A chronic alert the seller has acknowledged stays quiet for the         *)
(* cooldown, whatever the windows' figures, the order of the seller's and  *)
(* the job's writes and the calls that fail, unless two recalculations of  *)
(* the seller ran at once (jobs/recalc.py _in_realert_cooldown).           *)
THEOREM AckIsRespected == AlertsSpec => AcknowledgedStaysQuiet
<1>1. AlertsInv /\ [AlertsNext]_alertVars =>
        [chronic /\ ~overlap /\ Len(alerts') > Len(alerts) =>
           ~\E i \in DOMAIN alerts : Within(alerts[i].seller)]_alertVars
  BY OnlyOpeningAdds
<1>2. QED
  BY <1>1, InvAlerts, PTL DEF AlertsSpec, AcknowledgedStaysQuiet

-----------------------------------------------------------------------------
(* Reports: one copy of a report.                                         *)

(* Without a lapse one dispatch of a kind is at the seller; it has found   *)
(* nothing sent, and what it has sent is still to be recorded.             *)
OneEach ==
  \A i, j \in Job :
    phase[i] # "idle" /\ phase[j] # "idle" /\ kindOf[i] = kindOf[j] => i = j

UnsentYet ==
  \A j \in Job :
    /\ phase[j] = "building" => delivered[kindOf[j]] = 0
    /\ phase[j] = "recording" /\ outcome[j] # "sent" => delivered[kindOf[j]] = 0
    /\ phase[j] \in {"building", "recording"} /\ kindOf[j] = "monthly" =>
         record["monthly"] = "none"

SentIsKnown ==
  \A k \in Kind :
    /\ delivered[k] <= 1
    /\ delivered[k] # 0 =>
         \/ record[k] = "sent"
         \/ \E j \in Job : phase[j] = "recording" /\ kindOf[j] = k /\ outcome[j] = "sent"

ReportsInv ==
  ReportsTypeOK /\ (lapses = {} => OneEach /\ UnsentYet /\ SentIsKnown)

LEMMA InitReports == ReportsInit => ReportsInv
<1> SUFFICES ASSUME ReportsInit PROVE ReportsInv
  OBVIOUS
<1>1. ReportsTypeOK
  BY ReportsAssumption DEF ReportsInit, ReportsTypeOK, Kind, Outcome
<1>2. OneEach /\ UnsentYet /\ SentIsKnown
  BY DEF ReportsInit, OneEach, UnsentYet, SentIsKnown
<1>3. QED
  BY <1>1, <1>2 DEF ReportsInv

(* Every variable keeps to its domain.                                     *)
LEMMA TypeStep ==
  ASSUME ReportsTypeOK, [ReportsNext]_reportVars
  PROVE  ReportsTypeOK'
<1> USE ReportsAssumption
    DEF ReportsTypeOK, Kind, Outcome, Enter, Over, Calm, Trouble, Conclude, Deliver
<1>1. ASSUME NEW j \in Job, NEW k \in Kind, Dispatch(j, k)
      PROVE  ReportsTypeOK'
  BY <1>1 DEF Dispatch
<1>2. ASSUME NEW j \in Job, SkipSent(j) \/ NotSentYet(j) \/ NotWanted(j)
      PROVE  ReportsTypeOK'
  BY <1>2 DEF SkipSent, NotSentYet, NotWanted
<1>3. ASSUME NEW j \in Job, CheckFails(j)
      PROVE  ReportsTypeOK'
  BY <1>3 DEF CheckFails
<1>4. ASSUME NEW j \in Job, NoData(j) \/ SendFails(j)
      PROVE  ReportsTypeOK'
  BY <1>4 DEF NoData, SendFails
<1>5. ASSUME NEW j \in Job, Send(j)
      PROVE  ReportsTypeOK'
  BY <1>5 DEF Send
<1>6. ASSUME NEW j \in Job, AnswerLost(j)
      PROVE  ReportsTypeOK'
  BY <1>6 DEF AnswerLost
<1>7. ASSUME NEW j \in Job, RecordHistory(j)
      PROVE  ReportsTypeOK'
  BY <1>7 DEF RecordHistory, Recorded
<1>8. ASSUME NEW j \in Job, RecordFails(j)
      PROVE  ReportsTypeOK'
  BY <1>8 DEF RecordFails
<1>9. CASE Restart
  BY <1>9 DEF Restart
<1>10. CASE UNCHANGED reportVars
  BY <1>10 DEF reportVars, jobVars
<1>11. QED
  BY <1>1, <1>2, <1>3, <1>4, <1>5, <1>6, <1>7, <1>8, <1>9, <1>10 DEF ReportsNext

(* The rest, as long as nothing went wrong.                                *)
LEMMA CalmStep ==
  ASSUME ReportsInv, ReportsNext, lapses' = {}
  PROVE  OneEach' /\ UnsentYet' /\ SentIsKnown'
<1> USE DEF Enter, Over, Calm, Conclude
<1>0. lapses = {} /\ ReportsTypeOK /\ OneEach /\ UnsentYet /\ SentIsKnown
  <2>1. lapses \subseteq lapses'
    BY DEF ReportsNext, Dispatch, SkipSent, NotSentYet, CheckFails, NotWanted, NoData, Send,
           SendFails, AnswerLost, RecordHistory, RecordFails, Restart, Trouble
  <2>2. QED
    BY <2>1 DEF ReportsInv
<1> USE DEF ReportsTypeOK
<1>1. ASSUME NEW j \in Job, NEW k \in Kind, Dispatch(j, k)
      PROVE  OneEach' /\ UnsentYet' /\ SentIsKnown'
  <2>1. \A i \in Job : phase[i] # "idle" => kindOf[i] # k
    BY <1>0, <1>1 DEF Dispatch
  <2>2. OneEach'
    BY <1>0, <1>1, <2>1 DEF Dispatch, OneEach
  <2>3. UnsentYet' /\ SentIsKnown'
    BY <1>0, <1>1 DEF Dispatch, UnsentYet, SentIsKnown
  <2>4. QED
    BY <2>2, <2>3
<1>2. ASSUME NEW j \in Job, SkipSent(j) \/ NotWanted(j)
      PROVE  OneEach' /\ UnsentYet' /\ SentIsKnown'
  BY <1>0, <1>2 DEF SkipSent, NotWanted, OneEach, UnsentYet, SentIsKnown
<1>3. ASSUME NEW j \in Job, NotSentYet(j)
      PROVE  OneEach' /\ UnsentYet' /\ SentIsKnown'
  <2>1. delivered[kindOf[j]] = 0
    <3>1. record[kindOf[j]] # "sent"
      BY <1>0, <1>3 DEF NotSentYet, AlreadySent, Kind
    <3>2. \A i \in Job : phase[i] = "recording" => kindOf[i] # kindOf[j]
      BY <1>0, <1>3 DEF NotSentYet, OneEach
    <3>3. QED
      BY <1>0, <3>1, <3>2 DEF SentIsKnown
  <2>2. kindOf[j] = "monthly" => record["monthly"] = "none"
    BY <1>3 DEF NotSentYet, AlreadySent
  <2>3. QED
    BY <1>0, <1>3, <2>1, <2>2 DEF NotSentYet, OneEach, UnsentYet, SentIsKnown
<1>4. ASSUME NEW j \in Job, NoData(j) \/ SendFails(j)
      PROVE  OneEach' /\ UnsentYet' /\ SentIsKnown'
  BY <1>0, <1>4 DEF NoData, SendFails, OneEach, UnsentYet, SentIsKnown, Outcome
<1>5. ASSUME NEW j \in Job, Send(j)
      PROVE  OneEach' /\ UnsentYet' /\ SentIsKnown'
  <2>1. /\ phase[j] = "building" /\ delivered[kindOf[j]] = 0
        /\ delivered' = [delivered EXCEPT ![kindOf[j]] = 1]
        /\ phase' = [phase EXCEPT ![j] = "recording"]
        /\ outcome' = [outcome EXCEPT ![j] = "sent"]
        /\ UNCHANGED <<record, kindOf>>
    <3>1. /\ phase[j] = "building" /\ phase' = [phase EXCEPT ![j] = "recording"]
          /\ outcome' = [outcome EXCEPT ![j] = "sent"] /\ UNCHANGED <<record, kindOf>>
          /\ delivered' = [delivered EXCEPT ![kindOf[j]] = delivered[kindOf[j]] + 1]
      BY <1>5 DEF Send, Deliver
    <3>2. delivered[kindOf[j]] = 0
      BY <1>0, <3>1 DEF UnsentYet
    <3>3. delivered[kindOf[j]] + 1 = 1
      BY <3>2
    <3>4. QED
      BY <3>1, <3>2, <3>3
  <2>2. OneEach'
    BY <1>0, <2>1 DEF OneEach
  <2>3. UnsentYet'
    BY <1>0, <2>1 DEF OneEach, UnsentYet, Outcome
  <2>4. SentIsKnown'
    BY <1>0, <2>1 DEF SentIsKnown, Outcome
  <2>5. QED
    BY <2>2, <2>3, <2>4
<1>6. ASSUME NEW j \in Job, CheckFails(j) \/ AnswerLost(j)
      PROVE  OneEach' /\ UnsentYet' /\ SentIsKnown'
  BY <1>6 DEF CheckFails, AnswerLost, Trouble
<1>7. ASSUME NEW j \in Job, RecordHistory(j)
      PROVE  OneEach' /\ UnsentYet' /\ SentIsKnown'
  <2>1. OneEach'
    BY <1>0, <1>7 DEF RecordHistory, OneEach
  <2>2. /\ kindOf[j] \in Kind /\ phase[j] = "recording" /\ delivered' = delivered
        /\ record' = [record EXCEPT ![kindOf[j]] = outcome[j]]
    BY <1>0, <1>7 DEF RecordHistory, Recorded, UnsentYet, Kind
  <2>3. \A i \in Job \ {j} : phase[i] # "idle" => kindOf[i] # kindOf[j]
    BY <1>0, <2>2 DEF OneEach
  <2>4. UnsentYet'
    BY <1>0, <1>7, <2>2, <2>3 DEF RecordHistory, UnsentYet
  <2>5. SentIsKnown'
    BY <1>0, <1>7, <2>2, <2>3 DEF RecordHistory, UnsentYet, SentIsKnown
  <2>6. QED
    BY <2>1, <2>4, <2>5
<1>8. ASSUME NEW j \in Job, RecordFails(j)
      PROVE  OneEach' /\ UnsentYet' /\ SentIsKnown'
  <2>1. outcome[j] # "sent"
    BY <1>8 DEF RecordFails, Trouble
  <2>2. QED
    BY <1>0, <1>8, <2>1 DEF RecordFails, OneEach, UnsentYet, SentIsKnown
<1>9. CASE Restart
  <2>1. \A j \in Job : ~(phase[j] = "recording" /\ outcome[j] = "sent")
    BY <1>9 DEF Restart, Trouble
  <2>2. QED
    BY <1>0, <1>9, <2>1 DEF Restart, OneEach, UnsentYet, SentIsKnown
<1>10. QED
  BY <1>1, <1>2, <1>3, <1>4, <1>5, <1>6, <1>7, <1>8, <1>9 DEF ReportsNext

LEMMA InvReports == ReportsSpec => []ReportsInv
<1>1. ReportsInv /\ [ReportsNext]_reportVars => ReportsInv'
  <2> SUFFICES ASSUME ReportsInv, [ReportsNext]_reportVars PROVE ReportsInv'
    OBVIOUS
  <2>1. ReportsTypeOK'
    BY TypeStep DEF ReportsInv
  <2>2. CASE ReportsNext
    BY <2>1, <2>2, CalmStep DEF ReportsInv
  <2>3. CASE UNCHANGED reportVars
    BY <2>1, <2>3 DEF ReportsInv, reportVars, jobVars, OneEach, UnsentYet, SentIsKnown
  <2>4. QED
    BY <2>2, <2>3
<1>2. QED
  BY <1>1, InitReports, PTL DEF ReportsSpec

(* A seller gets a report once (jobs/reports.py, jobs/monthly_report.py)   *)
(* unless a check fails, an answer is lost, what was sent is not recorded, *)
(* or two dispatches of it overlap: for any number of dispatches, restarts *)
(* and repetitions.                                                        *)
THEOREM OneCopy == ReportsSpec => []ReportedOnce
<1>1. ReportsInv => ReportedOnce
  BY DEF ReportsInv, SentIsKnown, ReportedOnce
<1>2. QED
  BY <1>1, InvReports, PTL

-----------------------------------------------------------------------------
(* Source fetch: a snapshot holds what the source said.                   *)

Sources == {"ozon_fbo", "ozon_fbs", "wb_fbo", "wb_fbs", "shopify", "sheet"}

(* The calls of a source.                                                  *)
Own ==
  IF source = "ozon_fbo" THEN {"list", "info", "stocks", "prices", "extras"}
  ELSE IF source = "ozon_fbs" THEN {"list", "stocks", "prices", "extras"}
  ELSE IF source = "wb_fbo" THEN {"rows", "extras"}
  ELSE IF source = "wb_fbs"
  THEN {"cards", "extras", "prices", "statistics", "warehouses", "stocks"}
  ELSE IF source = "shopify" THEN {"variants"} ELSE {"rows"}

SourceTypes ==
  /\ source \in Sources /\ pageLimit \in PageLimits
  /\ inStock \in SUBSET Product
  /\ fetchStage \in {"idle", "products", "lookup", "insert"} \cup Own
  /\ fetchedSkus \in SUBSET Product
  /\ priced \in SUBSET Product /\ blank \in SUBSET Product
  /\ counted \in [Product -> Nat]
  /\ last \in [Product -> [stock : Nat, price : Nat] \cup {NoSnapshot}]
  /\ recent \in SUBSET Product /\ settled \in SUBSET Product
  /\ unpriced \in SUBSET Product

(* The calls still to be made are calls for what has been listed; an       *)
(* insert without a price is one of a product with a recent row.           *)
CallsFit ==
  /\ todo \subseteq (Asked \cup {AllShelves}) \X Product
  /\ fetchStage \in {"info", "prices", "insert"} => todo \subseteq {AllShelves} \X fetchedSkus
  /\ fetchStage = "stocks" => todo \subseteq Asked \X fetchedSkus
  /\ fetchStage = "insert" =>
       \A p \in Product : <<AllShelves, p>> \in todo =>
         p \in priced \cup blank \/ source \notin Ozon \/ p \in recent

(* Pieces are counted in three phases.                                     *)
Before ==
  \/ fetchStage \in {"idle", "rows", "list", "info", "cards", "statistics", "warehouses"}
  \/ source = "wb_fbs" /\ fetchStage \in {"extras", "prices"}

Answered(p) == {x \in Asked : <<x, p>> \notin todo}

CountsFit ==
  /\ Before => \A p \in Product : counted[p] = 0
  /\ fetchStage = "stocks" =>
       \A p \in fetchedSkus :
         counted[p] = IF p \in inStock THEN Cardinality(Answered(p)) ELSE 0
  /\ ~Before /\ fetchStage # "stocks" => \A p \in fetchedSkus : counted[p] = Pieces(p)

(* A source that lists with prices has answered the price of what it       *)
(* listed, if only with a blank.                                           *)
PricesFit == source \notin Ozon \cup {"wb_fbs"} => fetchedSkus \subseteq priced \cup blank

RecentHaveRows == \A p \in recent : last[p] # NoSnapshot

SourceInv ==
  /\ SourceTypes /\ CallsFit /\ CountsFit /\ PricesFit /\ RecentHaveRows
  /\ RecordedStockIsTrue /\ NoPhantomPrice

-----------------------------------------------------------------------------
LEMMA SourcesAre == DOMAIN FetchCourse = Sources
BY DEF FetchCourse, Sources

(* The stage after each.                                                   *)
LEMMA Courses ==
  ASSUME source \in Sources
  PROVE  /\ NextStage("idle") = IF source \in Ozon THEN "list"
                                ELSE IF source = "wb_fbs" THEN "cards"
                                ELSE IF source = "shopify" THEN "variants" ELSE "rows"
         /\ source = "ozon_fbo" => NextStage("list") = "info" /\ NextStage("info") = "stocks"
         /\ source = "ozon_fbs" => NextStage("list") = "stocks"
         /\ source \in Ozon => NextStage("stocks") = "prices" /\ NextStage("prices") = "extras"
         /\ source \in Ozon \cup {"wb_fbo"} => NextStage("extras") = "products"
         /\ source = "wb_fbo" => NextStage("rows") = "extras"
         /\ source = "sheet" => NextStage("rows") = "products"
         /\ source = "shopify" => NextStage("variants") = "products"
         /\ source = "wb_fbs" =>
              /\ NextStage("cards") = "extras" /\ NextStage("extras") = "prices"
              /\ NextStage("prices") = "statistics" /\ NextStage("statistics") = "warehouses"
              /\ NextStage("warehouses") = "stocks" /\ NextStage("stocks") = "products"
         /\ NextStage("products") = "lookup"
<1>1. DOMAIN PersistCourse = {"products", "lookup"}
  BY DEF PersistCourse
<1>2. NextStage("products") = "lookup"
  BY <1>1 DEF NextStage, PersistCourse
<1>3. \A s \in {"idle", "list", "info", "stocks", "prices", "extras", "rows", "variants", "cards",
                "statistics", "warehouses"} : NextStage(s) = FetchCourse[source][s]
  BY <1>1 DEF NextStage
<1>4. CASE source = "ozon_fbo"
  <2>1. FetchCourse[source] = OzonFbo
    BY <1>4 DEF FetchCourse
  <2>2. QED
    BY <1>2, <1>3, <1>4, <2>1 DEF OzonFbo, Ozon
<1>5. CASE source = "ozon_fbs"
  <2>1. FetchCourse[source] = OzonFbs
    BY <1>5 DEF FetchCourse
  <2>2. QED
    BY <1>2, <1>3, <1>5, <2>1 DEF OzonFbs, Ozon
<1>6. CASE source = "wb_fbo"
  <2>1. FetchCourse[source] = WbFbo
    BY <1>6 DEF FetchCourse
  <2>2. QED
    BY <1>2, <1>3, <1>6, <2>1 DEF WbFbo, Ozon
<1>7. CASE source = "wb_fbs"
  <2>1. FetchCourse[source] = WbFbs
    BY <1>7 DEF FetchCourse
  <2>2. QED
    BY <1>2, <1>3, <1>7, <2>1 DEF WbFbs, Ozon
<1>8. CASE source = "shopify"
  <2>1. FetchCourse[source] = Shopify
    BY <1>8 DEF FetchCourse
  <2>2. QED
    BY <1>2, <1>3, <1>8, <2>1 DEF Shopify, Ozon
<1>9. CASE source = "sheet"
  <2>1. FetchCourse[source] = Sheet
    BY <1>9 DEF FetchCourse
  <2>2. QED
    BY <1>2, <1>3, <1>9, <2>1 DEF Sheet, Ozon
<1>10. QED
  BY <1>4, <1>5, <1>6, <1>7, <1>8, <1>9 DEF Sources

LEMMA AskedIs ==
  /\ IsFiniteSet(Asked)
  /\ source # "wb_fbs" => Asked = {AllShelves} /\ Cardinality(Asked) = 1
BY FS_Singleton, SourceAssumption DEF Asked

LEMMA SourceCallsAre ==
  ASSUME NEW s
  PROVE  /\ s \in {"list", "cards", "variants"} => CallsFor(s) = {AllShelves} \X Product
         /\ s \in {"info", "prices"} => CallsFor(s) = {AllShelves} \X fetchedSkus
         /\ s = "stocks" => CallsFor(s) = Asked \X fetchedSkus
         /\ s \in {"idle", "rows", "extras", "statistics", "warehouses", "products", "lookup"}
              => CallsFor(s) = {}
<1>1. s \in {"list", "cards", "variants"} => CallsFor(s) = {AllShelves} \X Product
  BY SMT DEF CallsFor
<1>2. s \in {"info", "prices"} => CallsFor(s) = {AllShelves} \X fetchedSkus
  BY SMT DEF CallsFor
<1>3. s = "stocks" => CallsFor(s) = Asked \X fetchedSkus
  BY SMT DEF CallsFor
<1>4. s \in {"idle", "rows", "extras", "statistics", "warehouses", "products", "lookup"}
              => CallsFor(s) = {}
  BY SMT DEF CallsFor
<1>5. QED
  BY <1>1, <1>2, <1>3, <1>4

LEMMA InitSource == SourceInit => SourceInv
<1> SUFFICES ASSUME SourceInit PROVE SourceInv
  OBVIOUS
<1>1. SourceTypes
  BY SourcesAre DEF SourceInit, SourceTypes, NoSnapshot
<1>2. CallsFit /\ PricesFit /\ RecentHaveRows
  BY DEF SourceInit, CallsFit, PricesFit, RecentHaveRows
<1>3. CountsFit
  BY DEF SourceInit, CountsFit, Before
<1>4. RecordedStockIsTrue /\ NoPhantomPrice
  BY DEF SourceInit, RecordedStockIsTrue, NoPhantomPrice
<1>5. QED
  BY <1>1, <1>2, <1>3, <1>4 DEF SourceInv

(* What is not a row does not change with the stages.                      *)
LEMMA RowsStay ==
  ASSUME SourceInv, UNCHANGED <<source, pageLimit, inStock, last, recent, settled, unpriced>>
  PROVE  /\ source' \in Sources /\ pageLimit' \in PageLimits /\ inStock' \in SUBSET Product
         /\ last' \in [Product -> [stock : Nat, price : Nat] \cup {NoSnapshot}]
         /\ recent' \in SUBSET Product /\ settled' \in SUBSET Product
         /\ unpriced' \in SUBSET Product
         /\ RecentHaveRows' /\ RecordedStockIsTrue' /\ NoPhantomPrice'
<1>1. Asked' = Asked
  BY DEF Asked
<1>2. QED
  BY <1>1 DEF SourceInv, SourceTypes, RecentHaveRows, RecordedStockIsTrue, NoPhantomPrice, Pieces

(* The end of a sync, good or bad.                                         *)
LEMMA OverKeeps ==
  ASSUME SourceInv, FetchOver, source' = source, SourceTypes => SourceTypes',
         RecentHaveRows', RecordedStockIsTrue', NoPhantomPrice'
  PROVE  SourceInv'
<1>1. /\ fetchStage' = "idle" /\ todo' = {} /\ fetchedSkus' = {} /\ priced' = {}
      /\ counted' = [p \in Product |-> 0]
  BY DEF FetchOver, NothingFetched
<1>2. CallsFit' /\ PricesFit'
  BY <1>1 DEF CallsFit, PricesFit
<1>3. CountsFit'
  BY <1>1 DEF CountsFit, Before
<1>4. QED
  BY <1>2, <1>3 DEF SourceInv

LEMMA EndKeeps ==
  ASSUME SourceInv, FetchOver, UNCHANGED <<source, pageLimit, inStock, last, recent, settled, unpriced>>
  PROVE  SourceInv'
<1>1. SourceTypes'
  BY RowsStay DEF FetchOver, NothingFetched, SourceTypes
<1>2. QED
  BY <1>1, RowsStay, OverKeeps

(* One stage after the other, with what has been received.                 *)
LEMMA GotoKeeps ==
  ASSUME SourceInv, Goto(NextStage(fetchStage)), fetchStage # "lookup", fetchStage # "insert",
         fetchStage # "idle", fetchStage # "rows",
         fetchStage = "stocks" => todo = {},
         UNCHANGED <<source, pageLimit, inStock, last, recent, settled, unpriced>>,
         UNCHANGED <<fetchedSkus, counted, blank>>,
         priced' \in SUBSET Product, priced \subseteq priced'
  PROVE  SourceInv'
<1>1. fetchStage' = NextStage(fetchStage) /\ todo' = CallsFor(fetchStage')
  BY DEF Goto
<1>2. source \in Sources /\ fetchStage \in Own \cup {"products"} /\ Own' = Own /\ Asked' = Asked
  BY DEF SourceInv, SourceTypes, Own, Asked
<1>3. fetchStage' \in (Own \cup {"products", "lookup"}) \ {"idle", "rows", "list", "cards", "variants"}
  BY <1>1, <1>2, Courses DEF Sources, Own, Ozon
<1>4. SourceTypes'
  BY <1>2, <1>3, RowsStay DEF SourceInv, SourceTypes
<1>5. CallsFit'
  <2>1. fetchStage' \in {"info", "prices"} => todo' = {AllShelves} \X fetchedSkus
    BY <1>1, SourceCallsAre
  <2>2. fetchStage' = "stocks" => todo' = Asked \X fetchedSkus
    BY <1>1, SourceCallsAre
  <2>3. fetchStage' \notin {"info", "prices", "stocks"} => todo' = {}
    BY <1>1, <1>3, SourceCallsAre DEF Own
  <2>4. fetchStage' # "insert" /\ fetchedSkus \subseteq Product
    BY <1>3 DEF Own, SourceInv, SourceTypes
  <2>5. QED
    BY <1>2, <2>1, <2>2, <2>3, <2>4 DEF CallsFit
<1>6. CountsFit'
  <2>1. CASE fetchStage = "stocks"
    <3>1. \A p \in fetchedSkus : Answered(p) = Asked
      BY <2>1 DEF Answered
    <3>2. \A p \in fetchedSkus : counted[p] = Pieces(p)
      BY <2>1, <3>1 DEF SourceInv, CountsFit, Pieces
    <3>3. ~Before' /\ fetchStage' # "stocks"
      BY <1>1, <1>2, <2>1, Courses DEF Before, Sources, Own, Ozon
    <3>4. QED
      BY <1>2, <3>2, <3>3 DEF CountsFit, Pieces
  <2>2. CASE Before /\ fetchStage' # "stocks"
    <3>1. Before'
      BY <1>1, <1>2, <2>2, Courses DEF Before, Sources, Own, Ozon
    <3>2. QED
      BY <2>2, <3>1 DEF SourceInv, CountsFit, Before
  <2>3. CASE Before /\ fetchStage' = "stocks"
    <3>1. todo' = Asked \X fetchedSkus
      BY <1>1, <2>3, SourceCallsAre
    <3>2. \A p \in fetchedSkus : Answered(p)' = {}
      BY <1>2, <3>1 DEF Answered
    <3>3. \A p \in fetchedSkus : counted[p] = 0
      BY <2>3 DEF SourceInv, CountsFit, SourceTypes
    <3>4. ~Before'
      BY <2>3 DEF Before
    <3>5. QED
      BY <2>3, <3>2, <3>3, <3>4, FS_EmptySet DEF CountsFit
  <2>4. CASE ~Before /\ fetchStage # "stocks"
    <3>1. ~Before' /\ fetchStage' # "stocks"
      BY <1>1, <1>2, <2>4, Courses DEF Before, Sources, Own, Ozon
    <3>2. QED
      BY <1>2, <2>4, <3>1 DEF SourceInv, CountsFit, Pieces
  <2>5. QED
    BY <2>1, <2>2, <2>3, <2>4
<1>7. PricesFit'
  BY DEF SourceInv, PricesFit
<1>8. QED
  BY <1>4, <1>5, <1>6, <1>7, RowsStay DEF SourceInv

LEMMA BetweenSyncs ==
  ASSUME SourceInv, NightPasses \/ \E p \in Product : MarketMoves(p)
  PROVE  SourceInv'
<1>1. fetchStage = "idle"
      /\ UNCHANGED <<source, pageLimit, fetchStage, todo, received, last, unpriced>>
  BY DEF NightPasses, MarketMoves
<1>2. inStock' \in SUBSET Product /\ recent' \subseteq recent
      /\ (settled' = {} \/ UNCHANGED <<settled, inStock>>)
  BY DEF NightPasses, MarketMoves, SourceInv, SourceTypes
<1>3. Asked' = Asked /\ Own' = Own
  BY <1>1 DEF Asked, Own
<1>4. SourceTypes'
  BY <1>1, <1>2, <1>3 DEF SourceInv, SourceTypes, received
<1>5. CallsFit' /\ PricesFit' /\ RecentHaveRows' /\ NoPhantomPrice'
  BY <1>1, <1>2, <1>3 DEF SourceInv, CallsFit, PricesFit, RecentHaveRows, NoPhantomPrice, received
<1>6. CountsFit'
  BY <1>1 DEF SourceInv, CountsFit, Before, received
<1>7. RecordedStockIsTrue'
  BY <1>1, <1>2, <1>3 DEF SourceInv, RecordedStockIsTrue, Pieces
<1>8. QED
  BY <1>4, <1>5, <1>6, <1>7 DEF SourceInv

LEMMA SyncBeginKeeps ==
  ASSUME SourceInv, BeginFetch
  PROVE  SourceInv'
<1>1. /\ fetchStage' = NextStage("idle") /\ todo' = CallsFor(fetchStage')
      /\ fetchedSkus' = {} /\ priced' = {} /\ blank' = {}
      /\ counted' = [p \in Product |-> 0] /\ settled' = {}
      /\ UNCHANGED <<source, pageLimit, inStock, last, recent, unpriced>>
  BY DEF BeginFetch, NothingFetched, Goto, UnchangedSource
<1>2. fetchStage' \in {"list", "cards", "variants", "rows"} \cap Own /\ Own' = Own /\ Asked' = Asked
  BY <1>1, Courses DEF SourceInv, SourceTypes, Sources, Own, Asked, Ozon
<1>3. SourceTypes'
  BY <1>1, <1>2 DEF SourceInv, SourceTypes
<1>4. CallsFit'
  <2>1. todo' \subseteq {AllShelves} \X Product
    BY <1>1, <1>2, SourceCallsAre
  <2>2. QED
    BY <1>2, <2>1 DEF CallsFit
<1>5. CountsFit' /\ PricesFit'
  BY <1>1, <1>2 DEF CountsFit, PricesFit
<1>6. RecentHaveRows' /\ RecordedStockIsTrue' /\ NoPhantomPrice'
  BY <1>1 DEF SourceInv, RecentHaveRows, RecordedStockIsTrue, NoPhantomPrice
<1>7. QED
  BY <1>3, <1>4, <1>5, <1>6 DEF SourceInv

LEMMA StagesKeep ==
  ASSUME SourceInv,
         \/ EssentialFails \/ PagesRunOut \/ ListingEnds \/ CallsEnd \/ Extras
         \/ EnsureProducts \/ Persisted
         \/ \E withFbo \in SUBSET Product : Statistics(withFbo)
         \/ \E answer \in {{}, Shelf} : Warehouses(answer)
  PROVE  SourceInv'
<1>1. UNCHANGED <<source, pageLimit, inStock, last, recent, settled, unpriced>>
  BY DEF EssentialFails, PagesRunOut, ListingEnds, CallsEnd, Extras, EnsureProducts, Persisted,
     Statistics, Warehouses, UnchangedSource, UnchangedRows
<1>2. priced \in SUBSET Product
  BY DEF SourceInv, SourceTypes
<1>3. \/ FetchOver
      \/ /\ Goto(NextStage(fetchStage)) /\ UNCHANGED <<fetchedSkus, counted, blank>>
         /\ fetchStage \notin {"lookup", "insert", "idle", "rows"}
         /\ fetchStage = "stocks" => todo = {}
         /\ priced' \in SUBSET Product /\ priced \subseteq priced'
  <2>1. CASE EssentialFails \/ PagesRunOut \/ Persisted
    BY <2>1 DEF EssentialFails, PagesRunOut, Persisted
  <2>2. CASE ListingEnds
    BY <1>2, <2>2 DEF ListingEnds, Listing, received
  <2>3. CASE CallsEnd
    BY <1>2, <2>3 DEF CallsEnd, received
  <2>4. CASE Extras \/ EnsureProducts
    BY <1>2, <2>4 DEF Extras, EnsureProducts, received
  <2>5. ASSUME NEW withFbo \in SUBSET Product, Statistics(withFbo)
        PROVE  /\ Goto(NextStage(fetchStage)) /\ UNCHANGED <<fetchedSkus, counted, blank>>
               /\ fetchStage \notin {"lookup", "insert", "idle", "rows"}
               /\ fetchStage = "stocks" => todo = {}
               /\ priced' \in SUBSET Product /\ priced \subseteq priced'
    BY <1>2, <2>5 DEF Statistics
  <2>6. ASSUME NEW answer \in {{}, Shelf}, Warehouses(answer)
        PROVE  \/ FetchOver
               \/ /\ Goto(NextStage(fetchStage)) /\ UNCHANGED received
                  /\ fetchStage = "warehouses"
    BY <2>6 DEF Warehouses
  <2>7. QED
    BY <1>2, <2>1, <2>2, <2>3, <2>4, <2>5, <2>6 DEF received
<1>4. CASE FetchOver
  BY <1>1, <1>4, EndKeeps
<1>5. CASE ~FetchOver
  BY <1>1, <1>3, <1>5, GotoKeeps
<1>6. QED
  BY <1>4, <1>5

LEMMA ReadPageKeeps ==
  ASSUME SourceInv, NEW p \in Product, ReadPage(p)
  PROVE  SourceInv'
<1>1. /\ fetchStage \in {"list", "cards", "variants"}
      /\ todo' \subseteq todo /\ fetchedSkus' = fetchedSkus \cup {p}
      /\ UNCHANGED <<fetchStage, source, pageLimit, inStock, last, recent, settled, unpriced>>
  BY DEF ReadPage, Listing, UnchangedSource, UnchangedRows
<1>2. /\ fetchStage = "variants" =>
           /\ counted' = [counted EXCEPT ![p] = IF p \in inStock THEN 1 ELSE 0]
           /\ priced' \cup blank' = priced \cup blank \cup {p}
      /\ priced' \subseteq priced \cup {p} /\ blank' \subseteq blank \cup {p}
      /\ fetchStage # "variants" => UNCHANGED <<counted, priced, blank>>
  BY DEF ReadPage, PricedOrBlank
<1>3. fetchStage \in Own /\ Own' = Own /\ Asked' = Asked /\ source \in Sources
      /\ counted \in [Product -> Nat] /\ fetchedSkus \in SUBSET Product
  BY <1>1 DEF SourceInv, SourceTypes, Own, Asked
<1>4. fetchStage = "variants" <=> source = "shopify"
  BY <1>1, <1>3 DEF Sources, Own
<1>5. source \notin Ozon \cup {"wb_fbs"} => fetchStage = "variants"
  BY <1>1, <1>3 DEF Sources, Own, Ozon
<1>6. SourceTypes'
  BY <1>1, <1>2, <1>3, RowsStay DEF SourceInv, SourceTypes
<1>7. CallsFit'
  BY <1>1, <1>3 DEF SourceInv, CallsFit
<1>8. PricesFit'
  BY <1>1, <1>2, <1>3, <1>5 DEF SourceInv, PricesFit
<1>9. CountsFit'
  <2>1. CASE fetchStage # "variants"
    BY <1>1, <1>2, <2>1 DEF SourceInv, CountsFit, Before
  <2>2. CASE fetchStage = "variants"
    <3>1. Cardinality(Asked) = 1 /\ ~Before /\ ~Before'
      BY <1>1, <1>4, <2>2, AskedIs DEF Before
    <3>2. \A q \in fetchedSkus : counted[q] = Pieces(q)
      BY <2>2, <3>1 DEF SourceInv, CountsFit
    <3>3. Pieces(p) = IF p \in inStock THEN 1 ELSE 0
      BY <3>1 DEF Pieces
    <3>4. \A q \in fetchedSkus' : counted'[q] = Pieces(q)
      BY <1>1, <1>2, <1>3, <2>2, <3>2, <3>3
    <3>5. QED
      BY <1>1, <1>3, <2>2, <3>1, <3>4 DEF CountsFit, Pieces
  <2>3. QED
    BY <2>1, <2>2
<1>10. QED
  BY <1>1, <1>6, <1>7, <1>8, <1>9, RowsStay DEF SourceInv

LEMMA ReadRowsKeeps ==
  ASSUME SourceInv, NEW rows \in SUBSET Product, NEW dear \in SUBSET rows,
         ReadRows(rows, dear)
  PROVE  SourceInv'
<1>1. fetchStage = "rows" /\ UNCHANGED <<source, pageLimit, inStock, last, recent, settled, unpriced>>
  BY DEF ReadRows, UnchangedSource, UnchangedRows
<1>2. CASE rows = {}
  BY <1>1, <1>2, EndKeeps DEF ReadRows
<1>3. CASE rows # {}
  <2>1. /\ fetchedSkus' = rows /\ priced' = dear /\ blank' = rows \ dear
        /\ todo' = {} /\ fetchStage' = NextStage("rows")
        /\ counted' = [p \in Product |-> IF p \in rows \cap inStock THEN 1 ELSE 0]
    BY <1>3 DEF ReadRows
  <2>2. source \in {"wb_fbo", "sheet"} /\ Own' = Own /\ Asked' = Asked
    BY <1>1 DEF SourceInv, SourceTypes, Sources, Own, Asked
  <2>3. fetchStage' = IF source = "wb_fbo" THEN "extras" ELSE "products"
    BY <2>1, <2>2, Courses DEF Sources
  <2>4. Cardinality(Asked) = 1
    BY <2>2, AskedIs
  <2>5. SourceTypes'
    BY <2>1, <2>2, <2>3, <1>1, RowsStay DEF SourceTypes, Own
  <2>6. CallsFit' /\ PricesFit'
    BY <2>1, <2>3 DEF CallsFit, PricesFit
  <2>7. \A p \in rows : counted'[p] = Pieces(p)
    BY <2>1, <2>4 DEF Pieces
  <2>8. ~Before' /\ fetchStage' # "stocks"
    BY <1>1, <2>2, <2>3 DEF Before
  <2>9. CountsFit'
    BY <1>1, <2>1, <2>2, <2>7, <2>8 DEF CountsFit, Pieces
  <2>10. QED
    BY <1>1, <2>5, <2>6, <2>9, RowsStay DEF SourceInv
<1>4. QED
  BY <1>2, <1>3

(* A call for the stock of a product on a shelf counts one shelf more.     *)
LEMMA StocksKeeps ==
  ASSUME SourceInv, NEW c \in todo, StocksCall(c)
  PROVE  SourceInv'
<1>1. /\ fetchStage = "stocks" /\ todo' = todo \ {c}
      /\ counted' = [counted EXCEPT ![c[2]] = @ + IF c[2] \in inStock THEN 1 ELSE 0]
      /\ UNCHANGED <<fetchStage, fetchedSkus, priced, blank, source, pageLimit, inStock>>
      /\ UNCHANGED <<last, recent, settled, unpriced>>
  BY DEF StocksCall, UnchangedSource, UnchangedRows
<1>2. PICK x \in Asked, p \in fetchedSkus : c = <<x, p>>
  BY <1>1 DEF SourceInv, CallsFit
<1>3. /\ p \in Product /\ counted \in [Product -> Nat] /\ fetchedSkus \in SUBSET Product
      /\ Own' = Own /\ Asked' = Asked
  BY <1>1 DEF SourceInv, SourceTypes, Own, Asked
<1>4. counted' = [counted EXCEPT ![p] = @ + IF p \in inStock THEN 1 ELSE 0]
  BY <1>1, <1>2
<1>5. SourceTypes'
  <2>1. counted' \in [Product -> Nat]
    BY <1>3, <1>4
  <2>2. QED
    BY <1>1, <1>3, <2>1, RowsStay DEF SourceInv, SourceTypes
<1>6. CallsFit' /\ PricesFit'
  BY <1>1, <1>3 DEF SourceInv, CallsFit, PricesFit
<1>7. Answered(p)' = Answered(p) \cup {x} /\ x \notin Answered(p)
      /\ \A q \in fetchedSkus \ {p} : Answered(q)' = Answered(q)
  BY <1>1, <1>2, <1>3 DEF Answered
<1>8. IsFiniteSet(Answered(p))
  BY AskedIs, FS_Subset DEF Answered
<1>9. Cardinality(Answered(p)') = Cardinality(Answered(p)) + 1
  BY <1>7, <1>8, FS_AddElement
<1>10. \A q \in fetchedSkus : counted[q] = IF q \in inStock THEN Cardinality(Answered(q)) ELSE 0
  BY <1>1 DEF SourceInv, CountsFit
<1>11. \A q \in fetchedSkus : counted'[q] = IF q \in inStock THEN Cardinality(Answered(q)') ELSE 0
  <2> SUFFICES ASSUME NEW q \in fetchedSkus
               PROVE  counted'[q] = IF q \in inStock THEN Cardinality(Answered(q)') ELSE 0
    OBVIOUS
  <2>1. CASE q = p
    <3>1. counted'[p] = counted[p] + IF p \in inStock THEN 1 ELSE 0
      BY <1>3, <1>4
    <3>2. QED
      BY <1>9, <1>10, <2>1, <3>1
  <2>2. CASE q # p
    <3>1. counted'[q] = counted[q] /\ Answered(q)' = Answered(q)
      BY <1>3, <1>4, <1>7, <2>2
    <3>2. QED
      BY <1>10, <3>1
  <2>3. QED
    BY <2>1, <2>2
<1>12. ~Before'
  BY <1>1 DEF Before
<1>13. CountsFit'
  BY <1>1, <1>11, <1>12 DEF CountsFit
<1>14. QED
  BY <1>1, <1>5, <1>6, <1>13, RowsStay DEF SourceInv

LEMMA CallsKeep ==
  ASSUME SourceInv, NEW c \in todo, InfoCall(c) \/ PricesCall(c) \/ PricesFail(c)
  PROVE  SourceInv'
<1>1. /\ fetchStage \in {"info", "prices"} /\ todo' \subseteq todo
      /\ UNCHANGED <<fetchStage, fetchedSkus, counted, source, pageLimit, inStock>>
      /\ UNCHANGED <<last, recent, settled, unpriced>>
  BY DEF InfoCall, PricesCall, PricesFail, UnchangedSource, UnchangedRows, received
<1>2. /\ priced \subseteq priced' /\ priced' \subseteq priced \cup {c[2]}
      /\ blank \subseteq blank' /\ blank' \subseteq blank \cup {c[2]}
  BY DEF InfoCall, PricesCall, PricesFail, received
<1>3. c[2] \in Product /\ Own' = Own /\ Asked' = Asked
  BY <1>1 DEF SourceInv, SourceTypes, CallsFit, Own, Asked
<1>4. SourceTypes'
  BY <1>1, <1>2, <1>3, RowsStay DEF SourceInv, SourceTypes
<1>5. CallsFit' /\ PricesFit'
  BY <1>1, <1>2, <1>3 DEF SourceInv, CallsFit, PricesFit
<1>6. CountsFit'
  BY <1>1, <1>3 DEF SourceInv, CountsFit, Before, Pieces
<1>7. QED
  BY <1>1, <1>4, <1>5, <1>6, RowsStay DEF SourceInv

-----------------------------------------------------------------------------
(* The price of the last answer to be recorded of a product.               *)
PriceAnswered(p) ==
  IF p \in priced THEN 1 ELSE IF p \in blank \/ p \in unpriced THEN 0 ELSE 1

(* A row to be inserted: the pieces of the product, and a price.           *)
LEMMA NewRowIs ==
  ASSUME SourceInv, NEW p \in fetchedSkus, fetchStage \in {"lookup", "insert"},
         p \in priced \cup blank \/ source \notin Ozon \/ p \in recent
  PROVE  /\ NewRow(p) \in [stock : Nat, price : Nat] /\ NewRow(p).stock = Pieces(p)
         /\ source # "wb_fbs" => NewRow(p).price = PriceAnswered(p)
<1>1. p \in Product /\ counted[p] \in Nat /\ counted[p] = Pieces(p)
  BY DEF SourceInv, SourceTypes, CountsFit, Before
<1>2. Price(p) \in Nat /\ (source # "wb_fbs" => Price(p) = PriceAnswered(p))
  <2>1. CASE p \in priced
    BY <2>1 DEF Price, PriceAnswered
  <2>2. CASE p \notin priced \cup blank /\ source \in Ozon
    <3>1. p \in recent /\ source # "wb_fbs"
      BY <2>2 DEF Ozon
    <3>2. last[p].price = IF p \in unpriced THEN 0 ELSE 1
      BY <1>1, <3>1 DEF SourceInv, RecentHaveRows, NoPhantomPrice
    <3>3. QED
      BY <2>2, <3>2 DEF Price, PriceAnswered
  <2>3. CASE p \notin priced /\ (p \in blank \/ source \notin Ozon)
    BY <2>3 DEF Price, PriceAnswered, SourceInv, PricesFit
  <2>4. QED
    BY <2>1, <2>2, <2>3
<1>3. QED
  BY <1>1, <1>2 DEF NewRow

LEMMA LookUpKeeps ==
  ASSUME SourceInv, NEW again \in SUBSET Product, LookUpRecent(again)
  PROVE  SourceInv'
<1>1. /\ fetchStage = "lookup" /\ fetchStage' = "insert"
      /\ todo' = {AllShelves} \X
                   (fetchedSkus \ (SkippedNoPrice \cup (Duplicates \ again)))
      /\ settled' \subseteq Duplicates
      /\ UNCHANGED <<fetchedSkus, counted, priced, blank, last, recent, unpriced>>
      /\ UNCHANGED <<source, pageLimit, inStock>>
  BY DEF LookUpRecent, received, UnchangedSource
<1>2. Asked' = Asked /\ Own' = Own /\ Duplicates \subseteq fetchedSkus
      /\ fetchedSkus \in SUBSET Product
  BY <1>1 DEF Asked, Own, Duplicates, SourceInv, SourceTypes
<1>3. SourceTypes'
  BY <1>1, <1>2 DEF SourceInv, SourceTypes
<1>4. CallsFit'
  BY <1>1, <1>2 DEF CallsFit, SkippedNoPrice
<1>5. CountsFit' /\ PricesFit' /\ RecentHaveRows' /\ NoPhantomPrice'
  BY <1>1, <1>2 DEF SourceInv, CountsFit, Before, Pieces, PricesFit, RecentHaveRows, NoPhantomPrice
<1>6. \A p \in Duplicates : last[p].stock = Pieces(p)
  <2> SUFFICES ASSUME NEW p \in Duplicates PROVE last[p].stock = Pieces(p)
    OBVIOUS
  <2>1. p \in recent /\ p \in fetchedSkus /\ last[p] = NewRow(p)
    BY DEF Duplicates
  <2>2. QED
    BY <1>1, <2>1, NewRowIs
<1>7. RecordedStockIsTrue'
  BY <1>1, <1>2, <1>6 DEF RecordedStockIsTrue, Pieces
<1>8. QED
  BY <1>3, <1>4, <1>5, <1>7 DEF SourceInv

LEMMA InsertIs ==
  ASSUME SourceInv, NEW p \in Product, InsertRow(p), UNCHANGED <<source, inStock>>
  PROVE  /\ last' \in [Product -> [stock : Nat, price : Nat] \cup {NoSnapshot}]
         /\ recent' \in SUBSET Product /\ settled' \in SUBSET Product
         /\ unpriced' \in SUBSET Product /\ recent \subseteq recent'
         /\ RecentHaveRows' /\ RecordedStockIsTrue' /\ NoPhantomPrice'
<1>1. /\ fetchStage = "insert" /\ <<AllShelves, p>> \in todo
      /\ last' = [last EXCEPT ![p] = NewRow(p)]
      /\ recent' = recent \cup {p} /\ settled' = settled \cup {p}
      /\ unpriced' = IF p \in priced THEN unpriced \ {p}
                     ELSE IF p \in blank THEN unpriced \cup {p} ELSE unpriced
  BY DEF InsertRow
<1>2. p \in fetchedSkus /\ (p \in priced \cup blank \/ source \notin Ozon \/ p \in recent)
  BY <1>1 DEF SourceInv, CallsFit
<1>3. /\ NewRow(p) \in [stock : Nat, price : Nat] /\ NewRow(p).stock = Pieces(p)
      /\ source # "wb_fbs" => NewRow(p).price = PriceAnswered(p)
  BY <1>1, <1>2, NewRowIs
<1>4. NewRow(p) # NoSnapshot
  BY <1>3 DEF NoSnapshot
<1>5. last \in [Product -> [stock : Nat, price : Nat] \cup {NoSnapshot}]
      /\ recent \in SUBSET Product /\ settled \in SUBSET Product
      /\ unpriced \in SUBSET Product
  BY DEF SourceInv, SourceTypes
<1> HIDE DEF NewRow
<1>6. \A q \in Product : last'[q] = IF q = p THEN NewRow(p) ELSE last[q]
  BY <1>1, <1>5
<1>7. last' \in [Product -> [stock : Nat, price : Nat] \cup {NoSnapshot}]
  BY <1>1, <1>3, <1>5
<1>8. RecentHaveRows'
  BY <1>1, <1>4, <1>5, <1>6 DEF SourceInv, RecentHaveRows
<1>9. RecordedStockIsTrue'
  <2>1. \A q \in Product : Pieces(q)' = Pieces(q)
    BY DEF Pieces, Asked
  <2>2. QED
    BY <1>1, <1>3, <1>5, <1>6, <2>1 DEF SourceInv, RecordedStockIsTrue
<1>10. NoPhantomPrice'
  <2>1. PriceAnswered(p) = IF p \in unpriced' THEN 0 ELSE 1
    BY <1>1 DEF PriceAnswered
  <2>2. \A q \in Product \ {p} : q \in unpriced' <=> q \in unpriced
    BY <1>1
  <2>3. QED
    BY <1>3, <1>6, <2>1, <2>2 DEF SourceInv, NoPhantomPrice
<1>11. QED
  BY <1>1, <1>5, <1>7, <1>8, <1>9, <1>10

LEMMA InsertKeeps ==
  ASSUME SourceInv, NEW p \in Product, InsertBatch(p)
  PROVE  SourceInv'
<1>1. /\ InsertRow(p) /\ todo' = todo \ {<<AllShelves, p>>} /\ fetchStage = "insert"
      /\ UNCHANGED <<fetchStage, fetchedSkus, counted, priced, blank, source, pageLimit, inStock>>
  BY DEF InsertBatch, InsertRow, received, UnchangedSource
<1>2. Asked' = Asked /\ Own' = Own
  BY <1>1 DEF Asked, Own
<1>3. SourceTypes'
  BY <1>1, <1>2, InsertIs DEF SourceInv, SourceTypes
<1>4. CallsFit'
  BY <1>1, <1>2, InsertIs DEF SourceInv, CallsFit
<1>5. CountsFit' /\ PricesFit'
  BY <1>1, <1>2 DEF SourceInv, CountsFit, Before, Pieces, PricesFit
<1>6. QED
  BY <1>1, <1>3, <1>4, <1>5, InsertIs DEF SourceInv

LEMMA InsertFailsKeeps ==
  ASSUME SourceInv, NEW p \in Product, InsertFails(p)
  PROVE  SourceInv'
<1>1. FetchOver /\ UNCHANGED <<source, pageLimit, inStock>>
  BY DEF InsertFails, UnchangedSource
<1>2. CASE InsertRow(p)
  <2>1. SourceTypes'
    BY <1>1, <1>2, InsertIs DEF SourceInv, SourceTypes, FetchOver, NothingFetched
  <2>2. QED
    BY <1>1, <1>2, <2>1, InsertIs, OverKeeps
<1>3. CASE UNCHANGED <<last, recent, settled, unpriced>>
  BY <1>1, <1>3, EndKeeps
<1>4. QED
  BY <1>2, <1>3 DEF InsertFails, UnchangedRows

LEMMA SourceHolds == SourceSpec => []SourceInv
<1>1. SourceInv /\ [SourceNext]_sourceVars => SourceInv'
  <2> SUFFICES ASSUME SourceInv, [SourceNext]_sourceVars PROVE SourceInv'
    OBVIOUS
  <2>1. CASE UNCHANGED sourceVars
    <3>1. UNCHANGED <<source, pageLimit, inStock, fetchStage, todo, fetchedSkus, counted, priced,
                      blank, last, recent, settled, unpriced>>
      BY <2>1 DEF sourceVars, received
    <3>2. SourceTypes' /\ CallsFit' /\ PricesFit' /\ RecentHaveRows'
      BY <3>1 DEF SourceInv, SourceTypes, Own, CallsFit, Asked, PricesFit, RecentHaveRows
    <3>3. CountsFit' /\ RecordedStockIsTrue' /\ NoPhantomPrice'
      BY <3>1 DEF SourceInv, CountsFit, Before, Answered, Pieces, Asked, RecordedStockIsTrue,
         NoPhantomPrice
    <3>4. QED
      BY <3>2, <3>3 DEF SourceInv
  <2>2. CASE \/ BeginFetch \/ \E again \in SUBSET Product : LookUpRecent(again)
             \/ NightPasses \/ \E p \in Product : MarketMoves(p)
    BY <2>2, SyncBeginKeeps, LookUpKeeps, BetweenSyncs
  <2>3. CASE \/ EssentialFails \/ PagesRunOut \/ ListingEnds \/ CallsEnd \/ Extras
             \/ EnsureProducts \/ Persisted
             \/ \E withFbo \in SUBSET Product : Statistics(withFbo)
             \/ \E answer \in {{}, Shelf} : Warehouses(answer)
    BY <2>3, StagesKeep
  <2>4. ASSUME NEW p \in Product, ReadPage(p) \/ InsertBatch(p) \/ InsertFails(p)
        PROVE  SourceInv'
    BY <2>4, ReadPageKeeps, InsertKeeps, InsertFailsKeeps
  <2>5. ASSUME NEW rows \in SUBSET Product, NEW dear \in SUBSET rows, ReadRows(rows, dear)
        PROVE  SourceInv'
    BY <2>5, ReadRowsKeeps
  <2>6. ASSUME NEW c \in todo, InfoCall(c) \/ StocksCall(c) \/ PricesCall(c) \/ PricesFail(c)
        PROVE  SourceInv'
    BY <2>6, StocksKeeps, CallsKeep
  <2>7. QED
    BY <2>1, <2>2, <2>3, <2>4, <2>5, <2>6 DEF SourceNext
<1>2. QED
  BY <1>1, InitSource, PTL DEF SourceSpec

(* Whatever the source answers, page by page and call by call, and         *)
(* whichever calls fail: a snapshot holds the stock the source counted,    *)
(* and, apart from wb_fbs, the price of the last answer recorded of the    *)
(* product, 0 only if that answer had none (adapters, ingest_persist.py).  *)
THEOREM SnapshotsTrue == SourceSpec => []SnapshotsAreTrue
<1>1. SourceInv => SnapshotsAreTrue
  BY DEF SourceInv, SnapshotsAreTrue
<1>2. QED
  BY <1>1, SourceHolds, PTL

(* Every reachable state of the fetch is well typed, for any shelves,      *)
(* pages and number of products.                                           *)
THEOREM SourceTypeCorrect == SourceSpec => []SourceTypeOK
<1>1. SourceInv => SourceTypeOK
  <2> SUFFICES ASSUME SourceInv PROVE SourceTypeOK
    OBVIOUS
  <2>1. todo \subseteq (Shelf \cup {AllShelves}) \X Product
    BY DEF SourceInv, CallsFit, Asked
  <2>2. fetchStage \in {"insert"} \cup DOMAIN PersistCourse \cup DOMAIN FetchCourse[source]
    BY DEF SourceInv, SourceTypes, Sources, Own, PersistCourse, FetchCourse, OzonFbo, OzonFbs,
       WbFbo, WbFbs, Shopify, Sheet
  <2>3. QED
    BY <2>1, <2>2, SourcesAre DEF SourceInv, SourceTypes, SourceTypeOK
<1>2. QED
  BY <1>1, SourceHolds, PTL

-----------------------------------------------------------------------------
(* Event tables: a run alone leaves the events whole.                     *)

TableRow == [copies : 0..2, made : DayShown]
Run == [window : 0..Len(Span), call : 0..5, today : Nat,
        read : [EventDays -> DayShown], alone : BOOLEAN]

TablesTypes ==
  /\ eventDay \in 1..FinalDay
  /\ daySeen \in [EventDays -> DayShown]
  /\ dayRows \in [EventDays -> [RowKind -> TableRow]]
  /\ writer \in [Writer -> Run]
  /\ whole \in [today : Nat, read : [EventDays -> DayShown]]

(* A job between two windows has another to do; a call belongs to a window.*)
RunsGoOn ==
  \A r \in Writer :
    /\ writer[r].call = 0 => writer[r].window < Len(Span)
    /\ writer[r].call # 0 => writer[r].window # 0

(* What has been read was seen, and so was what has a row of an event.     *)
OfTheSeen ==
  \A d \in EventDays :
    /\ \A r \in Writer : writer[r].read[d] # "none" => daySeen[d] # "none"
    /\ dayRows[d]["event"] # NoRows => daySeen[d] # "none"

(* Rows of the day d as the job wants them; none.                          *)
Fits(rows, job, d, k) ==
  rows[d][k] = IF d \in RowDays(job, k) THEN [copies |-> 1, made |-> job.read[d]] ELSE NoRows
Clear(rows, d, k) == rows[d][k] = NoRows

(* The tables when the job, alone so far, comes to the call c.             *)
Reached(rows, job, c, d) ==
  /\ c = 2 => Clear(rows, d, "event")
  /\ c > 2 => Fits(rows, job, d, "event")
  /\ c = 4 => Clear(rows, d, "log")
  /\ c > 4 => Fits(rows, job, d, "log")
  /\ c \in {4, 5} => Clear(rows, d, "price")
  /\ c > 5 => Fits(rows, job, d, "price")

(* A job alone in its window: no day has events that it has not read, and  *)
(* the days that can be seen are as far as its calls have come.            *)
OnlyItsOwn(rows, job) ==
  \A d \in EventDays : rows[d]["event"] # NoRows => job.read[d] # "none"
Visible(day) == {d \in EventDays : d > day - WideSpan}
CameSoFar(rows, job, day) ==
  \A d \in DeletedDays(job) \cap Visible(day) : Reached(rows, job, job.call, d)

RunAlone ==
  \A r \in Writer :
    writer[r].call # 0 /\ writer[r].alone =>
      OnlyItsOwn(dayRows, writer[r]) /\ CameSoFar(dayRows, writer[r], eventDay)

TablesInv == TablesTypes /\ RunsGoOn /\ OfTheSeen /\ RunAlone /\ EventsAreWhole

-----------------------------------------------------------------------------
LEMMA SpanIs == /\ Len(Span) \in Nat \ {0} /\ WideSpan \in Nat \ {0}
                /\ \A i \in 1..Len(Span) : Span[i] \in 1..WideSpan
                /\ Span[Len(Span)] = WideSpan
<1>1. Span \in Seq(Nat) /\ Span # <<>>
  BY EventTablesAssumption
<1>2. Len(Span) \in Nat \ {0} /\ DOMAIN Span = 1..Len(Span)
  BY <1>1
<1>3. Span[Len(Span)] \in 1..WideSpan /\ Span[Len(Span)] \in Nat
  BY <1>1, <1>2, EventTablesAssumption
<1>4. QED
  BY SMTT(30), <1>2, <1>3, EventTablesAssumption DEF WideSpan

LEMMA CallIs ==
  ASSUME NEW call \in 0..5
  PROVE  /\ Deleted(call) = IF call = 1 THEN {"event"} ELSE IF call = 3 THEN {"log", "price"} ELSE {}
         /\ Inserted(call) = IF call = 2 THEN {"event"} ELSE IF call = 4 THEN {"log"}
                             ELSE IF call = 5 THEN {"price"} ELSE {}
<1>1. call = 0 \/ call = 1 \/ call = 2 \/ call = 3 \/ call = 4 \/ call = 5
  OBVIOUS
<1>2. CASE call = 0
  BY <1>2 DEF Deleted, Inserted
<1>3. CASE call = 1
  BY <1>3 DEF Deleted, Inserted
<1>4. CASE call = 2
  BY <1>4 DEF Deleted, Inserted
<1>5. CASE call = 3
  BY <1>5 DEF Deleted, Inserted
<1>6. CASE call = 4
  BY <1>6 DEF Deleted, Inserted
<1>7. CASE call = 5
  BY <1>7 DEF Deleted, Inserted
<1>8. QED
  BY <1>1, <1>2, <1>3, <1>4, <1>5, <1>6, <1>7

LEMMA RowDaysAre ==
  ASSUME NEW job
  PROVE  /\ RowDays(job, "event") = {d \in DeletedDays(job) : job.read[d] # "none"}
         /\ \A k \in RowKind : RowDays(job, k) \subseteq DeletedDays(job)
<1>1. RowDays(job, "event") = {d \in DeletedDays(job) : job.read[d] # "none"}
  BY Zenon DEF RowDays, DaysWithRow, DeletedDays
<1>2. RowDays(job, "log") \subseteq DeletedDays(job)
  BY Zenon DEF RowDays, DaysWithRow, DeletedDays
<1>3. RowDays(job, "price") \subseteq DeletedDays(job)
  BY Zenon DEF RowDays, DaysWithRow, DeletedDays
<1>4. QED
  BY <1>1, <1>2, <1>3 DEF RowKind

(* The days of a row and kind after a call.                                *)
More(copies, times) == IF copies + times > 2 THEN 2 ELSE copies + times

LEMMA TableIs ==
  ASSUME NEW job, NEW times \in {1, 2}, NEW d \in EventDays, NEW k \in RowKind
  PROVE  TablesAfter(job, times)[d][k] =
           IF k \in Deleted(job.call) /\ d \in DeletedDays(job) THEN NoRows
           ELSE IF k \in Inserted(job.call) /\ d \in RowDays(job, k)
           THEN [copies |-> More(dayRows[d][k].copies, times), made |-> job.read[d]]
           ELSE dayRows[d][k]
BY DEF TablesAfter, More

LEMMA TablesTyped ==
  ASSUME TablesTypes, NEW job \in Run, NEW times \in {0, 1, 2}
  PROVE  TablesAfter(job, times) \in [EventDays -> [RowKind -> TableRow]]
<1>1. CASE times = 0
  BY <1>1 DEF TablesAfter, TablesTypes
<1>2. CASE times \in {1, 2}
  <2>1. ASSUME NEW d \in EventDays, NEW k \in RowKind
        PROVE  TablesAfter(job, times)[d][k] \in TableRow
    <3>1. dayRows[d][k] \in TableRow /\ job.read[d] \in DayShown /\ NoRows \in TableRow
      BY DEF TablesTypes, Run, TableRow, NoRows, DayShown
    <3>2. [copies |-> More(dayRows[d][k].copies, times), made |-> job.read[d]] \in TableRow
      BY <1>2, <3>1 DEF TableRow, More
    <3>3. QED
      BY <1>2, <3>1, <3>2, TableIs
  <2>2. TablesAfter(job, times) = [d \in EventDays |-> [k \in RowKind |-> TablesAfter(job, times)[d][k]]]
    BY <1>2 DEF TablesAfter
  <2>3. QED
    BY <2>1, <2>2
<1>3. QED
  BY <1>1, <1>2

(* What comes after a call.                                                *)
LEMMA CallsAre ==
  ASSUME NEW job \in Run
  PROVE  /\ CallsToMake(job) \subseteq 1..5 /\ \A c \in CallsToMake(job) : c > job.call
         /\ job.call < 3 => 3 \in CallsToMake(job)
         /\ job.call = 0 => (1 \in CallsToMake(job) <=> RowDays(job, "event") # {})
         /\ job.call = 0 => (2 \in CallsToMake(job) <=> RowDays(job, "event") # {})
         /\ job.call = 1 => (2 \in CallsToMake(job) <=> RowDays(job, "event") # {})
         /\ job.call < 4 => (4 \in CallsToMake(job) <=> RowDays(job, "log") # {})
         /\ job.call < 5 => (5 \in CallsToMake(job) <=> RowDays(job, "price") # {})
<1>1. job.call \in 0..5
  BY DEF Run
<1>2. \A c \in 1..5 : Inserted(c) = IF c = 2 THEN {"event"} ELSE IF c = 4 THEN {"log"}
                                    ELSE IF c = 5 THEN {"price"} ELSE {}
  BY CallIs
<1>3. \A c \in 1..5 : c \in CallsToMake(job) <=>
        c > job.call /\ (c = 3 \/ (c = 1 /\ RowDays(job, "event") # {})
                         \/ (c = 2 /\ RowDays(job, "event") # {})
                         \/ (c = 4 /\ RowDays(job, "log") # {})
                         \/ (c = 5 /\ RowDays(job, "price") # {}))
  BY <1>1, <1>2 DEF CallsToMake
<1>4. CallsToMake(job) \subseteq 1..5
  BY <1>1 DEF CallsToMake
<1> HIDE DEF CallsToMake, RowDays
<1>5. QED
  BY <1>1, <1>3, <1>4

LEMMA LeastIs ==
  ASSUME NEW S \in SUBSET (1..5), S # {}
  PROVE  /\ (CHOOSE c \in S : \A e \in S : c <= e) \in S
         /\ \A e \in S : (CHOOSE c \in S : \A e2 \in S : c <= e2) <= e
<1>1. \E c \in S : \A e \in S : c <= e
  <2>1. CASE 1 \in S
    BY <2>1
  <2>2. CASE 1 \notin S /\ 2 \in S
    BY <2>2
  <2>3. CASE 1 \notin S /\ 2 \notin S /\ 3 \in S
    BY <2>3
  <2>4. CASE 1 \notin S /\ 2 \notin S /\ 3 \notin S /\ 4 \in S
    BY <2>4
  <2>5. CASE 1 \notin S /\ 2 \notin S /\ 3 \notin S /\ 4 \notin S
    <3>1. PICK c \in S : c \in 1..5
      OBVIOUS
    <3>3. c = 5
      BY <2>5, <3>1
    <3>2. QED
      BY <2>5, <3>1, <3>3
  <2>6. QED
    BY <2>1, <2>2, <2>3, <2>4, <2>5
<1>2. QED
  BY <1>1

(* The next call of the window, a next window, or the end of the job.      *)
LEMMA AfterIs ==
  ASSUME NEW job \in Run, job.window # 0
  PROVE  /\ CallsToMake(job) # {} =>
              \E c \in CallsToMake(job) : /\ \A e \in CallsToMake(job) : c <= e
                                          /\ After(job) = [job EXCEPT !.call = c]
         /\ CallsToMake(job) = {} /\ job.window # Len(Span) => After(job) = [job EXCEPT !.call = 0]
         /\ CallsToMake(job) = {} /\ job.window = Len(Span) => After(job) = NotWriting
         /\ After(job) = NotWriting => CallsToMake(job) = {} /\ job.window = Len(Span)
         /\ After(job) \in Run
         /\ After(job).call = 0 => After(job).window < Len(Span)
         /\ After(job).call # 0 => After(job).window # 0 /\ After(job).window = job.window
                                   /\ After(job).call \in CallsToMake(job)
         /\ After(job).read # job.read => After(job) = NotWriting
<1>1. Len(Span) \in Nat \ {0} /\ job.window \in 1..Len(Span)
  BY SpanIs DEF Run
<1>2. CallsToMake(job) \in SUBSET (1..5)
  BY CallsAre
<1>3. NotWriting \in Run /\ NotWriting.call = 0 /\ NotWriting.window = 0
  BY <1>1 DEF NotWriting, Run, DayShown
<1>4. CASE CallsToMake(job) # {}
  <2> DEFINE c == CHOOSE c \in CallsToMake(job) : \A e \in CallsToMake(job) : c <= e
  <2>1. c \in CallsToMake(job) /\ \A e \in CallsToMake(job) : c <= e
    BY <1>2, <1>4, LeastIs
  <2>2. After(job) = [job EXCEPT !.call = c]
    BY <1>4 DEF After
  <2> HIDE DEF c
  <2>3. c \in 1..5
    BY <1>2, <2>1
  <2>4. After(job) \in Run /\ After(job).call = c /\ After(job).window = job.window
        /\ After(job).read = job.read
    BY <2>2, <2>3 DEF Run
  <2>5. After(job) # NotWriting /\ After(job).call \in CallsToMake(job) /\ After(job).call # 0
    BY <1>1, <1>3, <2>1, <2>3, <2>4
  <2>6. \E e \in CallsToMake(job) : /\ \A f \in CallsToMake(job) : e <= f
                                    /\ After(job) = [job EXCEPT !.call = e]
    BY <2>1, <2>2
  <2>7. QED
    BY <1>4, <2>4, <2>5, <2>6, <1>1
<1>5. CASE CallsToMake(job) = {} /\ job.window # Len(Span)
  <2>1. After(job) = [job EXCEPT !.call = 0]
    BY <1>1, <1>5 DEF After
  <2>2. After(job) \in Run /\ After(job).call = 0 /\ After(job).window = job.window
        /\ After(job).read = job.read
    BY <2>1 DEF Run
  <2>3. After(job) # NotWriting /\ After(job).window < Len(Span)
    BY <1>1, <1>3, <1>5, <2>2
  <2>4. QED
    BY <1>5, <2>1, <2>2, <2>3
<1>6. CASE CallsToMake(job) = {} /\ job.window = Len(Span)
  <2>1. After(job) = NotWriting
    BY <1>1, <1>6 DEF After
  <2>2. QED
    BY <1>1, <1>3, <1>6, <2>1
<1>7. QED
  BY <1>4, <1>5, <1>6

-----------------------------------------------------------------------------
(* A call made by a job alone brings the tables to where its next call     *)
(* begins, or the window ends.                                             *)
LEMMA CallLeads ==
  ASSUME TablesTypes, NEW job \in Run, job.call # 0, OnlyItsOwn(dayRows, job),
         NEW d \in DeletedDays(job), Reached(dayRows, job, job.call, d), NEW e \in 1..6,
         \/ e \in CallsToMake(job) /\ \A f \in CallsToMake(job) : e <= f
         \/ CallsToMake(job) = {} /\ e = 6
  PROVE  Reached(TablesAfter(job, 1), job, e, d)
<1> DEFINE rows == TablesAfter(job, 1)
<1> SUFFICES Reached(rows, job, e, d)
  OBVIOUS
<1>1. d \in EventDays /\ job.call \in 1..5
  BY DEF DeletedDays, WindowOf, Run
<1>2. \A k \in RowKind : /\ d \in RowDays(job, k) => RowDays(job, k) # {}
                         /\ dayRows[d][k] \in TableRow
  BY <1>1 DEF TablesTypes
<1>3. ASSUME NEW k \in RowKind
      PROVE  /\ k \in Deleted(job.call) => Clear(rows, d, k)
             /\ k \notin Deleted(job.call) /\ k \notin Inserted(job.call) => rows[d][k] = dayRows[d][k]
             /\ k \notin Deleted(job.call) /\ k \in Inserted(job.call) /\ Clear(dayRows, d, k)
                  => Fits(rows, job, d, k)
             /\ RowDays(job, k) = {} /\ Clear(rows, d, k) => Fits(rows, job, d, k)
  <2>1. rows[d][k] = IF k \in Deleted(job.call) /\ d \in DeletedDays(job) THEN NoRows
           ELSE IF k \in Inserted(job.call) /\ d \in RowDays(job, k)
           THEN [copies |-> More(dayRows[d][k].copies, 1), made |-> job.read[d]]
           ELSE dayRows[d][k]
    BY <1>1, TableIs
  <2>2. Clear(dayRows, d, k) => More(dayRows[d][k].copies, 1) = 1
    BY DEF Clear, NoRows, More
  <2>3. QED
    BY <2>1, <2>2 DEF Clear, Fits
<1>4. /\ {"event", "log", "price"} \subseteq RowKind
      /\ Deleted(job.call) = IF job.call = 1 THEN {"event"} ELSE IF job.call = 3 THEN {"log", "price"} ELSE {}
      /\ Inserted(job.call) = IF job.call = 2 THEN {"event"} ELSE IF job.call = 4 THEN {"log"}
                             ELSE IF job.call = 5 THEN {"price"} ELSE {}
  BY <1>1, CallIs DEF RowKind
<1>5. \A k \in RowKind : rows[d][k] = dayRows[d][k] =>
        (Fits(dayRows, job, d, k) => Fits(rows, job, d, k)) /\ (Clear(dayRows, d, k) => Clear(rows, d, k))
  BY DEF Fits, Clear
<1> HIDE DEF rows
<1>6. /\ job.call < 3 => e <= 3
      /\ e > job.call
      /\ job.call = 1 /\ e # 2 => RowDays(job, "event") = {}
      /\ job.call < 4 /\ e > 4 => RowDays(job, "log") = {}
      /\ job.call < 5 /\ e > 5 => RowDays(job, "price") = {}
  BY <1>1, CallsAre
<1>7. CASE job.call = 1
  <2>1. Clear(rows, d, "event") /\ e \in {2, 3}
    BY <1>3, <1>4, <1>6, <1>7
  <2>2. e = 3 => Fits(rows, job, d, "event")
    BY <1>3, <1>4, <1>6, <1>7, <2>1
  <2>3. QED
    BY <2>1, <2>2 DEF Reached
<1>8. CASE job.call = 2
  <2>1. e = 3 /\ Clear(dayRows, d, "event")
    BY <1>6, <1>8 DEF Reached
  <2>2. Fits(rows, job, d, "event")
    BY <1>3, <1>4, <1>8, <2>1
  <2>3. QED
    BY <2>1, <2>2 DEF Reached
<1>9. CASE job.call = 3
  <2>1. Fits(dayRows, job, d, "event") /\ rows[d]["event"] = dayRows[d]["event"]
    BY <1>3, <1>4, <1>9 DEF Reached
  <2>2. Fits(rows, job, d, "event") /\ e > 3
    BY <1>4, <1>5, <1>6, <1>9, <2>1
  <2>3. Clear(rows, d, "log") /\ Clear(rows, d, "price")
    BY <1>3, <1>4, <1>9
  <2>4. /\ e > 4 => Fits(rows, job, d, "log")
        /\ e > 5 => Fits(rows, job, d, "price")
    BY <1>3, <1>4, <1>6, <1>9, <2>3
  <2>5. QED
    BY <2>2, <2>3, <2>4 DEF Reached
<1>10. CASE job.call = 4
  <2>1. /\ Fits(dayRows, job, d, "event") /\ Clear(dayRows, d, "log") /\ Clear(dayRows, d, "price")
        /\ rows[d]["event"] = dayRows[d]["event"] /\ rows[d]["price"] = dayRows[d]["price"]
    BY <1>3, <1>4, <1>10 DEF Reached
  <2>2. Fits(rows, job, d, "event") /\ Clear(rows, d, "price") /\ e > 4
    BY <1>4, <1>5, <1>6, <1>10, <2>1
  <2>3. Fits(rows, job, d, "log")
    BY <1>3, <1>4, <1>10, <2>1
  <2>4. e > 5 => Fits(rows, job, d, "price")
    BY <1>3, <1>4, <1>6, <1>10, <2>2
  <2>5. QED
    BY <2>2, <2>3, <2>4 DEF Reached
<1>11. CASE job.call = 5
  <2>1. /\ Fits(dayRows, job, d, "event") /\ Fits(dayRows, job, d, "log") /\ Clear(dayRows, d, "price")
        /\ rows[d]["event"] = dayRows[d]["event"] /\ rows[d]["log"] = dayRows[d]["log"]
    BY <1>3, <1>4, <1>11 DEF Reached
  <2>2. Fits(rows, job, d, "event") /\ Fits(rows, job, d, "log") /\ e > 5
    BY <1>4, <1>5, <1>6, <1>11, <2>1
  <2>3. Fits(rows, job, d, "price")
    BY <1>3, <1>4, <1>11, <2>1
  <2>4. QED
    BY <2>2, <2>3 DEF Reached
<1>12. QED
  BY <1>1, <1>7, <1>8, <1>9, <1>10, <1>11

(* Rows of events come only from days the job has read.                    *)
LEMMA StillItsOwn ==
  ASSUME NEW job, NEW times \in {0, 1, 2}, OnlyItsOwn(dayRows, job)
  PROVE  OnlyItsOwn(TablesAfter(job, times), job)
<1> SUFFICES ASSUME NEW d \in EventDays, TablesAfter(job, times)[d]["event"] # NoRows
             PROVE  job.read[d] # "none"
  BY DEF OnlyItsOwn
<1>1. CASE times = 0
  BY <1>1 DEF TablesAfter, OnlyItsOwn
<1>2. CASE times \in {1, 2}
  <2>1. dayRows[d]["event"] # NoRows \/ d \in RowDays(job, "event")
    BY <1>2, TableIs DEF RowKind
  <2>2. QED
    BY <2>1, RowDaysAre DEF OnlyItsOwn
<1>3. QED
  BY <1>1, <1>2

LEMMA StillSeen ==
  ASSUME TablesTypes, OfTheSeen, NEW r \in Writer, NEW times \in {0, 1, 2}, NEW d \in EventDays,
         TablesAfter(writer[r], times)[d]["event"] # NoRows
  PROVE  daySeen[d] # "none"
<1>1. CASE times = 0
  BY <1>1 DEF TablesAfter, OfTheSeen
<1>2. CASE times \in {1, 2}
  <2>1. dayRows[d]["event"] # NoRows \/ d \in RowDays(writer[r], "event")
    BY <1>2, TableIs DEF RowKind
  <2>2. QED
    BY <2>1, RowDaysAre DEF OfTheSeen
<1>3. QED
  BY <1>1, <1>2

(* What a job looks at does not change with its place in the window.       *)
LEMMA SameDays ==
  ASSUME NEW job, NEW other, other.window = job.window, other.today = job.today,
         other.read = job.read
  PROVE  /\ DeletedDays(other) = DeletedDays(job)
         /\ \A k : RowDays(other, k) = RowDays(job, k)
         /\ \A rows, d, c : Reached(rows, other, c, d) <=> Reached(rows, job, c, d)
         /\ \A rows : OnlyItsOwn(rows, other) <=> OnlyItsOwn(rows, job)
<1>1. DeletedDays(other) = DeletedDays(job) /\ \A k : RowDays(other, k) = RowDays(job, k)
  BY DEF DeletedDays, RowDays
<1>2. \A rows, d, k : Fits(rows, other, d, k) <=> Fits(rows, job, d, k)
  BY <1>1 DEF Fits
<1>3. QED
  BY <1>1, <1>2 DEF Reached, OnlyItsOwn

-----------------------------------------------------------------------------
LEMMA InitTables == TablesInit => TablesInv
<1> SUFFICES ASSUME TablesInit PROVE TablesInv
  OBVIOUS
<1>1. Len(Span) \in Nat \ {0} /\ FinalDay \in Nat \ {0}
  BY SpanIs, EventTablesAssumption
<1>2. NotWriting \in Run /\ NoRows \in TableRow /\ Nobody \in [today : Nat, read : [EventDays -> DayShown]]
  BY <1>1 DEF NotWriting, Run, DayShown, NoRows, TableRow, Nobody
<1>3. TablesTypes
  BY <1>1, <1>2 DEF TablesInit, TablesTypes, DayShown
<1>4. \A r \in Writer : writer[r].call = 0 /\ writer[r].window = 0
        /\ writer[r].read = [d \in EventDays |-> "none"]
  BY DEF TablesInit, NotWriting
<1>5. \A d \in EventDays : dayRows[d]["event"] = NoRows
  BY DEF TablesInit, RowKind
<1>6. RunsGoOn /\ OfTheSeen /\ RunAlone /\ EventsAreWhole
  BY <1>1, <1>4, <1>5 DEF RunsGoOn, OfTheSeen, RunAlone, EventsAreWhole, TablesInit
<1>7. QED
  BY <1>3, <1>6 DEF TablesInv

LEMMA SnapshotKeeps ==
  ASSUME TablesInv, SnapshotComes
  PROVE  TablesInv'
<1>1. PICK shown \in DayShown \ {"none"} : daySeen' = [daySeen EXCEPT ![eventDay] = shown]
  BY DEF SnapshotComes
<1>2. UNCHANGED <<eventDay, dayRows, writer, whole>>
  BY DEF SnapshotComes
<1>3. daySeen' \in [EventDays -> DayShown] /\ \A d \in EventDays : daySeen[d] # "none" => daySeen'[d] # "none"
  BY <1>1 DEF TablesInv, TablesTypes
<1>4. TablesTypes' /\ RunsGoOn' /\ OfTheSeen'
  BY <1>2, <1>3 DEF TablesInv, TablesTypes, RunsGoOn, OfTheSeen
<1>5. RunAlone' /\ EventsAreWhole'
  BY <1>2 DEF TablesInv, RunAlone, EventsAreWhole
<1>6. QED
  BY <1>4, <1>5 DEF TablesInv

LEMMA DayBreaksKeeps ==
  ASSUME TablesInv, DayBreaks
  PROVE  TablesInv'
<1>1. eventDay' = eventDay + 1 /\ eventDay' \in 1..FinalDay
      /\ UNCHANGED <<daySeen, dayRows, writer, whole>>
  BY EventTablesAssumption DEF DayBreaks, TablesInv, TablesTypes
<1>2. TablesTypes' /\ RunsGoOn' /\ OfTheSeen'
  BY <1>1 DEF TablesInv, TablesTypes, RunsGoOn, OfTheSeen
<1>3. \A d \in EventDays : d > eventDay' - WideSpan => d > eventDay - WideSpan
  BY <1>1, SpanIs DEF TablesInv, TablesTypes, EventDays
<1>4. Visible(eventDay') \subseteq Visible(eventDay)
  BY <1>3 DEF Visible
<1>5. RunAlone'
  BY <1>1, <1>4 DEF TablesInv, RunAlone, CameSoFar
<1>6. EventsAreWhole'
  BY <1>1, <1>3 DEF TablesInv, EventsAreWhole, WindowOf
<1>7. QED
  BY <1>2, <1>5, <1>6 DEF TablesInv

LEMMA RetentionKeeps ==
  ASSUME TablesInv, OldRowsGo
  PROVE  TablesInv'
<1>1. UNCHANGED <<eventDay, daySeen, writer, whole>>
  BY DEF OldRowsGo
<1>2. dayRows' = [d \in EventDays |-> IF d < eventDay - Kept THEN [k \in RowKind |-> NoRows]
                                      ELSE dayRows[d]]
  BY DEF OldRowsGo
<1>3. \A d \in Visible(eventDay) : dayRows'[d] = dayRows[d]
  <2>1. \A d \in Visible(eventDay) : d \in EventDays /\ ~(d < eventDay - Kept)
    BY SpanIs, EventTablesAssumption DEF Visible, TablesInv, TablesTypes, EventDays
  <2>2. QED
    BY <1>2, <2>1
<1>4. NoRows \in TableRow
  BY DEF NoRows, TableRow, DayShown
<1>5. TablesTypes'
  BY <1>1, <1>2, <1>4 DEF TablesInv, TablesTypes
<1>6. \A d \in EventDays : dayRows'[d]["event"] # NoRows => dayRows[d]["event"] # NoRows
  BY <1>2 DEF RowKind
<1>7. RunsGoOn' /\ OfTheSeen'
  BY <1>1, <1>6 DEF TablesInv, RunsGoOn, OfTheSeen
<1>8. RunAlone'
  <2> SUFFICES ASSUME NEW r \in Writer, writer[r].call # 0, writer[r].alone
               PROVE  OnlyItsOwn(dayRows', writer[r]) /\ CameSoFar(dayRows', writer[r], eventDay)
    BY <1>1 DEF RunAlone
  <2>1. OnlyItsOwn(dayRows, writer[r]) /\ CameSoFar(dayRows, writer[r], eventDay)
    BY DEF TablesInv, RunAlone
  <2>2. OnlyItsOwn(dayRows', writer[r])
    BY <1>6, <2>1 DEF OnlyItsOwn
  <2>3. ASSUME NEW d \in DeletedDays(writer[r]) \cap Visible(eventDay)
        PROVE  Reached(dayRows', writer[r], writer[r].call, d)
    <3>1. Reached(dayRows, writer[r], writer[r].call, d) /\ dayRows'[d] = dayRows[d]
      BY <1>3, <2>1 DEF CameSoFar
    <3>2. QED
      BY <3>1 DEF Reached, Fits, Clear
  <2>4. QED
    BY <2>2, <2>3 DEF CameSoFar
<1>9. EventsAreWhole'
  BY <1>1, <1>3 DEF TablesInv, EventsAreWhole, Visible, WindowOf
<1>10. QED
  BY <1>5, <1>7, <1>8, <1>9 DEF TablesInv

(* A window that begins: no event is shown of a day without a snapshot.    *)
LEMMA RunBeginKeeps ==
  ASSUME TablesInv, NEW r \in Writer, BeginWindow(r)
  PROVE  TablesInv'
<1> DEFINE job == [window |-> writer[r].window + 1, call |-> 0, today |-> eventDay,
                   read |-> daySeen, alone |-> TRUE]
<1>1. /\ writer[r].call = 0 /\ writer' = [writer EXCEPT ![r] = After(job)]
      /\ UNCHANGED <<eventDay, daySeen, dayRows, whole>>
  BY DEF BeginWindow
<1>2. job \in Run /\ job.window # 0 /\ job.call = 0
  <2>1. writer[r].window \in 0..Len(Span) /\ writer[r].window < Len(Span)
    BY <1>1 DEF TablesInv, TablesTypes, Run, RunsGoOn
  <2>2. eventDay \in Nat /\ daySeen \in [EventDays -> DayShown]
    BY EventTablesAssumption DEF TablesInv, TablesTypes
  <2>3. QED
    BY <2>1, <2>2, SpanIs DEF Run
<1>3. job.read = daySeen /\ job.alone
  OBVIOUS
<1> HIDE DEF job
<1>4. PICK c \in CallsToMake(job) : /\ \A e \in CallsToMake(job) : c <= e
                                    /\ After(job) = [job EXCEPT !.call = c]
  <2>1. CallsToMake(job) # {}
    BY <1>2, CallsAre
  <2>2. QED
    BY <1>2, <2>1, AfterIs
<1>5. c \in {1, 3} /\ (c = 3 => RowDays(job, "event") = {})
  BY <1>2, <1>4, CallsAre
<1>6. /\ After(job) \in Run /\ After(job).call = c /\ After(job).window = job.window
      /\ After(job).today = job.today /\ After(job).read = job.read
  BY <1>2, <1>4, <1>5 DEF Run
<1>7. \A q \in Writer : writer'[q] = IF q = r THEN After(job) ELSE writer[q]
  BY <1>1 DEF TablesInv, TablesTypes
<1>8. TablesTypes'
  BY <1>1, <1>6 DEF TablesInv, TablesTypes
<1>9. RunsGoOn' /\ OfTheSeen'
  BY <1>1, <1>2, <1>3, <1>5, <1>6, <1>7 DEF TablesInv, RunsGoOn, OfTheSeen
<1>10. EventsAreWhole'
  BY <1>1 DEF TablesInv, EventsAreWhole
<1>11. OnlyItsOwn(dayRows, After(job))
  BY <1>3, <1>6 DEF OnlyItsOwn, TablesInv, OfTheSeen
<1>12. CameSoFar(dayRows, After(job), eventDay)
  <2> SUFFICES ASSUME NEW d \in DeletedDays(After(job)) PROVE Reached(dayRows, After(job), c, d)
    BY <1>6 DEF CameSoFar
  <2>1. CASE c = 1
    BY <2>1 DEF Reached
  <2>2. CASE c = 3
    <3>1. d \in DeletedDays(job) /\ d \in EventDays /\ RowDays(After(job), "event") = {}
      BY <1>5, <1>6, <2>2, SameDays DEF DeletedDays, WindowOf
    <3>2. job.read[d] = "none"
      BY <1>5, <2>2, <3>1, RowDaysAre
    <3>3. dayRows[d]["event"] = NoRows
      BY <1>6, <1>11, <3>1, <3>2 DEF OnlyItsOwn
    <3>4. QED
      BY <2>2, <3>1, <3>3 DEF Reached, Fits
  <2>3. QED
    BY <1>5, <2>1, <2>2
<1>13. RunAlone'
  <2> SUFFICES ASSUME NEW q \in Writer, writer'[q].call # 0, writer'[q].alone
               PROVE  OnlyItsOwn(dayRows, writer'[q]) /\ CameSoFar(dayRows, writer'[q], eventDay)
    BY <1>1 DEF RunAlone
  <2>1. CASE q = r
    BY <1>7, <1>11, <1>12, <2>1
  <2>2. CASE q # r
    BY <1>7, <2>2 DEF TablesInv, RunAlone
  <2>3. QED
    BY <2>1, <2>2
<1>14. QED
  BY <1>8, <1>9, <1>10, <1>13 DEF TablesInv

(* After a call of r the others are not alone any more.                    *)
LEMMA DisturbedAre ==
  ASSUME TablesTypes, RunsGoOn, NEW r \in Writer, NEW mine \in Run,
         mine.call = 0 => mine.window < Len(Span),
         mine.call # 0 => mine.window # 0
  PROVE  /\ Disturbed(r, mine) \in [Writer -> Run]
         /\ \A q \in Writer :
              /\ Disturbed(r, mine)[q].call = 0 => Disturbed(r, mine)[q].window < Len(Span)
              /\ Disturbed(r, mine)[q].call # 0 => Disturbed(r, mine)[q].window # 0
         /\ Disturbed(r, mine)[r] = mine
         /\ \A q \in Writer \ {r} : ~Disturbed(r, mine)[q].alone
                                    /\ Disturbed(r, mine)[q].read = writer[q].read
<1>1. \A q \in Writer : Disturbed(r, mine)[q] = IF q = r THEN mine ELSE [writer[q] EXCEPT !.alone = FALSE]
  BY DEF Disturbed
<1>2. \A q \in Writer : [writer[q] EXCEPT !.alone = FALSE] \in Run
  BY DEF TablesTypes, Run
<1>3. \A q \in Writer : /\ [writer[q] EXCEPT !.alone = FALSE].call = writer[q].call
                        /\ [writer[q] EXCEPT !.alone = FALSE].window = writer[q].window
                        /\ [writer[q] EXCEPT !.alone = FALSE].read = writer[q].read
                        /\ ~[writer[q] EXCEPT !.alone = FALSE].alone
  BY DEF TablesTypes, Run
<1>4. Disturbed(r, mine) \in [Writer -> Run]
  BY <1>2 DEF Disturbed
<1>5. \A q \in Writer :
        /\ Disturbed(r, mine)[q].call = 0 => Disturbed(r, mine)[q].window < Len(Span)
        /\ Disturbed(r, mine)[q].call # 0 => Disturbed(r, mine)[q].window # 0
  <2> SUFFICES ASSUME NEW q \in Writer
               PROVE  /\ Disturbed(r, mine)[q].call = 0 => Disturbed(r, mine)[q].window < Len(Span)
                      /\ Disturbed(r, mine)[q].call # 0 => Disturbed(r, mine)[q].window # 0
    OBVIOUS
  <2>1. CASE q = r
    BY <1>1, <2>1
  <2>2. CASE q # r
    <3>1. Disturbed(r, mine)[q] = [writer[q] EXCEPT !.alone = FALSE]
      BY <1>1, <2>2
    <3>2. /\ Disturbed(r, mine)[q].call = writer[q].call
          /\ Disturbed(r, mine)[q].window = writer[q].window
      BY <1>3, <3>1
    <3>3. /\ writer[q].call = 0 => writer[q].window < Len(Span)
          /\ writer[q].call # 0 => writer[q].window # 0
      BY DEF RunsGoOn
    <3>4. QED
      BY <3>2, <3>3
  <2>3. QED
    BY <2>1, <2>2
<1>6. \A q \in Writer \ {r} : ~Disturbed(r, mine)[q].alone
                             /\ Disturbed(r, mine)[q].read = writer[q].read
  BY <1>1, <1>3
<1>7. QED
  BY <1>1, <1>4, <1>5, <1>6

LEMMA WriteKeeps ==
  ASSUME TablesInv, NEW r \in Writer, WriteCall(r)
  PROVE  TablesInv'
<1> DEFINE job == writer[r]
<1>1. PICK times \in {1, 2} :
        /\ dayRows' = TablesAfter(job, times)
        /\ whole' = IF After(job) = NotWriting /\ job.alone /\ times = 1
                    THEN [today |-> job.today, read |-> job.read] ELSE Nobody
        /\ writer' = Disturbed(r, After([job EXCEPT !.alone = @ /\ times = 1]))
  BY DEF WriteCall
<1>2. job.call # 0 /\ UNCHANGED <<eventDay, daySeen>>
  BY DEF WriteCall
<1> DEFINE next == [job EXCEPT !.alone = @ /\ times = 1]
<1>3. job \in Run /\ job.window # 0
  BY <1>2 DEF TablesInv, TablesTypes, RunsGoOn
<1>4. next \in Run /\ next.window = job.window /\ next.call = job.call /\ next.read = job.read
      /\ next.today = job.today
  BY <1>3 DEF Run
<1>5. next.alone => job.alone /\ times = 1
  BY <1>3 DEF Run
<1>6. writer' = Disturbed(r, After(next))
  BY <1>1
<1> HIDE DEF job, next
<1>7. next.window # 0 /\ CallsToMake(next) = CallsToMake(job)
  <2>1. \A k : RowDays(next, k) = RowDays(job, k)
    BY <1>4, SameDays
  <2>2. CallsToMake(next) = CallsToMake(job)
    BY <1>4, <2>1 DEF CallsToMake
  <2>3. QED
    BY <1>3, <1>4, <2>2
<1>8. /\ After(next) \in Run
      /\ After(next).call = 0 => After(next).window < Len(Span)
      /\ After(next).call # 0 => After(next).window # 0
      /\ After(next).read # next.read => After(next) = NotWriting
  BY <1>4, <1>7, AfterIs
<1>9. TablesTypes'
  <2>1. dayRows' \in [EventDays -> [RowKind -> TableRow]]
    BY <1>1, <1>3, TablesTyped DEF TablesInv
  <2>2. writer' \in [Writer -> Run]
    BY <1>6, <1>8, DisturbedAre DEF TablesInv
  <2>3. whole' \in [today : Nat, read : [EventDays -> DayShown]]
    BY <1>1, <1>3 DEF Run, Nobody, NotWriting, DayShown
  <2>4. QED
    BY <1>2, <2>1, <2>2, <2>3 DEF TablesInv, TablesTypes
<1>10. RunsGoOn'
  BY <1>6, <1>8, DisturbedAre DEF TablesInv, RunsGoOn
<1>11. OfTheSeen'
  <2> SUFFICES ASSUME NEW d \in EventDays
               PROVE  /\ \A q \in Writer : writer'[q].read[d] # "none" => daySeen[d] # "none"
                      /\ dayRows'[d]["event"] # NoRows => daySeen[d] # "none"
    BY <1>2 DEF OfTheSeen
  <2>1. dayRows'[d]["event"] # NoRows => daySeen[d] # "none"
    BY <1>1, StillSeen DEF TablesInv, job
  <2>2. writer'[r] = After(next) /\ \A q \in Writer \ {r} : writer'[q].read = writer[q].read
    BY <1>6, <1>8, DisturbedAre DEF TablesInv
  <2>3. NotWriting.read[d] = "none"
    BY DEF NotWriting
  <2>4. After(next).read[d] # "none" => job.read[d] # "none"
    BY <1>4, <1>8, <2>3
  <2>5. QED
    BY <2>1, <2>2, <2>4 DEF TablesInv, OfTheSeen, job
<1>12. ASSUME job.alone, times = 1
       PROVE  /\ OnlyItsOwn(dayRows', job)
              /\ \A e \in 1..6 :
                   \/ e \in CallsToMake(job) /\ \A f \in CallsToMake(job) : e <= f
                   \/ CallsToMake(job) = {} /\ e = 6
                   => \A d \in DeletedDays(job) \cap Visible(eventDay) : Reached(dayRows', job, e, d)
  <2>1. OnlyItsOwn(dayRows, job) /\ CameSoFar(dayRows, job, eventDay)
    BY <1>2, <1>12 DEF TablesInv, RunAlone, job
  <2>2. dayRows' = TablesAfter(job, 1)
    BY <1>1, <1>12
  <2>3. OnlyItsOwn(dayRows', job)
    BY <2>1, <2>2, StillItsOwn
  <2>4. ASSUME NEW e \in 1..6,
               \/ e \in CallsToMake(job) /\ \A f \in CallsToMake(job) : e <= f
               \/ CallsToMake(job) = {} /\ e = 6,
               NEW d \in DeletedDays(job) \cap Visible(eventDay)
        PROVE  Reached(dayRows', job, e, d)
    <3>1. Reached(dayRows, job, job.call, d)
      BY <2>1 DEF CameSoFar
    <3>2. Reached(TablesAfter(job, 1), job, e, d)
      BY <1>2, <1>3, <2>1, <2>4, <3>1, CallLeads DEF TablesInv
    <3>3. QED
      BY <2>2, <3>2
  <2>5. QED
    BY <2>3, <2>4
<1>13. RunAlone'
  <2> SUFFICES ASSUME NEW q \in Writer, writer'[q].call # 0, writer'[q].alone
               PROVE  OnlyItsOwn(dayRows', writer'[q]) /\ CameSoFar(dayRows', writer'[q], eventDay)
    BY <1>2 DEF RunAlone
  <2>1. q = r /\ writer'[r] = After(next)
    BY <1>6, <1>8, DisturbedAre DEF TablesInv
  <2>2. After(next).call # 0 /\ After(next).alone
    BY <2>1
  <2>3. CallsToMake(next) # {}
    BY <1>4, <1>7, <2>2, AfterIs DEF NotWriting
  <2>4. PICK c \in CallsToMake(next) : /\ \A e \in CallsToMake(next) : c <= e
                                       /\ After(next) = [next EXCEPT !.call = c]
    BY <1>4, <1>7, <2>3, AfterIs
  <2>5. After(next).call = c /\ After(next).alone = next.alone /\ After(next).window = job.window
        /\ After(next).read = job.read /\ After(next).today = job.today
    BY <1>4, <2>4 DEF Run
  <2>6. job.alone /\ times = 1
    BY <1>5, <2>2, <2>5
  <2>7. c \in 1..6
    BY <1>4, <2>4, CallsAre
  <2>8. OnlyItsOwn(dayRows', job)
        /\ \A d \in DeletedDays(job) \cap Visible(eventDay) : Reached(dayRows', job, c, d)
    BY <1>7, <1>12, <2>4, <2>6, <2>7
  <2>9. OnlyItsOwn(dayRows', After(next)) /\ CameSoFar(dayRows', After(next), eventDay)
    BY <2>5, <2>8, SameDays DEF CameSoFar
  <2>10. QED
    BY <2>1, <2>9
<1>14. EventsAreWhole'
  <2> SUFFICES ASSUME After(job) = NotWriting, job.alone, times = 1,
                      whole' = [today |-> job.today, read |-> job.read],
                      NEW d \in WindowOf(WideSpan, job.today), NEW k \in RowKind,
                      d > eventDay - WideSpan
               PROVE  dayRows'[d][k] = IF d \in DaysWithRow(k, WideSpan, job.today, job.read)
                                       THEN [copies |-> 1, made |-> job.read[d]] ELSE NoRows
    BY <1>1, <1>2 DEF EventsAreWhole
  <2>1. CallsToMake(job) = {} /\ job.window = Len(Span)
    BY <1>3, AfterIs
  <2>2. Span[job.window] = WideSpan
    BY <2>1, SpanIs
  <2>3. d \in DeletedDays(job) \cap Visible(eventDay)
    BY <2>2 DEF DeletedDays, WindowOf, Visible
  <2>4. Reached(dayRows', job, 6, d)
    BY <1>12, <2>1, <2>3
  <2>5. Fits(dayRows', job, d, k)
    BY <2>4 DEF Reached, RowKind
  <2>6. QED
    BY <2>2, <2>5 DEF Fits, RowDays
<1>15. QED
  BY <1>9, <1>10, <1>11, <1>13, <1>14 DEF TablesInv

LEMMA RaiseKeeps ==
  ASSUME TablesInv, NEW r \in Writer, WriteRaises(r)
  PROVE  TablesInv'
<1> DEFINE job == writer[r]
           next == [job EXCEPT !.call = 5]
<1>1. PICK times \in {0, 1} : dayRows' = TablesAfter(job, times)
  BY DEF WriteRaises
<1>2. /\ job.call # 0 /\ whole' = Nobody /\ UNCHANGED <<eventDay, daySeen>>
      /\ writer' = Disturbed(r, After(next))
  BY DEF WriteRaises
<1>3. job \in Run /\ job.window # 0
  BY <1>2 DEF TablesInv, TablesTypes, RunsGoOn
<1>4. next \in Run /\ next.window # 0 /\ next.call = 5 /\ next.read = job.read
  BY <1>3 DEF Run
<1> HIDE DEF job, next
<1>5. CallsToMake(next) = {}
  BY <1>4, CallsAre
<1>6. /\ After(next) \in Run
      /\ After(next).call = 0 => After(next).window < Len(Span)
      /\ After(next).call # 0 => After(next).window # 0
      /\ After(next).call = 0
      /\ After(next).read # next.read => After(next) = NotWriting
  BY <1>4, <1>5, AfterIs
<1>7. TablesTypes'
  <2>1. dayRows' \in [EventDays -> [RowKind -> TableRow]]
    BY <1>1, <1>3, TablesTyped DEF TablesInv
  <2>2. writer' \in [Writer -> Run]
    BY <1>2, <1>6, DisturbedAre DEF TablesInv
  <2>3. whole' \in [today : Nat, read : [EventDays -> DayShown]]
    BY <1>2 DEF Nobody, NotWriting, DayShown
  <2>4. QED
    BY <1>2, <2>1, <2>2, <2>3 DEF TablesInv, TablesTypes
<1>8. RunsGoOn'
  BY <1>2, <1>6, DisturbedAre DEF TablesInv, RunsGoOn
<1>9. writer'[r] = After(next) /\ \A q \in Writer \ {r} : ~writer'[q].alone
                                                       /\ writer'[q].read = writer[q].read
  BY <1>2, <1>6, DisturbedAre DEF TablesInv
<1>10. OfTheSeen'
  <2> SUFFICES ASSUME NEW d \in EventDays
               PROVE  /\ \A q \in Writer : writer'[q].read[d] # "none" => daySeen[d] # "none"
                      /\ dayRows'[d]["event"] # NoRows => daySeen[d] # "none"
    BY <1>2 DEF OfTheSeen
  <2>1. dayRows'[d]["event"] # NoRows => daySeen[d] # "none"
    BY <1>1, StillSeen DEF TablesInv, job
  <2>2. NotWriting.read[d] = "none"
    BY DEF NotWriting
  <2>3. After(next).read[d] # "none" => job.read[d] # "none"
    BY <1>4, <1>6, <2>2
  <2>4. QED
    BY <1>9, <2>1, <2>3 DEF TablesInv, OfTheSeen, job
<1>11. RunAlone' /\ EventsAreWhole'
  BY <1>2, <1>6, <1>9 DEF RunAlone, EventsAreWhole
<1>12. QED
  BY <1>7, <1>8, <1>10, <1>11 DEF TablesInv

LEMMA DeathKeeps ==
  ASSUME TablesInv, NEW r \in Writer, WriterDies(r)
  PROVE  TablesInv'
<1>1. /\ writer' = [writer EXCEPT ![r] = NotWriting]
      /\ UNCHANGED <<eventDay, daySeen, dayRows, whole>>
  BY DEF WriterDies
<1>2. NotWriting \in Run /\ NotWriting.call = 0 /\ NotWriting.window < Len(Span)
      /\ \A d \in EventDays : NotWriting.read[d] = "none"
  BY SpanIs DEF NotWriting, Run, DayShown
<1>3. \A q \in Writer : writer'[q] = IF q = r THEN NotWriting ELSE writer[q]
  BY <1>1 DEF TablesInv, TablesTypes
<1>4. TablesTypes'
  BY <1>1, <1>2 DEF TablesInv, TablesTypes
<1>5. RunsGoOn' /\ OfTheSeen'
  BY <1>1, <1>2, <1>3 DEF TablesInv, RunsGoOn, OfTheSeen
<1>6. RunAlone' /\ EventsAreWhole'
  BY <1>1, <1>2, <1>3 DEF TablesInv, RunAlone, EventsAreWhole
<1>7. QED
  BY <1>4, <1>5, <1>6 DEF TablesInv

(* For any windows and crossing runs: after a last window that went        *)
(* through alone and without a slip, the days it covers have exactly the   *)
(* rows their snapshots call for (recalc.py:153, db.py:40).                *)
THEOREM EventsWhole == TablesSpec => []EventsAreWhole
<1>1. TablesInv /\ [TablesNext]_tableVars => TablesInv'
  <2> SUFFICES ASSUME TablesInv, [TablesNext]_tableVars PROVE TablesInv'
    OBVIOUS
  <2>1. CASE UNCHANGED tableVars
    <3>1. UNCHANGED <<eventDay, daySeen, dayRows, writer, whole>>
      BY <2>1 DEF tableVars
    <3>2. TablesTypes' /\ RunsGoOn' /\ OfTheSeen' /\ RunAlone' /\ EventsAreWhole'
      BY <3>1 DEF TablesInv, TablesTypes, RunsGoOn, OfTheSeen, RunAlone, EventsAreWhole
    <3>3. QED
      BY <3>2 DEF TablesInv
  <2>2. CASE SnapshotComes \/ DayBreaks \/ OldRowsGo
    BY <2>2, SnapshotKeeps, DayBreaksKeeps, RetentionKeeps
  <2>3. ASSUME NEW r \in Writer, BeginWindow(r) \/ WriteCall(r) \/ WriteRaises(r) \/ WriterDies(r)
        PROVE  TablesInv'
    BY <2>3, RunBeginKeeps, WriteKeeps, RaiseKeeps, DeathKeeps
  <2>4. QED
    BY <2>1, <2>2, <2>3 DEF TablesNext
<1>2. TablesInv => EventsAreWhole
  BY DEF TablesInv
<1>3. QED
  BY <1>1, <1>2, InitTables, PTL DEF TablesSpec

-----------------------------------------------------------------------------
(* Engine: a product called dead has not sold.                            *)

EngineTypes ==
  /\ dayAt \in Int
  /\ lastSeen \in [stock : Nat, ago : Nat]
  /\ sums \in [inStock : Nat, excluded : Nat, sold : Nat, spikes : Nat]
  /\ fallen \in Nat

(* A product once seen was seen a day ago or more.                         *)
SeenBefore == lastSeen.ago = 0 => lastSeen = Unseen

(* Before the window nothing is counted.                                   *)
NothingYet == dayAt < 1 => sums.spikes = 0 /\ sums.sold = 0 /\ fallen = 0

(* A fall is a sale or a spike.  A spike is a day to make up for, unless   *)
(* the product sold out in it and has not come back.                       *)
FallsAreTold ==
  /\ fallen > 0 => sums.sold > 0 \/ sums.spikes > 0
  /\ sums.spikes > 0 => lastSeen # Unseen /\ (sums.excluded > 0 \/ lastSeen.stock = 0)
  /\ sums.sold <= fallen

EngineInv == EngineTypes /\ SeenBefore /\ NothingYet /\ FallsAreTold

LEMMA DivisionIs ==
  ASSUME NEW u \in Nat \ {0}, NEW d \in Nat \ {0}
  PROVE  /\ u \div d \in Nat /\ u % d \in 0..(d - 1)
         /\ u = d * (u \div d) + (u % d)
OBVIOUS

(* A share of units is at least one and no more than the units.            *)
LEMMA ShareIs ==
  ASSUME NEW u \in Nat \ {0}, NEW d \in Nat \ {0}
  PROVE  Share(u, d) \in 1..u
<1> DEFINE q == u \div d
           m == u % d
<1>1. q \in Nat /\ m \in 0..(d - 1) /\ u = d * q + m
  BY DivisionIs
<1>2. Share(u, d) \in {1, q, q + 1} /\ Share(u, d) >= 1 /\ (d = 1 => Share(u, d) \in {1, q})
  BY <1>1 DEF Share
<1> HIDE DEF q, m
<1>3. CASE d = 1
  <2>1. d * q = q
    BY <1>1, <1>3
  <2>2. QED
    BY <1>1, <1>2, <1>3, <2>1
<1>4. CASE q = 0
  BY <1>2, <1>4
<1>5. CASE d >= 2 /\ q >= 1
  <2>1. d * q >= 2 * q
    <3>1. d * q = 2 * q + (d - 2) * q
      BY <1>1
    <3>2. (d - 2) * q >= 0
      BY <1>1, <1>5
    <3>3. QED
      BY <1>1, <3>1, <3>2
  <2>2. d * q \in Nat
    BY <1>1
  <2>3. QED
    BY <1>1, <1>2, <1>5, <2>1, <2>2
<1>6. QED
  BY <1>1, <1>3, <1>4, <1>5

(* What counts as the sale of a day left the stock.                        *)
LEMMA PerDayIs ==
  ASSUME EngineInv, NEW stock \in Stock
  PROVE  /\ FallTo(stock) \in Nat
         /\ FallTo(stock) > 0 => lastSeen # Unseen /\ PerDay(stock) \in 1..FallTo(stock)
<1>1. stock \in Nat /\ lastSeen \in [stock : Nat, ago : Nat]
  BY EngineAssumption DEF EngineInv, EngineTypes
<1>2. FallTo(stock) \in Nat /\ (FallTo(stock) > 0 => lastSeen # Unseen)
  BY <1>1 DEF FallTo
<1>3. CASE FallTo(stock) > 0 /\ lastSeen.ago > 1
  BY <1>1, <1>2, <1>3, ShareIs DEF PerDay
<1>4. CASE ~(lastSeen.ago > 1)
  BY <1>2, <1>4 DEF PerDay
<1>5. QED
  BY <1>2, <1>3, <1>4

(* The type of a day, with its alternatives.                               *)
LEMMA ClassifiedIs ==
  ASSUME EngineInv, NEW stock \in Stock, NEW holiday \in BOOLEAN
  PROVE  /\ Classified(stock, holiday) \in {"first_snapshot", "no_change",
              "replenishment_like", "anomaly_like", "sales_like"}
         /\ FallTo(stock) > 0 => Classified(stock, holiday) \in {"anomaly_like", "sales_like"}
         /\ Classified(stock, holiday) \in {"anomaly_like", "sales_like"} => FallTo(stock) > 0
         /\ lastSeen # Unseen /\ stock > lastSeen.stock
              => Classified(stock, holiday) = "replenishment_like"
<1> DEFINE type == Classified(stock, holiday)
           spike == ~holiday /\ IsSpike(PerDay(stock))
<1>1. stock \in Nat /\ lastSeen.stock \in Nat /\ FallTo(stock) \in Nat
  BY PerDayIs, EngineAssumption DEF EngineInv, EngineTypes
<1>2. /\ FallTo(stock) > 0 <=> lastSeen # Unseen /\ stock < lastSeen.stock
      /\ ~(stock > lastSeen.stock /\ stock < lastSeen.stock)
      /\ ~(stock = lastSeen.stock /\ stock < lastSeen.stock)
      /\ ~(stock = lastSeen.stock /\ stock > lastSeen.stock)
      /\ stock = lastSeen.stock \/ stock < lastSeen.stock \/ stock > lastSeen.stock
  BY <1>1 DEF FallTo
<1>3. lastSeen = Unseen => type = "first_snapshot"
  BY <1>2, Zenon DEF Classified
<1>4. lastSeen # Unseen /\ stock = lastSeen.stock => type = "no_change"
  BY <1>2, Zenon DEF Classified
<1>5. lastSeen # Unseen /\ stock > lastSeen.stock => type = "replenishment_like"
  BY <1>2, Zenon DEF Classified
<1>6. FallTo(stock) > 0 /\ spike => type = "anomaly_like"
  BY <1>2, Zenon DEF Classified
<1>7. FallTo(stock) > 0 /\ ~spike => type = "sales_like"
  BY <1>2, Zenon DEF Classified
<1> HIDE DEF type, spike
<1>8. CASE lastSeen = Unseen
  BY <1>2, <1>3, <1>8 DEF type
<1>9. CASE lastSeen # Unseen
  BY <1>2, <1>4, <1>5, <1>6, <1>7, <1>9 DEF type
<1>10. QED
  BY <1>8, <1>9

LEMMA InitEngine == EngineInit => EngineInv
BY EngineAssumption DEF EngineInit, EngineInv, EngineTypes, SeenBefore, NothingYet, FallsAreTold, Unseen

LEMMA HistoryKeeps ==
  ASSUME EngineInv, NEW stock \in Stock, NEW holiday \in BOOLEAN, DayOfHistory(stock, holiday)
  PROVE  EngineInv'
<1>1. /\ dayAt < 1 /\ dayAt' = dayAt + 1 /\ lastSeen' = [stock |-> stock, ago |-> 1]
      /\ sums' = sums /\ fallen' = fallen
  BY DEF DayOfHistory, SeenStock
<1>2. stock \in Nat
  BY EngineAssumption
<1>3. EngineTypes' /\ SeenBefore'
  BY <1>1, <1>2 DEF EngineInv, EngineTypes, SeenBefore
<1>4. sums.spikes = 0 /\ sums.sold = 0 /\ fallen = 0
  BY <1>1 DEF EngineInv, NothingYet
<1>5. NothingYet' /\ FallsAreTold'
  BY <1>1, <1>4 DEF NothingYet, FallsAreTold
<1>6. QED
  BY <1>3, <1>5 DEF EngineInv

LEMMA MissingKeeps ==
  ASSUME EngineInv, MissingDay
  PROVE  EngineInv'
<1>1. /\ dayAt' = dayAt + 1 /\ lastSeen' = Unchanged(lastSeen)
      /\ sums' = sums /\ fallen' = fallen
  BY DEF MissingDay
<1>2. /\ lastSeen' \in [stock : Nat, ago : Nat] /\ lastSeen'.stock = lastSeen.stock
      /\ lastSeen'.ago = 0 => lastSeen' = Unseen
      /\ lastSeen # Unseen => lastSeen' # Unseen
  BY <1>1 DEF EngineInv, EngineTypes, SeenBefore, Unchanged, Unseen
<1>3. EngineTypes' /\ SeenBefore' /\ NothingYet' /\ FallsAreTold'
  BY <1>1, <1>2 DEF EngineInv, EngineTypes, SeenBefore, NothingYet, FallsAreTold
<1>4. QED
  BY <1>3 DEF EngineInv

LEMMA WindowKeeps ==
  ASSUME EngineInv, NEW stock \in Stock, NEW holiday \in BOOLEAN, DayOfWindow(stock, holiday)
  PROVE  EngineInv'
<1> DEFINE type == Classified(stock, holiday)
           fall == FallTo(stock)
           units == PerDay(stock)
<1>1. /\ dayAt \in 1..WindowDays /\ dayAt' = dayAt + 1
      /\ lastSeen' = [stock |-> stock, ago |-> 1] /\ fallen' = fallen + fall
  BY DEF DayOfWindow, SeenStock
<1>2. sums' = [inStock |-> sums.inStock + (IF stock > 0 THEN 1 ELSE 0),
               excluded |-> sums.excluded + (IF stock > 0 /\ Excluded(type) THEN 1 ELSE 0),
               sold |-> sums.sold + (IF type = "sales_like" THEN units ELSE 0),
               spikes |-> sums.spikes + (IF type = "anomaly_like" THEN 1 ELSE 0)]
  BY DEF DayOfWindow
<1>3. stock \in Nat /\ fall \in Nat /\ (fall > 0 => units \in 1..fall)
  BY EngineAssumption, PerDayIs
<1>4. /\ fall > 0 => type \in {"anomaly_like", "sales_like"}
      /\ type \in {"anomaly_like", "sales_like"} => fall > 0
      /\ lastSeen # Unseen /\ stock > lastSeen.stock => type = "replenishment_like"
  BY ClassifiedIs
<1>5. type \in {"anomaly_like", "sales_like"} => lastSeen # Unseen
  BY <1>4, PerDayIs
<1>6. sums \in [inStock : Nat, excluded : Nat, sold : Nat, spikes : Nat] /\ fallen \in Nat
      /\ lastSeen \in [stock : Nat, ago : Nat] /\ dayAt \in Int
  BY DEF EngineInv, EngineTypes
<1>7. Excluded(type) <=> type \in {"first_snapshot", "replenishment_like", "anomaly_like"}
  BY DEF Excluded
<1> HIDE DEF type, fall, units
<1>8. EngineTypes' /\ SeenBefore' /\ NothingYet'
  BY <1>1, <1>2, <1>3, <1>4, <1>6 DEF EngineTypes, SeenBefore, NothingYet
<1>9. sums'.sold <= fallen' /\ (fallen' > 0 => sums'.sold > 0 \/ sums'.spikes > 0)
  BY <1>1, <1>2, <1>3, <1>4, <1>6 DEF EngineInv, FallsAreTold
<1>10. lastSeen' # Unseen /\ lastSeen'.stock = stock
  BY <1>1 DEF Unseen
<1>11. ASSUME sums'.spikes > 0, lastSeen'.stock # 0
       PROVE  sums'.excluded > 0
  <2>1. stock > 0
    BY <1>3, <1>10, <1>11
  <2>2. CASE type = "anomaly_like"
    BY <1>2, <1>6, <1>7, <2>1, <2>2
  <2>3. CASE type # "anomaly_like"
    <3>1. sums.spikes > 0
      BY <1>2, <1>6, <1>11, <2>3
    <3>2. lastSeen # Unseen /\ (sums.excluded > 0 \/ lastSeen.stock = 0)
      BY <3>1 DEF EngineInv, FallsAreTold
    <3>3. CASE sums.excluded > 0
      BY <1>2, <1>6, <3>3
    <3>4. CASE lastSeen.stock = 0
      BY <1>2, <1>4, <1>6, <1>7, <2>1, <3>2, <3>4
    <3>5. QED
      BY <3>2, <3>3, <3>4
  <2>4. QED
    BY <2>2, <2>3
<1>12. FallsAreTold'
  BY <1>9, <1>10, <1>11 DEF FallsAreTold
<1>13. QED
  BY <1>8, <1>12 DEF EngineInv

LEMMA EngineHolds == EngineSpec => []EngineInv
<1>1. EngineInv /\ [EngineNext]_engineVars => EngineInv'
  <2> SUFFICES ASSUME EngineInv, [EngineNext]_engineVars PROVE EngineInv'
    OBVIOUS
  <2>1. CASE UNCHANGED engineVars
    BY <2>1 DEF engineVars, EngineInv, EngineTypes, SeenBefore, NothingYet, FallsAreTold
  <2>2. CASE MissingDay
    BY <2>2, MissingKeeps
  <2>3. ASSUME NEW stock \in Stock, NEW holiday \in BOOLEAN,
               DayOfHistory(stock, holiday) \/ DayOfWindow(stock, holiday)
        PROVE  EngineInv'
    BY <2>3, HistoryKeeps, WindowKeeps
  <2>4. QED
    BY <2>1, <2>2, <2>3 DEF EngineNext
<1>2. QED
  BY <1>1, InitEngine, PTL DEF EngineSpec

(* Whatever stocks a product shows on whichever days, holidays and gaps:   *)
(* the engine calls it dead only if its stock never fell in the window,    *)
(* and sells no unit that did not leave the stock (pipeline.py:131,        *)
(* classify).                                                              *)
THEOREM DeadIsDead == EngineSpec => []DeadHasNotSold
<1>1. EngineInv => DeadHasNotSold
  <2> SUFFICES ASSUME EngineInv, LabelledDead, fallen # 0 PROVE FALSE
    BY DEF EngineInv, FallsAreTold, DeadHasNotSold
  <2>1. sums.inStock > 0 /\ lastSeen.stock > 0
    BY EngineAssumption DEF LabelledDead, EngineInv, EngineTypes
  <2>2. fallen > 0
    BY DEF EngineInv, EngineTypes
  <2>3. CASE sums.sold > 0
    BY <2>1, <2>3 DEF LabelledDead, Sells
  <2>4. CASE sums.spikes > 0
    <3>1. sums.excluded > 0
      BY <2>1, <2>4 DEF EngineInv, FallsAreTold
    <3>2. QED
      BY <2>1, <2>4, <3>1 DEF LabelledDead, Sells, UsualSale
  <2>5. QED
    BY <2>2, <2>3, <2>4 DEF EngineInv, FallsAreTold
<1>2. QED
  BY <1>1, EngineHolds, PTL

(* Both at once, the history a recalculation tells of a product: its label *)
(* and the rows of its days are what happened (recalc.py, pipeline.py).    *)
THEOREM HistoryTold == HistorySpec => []HistoryIsTold
BY DeadIsDead, EventsWhole, PTL DEF HistorySpec, HistoryIsTold

-----------------------------------------------------------------------------
(* Stale figures: an alarm the job closed does not flap.                  *)

AlarmFigures == [lag : Nat, cover : Nat \union {-1}]

AlarmsTypes ==
  /\ loop \in {"none", "first", "second"} /\ at \in Listed
  /\ dataStale \in BOOLEAN
  /\ read \in [Listed -> AlarmFigures]
  /\ raised \in [Listed -> SUBSET StockAlarm]
  /\ dropped \in [Listed -> [StockAlarm -> Nat \union {NeverDropped}]]

(* What the job closes is closes, and was closes above the coverage at     *)
(* which it is held.                                                       *)
ClosedAbove ==
  \A p \in Listed, k \in StockAlarm :
    dropped[p][k] # NeverDropped =>
      /\ k \notin raised[p]
      /\ dropped[p][k] > IF k = "critical" THEN 5 ELSE 10

AlarmsInv == AlarmsTypes /\ ClosedAbove

LEMMA InitAlarms == FiguresInit => AlarmsInv
<1> SUFFICES ASSUME FiguresInit PROVE AlarmsInv
  OBVIOUS
<1>1. AlarmsTypes
  <2>1. NoFigures \in AlarmFigures /\ 1 \in Listed /\ NeverDropped \in Nat \union {NeverDropped}
    BY StaleFiguresAssumption DEF AlarmFigures, NoFigures, Listed
  <2>2. /\ read \in [Listed -> AlarmFigures] /\ raised \in [Listed -> SUBSET StockAlarm]
        /\ dropped \in [Listed -> [StockAlarm -> Nat \union {NeverDropped}]]
    BY <2>1 DEF FiguresInit
  <2>3. QED
    BY <2>1, <2>2 DEF FiguresInit, AlarmsTypes
<1>2. ClosedAbove
  BY DEF FiguresInit, ClosedAbove
<1>3. QED
  BY <1>1, <1>2 DEF AlarmsInv

(* The loops and what they hand on keep to their types.                    *)
LEMMA LoopsKeep ==
  ASSUME AlarmsInv, FiguresNext
  PROVE  /\ loop' \in {"none", "first", "second"} /\ at' \in Listed
         /\ dataStale' \in BOOLEAN /\ read' \in [Listed -> AlarmFigures]
<1>1. /\ 1 \in Listed /\ (at # Products => at + 1 \in Listed) /\ at \in Listed
      /\ NoFigures \in AlarmFigures
      /\ \A lag \in Lags, cover \in Covers : [lag |-> lag, cover |-> cover] \in AlarmFigures
  BY StaleFiguresAssumption DEF AlarmsInv, AlarmsTypes, Listed, NoFigures, AlarmFigures
<1>2. CASE RunStarts
  BY <1>1, <1>2 DEF RunStarts, AlarmsInv, AlarmsTypes
<1>3. CASE ProductIsPassedOver
  BY <1>1, <1>3 DEF ProductIsPassedOver, FirstLoopMovesOn, AlarmsInv, AlarmsTypes
<1>4. CASE ProductIsComputed
  BY <1>1, <1>4 DEF ProductIsComputed, FirstLoopMovesOn, TooOld, AlarmsInv, AlarmsTypes
<1>5. CASE RunForgets
  BY <1>1, <1>5 DEF RunForgets
<1>6. CASE SecondLoopMovesOn
  BY <1>1, <1>5, <1>6 DEF SecondLoopMovesOn, RunForgets, AlarmsInv, AlarmsTypes
<1>7. QED
  BY <1>2, <1>3, <1>4, <1>5, <1>6
  DEF FiguresNext, AlarmsAreWritten, WritingFails, NothingToWrite, RunDies

(* A product's alarms are closes and opened as its figures ask for.        *)
LEMMA ClosingKeeps ==
  ASSUME AlarmsInv,
         NEW closes \in SUBSET Closing(at), NEW opened \in SUBSET (Desired(at) \ raised[at]),
         CloseAlarms(closes, opened)
  PROVE  /\ raised' \in [Listed -> SUBSET StockAlarm]
         /\ dropped' \in [Listed -> [StockAlarm -> Nat \union {NeverDropped}]]
         /\ ClosedAbove'
         /\ \A p \in Listed : \A k \in raised'[p] \ raised[p] :
              dropped[p][k] # NeverDropped => dropped[p][k] - read[p].cover > 2
<1>1. /\ at \in Listed /\ raised[at] \in SUBSET StockAlarm
      /\ read[at].cover \in Nat \union {-1}
      /\ dropped[at] \in [StockAlarm -> Nat \union {NeverDropped}]
  BY DEF AlarmsInv, AlarmsTypes, AlarmFigures
<1>2. /\ closes \subseteq StockAlarm /\ opened \subseteq StockAlarm
      /\ opened \cap raised[at] = {}
  BY <1>1 DEF Closing, Desired, Wanted, StockAlarm
<1>3. \A k \in closes : read[at].cover > IF k = "critical" THEN 5 ELSE 10
  BY <1>1, <1>2 DEF Closing, StillHeld, StockAlarm
<1>4. \A k \in opened : read[at].cover <= IF k = "critical" THEN 3 ELSE 7
  BY <1>1 DEF Desired, Wanted
<1>5. /\ raised' = [raised EXCEPT ![at] = (raised[at] \ closes) \union opened]
      /\ raised' \in [Listed -> SUBSET StockAlarm]
  BY <1>1, <1>2 DEF CloseAlarms, AlarmsInv, AlarmsTypes
<1> DEFINE Now == [k \in StockAlarm |-> IF k \in opened THEN NeverDropped
                     ELSE IF k \in closes THEN read[at].cover ELSE dropped[at][k]]
<1>6. Now \in [StockAlarm -> Nat \union {NeverDropped}]
  BY <1>1 DEF NeverDropped
<1>7. dropped' = [dropped EXCEPT ![at] = Now]
  BY DEF CloseAlarms
<1>8. dropped' \in [Listed -> [StockAlarm -> Nat \union {NeverDropped}]]
  BY <1>1, <1>6, <1>7 DEF AlarmsInv, AlarmsTypes
<1>9. ASSUME NEW p \in Listed, NEW k \in StockAlarm, dropped'[p][k] # NeverDropped
      PROVE  /\ k \notin raised'[p]
             /\ dropped'[p][k] > IF k = "critical" THEN 5 ELSE 10
  <2>1. CASE p # at
    BY <1>5, <1>7, <1>9, <2>1 DEF AlarmsInv, AlarmsTypes, ClosedAbove
  <2>2. CASE p = at
    <3>1. dropped'[p][k] = Now[k] /\ raised'[p] = (raised[at] \ closes) \union opened
      BY <1>1, <1>5, <1>7, <2>2 DEF AlarmsInv, AlarmsTypes
    <3>2. k \notin opened
      BY <1>9, <3>1
    <3>3. CASE k \in closes
      BY <1>3, <3>1, <3>2, <3>3
    <3>4. CASE k \notin closes
      BY <1>1, <1>9, <3>1, <3>2, <3>4 DEF AlarmsInv, ClosedAbove
    <3>5. QED
      BY <3>3, <3>4
  <2>3. QED
    BY <2>1, <2>2
<1>10. ASSUME NEW p \in Listed, NEW k \in raised'[p] \ raised[p], dropped[p][k] # NeverDropped
       PROVE  dropped[p][k] - read[p].cover > 2
  <2>1. p = at /\ k \in opened /\ k \in StockAlarm
    BY <1>1, <1>2, <1>5 DEF AlarmsInv, AlarmsTypes
  <2>2. dropped[at][k] \in Nat /\ dropped[at][k] > IF k = "critical" THEN 5 ELSE 10
    BY <1>1, <1>10, <2>1 DEF AlarmsInv, ClosedAbove
  <2>3. QED
    BY <1>1, <1>4, <2>1, <2>2
<1>11. QED
  BY <1>5, <1>8, <1>9, <1>10 DEF ClosedAbove

(* What a step does to the alarms.                                         *)
LEMMA AlarmsKeep ==
  ASSUME AlarmsInv, FiguresNext
  PROVE  /\ raised' \in [Listed -> SUBSET StockAlarm]
         /\ dropped' \in [Listed -> [StockAlarm -> Nat \union {NeverDropped}]]
         /\ ClosedAbove'
         /\ \A p \in Listed : \A k \in raised'[p] \ raised[p] :
              dropped[p][k] # NeverDropped => dropped[p][k] - read[p].cover > 2
<1>1. CASE UNCHANGED <<raised, dropped>>
  BY <1>1 DEF AlarmsInv, AlarmsTypes, ClosedAbove
<1>2. CASE AlarmsAreWritten
  <2>1. PICK opened \in SUBSET (Desired(at) \ raised[at]) : CloseAlarms(Closing(at), opened)
    BY <1>2 DEF AlarmsAreWritten
  <2>2. QED
    BY <2>1, ClosingKeeps
<1>3. CASE WritingFails
  <2>1. PICK closes \in SUBSET Closing(at) : CloseAlarms(closes, {})
    BY <1>3 DEF WritingFails
  <2>2. QED
    BY <2>1, ClosingKeeps
<1>4. QED
  BY <1>1, <1>2, <1>3
  DEF FiguresNext, RunStarts, ProductIsPassedOver, ProductIsComputed, NothingToWrite, RunDies

LEMMA InvAlarms == FiguresSpec => []AlarmsInv
<1>1. AlarmsInv /\ [FiguresNext]_alarmVars => AlarmsInv'
  <2> SUFFICES ASSUME AlarmsInv, [FiguresNext]_alarmVars PROVE AlarmsInv'
    OBVIOUS
  <2>1. CASE FiguresNext
    BY <2>1, LoopsKeep, AlarmsKeep DEF AlarmsInv, AlarmsTypes
  <2>2. CASE UNCHANGED alarmVars
    BY <2>2 DEF AlarmsInv, AlarmsTypes, ClosedAbove, alarmVars
  <2>3. QED
    BY <2>1, <2>2
<1>2. QED
  BY <1>1, InitAlarms, PTL DEF FiguresSpec

(* The alarms of any number of products, whatever coverages and lags their *)
(* runs find and wherever they stop, open again only more than two days    *)
(* below where the job closes them (recalc.py:219-260).                    *)
THEOREM NoFlapping == FiguresSpec => AlarmsDoNotFlap
<1>1. AlarmsInv /\ [FiguresNext]_alarmVars =>
        [\A p \in Listed : \A k \in raised'[p] \ raised[p] :
           dropped[p][k] # NeverDropped => dropped[p][k] - read[p].cover > 2]_alarmVars
  BY AlarmsKeep
<1>2. QED
  BY <1>1, InvAlarms, PTL DEF FiguresSpec, AlarmsDoNotFlap

-----------------------------------------------------------------------------
(* Dashboard: the tiles show the figures of the run they are dated by.    *)

Entry == [window : Nat, run : Nat]

DashboardTypes ==
  /\ DashboardTypeOK
  /\ wrote # "metrics"
  /\ gotMetrics \in [Load -> Entry] /\ gotVelocity \in [Load -> Entry]

(* The newest row has the last stamp, and nobody asks for a later one.     *)
Stamped ==
  /\ \A r \in Window \X Day : computedAt[r[1]][r[2]] <= lastStamp
  /\ lastStamp = 0 \/ \E r \in Rows : computedAt[r[1]][r[2]] = lastStamp
  /\ \A l \in Load : asked[l][2] <= lastStamp

(* Rows are no newer than the day the run took for the current window.     *)
Dated ==
  /\ periodEnd <= today
  /\ \A r \in Window \X Day :
       velocity[r[1]][r[2]] # 0 \/ metrics[r[1]][r[2]] # 0 => r[2] <= periodEnd

Both(w) == velocity[w][periodEnd] = run /\ metrics[w][periodEnd] = run

(* A run that has not failed, nor seen a midnight, has written what it has *)
(* passed, all under one day.                                              *)
RunIsWritten ==
  /\ writing # 0 => run > 0 /\ ~closed
  /\ sameDay /\ writing # 0 =>
       /\ \A w \in Window : w < writing => Both(w)
       /\ wrote = "velocity" => velocity[writing][periodEnd] = run
  /\ sameDay /\ closed /\ run > 0 => \A w \in Window : Both(w)

(* A load that does not fetch has read nothing.                            *)
NothingRead ==
  \A l \in Load : loadAt[l] # "fetching" =>
    gotMetrics[l] = Unread /\ gotVelocity[l] = Unread /\ l \notin spoilt

(* What a load under the last stamp has read is what it would read now.    *)
ReadIsCurrent ==
  closed =>
    \A l \in Load : asked[l][2] = lastStamp /\ l \notin spoilt =>
      /\ gotMetrics[l] # Unread => gotMetrics[l] \in MetricsFor(asked[l][1])
      /\ gotVelocity[l] # Unread => gotVelocity[l] \in Velocities

DashboardInv ==
  /\ DashboardTypes /\ Stamped /\ Dated /\ RunIsWritten
  /\ NothingRead /\ ReadIsCurrent /\ CacheIsCurrent

LEMMA StampIsLast ==
  ASSUME DashboardTypeOK, Stamped
  PROVE  Stamp = lastStamp
<1> DEFINE Stamps == {0} \cup {computedAt[r[1]][r[2]] : r \in Rows}
           Latest(s) == \A r \in Rows : computedAt[r[1]][r[2]] <= s
<1>1. \A r \in Window \X Day : computedAt[r[1]][r[2]] \in Nat
  BY DEF DashboardTypeOK
<1>2. Rows \subseteq Window \X Day /\ lastStamp \in Nat
  BY DEF Rows, DashboardTypeOK
<1>3. lastStamp \in Stamps /\ Latest(lastStamp)
  BY <1>2 DEF Stamped
<1>4. ASSUME NEW s \in Stamps, Latest(s) PROVE s = lastStamp
  <2>1. s \in Nat /\ s <= lastStamp
    BY <1>1, <1>2, <1>4 DEF Stamped
  <2>2. CASE lastStamp = 0
    BY <2>1, <2>2
  <2>3. CASE \E r \in Rows : computedAt[r[1]][r[2]] = lastStamp
    BY <1>2, <1>4, <2>1, <2>3
  <2>4. QED
    BY <2>2, <2>3 DEF Stamped
<1> HIDE DEF Stamps, Latest
<1>5. (CHOOSE s \in Stamps : Latest(s)) = lastStamp
  BY <1>3, <1>4
<1>6. QED
  BY <1>5 DEF Stamp, Stamps, Latest

LEMMA InitDashboard == DashboardInit => DashboardInv
<1> SUFFICES ASSUME DashboardInit PROVE DashboardInv
  OBVIOUS
<1>1. /\ Windows \in Nat /\ MaxRuns \in Nat /\ MaxDay \in Nat /\ MaxFailures \in Nat
      /\ 1 \in Window /\ 1 \in Day
  BY DashboardAssumption DEF Window, Day
<1>2. Unread \in Entry /\ <<1, 0>> \in Key
  BY <1>1 DEF Unread, Entry, Key
<1>3. DashboardTypeOK
  BY <1>1, <1>2 DEF DashboardInit, DashboardTypeOK
<1>4. DashboardTypes
  BY <1>2, <1>3 DEF DashboardInit, DashboardTypes
<1>5. Stamped
  BY <1>1, <1>2 DEF DashboardInit, Stamped
<1>6. Dated /\ RunIsWritten
  BY <1>1 DEF DashboardInit, Dated, RunIsWritten
<1>7. NothingRead /\ ReadIsCurrent /\ CacheIsCurrent
  BY DEF DashboardInit, NothingRead, ReadIsCurrent, CacheIsCurrent
<1>8. QED
  BY <1>4, <1>5, <1>6, <1>7 DEF DashboardInv

(* What the invariant says of the tables does not depend on the loads.     *)
RowsFit == Stamped /\ Dated /\ RunIsWritten

(* The current run goes on: to the metrics, to the next window, to its end.*)
LEMMA AdvanceIs ==
  ASSUME DashboardTypes, writing # 0, Advance
  PROVE  /\ wrote = "nothing" => wrote' = "velocity" /\ UNCHANGED <<writing, periodEnd>>
         /\ wrote = "velocity" /\ writing < Windows =>
              wrote' = "nothing" /\ writing' = writing + 1 /\ periodEnd' = today
         /\ wrote = "velocity" /\ ~(writing < Windows) =>
              wrote' = "nothing" /\ writing' = 0 /\ UNCHANGED periodEnd
  BY DEF DashboardTypes, DashboardTypeOK, Advance, NextPart, StartWindow

LEMMA AdvanceType ==
  ASSUME DashboardTypes, writing # 0, Advance
  PROVE  /\ writing' \in 0..Windows /\ wrote' \in {"nothing", "velocity"}
         /\ periodEnd' \in Day
<1>1. /\ writing \in 0..Windows /\ wrote \in {"nothing", "velocity"}
      /\ periodEnd \in Day /\ today \in Day /\ Windows \in Nat
  BY DashboardAssumption DEF DashboardTypes, DashboardTypeOK
<1>2. QED
  BY <1>1, AdvanceIs

(* A day of the calendar passes, or a run starts.                          *)
LEMMA MidnightKeeps ==
  ASSUME DashboardInv, Midnight
  PROVE  DashboardInv'
<1>1. today + 1 \in Day /\ today \in Nat /\ periodEnd \in Nat
  BY DashboardAssumption DEF Midnight, DashboardInv, DashboardTypes, DashboardTypeOK, Day
<1>2. DashboardTypes'
  BY <1>1 DEF Midnight, DashboardInv, DashboardTypes, DashboardTypeOK, tables, worker, loads
<1>3. Stamped' /\ Dated' /\ RunIsWritten'
  BY <1>1 DEF Midnight, DashboardInv, Stamped, Dated, RunIsWritten, Both, Rows,
              tables, worker, loads
<1>4. UNCHANGED <<Stamp, Velocities>> /\ \A w \in Window : UNCHANGED MetricsFor(w)
  BY DEF Midnight, Stamp, Rows, MetricsFor, Newest, RowOf, Velocities, tables
<1>5. NothingRead' /\ ReadIsCurrent'
  BY <1>4 DEF Midnight, DashboardInv, DashboardTypes, DashboardTypeOK, Key,
              NothingRead, ReadIsCurrent, worker, loads
<1>6. CacheIsCurrent'
  BY <1>4 DEF Midnight, DashboardInv, DashboardTypes, DashboardTypeOK, Key, CacheIsCurrent, worker
<1>7. QED
  BY <1>2, <1>3, <1>5, <1>6 DEF DashboardInv

LEMMA StartKeeps ==
  ASSUME DashboardInv, StartRun
  PROVE  DashboardInv'
<1>1. /\ Windows \in Nat \ {0} /\ MaxRuns \in Nat /\ run \in 0..MaxRuns
      /\ today \in Day /\ periodEnd \in Day /\ today \in Nat /\ periodEnd \in Nat
  BY DashboardAssumption DEF DashboardInv, DashboardTypes, DashboardTypeOK, Day
<1>2. run + 1 \in 0..MaxRuns /\ 1 \in 0..Windows /\ run + 1 > 0
  BY <1>1 DEF StartRun
<1>3. DashboardTypes'
  BY <1>1, <1>2 DEF StartRun, StartWindow, DashboardInv, DashboardTypes, DashboardTypeOK,
                    tables, loads
<1>4. Stamped'
  BY DEF StartRun, DashboardInv, Stamped, Rows, tables, loads
<1>5. Dated'
  BY <1>1 DEF StartRun, StartWindow, DashboardInv, Dated, Day, tables
<1>6. RunIsWritten'
  BY <1>2 DEF StartRun, StartWindow, RunIsWritten, Window
<1>7. NothingRead' /\ ReadIsCurrent' /\ CacheIsCurrent'
  BY DEF StartRun, DashboardInv, NothingRead, ReadIsCurrent, CacheIsCurrent, loads
<1>8. QED
  BY <1>3, <1>4, <1>5, <1>6, <1>7 DEF DashboardInv

(* While a run is at work nothing is said of the loads and the cache.      *)
LEMMA Unsettled ==
  ASSUME NothingRead, UNCHANGED loads, ~closed'
  PROVE  NothingRead' /\ ReadIsCurrent' /\ CacheIsCurrent'
BY DEF NothingRead, ReadIsCurrent, CacheIsCurrent, loads

(* Rows of the days so far stay so when the run moves on.                  *)
LEMMA DatedKeeps ==
  ASSUME DashboardInv, writing # 0, Advance, UNCHANGED today,
         \A r \in Window \X Day :
           velocity'[r[1]][r[2]] # 0 \/ metrics'[r[1]][r[2]] # 0 =>
             r[2] = periodEnd \/ velocity[r[1]][r[2]] # 0 \/ metrics[r[1]][r[2]] # 0
  PROVE  Dated'
<1>1. periodEnd \in Nat /\ today \in Nat /\ periodEnd <= today
  BY DEF DashboardInv, DashboardTypes, DashboardTypeOK, Dated, Day
<1>2. periodEnd' = periodEnd \/ periodEnd' = today
  BY AdvanceIs DEF DashboardInv, DashboardTypes, DashboardTypeOK
<1>3. periodEnd' <= today' /\ periodEnd <= periodEnd' /\ periodEnd' \in Nat
  BY <1>1, <1>2
<1>4. ASSUME NEW r \in Window \X Day, velocity'[r[1]][r[2]] # 0 \/ metrics'[r[1]][r[2]] # 0
      PROVE  r[2] <= periodEnd'
  <2>1. r[2] \in Nat
    BY DEF Day
  <2>2. r[2] <= periodEnd
    BY <1>1, <1>4, <2>1 DEF DashboardInv, Dated
  <2>3. QED
    BY <1>1, <1>3, <2>1, <2>2
<1>5. QED
  BY <1>3, <1>4 DEF Dated

LEMMA VelocitiesKeep ==
  ASSUME DashboardInv, WriteVelocities
  PROVE  DashboardInv'
<1>1. /\ writing # 0 /\ wrote = "nothing" /\ writing \in Window /\ periodEnd \in Day
      /\ run \in 0..MaxRuns /\ Windows \in Nat
  <2>1. /\ wrote \in {"nothing", "velocity"} /\ writing \in 0..Windows /\ Windows \in Nat
        /\ periodEnd \in Day /\ run \in 0..MaxRuns
    BY DashboardAssumption DEF DashboardInv, DashboardTypes, DashboardTypeOK
  <2>2. writing # 0 /\ wrote = "nothing"
    BY <2>1 DEF WriteVelocities, Writes, NextPart
  <2>3. QED
    BY <2>1, <2>2 DEF Window
<1>2. wrote' = "velocity" /\ UNCHANGED <<writing, periodEnd>>
  BY <1>1, AdvanceIs DEF WriteVelocities, DashboardInv
<1>3. /\ velocity' \in [Window -> [Day -> 0..MaxRuns]]
      /\ velocity'[writing][periodEnd] = run
      /\ \A r \in Window \X Day :
           r # <<writing, periodEnd>> => velocity'[r[1]][r[2]] = velocity[r[1]][r[2]]
  BY <1>1 DEF WriteVelocities, DashboardInv, DashboardTypes, DashboardTypeOK
<1>4. DashboardTypes'
  BY <1>1, <1>2, <1>3 DEF WriteVelocities, DashboardInv, DashboardTypes, DashboardTypeOK, loads
<1>5. Stamped'
  BY DEF WriteVelocities, DashboardInv, Stamped, Rows, loads
<1>6. Dated'
  <2>1. \A r \in Window \X Day :
          velocity'[r[1]][r[2]] # 0 \/ metrics'[r[1]][r[2]] # 0 =>
            r[2] = periodEnd \/ velocity[r[1]][r[2]] # 0 \/ metrics[r[1]][r[2]] # 0
    BY <1>3 DEF WriteVelocities
  <2>2. QED
    BY <1>1, <2>1, DatedKeeps DEF WriteVelocities
<1>7. RunIsWritten'
  <2>1. ~closed' /\ run' > 0
    BY <1>1 DEF WriteVelocities, DashboardInv, RunIsWritten
  <2>2. ASSUME sameDay, NEW w \in Window, w < writing PROVE Both(w)'
    BY <1>1, <1>2, <1>3, <2>2 DEF WriteVelocities, DashboardInv, RunIsWritten, Both, Window
  <2>3. QED
    BY <1>1, <1>2, <1>3, <2>1, <2>2 DEF WriteVelocities, RunIsWritten
<1>8. NothingRead' /\ ReadIsCurrent' /\ CacheIsCurrent'
  BY <1>1, Unsettled DEF WriteVelocities, DashboardInv, RunIsWritten
<1>9. QED
  BY <1>4, <1>5, <1>6, <1>7, <1>8 DEF DashboardInv

LEMMA MetricsKeep ==
  ASSUME DashboardInv, WriteMetrics
  PROVE  DashboardInv'
<1>1. /\ writing # 0 /\ wrote = "velocity" /\ writing \in Window /\ periodEnd \in Day
      /\ run \in 0..MaxRuns /\ Windows \in Nat /\ run > 0 /\ run \in Nat /\ lastStamp \in Nat
  BY DashboardAssumption
  DEF WriteMetrics, Writes, NextPart, DashboardInv, DashboardTypes, DashboardTypeOK, Window,
      RunIsWritten
<1>2. /\ wrote' = "nothing"
      /\ writing < Windows => writing' = writing + 1 /\ periodEnd' = today
      /\ ~(writing < Windows) => writing' = 0 /\ UNCHANGED periodEnd
  BY <1>1, AdvanceIs DEF WriteMetrics, DashboardInv
<1>3. /\ metrics' \in [Window -> [Day -> 0..MaxRuns]]
      /\ metrics'[writing][periodEnd] = run
      /\ \A r \in Window \X Day :
           r # <<writing, periodEnd>> => metrics'[r[1]][r[2]] = metrics[r[1]][r[2]]
  BY <1>1 DEF WriteMetrics, DashboardInv, DashboardTypes, DashboardTypeOK
<1>4. /\ computedAt' \in [Window -> [Day -> Nat]]
      /\ computedAt'[writing][periodEnd] = lastStamp + 1
      /\ \A r \in Window \X Day :
           r # <<writing, periodEnd>> => computedAt'[r[1]][r[2]] = computedAt[r[1]][r[2]]
  BY SMTT(30), <1>1 DEF WriteMetrics, DashboardInv, DashboardTypes, DashboardTypeOK
<1>5. DashboardTypes'
  <2>1. /\ writing' \in 0..Windows /\ wrote' \in {"nothing", "velocity"} /\ periodEnd' \in Day
        /\ lastStamp' \in Nat /\ closed' \in BOOLEAN /\ sameDay' \in BOOLEAN
    BY SMTT(30), <1>1, AdvanceType DEF WriteMetrics, OneDay, DashboardInv, DashboardTypes, DashboardTypeOK
  <2>2. DOMAIN cache' \subseteq Key
    BY DEF WriteMetrics
  <2>3. QED
    BY <1>3, <1>4, <2>1, <2>2
    DEF WriteMetrics, DashboardInv, DashboardTypes, DashboardTypeOK, loads
<1>6. Stamped'
  <2>1. ASSUME NEW r \in Window \X Day PROVE computedAt'[r[1]][r[2]] <= lastStamp'
    <3>1. computedAt[r[1]][r[2]] \in Nat /\ computedAt[r[1]][r[2]] <= lastStamp
      BY DEF DashboardInv, DashboardTypes, DashboardTypeOK, Stamped
    <3>2. QED
      BY <1>1, <1>4, <3>1 DEF WriteMetrics
  <2>2. <<writing, periodEnd>> \in Rows'
    BY <1>1, <1>3 DEF Rows
  <2>3. ASSUME NEW l \in Load PROVE asked'[l][2] <= lastStamp'
    <3>1. asked[l][2] \in Nat /\ asked[l][2] <= lastStamp
      BY DEF DashboardInv, DashboardTypes, DashboardTypeOK, Stamped, Key
    <3>2. QED
      BY <1>1, <3>1 DEF WriteMetrics, loads
  <2>4. QED
    BY <1>4, <2>1, <2>2, <2>3 DEF Stamped, WriteMetrics
<1>7. Dated'
  <2>1. \A r \in Window \X Day :
          velocity'[r[1]][r[2]] # 0 \/ metrics'[r[1]][r[2]] # 0 =>
            r[2] = periodEnd \/ velocity[r[1]][r[2]] # 0 \/ metrics[r[1]][r[2]] # 0
    BY <1>3 DEF WriteMetrics
  <2>2. QED
    BY <1>1, <2>1, DatedKeeps DEF WriteMetrics
<1>8. RunIsWritten'
  <2>1. ASSUME sameDay, NEW w \in Window, w <= writing
        PROVE  velocity'[w][periodEnd] = run /\ metrics'[w][periodEnd] = run
    <3>1. CASE w = writing
      BY <1>1, <1>3, <2>1, <3>1 DEF WriteMetrics, DashboardInv, RunIsWritten
    <3>2. CASE w < writing
      BY <1>1, <1>3, <2>1, <3>2 DEF WriteMetrics, DashboardInv, RunIsWritten, Both, Window
    <3>3. QED
      BY <1>1, <2>1, <3>1, <3>2 DEF Window
  <2>2. CASE writing < Windows
    <3>1. ~closed' /\ writing' = writing + 1 /\ run' = run /\ (sameDay' => sameDay /\ periodEnd' = periodEnd)
      <4>1. writing # Windows
        BY <1>1, <2>2 DEF Window
      <4>2. ~closed' /\ writing' = writing + 1 /\ run' = run /\ periodEnd' = today
        BY <1>2, <2>2, <4>1 DEF WriteMetrics
      <4>3. sameDay' => sameDay /\ today = periodEnd
        BY <2>2, Zenon DEF WriteMetrics, OneDay
      <4>4. QED
        BY <4>2, <4>3
    <3>2. \A w \in Window : w < writing' => w <= writing
      BY <1>1, <3>1 DEF Window
    <3>3. QED
      BY <1>1, <1>2, <2>1, <3>1, <3>2 DEF RunIsWritten, Both
  <2>3. CASE ~(writing < Windows)
    <3>1. closed' /\ writing' = 0 /\ run' = run /\ periodEnd' = periodEnd /\ (sameDay' => sameDay)
      <4>1. writing = Windows
        BY <1>1, <2>3 DEF Window
      <4>2. closed' /\ writing' = 0 /\ run' = run /\ periodEnd' = periodEnd
        BY <1>2, <2>3, <4>1 DEF WriteMetrics
      <4>3. sameDay' => sameDay
        BY Zenon DEF WriteMetrics, OneDay
      <4>4. QED
        BY <4>2, <4>3
    <3>2. \A w \in Window : w <= writing
      BY <1>1, <2>3 DEF Window
    <3>3. QED
      BY <2>1, <3>1, <3>2 DEF RunIsWritten, Both
  <2>4. QED
    BY <2>2, <2>3
<1>9. NothingRead'
  BY DEF WriteMetrics, DashboardInv, NothingRead, loads
<1>10. ReadIsCurrent'
  <2>1. \A l \in Load : asked'[l][2] # lastStamp'
    <3>1. \A l \in Load : asked[l][2] \in Nat /\ asked[l][2] <= lastStamp
      BY DEF DashboardInv, DashboardTypes, DashboardTypeOK, Stamped, Key
    <3>2. QED
      BY <1>1, <3>1 DEF WriteMetrics, loads
  <2>2. QED
    BY <2>1 DEF ReadIsCurrent
<1>11. CacheIsCurrent'
  BY DEF WriteMetrics, CacheIsCurrent
<1>12. QED
  BY <1>5, <1>6, <1>7, <1>8, <1>9, <1>10, <1>11 DEF DashboardInv

LEMMA RunFailureKeeps ==
  ASSUME DashboardInv, WriteFails \/ WorkerDies
  PROVE  DashboardInv'
<1>1. /\ writing # 0 /\ run > 0 /\ ~closed' /\ ~sameDay' /\ UNCHANGED run
      /\ failures + 1 \in 0..MaxFailures /\ 0 \in 0..Windows
  BY DashboardAssumption
  DEF WriteFails, WorkerDies, DashboardInv, DashboardTypes, DashboardTypeOK, RunIsWritten, worker
<1>2. DashboardTypes'
  BY <1>1, AdvanceType
  DEF WriteFails, WorkerDies, DashboardInv, DashboardTypes, DashboardTypeOK, tables, loads
<1>3. Stamped'
  BY DEF WriteFails, WorkerDies, DashboardInv, Stamped, Rows, tables, loads
<1>4. Dated'
  <2>1. CASE WriteFails
    BY <1>1, <2>1, DatedKeeps DEF WriteFails, tables
  <2>2. CASE WorkerDies
    BY <2>2 DEF WorkerDies, DashboardInv, Dated, tables
  <2>3. QED
    BY <2>1, <2>2
<1>5. RunIsWritten'
  BY <1>1 DEF RunIsWritten
<1>6. NothingRead' /\ ReadIsCurrent' /\ CacheIsCurrent'
  BY <1>1, Unsettled DEF WriteFails, WorkerDies, DashboardInv
<1>7. QED
  BY <1>2, <1>3, <1>4, <1>5, <1>6 DEF DashboardInv

(* What steps of a load do not touch.                                      *)
LEMMA TablesStay ==
  ASSUME DashboardInv, UNCHANGED <<today, tables, worker>>
  PROVE  /\ Dated' /\ RunIsWritten' /\ UNCHANGED <<Rows, Velocities>>
         /\ \A w \in Window : UNCHANGED MetricsFor(w)
         /\ (\A l \in Load : asked'[l][2] <= lastStamp) => Stamped'
<1>1. Dated' /\ RunIsWritten'
  BY DEF DashboardInv, Dated, RunIsWritten, Both, tables, worker
<1>2. UNCHANGED <<Rows, Velocities>> /\ \A w \in Window : UNCHANGED MetricsFor(w)
  BY DEF Rows, MetricsFor, Newest, RowOf, Velocities, tables
<1>3. (\A l \in Load : asked'[l][2] <= lastStamp) => Stamped'
  BY <1>2 DEF DashboardInv, Stamped, tables, worker
<1>4. QED
  BY <1>1, <1>2, <1>3

(* A load asks for the newest stamp, or for none.                          *)
LEMMA AskKeeps ==
  ASSUME DashboardInv, NEW l \in Load, NEW w \in Window, LoadStamp(l, w) \/ LoadStampFails(l, w)
  PROVE  DashboardInv'
<1>1. PICK s \in {0, lastStamp} :
        /\ asked' = [asked EXCEPT ![l] = <<w, s>>]
        /\ loadAt[l] = "idle" /\ loadAt' = [loadAt EXCEPT ![l] = "stamped"]
        /\ UNCHANGED <<today, tables, worker, cache, gotMetrics, gotVelocity, spoilt>>
        /\ failures' \in 0..MaxFailures
  <2>1. Stamp = lastStamp /\ failures \in 0..MaxFailures /\ MaxFailures \in Nat
    BY DashboardAssumption, StampIsLast DEF DashboardInv, DashboardTypes, DashboardTypeOK
  <2>2. CASE LoadStamp(l, w)
    BY <2>1, <2>2 DEF LoadStamp
  <2>3. CASE LoadStampFails(l, w)
    BY <2>1, <2>3 DEF LoadStampFails
  <2>4. QED
    BY <2>2, <2>3
<1>2. /\ lastStamp \in Nat /\ asked \in [Load -> Key] /\ s \in Nat /\ s <= lastStamp
      /\ <<w, s>> \in Key
  BY DEF DashboardInv, DashboardTypes, DashboardTypeOK, Key
<1>3. DashboardTypes'
  BY <1>1, <1>2 DEF DashboardInv, DashboardTypes, DashboardTypeOK, tables, worker
<1>4. Stamped' /\ Dated' /\ RunIsWritten'
  <2>1. \A k \in Load : asked'[k][2] <= lastStamp
    BY <1>1, <1>2 DEF DashboardInv, Stamped
  <2>2. QED
    BY <1>1, <2>1, TablesStay
<1>5. NothingRead'
  BY <1>1 DEF DashboardInv, DashboardTypes, DashboardTypeOK, NothingRead
<1>6. ReadIsCurrent'
  <2>1. \A k \in Load : k # l => asked'[k] = asked[k] /\ asked[k][1] \in Window
    BY <1>1, <1>2 DEF Key
  <2>2. gotMetrics[l] = Unread /\ gotVelocity[l] = Unread
    BY <1>1 DEF DashboardInv, NothingRead
  <2>3. QED
    BY <1>1, <2>1, <2>2, TablesStay DEF DashboardInv, ReadIsCurrent, worker
<1>7. CacheIsCurrent'
  <2>1. Stamp' = Stamp
    BY <1>1, TablesStay DEF Stamp, tables
  <2>2. QED
    BY <1>1, <2>1, TablesStay
    DEF DashboardInv, DashboardTypes, DashboardTypeOK, CacheIsCurrent, Key, worker
<1>8. QED
  BY <1>3, <1>4, <1>5, <1>6, <1>7 DEF DashboardInv

(* An answer leaves nothing of the load.                                   *)
LEMMA AnswerKeeps ==
  ASSUME DashboardInv, NEW l \in Load, Answer(l), UNCHANGED <<today, tables, worker, failures>>,
         DOMAIN cache' \subseteq Key, CacheIsCurrent'
  PROVE  DashboardInv'
<1>1. /\ <<1, 0>> \in Key /\ Unread \in Entry
      /\ asked \in [Load -> Key] /\ gotMetrics \in [Load -> Entry] /\ gotVelocity \in [Load -> Entry]
      /\ loadAt \in [Load -> {"idle", "stamped", "fetching"}] /\ lastStamp \in Nat
  <2>1. 1 \in Window /\ MaxRuns + 1 \in Nat
    BY DashboardAssumption DEF Window
  <2>2. <<1, 0>> \in Key /\ Unread \in Entry
    BY <2>1 DEF Key, Unread, Entry
  <2>3. QED
    BY <2>2 DEF DashboardInv, DashboardTypes, DashboardTypeOK
<1>2. DashboardTypes'
  BY <1>1 DEF Answer, DashboardInv, DashboardTypes, DashboardTypeOK, tables, worker
<1>3. Stamped' /\ Dated' /\ RunIsWritten'
  <2>1. \A k \in Load : asked'[k][2] <= lastStamp
    BY <1>1 DEF Answer, DashboardInv, Stamped
  <2>2. QED
    BY <2>1, TablesStay
<1>4. NothingRead'
  BY <1>1 DEF Answer, DashboardInv, NothingRead
<1>5. ReadIsCurrent'
  <2>1. \A k \in Load : k # l => /\ asked'[k] = asked[k] /\ asked[k][1] \in Window
                                 /\ gotMetrics'[k] = gotMetrics[k] /\ gotVelocity'[k] = gotVelocity[k]
                                 /\ k \in spoilt' <=> k \in spoilt
    BY <1>1 DEF Answer, Key
  <2>2. gotMetrics'[l] = Unread /\ gotVelocity'[l] = Unread
    BY <1>1 DEF Answer
  <2> SUFFICES ASSUME closed', NEW k \in Load, k # l, asked[k][2] = lastStamp, k \notin spoilt
               PROVE  /\ gotMetrics[k] # Unread => gotMetrics[k] \in MetricsFor(asked[k][1])
                      /\ gotVelocity[k] # Unread => gotVelocity[k] \in Velocities
    <3>1. /\ Velocities' = Velocities /\ closed' = closed /\ lastStamp' = lastStamp
          /\ \A w \in Window : MetricsFor(w)' = MetricsFor(w)
      BY TablesStay DEF worker
    <3> HIDE DEF Velocities, MetricsFor
    <3>2. QED
      BY <2>1, <2>2, <3>1 DEF ReadIsCurrent
  <2>3. QED
    BY DEF DashboardInv, ReadIsCurrent, worker
<1>6. QED
  BY <1>2, <1>3, <1>4, <1>5 DEF DashboardInv

LEMMA HitKeeps ==
  ASSUME DashboardInv, NEW l \in Load, CacheHit(l)
  PROVE  DashboardInv'
<1>1. Stamp' = Stamp
  BY TablesStay DEF CacheHit, Stamp, tables
<1>2. CacheIsCurrent'
  BY <1>1, TablesStay DEF CacheHit, DashboardInv, DashboardTypes, DashboardTypeOK, CacheIsCurrent,
                          Key, worker
<1>3. DOMAIN cache' \subseteq Key
  BY DEF CacheHit, DashboardInv, DashboardTypes, DashboardTypeOK
<1>4. QED
  BY <1>2, <1>3, AnswerKeeps DEF CacheHit

LEMMA FillKeeps ==
  ASSUME DashboardInv, NEW l \in Load, FillCache(l)
  PROVE  DashboardInv'
<1> DEFINE kept == {q \in DOMAIN cache : q[2] = Stamp}
           entry == [metrics |-> gotMetrics[l], velocity |-> gotVelocity[l],
                     whole |-> l \notin spoilt]
<1>1. /\ cache' = [q \in kept \cup {asked[l]} |-> IF q = asked[l] THEN entry ELSE cache[q]]
      /\ Answer(l) /\ UNCHANGED <<today, tables, worker, failures>>
      /\ gotMetrics[l] # Unread /\ gotVelocity[l] # Unread
  BY DEF FillCache, FileUnder
<1>2. asked[l] \in Key /\ DOMAIN cache \subseteq Key /\ Stamp = lastStamp
  BY StampIsLast DEF DashboardInv, DashboardTypes, DashboardTypeOK
<1>3. DOMAIN cache' \subseteq Key
  BY <1>1, <1>2
<1>4. Stamp' = Stamp
  BY <1>1, TablesStay DEF Stamp, tables
<1>5. CacheIsCurrent'
  <2> SUFFICES ASSUME closed', NEW k \in DOMAIN cache', k[2] = Stamp', cache'[k].whole
               PROVE  cache'[k].metrics \in MetricsFor(k[1])' /\ cache'[k].velocity \in Velocities'
    BY DEF CacheIsCurrent
  <2>1. closed /\ k \in Key /\ k[1] \in Window /\ k[2] = Stamp
    BY <1>1, <1>3, <1>4 DEF worker, Key
  <2>2. cache'[k].metrics \in MetricsFor(k[1]) /\ cache'[k].velocity \in Velocities
    <3>1. CASE k = asked[l]
      <4>1. cache'[k] = entry
        BY <1>1, <3>1
      <4>2. l \notin spoilt
        <5>1. entry.whole
          BY <4>1
        <5>2. entry.whole = (l \notin spoilt)
          OBVIOUS
        <5>3. QED
          BY <5>1, <5>2, Zenon
      <4>3. asked[l][2] = lastStamp
        BY <1>2, <2>1, <3>1
      <4>4. gotMetrics[l] \in MetricsFor(asked[l][1]) /\ gotVelocity[l] \in Velocities
        BY <1>1, <2>1, <4>2, <4>3 DEF DashboardInv, ReadIsCurrent
      <4>5. QED
        BY <3>1, <4>1, <4>4
    <3>2. CASE k # asked[l]
      <4>1. k \in DOMAIN cache /\ cache'[k] = cache[k]
        BY <1>1, <3>2
      <4>2. QED
        BY <2>1, <4>1 DEF DashboardInv, CacheIsCurrent
    <3>3. QED
      BY <3>1, <3>2
  <2>3. QED
    BY <1>1, <2>1, <2>2, TablesStay
<1>6. QED
  BY <1>1, <1>3, <1>5, AnswerKeeps

(* A load that fetches reads both tables; what a failed query is taken for *)
(* spoils its entry.                                                       *)
LEMMA FetchKeeps ==
  ASSUME DashboardInv, NEW l \in Load,
         UNCHANGED <<today, tables, worker, cache, asked>>, failures' \in 0..MaxFailures,
         loadAt' = [loadAt EXCEPT ![l] = "fetching"],
         gotMetrics' \in [Load -> Entry], gotVelocity' \in [Load -> Entry],
         spoilt' \subseteq Load, spoilt \subseteq spoilt',
         \A k \in Load : k # l => /\ gotMetrics'[k] = gotMetrics[k]
                                  /\ gotVelocity'[k] = gotVelocity[k]
                                  /\ k \in spoilt' => k \in spoilt,
         l \notin spoilt' =>
           /\ gotMetrics'[l] = gotMetrics[l] \/ gotMetrics'[l] \in MetricsFor(asked[l][1])
           /\ gotVelocity'[l] = gotVelocity[l] \/ gotVelocity'[l] \in Velocities
  PROVE  DashboardInv'
<1>1. DashboardTypes'
  BY DEF DashboardInv, DashboardTypes, DashboardTypeOK, tables, worker
<1>2. Stamped' /\ Dated' /\ RunIsWritten'
  BY TablesStay DEF DashboardInv, Stamped
<1>3. NothingRead'
  <2> SUFFICES ASSUME NEW k \in Load, loadAt'[k] # "fetching"
               PROVE  gotMetrics'[k] = Unread /\ gotVelocity'[k] = Unread /\ k \notin spoilt'
    BY DEF NothingRead
  <2>1. k # l /\ loadAt[k] # "fetching"
    BY DEF DashboardInv, DashboardTypes, DashboardTypeOK
  <2>2. /\ gotMetrics'[k] = gotMetrics[k] /\ gotVelocity'[k] = gotVelocity[k]
        /\ k \in spoilt' => k \in spoilt
    BY <2>1, Zenon
  <2>3. QED
    BY <2>1, <2>2 DEF DashboardInv, NothingRead
<1>4. \A k \in Load : asked[k][1] \in Window
  BY DEF DashboardInv, DashboardTypes, DashboardTypeOK, Key
<1>5. ReadIsCurrent'
  <2> SUFFICES ASSUME closed, NEW k \in Load, asked[k][2] = lastStamp, k \notin spoilt'
               PROVE  /\ gotMetrics'[k] # Unread => gotMetrics'[k] \in MetricsFor(asked[k][1])
                      /\ gotVelocity'[k] # Unread => gotVelocity'[k] \in Velocities
    BY <1>4, TablesStay DEF ReadIsCurrent, worker
  <2>1. k \notin spoilt
    BY Zenon
  <2>2. /\ gotMetrics[k] # Unread => gotMetrics[k] \in MetricsFor(asked[k][1])
        /\ gotVelocity[k] # Unread => gotVelocity[k] \in Velocities
    BY <2>1 DEF DashboardInv, ReadIsCurrent
  <2>3. CASE k = l
    BY <2>2, <2>3
  <2>4. CASE k # l
    <3>1. gotMetrics'[k] = gotMetrics[k] /\ gotVelocity'[k] = gotVelocity[k]
      BY <2>4, Zenon
    <3>2. QED
      BY <2>2, <3>1
  <2>5. QED
    BY <2>3, <2>4
<1>6. CacheIsCurrent'
  <2>1. Stamp' = Stamp
    BY ZenonT(60), TablesStay DEF Stamp, tables
  <2>2. QED
    BY <2>1, TablesStay DEF DashboardInv, DashboardTypes, DashboardTypeOK, CacheIsCurrent, Key, worker
<1>7. QED
  BY <1>1, <1>2, <1>3, <1>5, <1>6 DEF DashboardInv

LEMMA EntryTypes ==
  ASSUME DashboardTypeOK
  PROVE  /\ NoRow \in Entry
         /\ \A w \in Window : MetricsFor(w) \subseteq Entry
         /\ Velocities \subseteq Entry
<1>1. \A r \in Window \X Day : /\ r[1] \in Nat /\ velocity[r[1]][r[2]] \in Nat
                               /\ metrics[r[1]][r[2]] \in Nat
  BY DEF DashboardTypeOK, Window
<1>2. NoRow \in Entry
  BY DEF NoRow, Entry
<1>3. ASSUME NEW w \in Window PROVE MetricsFor(w) \subseteq Entry
  <2>1. Newest \subseteq Window \X Day
    BY DEF Newest, Rows
  <2>2. \A r \in Newest : RowOf(r) \in Entry
    BY <1>1, <2>1 DEF RowOf, Entry
  <2>3. QED
    BY <1>2, <2>2 DEF MetricsFor
<1>4. Velocities \subseteq Entry
  BY <1>1, <1>2 DEF Velocities, Entry
<1>5. QED
  BY <1>2, <1>3, <1>4

LEMMA LoadKeeps ==
  ASSUME DashboardInv, NEW l \in Load,
         \/ CacheMiss(l) \/ CacheRevalidates(l)
         \/ ReadMetrics(l) \/ ReadVelocity(l) \/ ReadMetricsFails(l) \/ ReadVelocityFails(l)
  PROVE  DashboardInv'
<1>1. /\ gotMetrics \in [Load -> Entry] /\ gotVelocity \in [Load -> Entry] /\ spoilt \subseteq Load
      /\ failures \in 0..MaxFailures /\ MaxFailures \in Nat
      /\ loadAt \in [Load -> {"idle", "stamped", "fetching"}] /\ asked[l][1] \in Window
      /\ DashboardTypeOK
  BY DashboardAssumption DEF DashboardInv, DashboardTypes, DashboardTypeOK, Key
<1>2. CASE CacheMiss(l) \/ CacheRevalidates(l)
  BY <1>1, <1>2, FetchKeeps DEF CacheMiss, CacheRevalidates, StartFetch
<1>3. CASE ReadMetrics(l)
  <2>1. PICK row \in MetricsFor(asked[l][1]) : gotMetrics' = [gotMetrics EXCEPT ![l] = row]
    BY <1>3 DEF ReadMetrics
  <2>2. row \in Entry
    BY <1>1, EntryTypes
  <2>3. loadAt' = [loadAt EXCEPT ![l] = "fetching"]
    BY <1>1, <1>3 DEF ReadMetrics
  <2>4. QED
    BY <1>1, <1>3, <2>1, <2>2, <2>3, FetchKeeps DEF ReadMetrics
<1>4. CASE ReadVelocity(l)
  <2>1. PICK row \in Velocities : gotVelocity' = [gotVelocity EXCEPT ![l] = row]
    BY <1>4 DEF ReadVelocity
  <2>2. row \in Entry
    BY <1>1, EntryTypes
  <2>3. loadAt' = [loadAt EXCEPT ![l] = "fetching"]
    BY <1>1, <1>4 DEF ReadVelocity
  <2>4. QED
    BY <1>1, <1>4, <2>1, <2>2, <2>3, FetchKeeps DEF ReadVelocity
<1>5. CASE ReadMetricsFails(l) \/ ReadVelocityFails(l)
  <2>1. /\ failures' \in 0..MaxFailures /\ NoRow \in Entry
        /\ loadAt' = [loadAt EXCEPT ![l] = "fetching"]
    BY <1>1, <1>5, EntryTypes DEF ReadMetricsFails, ReadVelocityFails
  <2>2. CASE ReadMetricsFails(l)
    BY <1>1, <2>1, <2>2, FetchKeeps DEF ReadMetricsFails
  <2>3. CASE ReadVelocityFails(l)
    BY <1>1, <2>1, <2>3, FetchKeeps DEF ReadVelocityFails
  <2>4. QED
    BY <1>5, <2>2, <2>3
<1>6. QED
  BY <1>2, <1>3, <1>4, <1>5

LEMMA StepDashboard == DashboardInv /\ [DashboardNext]_dashboardVars => DashboardInv'
<1> SUFFICES ASSUME DashboardInv, [DashboardNext]_dashboardVars PROVE DashboardInv'
  OBVIOUS
<1>1. CASE DashboardNext
  BY <1>1, MidnightKeeps, StartKeeps, VelocitiesKeep, MetricsKeep, RunFailureKeeps,
     AskKeeps, HitKeeps, LoadKeeps, FillKeeps DEF DashboardNext
<1>2. CASE UNCHANGED dashboardVars
  <2>1. UNCHANGED <<today, tables, worker, failures, cache, loads>>
    BY <1>2 DEF dashboardVars
  <2>2. DashboardTypes' /\ NothingRead'
    BY <2>1 DEF DashboardInv, DashboardTypes, DashboardTypeOK, NothingRead, tables, worker, loads
  <2>3. Stamped' /\ Dated' /\ RunIsWritten'
    BY <2>1, TablesStay DEF DashboardInv, Stamped, loads
  <2>4. Stamp' = Stamp
    BY <2>1, TablesStay DEF Stamp, tables
  <2>5. \A k \in Key : k[1] \in Window
    BY DEF Key
  <2>6. ReadIsCurrent' /\ CacheIsCurrent'
    BY <2>1, <2>4, <2>5, TablesStay
    DEF DashboardInv, DashboardTypes, DashboardTypeOK, ReadIsCurrent, CacheIsCurrent, worker, loads
  <2>7. QED
    BY <2>2, <2>3, <2>6 DEF DashboardInv
<1>3. QED
  BY <1>1, <1>2

LEMMA InvDashboard == DashboardSpec => []DashboardInv
BY InitDashboard, StepDashboard, PTL DEF DashboardSpec

(* Every reachable state of the dashboard's model is well typed: a cached  *)
(* entry is of a load, a row of a run (dashboard-cache.ts, recalc.py).     *)
THEOREM DashboardTypeCorrect == DashboardSpec => []DashboardTypeOK
<1>1. DashboardInv => DashboardTypeOK
  BY DEF DashboardInv, DashboardTypes
<1>2. QED
  BY <1>1, InvDashboard, PTL

(* After a run that wrote all its rows under one day a reader finds that   *)
(* run's, and the metrics of the window asked for.                         *)
LEMMA ReadersFindTheRun ==
  ASSUME DashboardInv, closed, sameDay, run > 0, NEW w \in Window
  PROVE  /\ MetricsFor(w) = {[window |-> w, run |-> run]}
         /\ \A row \in Velocities : row.run = run
<1>1. \A v \in Window : velocity[v][periodEnd] = run /\ metrics[v][periodEnd] = run
  BY DEF DashboardInv, RunIsWritten, Both
<1>2. /\ periodEnd \in Day /\ periodEnd \in Nat /\ run # 0
      /\ \A r \in Window \X Day : r[2] \in Nat
  BY DEF DashboardInv, DashboardTypes, DashboardTypeOK, Day
<1>3. \A r \in Window \X Day :
        velocity[r[1]][r[2]] # 0 \/ metrics[r[1]][r[2]] # 0 => r[2] <= periodEnd
  BY DEF DashboardInv, Dated
<1>4. Newest = Window \X {periodEnd}
  <2>1. \A v \in Window : <<v, periodEnd>> \in Rows
    BY <1>1, <1>2 DEF Rows
  <2>2. \A r \in Rows : r \in Window \X Day /\ r[2] <= periodEnd
    BY <1>3 DEF Rows
  <2>3. Window \X {periodEnd} \subseteq Newest
    BY <2>1, <2>2 DEF Newest
  <2>4. ASSUME NEW r \in Newest PROVE r \in Window \X {periodEnd}
    <3>1. r \in Rows /\ r[2] >= periodEnd
      BY <1>2, <2>1, <2>2 DEF Newest
    <3>2. QED
      BY <1>2, <2>2, <3>1
  <2>5. QED
    BY <2>3, <2>4
<1>5. MetricsFor(w) = {[window |-> w, run |-> run]}
  <2>1. <<w, periodEnd>> \in Newest /\ Newest \subseteq Rows
    BY <1>4 DEF Newest
  <2>2. {q \in Newest : q[1] = w} = {<<w, periodEnd>>}
    BY <1>4
  <2>3. Rows # {} /\ \E r \in Newest : r[1] = w
    BY <2>1
  <2>4. MetricsFor(w) = {RowOf(r) : r \in {<<w, periodEnd>>}}
    BY <2>2, <2>3 DEF MetricsFor
  <2>5. RowOf(<<w, periodEnd>>) = [window |-> w, run |-> run]
    BY <1>1 DEF RowOf
  <2>6. QED
    BY <2>4, <2>5
<1>6. ASSUME NEW row \in Velocities PROVE row.run = run
  <2> DEFINE measured == {r \in Window \X Day : velocity[r[1]][r[2]] # 0}
             newest == {r \in measured : \A q \in measured : q[2] <= r[2]}
  <2>1. \A v \in Window : <<v, periodEnd>> \in measured
    BY <1>1, <1>2
  <2>2. ASSUME NEW r \in newest PROVE r \in Window \X Day /\ r[2] = periodEnd
    <3>1. r \in Window \X Day /\ velocity[r[1]][r[2]] # 0
      OBVIOUS
    <3>2. r[2] \in Nat /\ r[2] <= periodEnd
      BY <1>2, <1>3, <3>1
    <3>3. periodEnd <= r[2]
      BY <2>1
    <3>4. QED
      BY <1>2, <3>1, <3>2, <3>3
  <2>3. PICK r \in newest : row = [window |-> r[1], run |-> velocity[r[1]][r[2]]]
    BY <2>1 DEF Velocities
  <2>4. QED
    BY <1>1, <2>2, <2>3
<1>7. QED
  BY <1>5, <1>6

(* For any windows, loads and failures: the cached figures are those of the*)
(* tables, and after a run without a flaw that run's (dashboard-cache.ts). *)
THEOREM TilesAreTrue == DashboardSpec => []DashboardIsTrue
<1>1. DashboardInv => DashboardIsTrue
  <2> SUFFICES ASSUME DashboardInv PROVE DashboardIsTrue
    OBVIOUS
  <2>1. CacheIsCurrent
    BY DEF DashboardInv
  <2>2. TilesShowTheLastRun
    <3> SUFFICES ASSUME closed, sameDay, run > 0, NEW k \in DOMAIN cache,
                        k[2] = Stamp, cache[k].whole
                 PROVE  /\ cache[k].metrics = [window |-> k[1], run |-> run]
                        /\ cache[k].velocity.run = run
      BY DEF TilesShowTheLastRun
    <3>1. k[1] \in Window
      BY DEF DashboardInv, DashboardTypes, DashboardTypeOK, Key
    <3>2. cache[k].metrics \in MetricsFor(k[1]) /\ cache[k].velocity \in Velocities
      BY DEF DashboardInv, CacheIsCurrent
    <3>3. QED
      BY <3>1, <3>2, ReadersFindTheRun
  <2>3. QED
    BY <2>1, <2>2 DEF DashboardIsTrue
<1>2. QED
  BY <1>1, InvDashboard, PTL

-----------------------------------------------------------------------------
(* Sync errors: the seller is told, and the monitor's flag is true.       *)

Age == Nat \cup {Never}

Telling == {Quiet} \cup [at : {"row", "seller", "stamp"}, pause : BOOLEAN]

ErrorsTypes ==
  /\ count \in Nat /\ since \in Age /\ notified \in Age /\ attempted \in Age
  /\ onPause \in BOOLEAN /\ viewed \in BOOLEAN /\ mislaid \in BOOLEAN
  /\ amiss \in BOOLEAN /\ flagged \in BOOLEAN
  /\ telling \in Telling
  /\ watch \in {NotLooking} \cup [at : {"look"}, stale : BOOLEAN, alerted : BOOLEAN]
  /\ heard \in {"alarm", "recovery"}
  /\ lastTry \in {"success", "permanent", "transient", "orphan"}

(* The letter is still to be sent.                                         *)
OnItsWay == telling.at \in {"row", "seller"}

(* What the seller has to be told he has been told, or is being told; and  *)
(* the letter is not held back for one he has not been sent.               *)
LetterIsDue ==
  ~amiss =>
    /\ onPause => "pause" \in told \/ (OnItsWay /\ telling.pause)
    /\ lastTry = "permanent" => told # {} \/ OnItsWay
    /\ lastTry = "transient" /\ attempted = 0 /\ since >= SilentFor => told # {} \/ OnItsWay
    /\ notified # Never => told # {}
    /\ telling.at = "stamp" => told # {}

(* The flag is what the administrators have heard, and what the monitor    *)
(* found, if it has seen the row as it is.                                 *)
FlagIsHeard ==
  ~mislaid =>
    /\ heard = "alarm" <=> flagged
    /\ watch # NotLooking => watch.alerted = flagged
    /\ viewed /\ watch = NotLooking => flagged = IsStale

ErrorsInv == ErrorsTypes /\ LetterIsDue /\ FlagIsHeard

LEMMA OldestIs == Oldest \in Nat /\ Oldest > 1 /\ SilentFor \in Nat /\ SilentFor > 0
<1>1. /\ SilentFor \in Nat \ {0} /\ LetterPause \in Nat \ {0} /\ StaleAfter \in Nat \ {0}
  BY SyncErrorsAssumption
<1> DEFINE Terms == {SilentFor, LetterPause, StaleAfter}
           Longest(a) == \A b \in Terms : b <= a
<1>2. \E a \in Terms : Longest(a)
  BY <1>1
<1>3. (CHOOSE a \in Terms : Longest(a)) \in Terms
  BY <1>2
<1>4. QED
  BY <1>1, <1>3 DEF Oldest

LEMMA AgedIs ==
  ASSUME NEW age \in Age
  PROVE  Aged(age) \in Age /\ Aged(age) # 0 /\ (Aged(age) = Never <=> age = Never)
BY OldestIs DEF Age, Aged, Never

LEMMA InitErrors == ErrorsInit => ErrorsInv
<1> SUFFICES ASSUME ErrorsInit PROVE ErrorsInv
  OBVIOUS
<1>1. ErrorsTypes
  BY DEF ErrorsInit, ErrorsTypes, Age, Telling
<1>2. LetterIsDue
  BY OldestIs DEF ErrorsInit, LetterIsDue, Quiet
<1>3. FlagIsHeard
  BY DEF ErrorsInit, FlagIsHeard, NotLooking
<1>4. QED
  BY <1>1, <1>2, <1>3 DEF ErrorsInv

(* A sync, a resumption or the watchdog writes the row, or time passes: the*)
(* monitor's view of it is out of date.                                    *)
LEMMA FlagStays ==
  ASSUME FlagIsHeard, UNCHANGED watchVars, ~viewed'
  PROVE  FlagIsHeard'
BY DEF FlagIsHeard, watchVars

LEMMA SyncFailureKeeps ==
  ASSUME ErrorsInv, NEW readable \in BOOLEAN, NEW kind \in {"permanent", "transient"},
         SyncFails(readable, kind)
  PROVE  ErrorsInv'
<1>1. /\ telling = Quiet /\ ~onPause /\ PauseAfter \in Nat /\ PauseAfter > 0 /\ SilentFor \in Nat
      /\ EpisodeAge(readable) \in Age
  BY SyncErrorsAssumption DEF SyncFails, EpisodeAge, Age, ErrorsInv, ErrorsTypes
<1>2. PausesAt(readable, kind) \in BOOLEAN
  BY DEF PausesAt
<1>3. telling' \in Telling
  BY <1>2 DEF SyncFails, Telling
<1>4. ErrorsTypes'
  <2>1. UNCHANGED watchVars /\ UNCHANGED <<notified, told, amiss>> /\ attempted' = 0
        /\ since' = EpisodeAge(readable) /\ onPause' = PausesAt(readable, kind)
        /\ viewed' = FALSE /\ lastTry' = kind
    BY DEF SyncFails
  <2>2. count' \in Nat
    BY <1>1 DEF SyncFails, ErrorsInv, ErrorsTypes
  <2>3. onPause' \in BOOLEAN
    BY <1>2, <2>1, Zenon
  <2>4. QED
    BY <1>1, <1>3, <2>1, <2>2, <2>3 DEF watchVars, ErrorsInv, ErrorsTypes, Age
<1>5. PausesAt(readable, kind) => WorthALetter(readable, kind)
  BY DEF PausesAt, WorthALetter
<1>6. WorthALetter(readable, kind) =>
        telling' = [at |-> "row", pause |-> PausesAt(readable, kind)]
  BY DEF SyncFails
<1>7. LetterIsDue'
  <2>1. WorthALetter(readable, kind) => OnItsWay' /\ telling'.pause = PausesAt(readable, kind)
    BY <1>6 DEF OnItsWay
  <2>2. onPause' => OnItsWay' /\ telling'.pause
    BY <1>5, <2>1 DEF SyncFails
  <2>3. lastTry' = "permanent" => OnItsWay'
    BY <2>1 DEF SyncFails, WorthALetter
  <2>4. since' >= SilentFor => OnItsWay'
    BY <2>1 DEF SyncFails, WorthALetter
  <2>5. telling'.at # "stamp"
    BY DEF SyncFails, Quiet
  <2>6. UNCHANGED <<notified, told, amiss>>
    BY DEF SyncFails
  <2>7. QED
    BY <2>2, <2>3, <2>4, <2>5, <2>6 DEF ErrorsInv, LetterIsDue
<1>8. FlagIsHeard'
  BY FlagStays DEF SyncFails, ErrorsInv
<1>9. QED
  BY <1>4, <1>7, <1>8 DEF ErrorsInv

LEMMA LetterKeeps ==
  ASSUME ErrorsInv, LookAtRow \/ SendLetter \/ StampLetter \/ LetterCallRaises
  PROVE  ErrorsInv'
<1>1. UNCHANGED <<count, since, onPause, attempted, watchVars, viewed, lastTry>>
  BY DEF LookAtRow, SendLetter, StampLetter, LetterCallRaises
<1>2. FlagIsHeard'
  BY <1>1 DEF ErrorsInv, FlagIsHeard, IsStale, watchVars
<1>3. telling \in Telling /\ telling # Quiet /\ Quiet.at = "none"
  BY DEF LookAtRow, SendLetter, StampLetter, LetterCallRaises, ErrorsInv, ErrorsTypes, Quiet
<1>4. telling \in [at : {"row", "seller", "stamp"}, pause : BOOLEAN]
  BY <1>3 DEF Telling
<1>5. CASE LookAtRow
  <2>1. /\ telling' = IF Withheld THEN Quiet ELSE [telling EXCEPT !.at = "seller"]
        /\ UNCHANGED <<notified, told, amiss>> /\ telling.at = "row"
    BY <1>5 DEF LookAtRow
  <2>2. ErrorsTypes'
    BY <1>1, <1>4, <2>1 DEF ErrorsInv, ErrorsTypes, Telling, watchVars
  <2>3. CASE Withheld
    <3>1. ~telling.pause /\ notified # Never
      BY <2>3 DEF Withheld
    <3>2. LetterIsDue'
      BY <1>1, <1>3, <2>1, <2>3, <3>1 DEF ErrorsInv, LetterIsDue, OnItsWay
    <3>3. QED
      BY <1>2, <2>2, <3>2 DEF ErrorsInv
  <2>4. CASE ~Withheld
    <3>1. OnItsWay' /\ telling'.pause = telling.pause /\ telling'.at = "seller"
      BY <1>4, <2>1, <2>4 DEF OnItsWay
    <3>2. LetterIsDue'
      BY <1>1, <2>1, <3>1 DEF ErrorsInv, LetterIsDue
    <3>3. QED
      BY <1>2, <2>2, <3>2 DEF ErrorsInv
  <2>5. QED
    BY <2>3, <2>4
<1>6. CASE SendLetter
  <2>1. /\ telling' = [telling EXCEPT !.at = "stamp"] /\ telling.at = "seller"
        /\ told' = told \cup {IF telling.pause THEN "pause" ELSE "error"}
        /\ UNCHANGED <<notified, amiss>>
    BY <1>6 DEF SendLetter
  <2>2. ErrorsTypes'
    BY <1>1, <1>4, <2>1 DEF ErrorsInv, ErrorsTypes, Telling, watchVars
  <2>3. told' # {} /\ (telling.pause => "pause" \in told') /\ told \subseteq told'
    BY <2>1
  <2>4. LetterIsDue'
    BY <1>1, <2>1, <2>3 DEF ErrorsInv, LetterIsDue, OnItsWay
  <2>5. QED
    BY <1>2, <2>2, <2>4 DEF ErrorsInv
<1>7. CASE StampLetter
  <2>1. telling' = Quiet /\ telling.at = "stamp" /\ notified' = 0 /\ UNCHANGED <<told, amiss>>
    BY <1>7 DEF StampLetter
  <2>2. ErrorsTypes'
    BY <1>1, <2>1 DEF ErrorsInv, ErrorsTypes, Telling, Age, watchVars
  <2>3. LetterIsDue'
    BY <1>1, <1>3, <2>1 DEF ErrorsInv, LetterIsDue, OnItsWay
  <2>4. QED
    BY <1>2, <2>2, <2>3 DEF ErrorsInv
<1>8. CASE LetterCallRaises
  <2>1. telling' = Quiet /\ amiss' = TRUE /\ UNCHANGED <<notified, told>>
    BY <1>8 DEF LetterCallRaises
  <2>2. ErrorsTypes'
    BY <1>1, <2>1 DEF ErrorsInv, ErrorsTypes, Telling, watchVars
  <2>3. LetterIsDue'
    BY <2>1 DEF LetterIsDue
  <2>4. QED
    BY <1>2, <2>2, <2>3 DEF ErrorsInv
<1>9. QED
  BY <1>5, <1>6, <1>7, <1>8

(* A sync that succeeds, a resumption, the watchdog or a tick.             *)
LEMMA RowKeeps ==
  ASSUME ErrorsInv, SyncSucceeds \/ ResumeByUser \/ OrphanReset \/ TimePasses
  PROVE  ErrorsInv'
<1>1. FlagIsHeard'
  BY FlagStays DEF SyncSucceeds, ResumeByUser, OrphanReset, TimePasses, ErrorsInv
<1>2. ErrorsTypes'
  <2>1. since' \in Age /\ notified' \in Age /\ attempted' \in Age
    BY AgedIs DEF SyncSucceeds, ResumeByUser, OrphanReset, TimePasses, ErrorsInv, ErrorsTypes, Age
  <2>2. UNCHANGED watchVars /\ UNCHANGED telling
    BY DEF SyncSucceeds, ResumeByUser, OrphanReset, TimePasses
  <2>3. amiss' \in BOOLEAN
    <3>1. amiss \in BOOLEAN /\ (telling # Quiet) \in BOOLEAN
      BY DEF ErrorsInv, ErrorsTypes
    <3>2. QED
      BY <3>1, Zenon DEF SyncSucceeds, ResumeByUser, OrphanReset, TimePasses
  <2>4. /\ count' \in Nat /\ onPause' \in BOOLEAN /\ viewed' \in BOOLEAN
        /\ lastTry' \in {"success", "permanent", "transient", "orphan"}
    <3>1. CASE SyncSucceeds
      BY <3>1 DEF SyncSucceeds, ErrorsInv, ErrorsTypes
    <3>2. CASE ResumeByUser
      BY <3>2 DEF ResumeByUser, ErrorsInv, ErrorsTypes
    <3>3. CASE OrphanReset
      BY <3>3 DEF OrphanReset, ErrorsInv, ErrorsTypes
    <3>4. CASE TimePasses
      BY <3>4 DEF TimePasses, ErrorsInv, ErrorsTypes
    <3>5. QED
      BY <3>1, <3>2, <3>3, <3>4
  <2>5. QED
    BY <2>1, <2>2, <2>3, <2>4 DEF ErrorsInv, ErrorsTypes, watchVars
<1>3. CASE SyncSucceeds
  BY <1>1, <1>2, <1>3 DEF SyncSucceeds, ErrorsInv, LetterIsDue, Quiet
<1>4. CASE ResumeByUser
  <2>1. ~amiss' => telling' = Quiet
    BY <1>4, Zenon DEF ResumeByUser
  <2>2. ~onPause' /\ lastTry' = "success" /\ notified' = Never
    BY <1>4 DEF ResumeByUser
  <2>3. LetterIsDue'
    BY <2>1, <2>2 DEF LetterIsDue, Quiet
  <2>4. QED
    BY <1>1, <1>2, <2>3 DEF ErrorsInv
<1>5. CASE OrphanReset
  BY <1>1, <1>2, <1>5 DEF OrphanReset, ErrorsInv, LetterIsDue, OnItsWay
<1>6. CASE TimePasses
  <2>1. attempted' # 0 /\ (notified' # Never <=> notified # Never)
    BY <1>6, AgedIs DEF TimePasses, ErrorsInv, ErrorsTypes
  <2>2. LetterIsDue'
    BY <1>6, <2>1 DEF TimePasses, ErrorsInv, LetterIsDue, OnItsWay
  <2>3. QED
    BY <1>1, <1>2, <2>2 DEF ErrorsInv
<1>7. QED
  BY <1>3, <1>4, <1>5, <1>6

LEMMA MonitorKeeps ==
  ASSUME ErrorsInv, MonitorLooks \/ MonitorTells
  PROVE  ErrorsInv'
<1>1. UNCHANGED <<count, since, notified, onPause, attempted, telling, lastTry, told, amiss>>
  BY DEF MonitorLooks, MonitorTells
<1>2. LetterIsDue'
  BY <1>1 DEF ErrorsInv, LetterIsDue, OnItsWay
<1>3. IsStale \in BOOLEAN /\ IsStale' = IsStale
  BY <1>1 DEF IsStale
<1>4. CASE MonitorLooks
  <2>1. PICK alerted \in BOOLEAN :
          /\ watch' = [at |-> "look", stale |-> IsStale, alerted |-> alerted]
          /\ mislaid' \in BOOLEAN
          /\ ~mislaid' => ~mislaid /\ alerted = flagged
    <3>1. flagged \in BOOLEAN /\ mislaid \in BOOLEAN
      BY DEF ErrorsInv, ErrorsTypes
    <3>2. CASE watch' = [at |-> "look", stale |-> IsStale, alerted |-> flagged] /\ UNCHANGED mislaid
      BY <3>1, <3>2, Zenon
    <3>3. CASE watch' = [at |-> "look", stale |-> IsStale, alerted |-> TRUE] /\ mislaid' = TRUE
      BY <3>3, Zenon
    <3>4. QED
      BY <1>4, <3>2, <3>3 DEF MonitorLooks
  <2>2. UNCHANGED <<flagged, viewed, heard>> /\ watch = NotLooking
    BY <1>4 DEF MonitorLooks
  <2>3. watch' \in [at : {"look"}, stale : BOOLEAN, alerted : BOOLEAN]
    BY <1>3, <2>1
  <2>4. ErrorsTypes'
    BY <1>1, <2>1, <2>2, <2>3 DEF ErrorsInv, ErrorsTypes
  <2>5. watch' # NotLooking /\ watch'.alerted = alerted
    BY <2>1 DEF NotLooking
  <2>6. FlagIsHeard'
    BY <2>1, <2>2, <2>5 DEF ErrorsInv, FlagIsHeard
  <2>7. QED
    BY <1>2, <2>4, <2>6 DEF ErrorsInv
<1>5. CASE MonitorTells
  <2>1. /\ watch' = NotLooking /\ viewed' = (watch.stale = IsStale)
        /\ watch # NotLooking
        /\ watch.stale \in BOOLEAN /\ watch.alerted \in BOOLEAN
    BY <1>5 DEF MonitorTells, ErrorsInv, ErrorsTypes
  <2>2. CASE watch.stale = watch.alerted
    <3>1. UNCHANGED <<heard, flagged, mislaid>>
      BY <1>5, <2>2 DEF MonitorTells
    <3>2. ErrorsTypes'
      BY <1>1, <2>1, <3>1 DEF ErrorsInv, ErrorsTypes
    <3>3. FlagIsHeard'
      BY <1>3, <2>1, <2>2, <3>1, Zenon DEF ErrorsInv, FlagIsHeard
    <3>4. QED
      BY <1>2, <3>2, <3>3 DEF ErrorsInv
  <2>3. CASE watch.stale # watch.alerted
    <3>1. /\ heard' = IF watch.stale THEN "alarm" ELSE "recovery"
          /\ \/ flagged' = watch.stale /\ UNCHANGED mislaid
             \/ mislaid' = TRUE /\ UNCHANGED flagged
      BY <1>5, <2>3, Zenon DEF MonitorTells, FlagAfter
    <3>2. ErrorsTypes'
      BY <1>1, <2>1, <3>1 DEF ErrorsInv, ErrorsTypes
    <3>3. heard' = "alarm" <=> watch.stale
      BY <2>1, <3>1
    <3>4. FlagIsHeard'
      BY <1>3, <2>1, <3>1, <3>3, Zenon DEF FlagIsHeard
    <3>5. QED
      BY <1>2, <3>2, <3>4 DEF ErrorsInv
  <2>4. QED
    BY <2>2, <2>3
<1>6. QED
  BY <1>4, <1>5

LEMMA InvErrors == ErrorsSpec => []ErrorsInv
<1>1. ErrorsInv /\ [ErrorsNext]_errorVars => ErrorsInv'
  <2> SUFFICES ASSUME ErrorsInv, [ErrorsNext]_errorVars PROVE ErrorsInv'
    OBVIOUS
  <2>1. CASE ErrorsNext
    BY <2>1, SyncFailureKeeps, LetterKeeps, RowKeeps, MonitorKeeps DEF ErrorsNext
  <2>2. CASE UNCHANGED errorVars
    BY <2>2 DEF ErrorsInv, ErrorsTypes, LetterIsDue, OnItsWay, FlagIsHeard, IsStale,
                errorVars, watchVars
  <2>3. QED
    BY <2>1, <2>2
<1>2. QED
  BY <1>1, InitErrors, PTL DEF ErrorsSpec

(* Whatever the terms, however syncs, letters, pauses, the watchdog and the*)
(* monitor follow one another: the seller of a failing warehouse and the   *)
(* administrators have been told (ingest_persist.py, sync_notify.py).      *)
THEOREM TroubleTold == ErrorsSpec => []TroubleIsTold
<1>1. ErrorsInv => TroubleIsTold
  <2> SUFFICES ASSUME ErrorsInv PROVE TroubleIsTold
    OBVIOUS
  <2>1. telling = Quiet => ~OnItsWay
    BY DEF OnItsWay, Quiet
  <2>2. SellerIsTold
    BY <2>1 DEF ErrorsInv, LetterIsDue, SellerIsTold
  <2>3. heard \in {"alarm", "recovery"} /\ flagged \in BOOLEAN
    BY DEF ErrorsInv, ErrorsTypes
  <2>4. AdministratorsKnow
    BY <2>3 DEF ErrorsInv, FlagIsHeard, AdministratorsKnow
  <2>5. QED
    BY <2>2, <2>4 DEF TroubleIsTold
<1>2. QED
  BY <1>1, InvErrors, PTL

-----------------------------------------------------------------------------
(* Radar: a digest names what is new in time.                             *)

Statuses == {"none", "new", "archived"}

PollTypes ==
  /\ weekday \in 1..Week
  /\ toPoll \in SUBSET Watcher /\ toDigest \in SUBSET Watcher
  /\ cached \in [age : Int, lists : BOOLEAN]
  /\ lastAsked \in [Watcher -> Int]
  /\ phraseRow \in [Watcher -> [status : Statuses, updated : Int]]
  /\ dataAge \in [Watcher -> Int]
  /\ inPrice \in SUBSET Watcher
  /\ announced \in SUBSET Watcher /\ missed \in SUBSET Watcher
  /\ radarLapses \in Nat

(* The poll comes before the digest, and a digest only on its day.         *)
DigestFollows ==
  /\ toDigest # {} => weekday \in DigestDays
  /\ toPoll # {} /\ weekday \in DigestDays => toDigest = Watcher

(* While no call fails: what the seller s sees.                            *)
AskedInTime(s) ==
  /\ lastAsked[s] \in NotAsked..(AskEvery + 1)
  /\ s \notin toPoll => lastAsked[s] \in 0..AskEvery
  /\ phraseRow[s].updated \in NotAsked..(LookBack + 1)
  /\ phraseRow[s].status # "none" => phraseRow[s].updated >= IF s \in toPoll THEN 1 ELSE 0
  /\ phraseRow[s].status # "none" => lastAsked[s] >= 0

AnswerIsRecent(s) ==
  phraseRow[s].status # "none" /\ phraseRow[s].updated <= lastAsked[s]
    => dataAge[s] <= AnswerTerm + lastAsked[s]

Recent == radarLapses = 0 => \A s \in Watcher : AskedInTime(s) /\ AnswerIsRecent(s)

(* A phrase under "new" that no digest has named came up after the last    *)
(* digest of each digest day D.                                            *)
Unnamed(s) == phraseRow[s].status = "new" /\ s \notin announced \cup missed

CameAfter(s, D) ==
  /\ weekday > D => phraseRow[s].updated <= weekday - D - 1
  /\ weekday < D => phraseRow[s].updated <= weekday - D + Week - 1
  /\ weekday = D => phraseRow[s].updated <= Week - 1 /\ s \in toDigest

Novel == \A s \in Watcher, D \in DigestDays : Unnamed(s) => CameAfter(s, D)

PollInv == PollTypes /\ DigestFollows /\ Recent /\ Novel

LEMMA InitPoll == PollInit => PollInv
<1> SUFFICES ASSUME PollInit PROVE PollInv
  OBVIOUS
<1>1. PollTypes
  BY RadarPollAssumption DEF PollInit, PollTypes, Statuses, NoPhrase, NotAsked
<1>2. DigestFollows
  BY DEF PollInit, DigestFollows
<1>3. \A s \in Watcher : phraseRow[s].status = "none" /\ lastAsked[s] = -1 /\ s \in toPoll
                         /\ phraseRow[s].updated = -1
  BY DEF PollInit, NoPhrase, NotAsked
<1>4. Recent
  BY <1>3, RadarPollAssumption DEF Recent, AskedInTime, AnswerIsRecent, NotAsked
<1>5. Novel
  BY <1>3 DEF Novel, Unnamed
<1>6. QED
  BY <1>1, <1>2, <1>4, <1>5 DEF PollInv

LEMMA SkipKeeps ==
  ASSUME PollInv, NEW s \in Watcher, SkipBrand(s)
  PROVE  PollInv'
<1>1. /\ s \in toPoll /\ toPoll' = toPoll \ {s} /\ lastAsked[s] # NotAsked /\ lastAsked[s] <= AskEvery
      /\ UNCHANGED <<weekday, toDigest, cached, lastAsked, phraseRow, dataAge, inPrice,
                     announced, missed, radarLapses>>
  BY DEF SkipBrand, NotDue
<1>2. PollTypes' /\ DigestFollows'
  BY <1>1 DEF PollInv, PollTypes, DigestFollows
<1>3. Novel'
  BY <1>1 DEF PollInv, Novel, Unnamed, CameAfter
<1>4. ASSUME radarLapses' = 0, NEW t \in Watcher
      PROVE  AskedInTime(t)' /\ AnswerIsRecent(t)'
  <2>1. AskedInTime(t) /\ AnswerIsRecent(t)
    BY <1>1, <1>4 DEF PollInv, Recent
  <2>2. AnswerIsRecent(t)'
    BY <1>1, <2>1 DEF AnswerIsRecent
  <2>3. lastAsked[t] \in Int /\ phraseRow[t].updated \in Int /\ AskEvery \in Nat
    BY RadarPollAssumption DEF PollInv, PollTypes
  <2>4. AskedInTime(t)'
    BY <1>1, <2>1, <2>3 DEF AskedInTime, NotAsked
  <2>5. QED
    BY <2>2, <2>4
<1>5. QED
  BY <1>2, <1>3, <1>4 DEF PollInv, Recent

LEMMA VainKeeps ==
  ASSUME PollInv, NEW s \in Watcher, AskInVain(s)
  PROVE  PollInv'
<1>1. /\ toPoll' = toPoll \ {s} /\ s \in toPoll /\ radarLapses' = radarLapses + 1
      /\ UNCHANGED <<weekday, toDigest, cached, lastAsked, phraseRow, dataAge, inPrice,
                     announced, missed>>
  BY DEF AskInVain
<1>2. PollTypes' /\ DigestFollows' /\ radarLapses' # 0
  BY <1>1 DEF PollInv, PollTypes, DigestFollows
<1>3. Novel'
  BY <1>1 DEF PollInv, Novel, Unnamed, CameAfter
<1>4. QED
  BY <1>2, <1>3 DEF PollInv, Recent

(* A poll that failed nowhere has asked just now, and what it shows is no  *)
(* older than an answer in the cache may be.                               *)
LEMMA PolledIs ==
  ASSUME PollInv, NEW s \in Watcher, PollBrand(s)
  PROVE  /\ s \in toPoll /\ toPoll' = toPoll \ {s}
         /\ UNCHANGED <<weekday, toDigest, inPrice, announced, missed>>
         /\ \E answer \in [age : Int, lists : BOOLEAN], known \in SUBSET Watcher :
              /\ answer.age <= AnswerTerm
              /\ cached' \in {answer, cached}
              /\ lastAsked' \in {lastAsked, [lastAsked EXCEPT ![s] = 0]}
              /\ \/ UNCHANGED <<phraseRow, dataAge>>
                 \/ /\ phraseRow' = [phraseRow EXCEPT ![s] = [status |-> StatusAfter(s, known),
                                                              updated |-> 0]]
                    /\ dataAge' = [dataAge EXCEPT ![s] = answer.age]
         /\ radarLapses' \in {radarLapses, radarLapses + 1}
         /\ radarLapses' = radarLapses => lastAsked' = [lastAsked EXCEPT ![s] = 0]
<1>1. PICK answer \in Answers, known \in {inPrice, {}}, kept \in BOOLEAN, timed \in BOOLEAN,
           written \in BOOLEAN :
        LET fine == kept /\ timed /\ written /\ known = inPrice
                    /\ (Unexpired => answer = cached)
            shown == answer.lists /\ written
        IN /\ s \in toPoll /\ Due(s)
           /\ fine \/ MayLapse
           /\ toPoll' = toPoll \ {s}
           /\ cached' = IF kept THEN answer ELSE cached
           /\ lastAsked' = IF timed THEN [lastAsked EXCEPT ![s] = 0] ELSE lastAsked
           /\ phraseRow' = IF shown
                           THEN [phraseRow EXCEPT ![s] = [status |-> StatusAfter(s, known),
                                                          updated |-> 0]]
                           ELSE phraseRow
           /\ dataAge' = IF shown THEN [dataAge EXCEPT ![s] = answer.age] ELSE dataAge
           /\ radarLapses' = IF fine THEN radarLapses ELSE radarLapses + 1
           /\ UNCHANGED <<weekday, toDigest, inPrice, announced, missed>>
  BY Zenon DEF PollBrand
<1>2. answer \in [age : Int, lists : BOOLEAN] /\ answer.age <= AnswerTerm
  BY <1>1, RadarPollAssumption DEF Answers, Unexpired, PollInv, PollTypes
<1>3. known \in SUBSET Watcher
  BY <1>1 DEF PollInv, PollTypes
<1>4. radarLapses' # radarLapses \/ timed
  BY <1>1 DEF PollInv, PollTypes
<1>5. radarLapses' = radarLapses => lastAsked' = [lastAsked EXCEPT ![s] = 0]
  BY <1>1, <1>4
<1>6. cached' \in {answer, cached} /\ lastAsked' \in {lastAsked, [lastAsked EXCEPT ![s] = 0]}
  BY <1>1
<1>7. radarLapses' \in {radarLapses, radarLapses + 1}
  BY <1>1
<1>8. \/ UNCHANGED <<phraseRow, dataAge>>
      \/ /\ phraseRow' = [phraseRow EXCEPT ![s] = [status |-> StatusAfter(s, known),
                                                   updated |-> 0]]
         /\ dataAge' = [dataAge EXCEPT ![s] = answer.age]
  BY <1>1
<1>9. QED
  BY <1>1, <1>2, <1>3, <1>5, <1>6, <1>7, <1>8

LEMMA PollKeeps ==
  ASSUME PollInv, NEW s \in Watcher, PollBrand(s)
  PROVE  PollInv'
<1>1. /\ s \in toPoll /\ toPoll' = toPoll \ {s}
      /\ UNCHANGED <<weekday, toDigest, inPrice, announced, missed>>
      /\ radarLapses' \in {radarLapses, radarLapses + 1}
      /\ radarLapses' = radarLapses => lastAsked' = [lastAsked EXCEPT ![s] = 0]
  BY PolledIs
<1>2. PICK answer \in [age : Int, lists : BOOLEAN], known \in SUBSET Watcher :
        /\ answer.age <= AnswerTerm
        /\ cached' \in {answer, cached}
        /\ lastAsked' \in {lastAsked, [lastAsked EXCEPT ![s] = 0]}
        /\ \/ UNCHANGED <<phraseRow, dataAge>>
           \/ /\ phraseRow' = [phraseRow EXCEPT ![s] = [status |-> StatusAfter(s, known),
                                                        updated |-> 0]]
              /\ dataAge' = [dataAge EXCEPT ![s] = answer.age]
  BY PolledIs
<1>3. StatusAfter(s, known) \in {"archived", "new"}
  BY DEF StatusAfter
<1>4. PollTypes'
  BY <1>1, <1>2, <1>3 DEF PollInv, PollTypes, Statuses
<1>5. DigestFollows'
  BY <1>1 DEF PollInv, DigestFollows
<1>6. Recent'
  <2> SUFFICES ASSUME radarLapses' = 0, NEW t \in Watcher
               PROVE  AskedInTime(t)' /\ AnswerIsRecent(t)'
    BY DEF Recent
  <2>1. radarLapses = 0 /\ lastAsked' = [lastAsked EXCEPT ![s] = 0]
    BY <1>1 DEF PollInv, PollTypes
  <2>2. AskedInTime(t) /\ AnswerIsRecent(t)
    BY <2>1 DEF PollInv, Recent
  <2>3. /\ lastAsked \in [Watcher -> Int] /\ dataAge \in [Watcher -> Int]
        /\ phraseRow \in [Watcher -> [status : Statuses, updated : Int]]
        /\ {AskEvery, AnswerTerm, LookBack} \subseteq Nat
    BY RadarPollAssumption DEF PollInv, PollTypes
  <2>4. CASE t # s
    <3>1. lastAsked'[t] = lastAsked[t] /\ phraseRow'[t] = phraseRow[t] /\ dataAge'[t] = dataAge[t]
          /\ (t \in toPoll' <=> t \in toPoll)
      BY <1>1, <1>2, <2>1, <2>3, <2>4
    <3>2. QED
      BY <2>2, <3>1 DEF AskedInTime, AnswerIsRecent
  <2>5. CASE t = s
    <3>1. lastAsked'[s] = 0 /\ s \notin toPoll'
      BY <1>1, <2>1, <2>3
    <3>2. CASE UNCHANGED <<phraseRow, dataAge>>
      <4>1. phraseRow[s].status # "none" => phraseRow[s].updated >= 1
        BY <1>1, <2>2, <2>5 DEF AskedInTime
      <4>2. QED
        BY <2>2, <2>3, <2>5, <3>1, <3>2, <4>1 DEF AskedInTime, AnswerIsRecent, NotAsked
    <3>3. CASE /\ phraseRow' = [phraseRow EXCEPT ![s] = [status |-> StatusAfter(s, known),
                                                         updated |-> 0]]
               /\ dataAge' = [dataAge EXCEPT ![s] = answer.age]
      <4>1. phraseRow'[s].updated = 0 /\ dataAge'[s] <= AnswerTerm
        BY <1>2, <2>3, <3>3
      <4>2. QED
        BY <2>3, <2>5, <3>1, <4>1 DEF AskedInTime, AnswerIsRecent, NotAsked
    <3>4. QED
      BY <1>2, <3>2, <3>3
  <2>6. QED
    BY <2>4, <2>5
<1>7. Novel'
  <2> SUFFICES ASSUME NEW t \in Watcher, NEW D \in DigestDays, Unnamed(t)'
               PROVE  CameAfter(t, D)'
    BY DEF Novel
  <2>1. CASE phraseRow'[t] = phraseRow[t]
    BY <1>1, <2>1 DEF PollInv, Novel, Unnamed, CameAfter
  <2>2. CASE phraseRow'[t] # phraseRow[t]
    <3>1. phraseRow'[t].updated = 0
      BY <1>2, <2>2 DEF PollInv, PollTypes
    <3>2. weekday \in 1..Week /\ D \in 1..Week /\ Week \in Nat
      BY RadarPollAssumption DEF PollInv, PollTypes
    <3>3. weekday = D => t \in toDigest
      BY <1>1 DEF PollInv, DigestFollows
    <3>4. QED
      BY <1>1, <3>1, <3>2, <3>3 DEF CameAfter
  <2>3. QED
    BY <2>1, <2>2
<1>8. QED
  BY <1>4, <1>5, <1>6, <1>7 DEF PollInv

LEMMA DigestKeeps ==
  ASSUME PollInv, NEW s \in Watcher, SendDigest(s)
  PROVE  PollInv'
<1>1. /\ toPoll = {} /\ s \in toDigest /\ toDigest' = toDigest \ {s}
      /\ UNCHANGED <<weekday, toPoll, cached, lastAsked, phraseRow, dataAge, inPrice>>
      /\ announced' \in {announced, announced \cup {s}}
      /\ missed' \in {missed, missed \cup {s}}
      /\ InDigest(s) => s \in announced' \cup missed'
      /\ radarLapses' \in {radarLapses, radarLapses + 1}
  BY DEF SendDigest
<1>2. PollTypes' /\ DigestFollows'
  BY <1>1 DEF PollInv, PollTypes, DigestFollows
<1>3. Recent'
  <2>1. radarLapses' = 0 => radarLapses = 0
    BY <1>1 DEF PollInv, PollTypes
  <2>2. QED
    BY <1>1, <2>1 DEF PollInv, Recent, AskedInTime, AnswerIsRecent
<1>4. Novel'
  <2> SUFFICES ASSUME NEW t \in Watcher, NEW D \in DigestDays, Unnamed(t)'
               PROVE  CameAfter(t, D)'
    BY DEF Novel
  <2>1. Unnamed(t) /\ CameAfter(t, D)
    BY <1>1 DEF PollInv, Novel, Unnamed
  <2>2. CASE t # s
    BY <1>1, <2>1, <2>2 DEF CameAfter
  <2>3. CASE t = s
    <3>1. weekday \in DigestDays /\ weekday \in 1..Week
      BY <1>1 DEF PollInv, DigestFollows, PollTypes
    <3>2. phraseRow[t].updated <= Week - 1 /\ phraseRow[t].updated \in Int
      BY <2>1, <3>1 DEF PollInv, Novel, CameAfter, PollTypes
    <3>3. phraseRow[t].updated <= LookBack
      BY <3>2, RadarPollAssumption
    <3>4. InDigest(s)
      BY <2>1, <2>3, <3>3 DEF InDigest, Unnamed
    <3>5. QED
      BY <1>1, <2>3, <3>4 DEF Unnamed
  <2>4. QED
    BY <2>2, <2>3
<1>5. QED
  BY <1>2, <1>3, <1>4 DEF PollInv

LEMMA NextAgeIs ==
  ASSUME NEW age \in Int, NEW compared \in Int
  PROVE  /\ NextAge(age, compared) \in {age, age + 1} /\ NextAge(age, compared) \in Int
         /\ age # NotAsked /\ age <= compared => NextAge(age, compared) = age + 1
         /\ age # NotAsked /\ age > compared => NextAge(age, compared) = age
         /\ age = NotAsked => NextAge(age, compared) = age
BY DEF NextAge, NotAsked

LEMMA DayKeeps ==
  ASSUME PollInv, PollDayPasses
  PROVE  PollInv'
<1>1. /\ toPoll = {} /\ toDigest = {} /\ toPoll' = Watcher
      /\ weekday' = (weekday % Week) + 1
      /\ toDigest' = IF weekday' \in DigestDays THEN Watcher ELSE {}
      /\ cached' = [cached EXCEPT !.age = NextAge(@, AnswerTerm)]
      /\ UNCHANGED <<inPrice, announced, missed, radarLapses>>
  BY DEF PollDayPasses
<1>2. /\ lastAsked' = [s \in Watcher |-> NextAge(lastAsked[s], AskEvery)]
      /\ phraseRow' = [s \in Watcher |-> [phraseRow[s] EXCEPT !.updated = NextAge(@, LookBack)]]
      /\ dataAge' = [s \in Watcher |-> NextAge(dataAge[s], AnswerTerm + AskEvery + 1)]
  BY DEF PollDayPasses
<1>3. {AskEvery, AnswerTerm, LookBack, Week} \subseteq Nat \ {0} /\ LookBack > AskEvery
      /\ weekday \in 1..Week
  BY RadarPollAssumption DEF PollInv, PollTypes
<1>4. weekday' \in 1..Week /\ weekday' = IF weekday = Week THEN 1 ELSE weekday + 1
  BY <1>1, <1>3
<1>5. \A s \in Watcher :
        /\ lastAsked[s] \in Int /\ lastAsked'[s] = NextAge(lastAsked[s], AskEvery)
        /\ phraseRow[s].updated \in Int /\ phraseRow[s].status \in Statuses
        /\ phraseRow[s] \in [status : Statuses, updated : Int]
        /\ phraseRow'[s].status = phraseRow[s].status
        /\ phraseRow'[s].updated = NextAge(phraseRow[s].updated, LookBack)
        /\ dataAge[s] \in Int
        /\ dataAge'[s] = NextAge(dataAge[s], AnswerTerm + AskEvery + 1)
  BY <1>2 DEF PollInv, PollTypes
<1>6. PollTypes'
  <2>1. cached' \in [age : Int, lists : BOOLEAN]
    BY <1>1, <1>3, NextAgeIs DEF PollInv, PollTypes
  <2>2. lastAsked' \in [Watcher -> Int] /\ dataAge' \in [Watcher -> Int]
    BY <1>2, <1>3, <1>5, NextAgeIs
  <2>3. ASSUME NEW s \in Watcher PROVE NextAge(phraseRow[s].updated, LookBack) \in Int
    <3>1. phraseRow[s].updated \in Int /\ LookBack \in Int
      BY <1>3, <1>5
    <3>2. QED
      BY <3>1, NextAgeIs
  <2>4. phraseRow' \in [Watcher -> [status : Statuses, updated : Int]]
    BY <1>2, <1>5, <2>3
  <2>5. QED
    BY <1>1, <1>4, <2>1, <2>2, <2>4 DEF PollInv, PollTypes
<1>7. DigestFollows'
  BY <1>1 DEF DigestFollows
<1>8. Recent'
  <2> SUFFICES ASSUME radarLapses' = 0, NEW t \in Watcher
               PROVE  AskedInTime(t)' /\ AnswerIsRecent(t)'
    BY DEF Recent
  <2>1. AskedInTime(t) /\ AnswerIsRecent(t)
    BY <1>1 DEF PollInv, Recent
  <2>2. lastAsked[t] \in 0..AskEvery /\ lastAsked'[t] = lastAsked[t] + 1
    BY <1>1, <1>3, <1>5, <2>1, NextAgeIs DEF AskedInTime, NotAsked
  <2>3. phraseRow[t].updated \in NotAsked..(LookBack + 1)
        /\ (phraseRow[t].status # "none" => phraseRow[t].updated >= 0)
    BY <1>1, <2>1 DEF AskedInTime
  <2>4. /\ phraseRow[t].updated = LookBack + 1 => phraseRow'[t].updated = LookBack + 1
        /\ phraseRow[t].updated \in 0..LookBack => phraseRow'[t].updated = phraseRow[t].updated + 1
        /\ phraseRow[t].updated = -1 => phraseRow'[t].updated = -1
    <3>1. phraseRow[t].updated \in Int /\ LookBack \in Int
      BY <1>3, <1>5
    <3>2. phraseRow'[t].updated = NextAge(phraseRow[t].updated, LookBack)
      BY <1>5
    <3>3. QED
      BY <3>1, <3>2 DEF NextAge, NotAsked
  <2>5. dataAge'[t] <= dataAge[t] + 1 /\ dataAge'[t] \in Int /\ dataAge[t] \in Int
    <3>1. dataAge[t] \in Int /\ AnswerTerm + AskEvery + 1 \in Int
      BY <1>3, <1>5
    <3>2. dataAge'[t] = NextAge(dataAge[t], AnswerTerm + AskEvery + 1)
      BY <1>5
    <3>3. QED
      BY <3>1, <3>2 DEF NextAge, NotAsked
  <2>6. AskedInTime(t)'
    BY <1>1, <1>3, <1>5, <2>2, <2>3, <2>4 DEF AskedInTime, NotAsked
  <2>7. AnswerIsRecent(t)'
    <3>1. SUFFICES ASSUME phraseRow'[t].status # "none", phraseRow'[t].updated <= lastAsked'[t]
                   PROVE  dataAge'[t] <= AnswerTerm + lastAsked'[t]
      BY DEF AnswerIsRecent
    <3>2. phraseRow[t].status # "none" /\ phraseRow[t].updated <= lastAsked[t]
      BY <1>3, <1>5, <2>2, <2>3, <2>4, <3>1 DEF NotAsked
    <3>3. dataAge[t] <= AnswerTerm + lastAsked[t]
      BY <2>1, <3>2 DEF AnswerIsRecent
    <3>4. QED
      BY <1>3, <2>2, <2>5, <3>3
  <2>8. QED
    BY <2>6, <2>7
<1>9. Novel'
  <2> SUFFICES ASSUME NEW t \in Watcher, NEW D \in DigestDays, Unnamed(t)'
               PROVE  CameAfter(t, D)'
    BY DEF Novel
  <2>1. Unnamed(t) /\ CameAfter(t, D)
    BY <1>1, <1>5 DEF PollInv, Novel, Unnamed
  <2>2. phraseRow'[t].updated <= phraseRow[t].updated + 1
        /\ phraseRow[t].updated \in Int /\ phraseRow'[t].updated \in Int
    <3>1. phraseRow[t].updated \in Int /\ LookBack \in Int
      BY <1>3, <1>5
    <3>2. phraseRow'[t].updated = NextAge(phraseRow[t].updated, LookBack)
      BY <1>5
    <3>3. QED
      BY <3>1, <3>2 DEF NextAge, NotAsked
  <2>3. weekday # D /\ D \in 1..Week
    BY <1>1, <2>1, RadarPollAssumption DEF CameAfter
  <2>4. weekday' = D => t \in toDigest'
    BY <1>1
  <2>5. QED
    BY <1>3, <1>4, <2>1, <2>2, <2>3, <2>4 DEF CameAfter
<1>10. QED
  BY <1>6, <1>7, <1>8, <1>9 DEF PollInv

LEMMA PollHolds == PollSpec => []PollInv
<1>1. PollInv /\ [PollNext]_radarVars => PollInv'
  <2> SUFFICES ASSUME PollInv, [PollNext]_radarVars PROVE PollInv'
    OBVIOUS
  <2>1. CASE UNCHANGED radarVars
    BY <2>1 DEF radarVars, PollInv, PollTypes, DigestFollows, Recent, AskedInTime, AnswerIsRecent,
       Novel, Unnamed, CameAfter
  <2>2. CASE PollDayPasses
    BY <2>2, DayKeeps
  <2>3. ASSUME NEW s \in Watcher, SkipBrand(s) \/ PollBrand(s) \/ AskInVain(s) \/ SendDigest(s)
        PROVE  PollInv'
    BY <2>3, SkipKeeps, PollKeeps, VainKeeps, DigestKeeps
  <2>4. QED
    BY <2>1, <2>2, <2>3 DEF PollNext
<1>2. QED
  BY <1>1, InitPoll, PTL DEF PollSpec

(* For any sellers, terms and days: without a failed poll the figures of a *)
(* phrase are no older than the cached answers allow, and a phrase that is *)
(* new on the day of a digest has been named in one, unless a digest could *)
(* not be sent (wordstat_provider.py, jobs/radar.py).                      *)
THEOREM RadarTells == PollSpec => []RadarIsFresh
<1>1. PollInv => FiguresAreRecent
  <2> SUFFICES ASSUME PollInv, NEW s \in Watcher, radarLapses = 0, phraseRow[s].status # "none",
                      phraseRow[s].updated <= lastAsked[s]
               PROVE  dataAge[s] <= AnswerTerm + AskEvery + 1
    BY DEF FiguresAreRecent
  <2>1. dataAge[s] <= AnswerTerm + lastAsked[s] /\ lastAsked[s] \in NotAsked..(AskEvery + 1)
    BY DEF PollInv, Recent, AskedInTime, AnswerIsRecent
  <2>2. dataAge[s] \in Int
    BY DEF PollInv, PollTypes
  <2>3. QED
    BY <2>1, <2>2, RadarPollAssumption DEF NotAsked
<1>2. PollInv => NoveltyIsAnnounced
  BY DEF PollInv, Novel, Unnamed, CameAfter, NoveltyIsAnnounced
<1>3. PollInv => RadarIsFresh
  BY <1>1, <1>2 DEF RadarIsFresh
<1>4. QED
  BY <1>3, PollHolds, PTL

-----------------------------------------------------------------------------
(* A non-empty set of numbers has a least one.                             *)
LEMMA LeastOf ==
  ASSUME NEW T \in SUBSET Nat, T # {}
  PROVE  \E x \in T : \A y \in T : x <= y
<1>1. IsWellFoundedOn(OpToRel(<, Nat), Nat)
      BY NatLessThanWellFounded, Zenon
<1>2. PICK x \in T : \A y \in T : <<y, x>> \notin OpToRel(<, Nat)
      BY <1>1, WFMin, Zenon
<1>3. \A y \in T : ~(y < x)
      BY <1>2 DEF OpToRel
<1> QED BY <1>3

(* A non-empty set of numbers up to a bound has a greatest one.            *)
LEMMA GreatestOf ==
  ASSUME NEW n \in Nat, NEW T \in SUBSET (0..n), T # {}
  PROVE  \E x \in T : \A y \in T : y <= x
<1> DEFINE above == {m \in Nat : \A y \in T : y <= m}
<1>1. n \in above
      OBVIOUS
<1>2. PICK m \in above : \A k \in above : m <= k
      BY <1>1, LeastOf, above \in SUBSET Nat, above # {}
<1>3. m \in T
  <2> SUFFICES ASSUME m \notin T PROVE FALSE
      OBVIOUS
  <2>1. m \in Nat /\ \A y \in T : y \in Nat /\ y <= m /\ y # m
        BY <1>2
  <2>2. m # 0
    <3>1. PICK y \in T : TRUE
          OBVIOUS
    <3> QED BY <2>1, <3>1
  <2>3. m - 1 \in above
        BY <2>1, <2>2
  <2> QED BY <1>2, <2>1, <2>3
<1> QED BY <1>2, <1>3

-----------------------------------------------------------------------------
(* ReportSheets.                                                           *)

Kinds == ListKinds \cup {Summary}

(* The kinds are asked for in order, the summary last.                      *)
LEMMA RankOf ==
  /\ \A k \in ListKinds : Rank(k) <= 3 /\ k # Summary
  /\ Rank(Summary) = 4
<1>1. /\ AskOrder[1] = "critical_stock" /\ AskOrder[2] = "dead_inventory"
      /\ AskOrder[3] = "underestimated_sku" /\ AskOrder[4] = "weekly_report"
      BY DEF AskOrder
<1>2. Summary = "weekly_report"
      BY <1>1 DEF Summary
<1>3. ListKinds = {"critical_stock", "dead_inventory", "underestimated_sku"}
  <2>1. 1..3 = {1, 2, 3}
        OBVIOUS
  <2> QED BY <1>1, <2>1 DEF ListKinds
<1>4. \A k \in Kinds : \E i \in 1..4 : AskOrder[i] = k
      BY <1>1, <1>2, <1>3 DEF Kinds
<1>5. \A k \in Kinds : Rank(k) \in 1..4 /\ AskOrder[Rank(k)] = k
      BY <1>4, Zenon DEF Rank
<1>6. ASSUME NEW k \in ListKinds PROVE Rank(k) <= 3 /\ k # Summary
  <2>1. k # Summary /\ AskOrder[4] # k
        BY <1>1, <1>2, <1>3
  <2>2. Rank(k) \in 1..4 /\ AskOrder[Rank(k)] = k
        BY <1>5 DEF Kinds
  <2>3. Rank(k) # 4
        BY <2>1, <2>2
  <2> QED BY <2>1, <2>2, <2>3
<1>7. Rank(Summary) = 4
  <2>1. Rank(Summary) \in 1..4 /\ AskOrder[Rank(Summary)] = Summary
        BY <1>5 DEF Kinds
  <2>2. AskOrder[1] # Summary /\ AskOrder[2] # Summary /\ AskOrder[3] # Summary
        BY <1>1, <1>2
  <2> QED BY <2>1, <2>2
<1> QED BY <1>6, <1>7

(* The summary is asked for when nothing else is left to ask.              *)
LEMMA SummaryIsLast ==
  ASSUME toAsk \subseteq Kinds, AskingFor(Summary)
  PROVE  \A k \in ListKinds : k \notin toAsk
<1> SUFFICES ASSUME NEW k \in ListKinds, k \in toAsk PROVE FALSE
    OBVIOUS
<1>1. Rank(Summary) <= Rank(k)
      BY DEF AskingFor
<1>2. Rank(k) <= 3 /\ Rank(Summary) = 4
      BY RankOf
<1>3. Rank(k) \in 1..4
  <2>1. \E i \in 1..4 : AskOrder[i] = k
        BY DEF ListKinds
  <2> QED BY <2>1, Zenon DEF Rank
<1> QED BY <1>1, <1>2, <1>3

(* A run writes the window it means to.                                     *)
LEMMA ShortestOf ==
  ASSUME NEW ws \in SUBSET ReportWindow, ws # {}
  PROVE  Shortest(ws) \in ws
<1>1. ws \in SUBSET Nat
      BY ReportSheetsAssumption
<1>2. \E w \in ws : \A v \in ws : w <= v
      BY <1>1, LeastOf
<1> QED BY <1>2, Zenon DEF Shortest

(* Nothing is as close to a month as a month.                              *)
LEMMA ClosestIsMonth ==
  ASSUME NEW ws \in SUBSET Nat, Month \in ws, NEW w \in Closest(ws)
  PROVE  w = Month
<1>1. Month \in Nat /\ w \in Nat /\ Apart(w) <= Apart(Month)
      BY DEF Closest
<1> QED BY <1>1 DEF Apart

(* The rows that are looked at are all there are, if those are few.        *)
LEMMA AllAreSeen ==
  ASSUME IsFiniteSet(lists), Cardinality(lists) <= RowLimit, NEW seen \in NewestRows(lists)
  PROVE  seen = lists
<1>1. seen \subseteq lists
      BY DEF NewestRows
<1>2. Cardinality(lists) \in Nat /\ RowLimit \in Nat
      BY FS_CardinalityType, ReportSheetsAssumption
<1>3. Cardinality(seen) = IF Cardinality(lists) < RowLimit THEN Cardinality(lists) ELSE RowLimit
      BY DEF NewestRows
<1>4. Cardinality(seen) = Cardinality(lists)
      BY <1>2, <1>3
<1> QED BY <1>1, <1>4, FS_Subset

(* The tables, and the run that writes them.                               *)
TablesOK ==
  /\ IsFiniteSet(lists)
  /\ \A r \in lists : r.window \in Nat /\ r.item \in 1..Items
  /\ \A s \in summaries : s = [day |-> s.day, window |-> s.window] /\ s.window \in Nat
  /\ nightRun # NoRun =>
       /\ nightRun = [at |-> "rows", day |-> nightRun.day,
                      window |-> nightRun.window, item |-> nightRun.item]
       /\ nightRun.window \in ReportWindow /\ nightRun.item \in Nat \ {0}

(* The figures are there, all of them are looked at, and a month is among  *)
(* them.                                                                   *)
MonthIsThere == lists # {} /\ Cardinality(lists) <= RowLimit /\ MonthRows # {}

(* The rows of the month that a kind is about.                              *)
Fit(k) == {r \in MonthRows : Qualifies(k, r.figure)}

LastSummary == [day |-> LastDayOf(summaries), window |-> Month]

AskingOK ==
  /\ due \subseteq Kinds /\ toAsk \subseteq due
  /\ crossed \in BOOLEAN /\ verdict \in {"none", "sent", "skipped"}
  /\ got = [k \in Kinds |-> got[k]]
  /\ window # NoWindow => \E k \in ListKinds : k \in toAsk
  /\ verdict # "none" => toAsk = {}

(* What has been read so far is of the month.                              *)
ReadSoFar ==
  ~crossed /\ verdict = "none" =>
    /\ MonthIsThere /\ window # NoWindow => window.day = LastDayOf(lists) /\ window.window = Month
    /\ MonthIsThere => \A k \in due \ {Summary} : k \notin toAsk => got[k] = Fit(k)
    /\ Summary \in due \ toAsk /\ LastSummary \in summaries => got[Summary] = {LastSummary}

(* The tables, the dispatch, and what the report has read and tells.        *)
SheetsInv ==
  /\ TablesOK /\ AskingOK /\ ReadSoFar
  /\ SheetsAreOfTheMonth /\ SummaryIsOfTheMonth

(* No report and no tables at first.                                        *)
LEMMA SheetsInit_Inv == SheetsInit => SheetsInv
<1> SUFFICES ASSUME SheetsInit PROVE SheetsInv
    OBVIOUS
<1>1. TablesOK
  <2>1. lists = {} /\ summaries = {} /\ nightRun = NoRun
        BY DEF SheetsInit
  <2> QED BY <2>1, FS_EmptySet DEF TablesOK
<1>2. /\ due = {} /\ toAsk = {} /\ window = NoWindow /\ verdict = "none" /\ crossed = FALSE
      /\ got = [k \in Kinds |-> {}]
      BY DEF SheetsInit, Nothing, Kinds
<1>3. AskingOK
  <2>1. got = [k \in Kinds |-> got[k]]
        BY <1>2
  <2>2. crossed \in BOOLEAN
        BY <1>2
  <2> QED BY <1>2, <2>1, <2>2 DEF AskingOK
<1>4. ReadSoFar
      BY <1>2 DEF ReadSoFar
<1>5. SheetsAreOfTheMonth /\ SummaryIsOfTheMonth
      BY <1>2 DEF SheetsAreOfTheMonth, SummaryIsOfTheMonth
<1> QED BY <1>1, <1>3, <1>4, <1>5 DEF SheetsInv

(* No report is over yet.                                                  *)
LEMMA NoVerdict ==
  ASSUME verdict' = "none"
  PROVE  SheetsAreOfTheMonth' /\ SummaryIsOfTheMonth'
BY DEF SheetsAreOfTheMonth, SummaryIsOfTheMonth

(* A step of a run: a report at work is crossed, one that is over is gone. *)
LEMMA Cross_Inv ==
  ASSUME SheetsInv, CrossReport, TablesOK'
  PROVE  SheetsInv'
<1>1. AskingOK
      BY DEF SheetsInv
<1>2. CASE verdict = "none"
  <2>1. /\ verdict' = "none" /\ due' = due /\ toAsk' = toAsk /\ window' = window /\ got' = got
        /\ crossed' = (due # {})
        BY <1>2 DEF CrossReport, gotVars
  <2>2. AskingOK'
    <3>1. crossed' \in BOOLEAN
          BY <2>1
    <3> QED BY <1>1, <2>1, <3>1 DEF AskingOK
  <2>3. ReadSoFar'
    <3>1. CASE due # {}
      <4>1. crossed'
            BY <2>1, <3>1
      <4> QED BY <4>1 DEF ReadSoFar
    <3>2. CASE due = {}
      <4>1. due' = {} /\ window' = NoWindow
            BY <1>1, <2>1, <3>2 DEF AskingOK
      <4> QED BY <4>1 DEF ReadSoFar
    <3> QED BY <3>1, <3>2
  <2> QED BY <2>1, <2>2, <2>3, NoVerdict DEF SheetsInv
<1>3. CASE verdict # "none"
  <2>1. /\ verdict' = "none" /\ due' = {} /\ toAsk' = toAsk /\ window' = window /\ got' = got
        /\ crossed' = FALSE
        BY <1>3 DEF CrossReport
  <2>2. toAsk' = {} /\ window' = NoWindow
        BY <1>1, <1>3, <2>1 DEF AskingOK
  <2>3. AskingOK'
    <3>1. crossed' \in BOOLEAN
          BY <2>1
    <3> QED BY <1>1, <2>1, <2>2, <3>1 DEF AskingOK
  <2>4. ReadSoFar'
        BY <2>1, <2>2 DEF ReadSoFar
  <2> QED BY <2>1, <2>3, <2>4, NoVerdict DEF SheetsInv
<1> QED BY <1>2, <1>3

(* A run crosses the report at work when it starts, with every row it       *)
(* writes, with every window it ends, and when it is lost.                  *)
LEMMA StartNightRun_Inv == SheetsInv /\ StartNightRun => SheetsInv'
<1> SUFFICES ASSUME SheetsInv, StartNightRun PROVE SheetsInv'
    OBVIOUS
<1>1. Shortest(ReportWindow) \in ReportWindow
      BY ShortestOf, ReportSheetsAssumption
<1>2. /\ nightRun' = [at |-> "rows", day |-> nightRun'.day,
                       window |-> nightRun'.window, item |-> nightRun'.item]
      /\ nightRun'.window \in ReportWindow /\ nightRun'.item \in Nat \ {0}
      BY <1>1 DEF StartNightRun, AtWindow
<1>3. TablesOK'
      BY <1>2 DEF SheetsInv, TablesOK, StartNightRun
<1> QED BY <1>3, Cross_Inv DEF StartNightRun

LEMMA WriteItem_Inv == SheetsInv /\ WriteItem => SheetsInv'
<1> SUFFICES ASSUME SheetsInv, WriteItem PROVE SheetsInv'
    OBVIOUS
<1>1. TablesOK /\ nightRun # NoRun /\ nightRun.item <= Items /\ summaries' = summaries
      BY DEF SheetsInv, WriteItem
<1>2. /\ nightRun = [at |-> "rows", day |-> nightRun.day,
                      window |-> nightRun.window, item |-> nightRun.item]
      /\ nightRun.window \in ReportWindow /\ nightRun.item \in Nat \ {0}
      BY <1>1 DEF TablesOK
<1>3. nightRun.window \in Nat /\ nightRun.item \in 1..Items
  <2>1. Items \in Nat /\ ReportWindow \subseteq Nat
        BY ReportSheetsAssumption
  <2> QED BY <1>1, <1>2, <2>1
<1>4. IsFiniteSet(lists') /\ \A r \in lists' : r.window \in Nat /\ r.item \in 1..Items
  <2>1. CASE lists' = lists
        BY <1>1, <2>1 DEF TablesOK
  <2>2. CASE lists' # lists
    <3> DEFINE row(g) == [day |-> nightRun.day, window |-> nightRun.window,
                          item |-> nightRun.item, figure |-> g]
    <3>1. PICK f \in Figures[nightRun.item] :
                lists' = {row(f)} \cup {r \in lists : r # row(r.figure)}
          BY <2>2 DEF WriteItem
    <3> DEFINE old == {r \in lists : r # row(r.figure)}
    <3>2. IsFiniteSet(lists) /\ \A r \in lists : r.window \in Nat /\ r.item \in 1..Items
          BY <1>1 DEF TablesOK
    <3>3. row(f).window \in Nat /\ row(f).item \in 1..Items
          BY <1>3
    <3>4. old \subseteq lists /\ lists' = old \cup {row(f)}
          BY <3>1
    <3> HIDE DEF row, old
    <3>5. IsFiniteSet(old)
          BY <3>2, <3>4, FS_Subset
    <3>6. IsFiniteSet(old \cup {row(f)})
          BY <3>5, FS_AddElement
    <3> QED BY <3>2, <3>3, <3>4, <3>6
  <2> QED BY <2>1, <2>2
<1>5. /\ nightRun' = [at |-> "rows", day |-> nightRun'.day,
                       window |-> nightRun'.window, item |-> nightRun'.item]
      /\ nightRun'.window \in ReportWindow /\ nightRun'.item \in Nat \ {0}
  <2>1. nightRun' = [at |-> "rows", day |-> nightRun.day,
                     window |-> nightRun.window, item |-> nightRun.item + 1]
        BY <1>2 DEF WriteItem
  <2> QED BY <1>2, <2>1
<1>6. TablesOK'
      BY <1>1, <1>4, <1>5 DEF TablesOK
<1> QED BY <1>6, Cross_Inv DEF WriteItem

LEMMA EndWindow_Inv == SheetsInv /\ EndWindow => SheetsInv'
<1> SUFFICES ASSUME SheetsInv, EndWindow PROVE SheetsInv'
    OBVIOUS
<1>1. TablesOK /\ nightRun # NoRun /\ lists' = lists
      BY DEF SheetsInv, EndWindow
<1>2. /\ nightRun.window \in ReportWindow /\ ReportWindow \subseteq Nat
      BY <1>1, ReportSheetsAssumption DEF TablesOK
<1>3. \A s \in summaries' : s = [day |-> s.day, window |-> s.window] /\ s.window \in Nat
  <2>1. CASE summaries' = summaries
        BY <1>1, <2>1 DEF TablesOK
  <2>2. CASE summaries' = summaries \cup {[day |-> nightRun.day, window |-> nightRun.window]}
        BY <1>1, <1>2, <2>2 DEF TablesOK
  <2> QED BY <2>1, <2>2 DEF EndWindow
<1>4. nightRun' # NoRun =>
        /\ nightRun' = [at |-> "rows", day |-> nightRun'.day,
                        window |-> nightRun'.window, item |-> nightRun'.item]
        /\ nightRun'.window \in ReportWindow /\ nightRun'.item \in Nat \ {0}
  <2> DEFINE longer == {w \in ReportWindow : w > nightRun.window}
  <2>1. nightRun' = IF longer = {} THEN NoRun ELSE AtWindow(Shortest(longer))
        BY DEF EndWindow, LaterWindow
  <2>2. longer # {} => Shortest(longer) \in ReportWindow
        BY ShortestOf
  <2> QED BY <2>1, <2>2 DEF AtWindow
<1>5. TablesOK'
      BY <1>1, <1>3, <1>4 DEF TablesOK
<1> QED BY <1>5, Cross_Inv DEF EndWindow

LEMMA NightRunLost_Inv == SheetsInv /\ NightRunLost => SheetsInv'
<1> SUFFICES ASSUME SheetsInv, NightRunLost PROVE SheetsInv'
    OBVIOUS
<1>1. TablesOK'
      BY DEF SheetsInv, TablesOK, NightRunLost
<1> QED BY <1>1, Cross_Inv DEF NightRunLost

(* The dispatch writes no table.                                           *)
LEMMA TablesFrame ==
  ASSUME UNCHANGED runVars
  PROVE  /\ TablesOK => TablesOK'
         /\ MonthIsThere' <=> MonthIsThere
         /\ LastDayOf(lists)' = LastDayOf(lists) /\ LastSummary' = LastSummary
         /\ summaries' = summaries
         /\ \A k : Fit(k)' = Fit(k)
<1>1. lists' = lists /\ summaries' = summaries /\ nightRun' = nightRun
      BY DEF runVars
<1>2. LastDayOf(lists)' = LastDayOf(lists) /\ LastSummary' = LastSummary
      BY <1>1 DEF LastDayOf, LastSummary
<1>3. MonthRows' = MonthRows
      BY <1>1, <1>2 DEF MonthRows
<1> QED BY <1>1, <1>2, <1>3 DEF TablesOK, MonthIsThere, Fit

(* A report that begins has read nothing.                                   *)
LEMMA BeginReport_Inv == SheetsInv /\ BeginReport => SheetsInv'
<1> SUFFICES ASSUME SheetsInv, BeginReport PROVE SheetsInv'
    OBVIOUS
<1>1. PICK kinds \in (SUBSET Offered) \ {{}} : due' = kinds /\ toAsk' = kinds
      BY DEF BeginReport
<1>2. /\ window' = NoWindow /\ got' = [k \in Kinds |-> {}] /\ verdict' = "none"
      /\ UNCHANGED runVars /\ crossed' = (nightRun # NoRun)
      BY DEF BeginReport, Nothing, Kinds
<1>3. AskingOK'
  <2>1. kinds \subseteq Kinds
        BY ReportSheetsAssumption DEF Kinds
  <2>2. got' = [k \in Kinds |-> got'[k]]
        BY <1>2
  <2>3. crossed' \in BOOLEAN
        BY <1>2
  <2> QED BY <1>1, <1>2, <2>1, <2>2, <2>3 DEF AskingOK
<1>4. ReadSoFar'
  <2>1. window' = NoWindow /\ toAsk' = due'
        BY <1>1, <1>2
  <2> QED BY <2>1 DEF ReadSoFar
<1> QED BY <1>2, <1>3, <1>4, TablesFrame, NoVerdict DEF SheetsInv

(* The window a report reads for a kind is a month up to the last day.      *)
LEMMA ReadWindow_Inv == SheetsInv /\ ReadWindow => SheetsInv'
<1> SUFFICES ASSUME SheetsInv, ReadWindow PROVE SheetsInv'
    OBVIOUS
<1>1. /\ UNCHANGED runVars /\ due' = due /\ toAsk' = toAsk /\ got' = got /\ crossed' = crossed
      /\ verdict' = verdict /\ \E k \in ListKinds : k \in toAsk
      BY DEF ReadWindow, endVars, AskingFor
<1>2. AskingOK /\ TablesOK /\ ReadSoFar
      BY DEF SheetsInv
<1>3. verdict' = "none"
      BY <1>1, <1>2 DEF AskingOK
<1>4. AskingOK'
      BY <1>1, <1>2 DEF AskingOK
<1>5. PICK seen \in NewestRows(lists) :
             \E w \in Closest({r.window : r \in {s \in seen : s.day = LastDayOf(seen)}}) :
               window' = [found |-> TRUE, day |-> LastDayOf(seen), window |-> w]
      BY DEF ReadWindow
<1>6. ASSUME MonthIsThere
      PROVE  window'.day = LastDayOf(lists) /\ window'.window = Month
  <2>1. seen = lists
        BY <1>2, <1>6, AllAreSeen DEF TablesOK, MonthIsThere
  <2> DEFINE day == LastDayOf(lists)
             spans == {r.window : r \in {s \in lists : s.day = day}}
  <2>2. PICK w \in Closest(spans) : window' = [found |-> TRUE, day |-> day, window |-> w]
        BY <1>5, <2>1
  <2>3. spans \in SUBSET Nat
        BY <1>2 DEF TablesOK
  <2>4. Month \in spans
        BY <1>6 DEF MonthIsThere, MonthRows
  <2> HIDE DEF day, spans
  <2>5. w = Month
        BY <2>3, <2>4, ClosestIsMonth
  <2> QED BY <2>2, <2>5 DEF day
<1>7. ReadSoFar'
  <2>1. /\ MonthIsThere' <=> MonthIsThere
        /\ LastDayOf(lists)' = LastDayOf(lists) /\ LastSummary' = LastSummary
        /\ summaries' = summaries
        /\ \A k : Fit(k)' = Fit(k)
        BY <1>1, TablesFrame
  <2> QED BY <1>1, <1>2, <1>6, <2>1 DEF ReadSoFar
<1> QED BY <1>1, <1>2, <1>3, <1>4, <1>7, TablesFrame, NoVerdict DEF SheetsInv

(* The rows it reads by that window are those of the month that qualify.    *)
LEMMA AskRows_Inv == ASSUME NEW kind \in ListKinds PROVE SheetsInv /\ AskRows(kind) => SheetsInv'
<1> SUFFICES ASSUME SheetsInv, AskRows(kind) PROVE SheetsInv'
    OBVIOUS
<1>1. /\ UNCHANGED runVars /\ due' = due /\ toAsk' = toAsk \ {kind} /\ crossed' = crossed
      /\ window # NoWindow /\ window' = NoWindow
      /\ verdict' = verdict /\ kind \in toAsk
      /\ got' = [got EXCEPT ![kind] = RowsOf(kind)]
      BY DEF AskRows, endVars, AskingFor
<1>2. AskingOK /\ TablesOK /\ ReadSoFar
      BY DEF SheetsInv
<1>3. verdict' = "none"
      BY <1>1, <1>2 DEF AskingOK
<1>4. /\ got' = [k \in Kinds |-> IF k = kind THEN RowsOf(kind) ELSE got[k]]
      /\ kind \in Kinds /\ kind # Summary
      BY <1>1, <1>2, RankOf DEF AskingOK, Kinds
<1>5. AskingOK'
  <2>1. got' = [k \in Kinds |-> got'[k]]
        BY <1>4
  <2> QED BY <1>1, <1>2, <2>1 DEF AskingOK
<1>6. ASSUME MonthIsThere, ~crossed, verdict = "none" PROVE RowsOf(kind) = Fit(kind)
  <2>1. window.day = LastDayOf(lists) /\ window.window = Month
        BY <1>1, <1>2, <1>6 DEF ReadSoFar
  <2> QED BY <2>1 DEF RowsOf, Fit, MonthRows
<1>7. ReadSoFar'
  <2>1. /\ MonthIsThere' <=> MonthIsThere
        /\ LastSummary' = LastSummary
        /\ summaries' = summaries
        /\ \A k : Fit(k)' = Fit(k)
        BY <1>1, TablesFrame
  <2>2. ASSUME ~crossed, verdict = "none", MonthIsThere,
               NEW k \in due \ {Summary}, k \notin toAsk \ {kind}
        PROVE  got'[k] = Fit(k)
    <3>1. k \in Kinds
          BY <1>2, <2>2 DEF AskingOK
    <3>2. CASE k = kind
          BY <1>4, <1>6, <2>2, <3>1, <3>2
    <3>3. CASE k # kind
          BY <1>2, <1>4, <2>2, <3>1, <3>3 DEF ReadSoFar
    <3> QED BY <3>2, <3>3
  <2>3. ASSUME ~crossed, verdict = "none", Summary \in due \ (toAsk \ {kind}), LastSummary \in summaries
        PROVE  got'[Summary] = {LastSummary}
    <3>1. Summary \in Kinds /\ Summary \in due \ toAsk
          BY <1>4, <2>3 DEF Kinds
    <3> QED BY <1>2, <1>4, <2>3, <3>1 DEF ReadSoFar
  <2> QED BY <1>1, <2>1, <2>2, <2>3 DEF ReadSoFar
<1> QED BY <1>1, <1>2, <1>3, <1>5, <1>7, TablesFrame, NoVerdict DEF SheetsInv

(* A kind without rows has none to show, or the report is crossed.          *)
LEMMA GetNoRows_Inv == ASSUME NEW kind \in due PROVE SheetsInv /\ GetNoRows(kind) => SheetsInv'
<1> SUFFICES ASSUME SheetsInv, GetNoRows(kind) PROVE SheetsInv'
    OBVIOUS
<1>1. /\ UNCHANGED runVars /\ due' = due /\ toAsk' = toAsk \ {kind} /\ got' = got
      /\ window' = NoWindow /\ verdict' = verdict /\ kind \in toAsk
      /\ crossed' = (crossed \/ (IF kind = Summary THEN summaries ELSE lists) # {})
      BY DEF GetNoRows, endVars, AskingFor
<1>2. AskingOK /\ TablesOK /\ ReadSoFar
      BY DEF SheetsInv
<1>3. verdict' = "none"
      BY <1>1, <1>2 DEF AskingOK
<1>4. AskingOK'
  <2>1. crossed' \in BOOLEAN
        BY <1>1, <1>2 DEF AskingOK
  <2> QED BY <1>1, <1>2, <2>1 DEF AskingOK
<1>5. ReadSoFar'
  <2>1. /\ MonthIsThere' <=> MonthIsThere
        /\ LastSummary' = LastSummary
        /\ summaries' = summaries
        /\ \A k : Fit(k)' = Fit(k)
        BY <1>1, TablesFrame
  <2>2. ASSUME ~crossed'
        PROVE  /\ ~crossed
               /\ kind = Summary => summaries = {}
               /\ kind # Summary => lists = {}
        BY <1>1, <2>2
  <2>3. ASSUME ~crossed', verdict = "none", MonthIsThere,
               NEW k \in due \ {Summary}, k \notin toAsk \ {kind}
        PROVE  got[k] = Fit(k)
    <3>1. k # kind
      <4>1. lists # {}
            BY <2>3 DEF MonthIsThere
      <4> QED BY <2>2, <2>3, <4>1
    <3> QED BY <1>2, <2>2, <2>3, <3>1 DEF ReadSoFar
  <2>4. ASSUME ~crossed', verdict = "none", Summary \in due \ (toAsk \ {kind}), LastSummary \in summaries
        PROVE  got[Summary] = {LastSummary}
    <3>1. kind # Summary
          BY <2>2, <2>4
    <3>2. Summary \in due \ toAsk
          BY <2>4, <3>1
    <3> QED BY <1>2, <2>2, <2>4, <3>2 DEF ReadSoFar
  <2> QED BY <1>1, <2>1, <2>3, <2>4 DEF ReadSoFar
<1> QED BY <1>1, <1>2, <1>3, <1>4, <1>5, TablesFrame, NoVerdict DEF SheetsInv

(* The summary it reads is that of the month.                               *)
LEMMA ReadSummary_Inv == SheetsInv /\ ReadSummary => SheetsInv'
<1> SUFFICES ASSUME SheetsInv, ReadSummary PROVE SheetsInv'
    OBVIOUS
<1>1. PICK s \in SummaryRows(summaries) : got' = [got EXCEPT ![Summary] = {s}]
      BY DEF ReadSummary
<1>2. /\ UNCHANGED runVars /\ due' = due /\ toAsk' = {} /\ window' = window
      /\ verdict' = verdict /\ AskingFor(Summary) /\ Summary \in toAsk /\ crossed' = crossed
      BY DEF ReadSummary, endVars, AskingFor
<1>3. AskingOK /\ TablesOK /\ ReadSoFar
      BY DEF SheetsInv
<1>4. verdict' = "none"
      BY <1>2, <1>3 DEF AskingOK
<1>5. \A k \in ListKinds : k \notin toAsk
      BY <1>2, <1>3, SummaryIsLast DEF AskingOK
<1>6. window' = NoWindow
      BY <1>2, <1>3, <1>5 DEF AskingOK
<1>7. got' = [k \in Kinds |-> IF k = Summary THEN {s} ELSE got[k]] /\ Summary \in Kinds
      BY <1>1, <1>3 DEF AskingOK, Kinds
<1>8. AskingOK'
  <2>1. got' = [k \in Kinds |-> got'[k]]
        BY <1>7
  <2> QED BY <1>2, <1>3, <1>6, <2>1 DEF AskingOK
<1>9. ASSUME LastSummary \in summaries PROVE s = LastSummary
  <2> DEFINE latest == {t \in summaries : t.day = LastDayOf(summaries)}
             spans == {t.window : t \in latest}
  <2>1. s \in latest /\ s.window \in Closest(spans)
        BY DEF SummaryRows
  <2>2. s \in summaries /\ s.day = LastDayOf(summaries) /\ s = [day |-> s.day, window |-> s.window]
        BY <1>3, <2>1 DEF TablesOK
  <2>3. spans \in SUBSET Nat
        BY <1>3 DEF TablesOK
  <2>4. Month \in spans
    <3>1. LastSummary \in latest /\ LastSummary.window = Month
          BY <1>9 DEF LastSummary
    <3> HIDE DEF latest
    <3> QED BY <3>1
  <2> HIDE DEF latest, spans
  <2>5. s.window = Month
        BY <2>1, <2>3, <2>4, ClosestIsMonth
  <2> QED BY <2>2, <2>5 DEF LastSummary
<1>10. ReadSoFar'
  <2>1. /\ MonthIsThere' <=> MonthIsThere
        /\ LastSummary' = LastSummary
        /\ summaries' = summaries
        /\ \A k : Fit(k)' = Fit(k)
        BY <1>2, TablesFrame
  <2>2. ASSUME ~crossed, verdict = "none", MonthIsThere, NEW k \in due \ {Summary}
        PROVE  got'[k] = Fit(k)
    <3>1. k \in Kinds /\ k \in ListKinds
          BY <1>3, <2>2 DEF AskingOK, Kinds
    <3>2. got[k] = Fit(k)
          BY <1>3, <1>5, <2>2, <3>1 DEF ReadSoFar
    <3> QED BY <1>7, <2>2, <3>1, <3>2
  <2>3. LastSummary \in summaries => got'[Summary] = {LastSummary}
        BY <1>7, <1>9
  <2> QED BY <1>2, <1>6, <2>1, <2>2, <2>3 DEF ReadSoFar
<1> QED BY <1>2, <1>3, <1>4, <1>8, <1>10, TablesFrame, NoVerdict DEF SheetsInv

(* What a report that is over was made of.                                 *)
LEMMA ReportIsOver ==
  ASSUME SheetsInv, UNCHANGED runVars, due' = due, toAsk' = toAsk, window' = window,
         crossed' = crossed, got' = Nothing, toAsk = {}, verdict = "none",
         verdict' \in {"sent", "skipped"},
         \/ verdict' = "skipped" /\ \A k \in due : got[k] = {}
         \/ verdict' = "sent" /\ sheets' = Sheets
  PROVE  SheetsInv'
<1>1. AskingOK /\ TablesOK /\ ReadSoFar
      BY DEF SheetsInv
<1>2. verdict' # "none" /\ toAsk' = {} /\ verdict' \in {"none", "sent", "skipped"}
      OBVIOUS
<1>3. AskingOK'
  <2>1. got' = [k \in Kinds |-> got'[k]]
        BY DEF Nothing, Kinds
  <2> QED BY <1>1, <1>2, <2>1 DEF AskingOK
<1>4. ReadSoFar'
      BY <1>2 DEF ReadSoFar
<1>5. /\ MonthIsThere' <=> MonthIsThere
      /\ LastSummary' = LastSummary
      /\ summaries' = summaries
      /\ \A k : Fit(k)' = Fit(k)
      BY TablesFrame
<1>6. ASSUME ~crossed
      PROVE  /\ MonthIsThere => \A k \in due \ {Summary} : got[k] = Fit(k)
             /\ Summary \in due /\ LastSummary \in summaries => got[Summary] = {LastSummary}
      BY <1>1, <1>6 DEF ReadSoFar
<1>7. ASSUME verdict' = "sent", NEW k \in due \ {Summary}
      PROVE  /\ RowsShown(k)' \subseteq Shown(k)
             /\ \A r \in Shown(k) : r.item \in 1..Items => r \in RowsShown(k)'
             /\ \A s \in sheets' : s.kind = k => \A r \in s.rows : HomeOf[r.item] = s.home
  <2>1. sheets' = Sheets
        BY <1>7
  <2>2. ASSUME NEW s \in sheets', s.kind = k
        PROVE  \E h : s = ListSheet(k, h)
    <3>1. s # SummarySheet
          BY <1>7, <2>2 DEF SummarySheet
    <3>2. PICK k2 \in due \ {Summary}, h \in {HomeOf[i] : i \in 1..Items} : s = ListSheet(k2, h)
          BY <2>1, <2>2, <3>1 DEF Sheets
    <3>3. k2 = k
          BY <2>2, <3>2 DEF ListSheet
    <3> QED BY <3>2, <3>3
  <2>3. \A h : ListSheet(k, h).rows = {r \in Shown(k) : HomeOf[r.item] = h} /\ ListSheet(k, h).home = h
                /\ ListSheet(k, h).kind = k
        BY DEF ListSheet
  <2>4. RowsShown(k)' = UNION {s.rows : s \in {t \in sheets' : t.kind = k}}
        BY DEF RowsShown
  <2>5. ASSUME NEW r \in RowsShown(k)' PROVE r \in Shown(k)
    <3>1. PICK s \in sheets' : s.kind = k /\ r \in s.rows
          BY <2>4
    <3> QED BY <2>2, <2>3, <3>1
  <2>6. ASSUME NEW r \in Shown(k), r.item \in 1..Items PROVE r \in RowsShown(k)'
    <3> DEFINE h == HomeOf[r.item]
    <3>1. r \in ListSheet(k, h).rows
          BY <2>3
    <3>2. ListSheet(k, h) \in sheets'
          BY <1>7, <2>1, <2>6, <3>1 DEF Sheets
    <3> QED BY <2>3, <2>4, <3>1, <3>2
  <2>7. ASSUME NEW s \in sheets', s.kind = k, NEW r \in s.rows PROVE HomeOf[r.item] = s.home
        BY <2>2, <2>3, <2>7
  <2> QED BY <2>5, <2>6, <2>7
<1>8. ASSUME ~crossed, MonthIsThere, NEW k \in due \ {Summary}
      PROVE  IF verdict' = "skipped" THEN Fit(k) = {}
             ELSE /\ RowsShown(k)' = {r \in Fit(k) : k = "dead_inventory" => r.figure.stock * r.figure.price > 0}
                  /\ \A s \in sheets' : s.kind = k => \A r \in s.rows : HomeOf[r.item] = s.home
  <2>1. got[k] = Fit(k)
        BY <1>6, <1>8
  <2>2. CASE verdict' = "skipped"
        BY <1>8, <2>1, <2>2
  <2>3. CASE verdict' = "sent"
    <3>1. Shown(k) = {r \in Fit(k) : k = "dead_inventory" => r.figure.stock * r.figure.price > 0}
          BY <2>1 DEF Shown
    <3>2. \A r \in Shown(k) : r.item \in 1..Items
          BY <1>1, <3>1 DEF Fit, MonthRows, TablesOK
    <3> HIDE DEF Shown
    <3>3. RowsShown(k)' = Shown(k)
          BY <1>7, <1>8, <2>3, <3>2
    <3> QED BY <1>7, <1>8, <2>3, <3>1, <3>3
  <2> QED BY <2>2, <2>3
<1>9. SheetsAreOfTheMonth'
  <2>1. \A k : {r \in MonthRows' : Qualifies(k, r.figure)} = Fit(k)
        BY <1>5 DEF Fit
  <2>2. ~crossed' /\ MonthIsThere' => ~crossed /\ MonthIsThere
        BY <1>5
  <2> QED BY <1>8, <2>1, <2>2 DEF SheetsAreOfTheMonth, MonthIsThere
<1>10. SummaryIsOfTheMonth'
  <2> SUFFICES ASSUME ~crossed, verdict' = "sent", Summary \in due, LastSummary \in summaries
               PROVE  RowsShown(Summary)' = {LastSummary}
      BY <1>5 DEF SummaryIsOfTheMonth, LastSummary
  <2>1. got[Summary] = {LastSummary}
        BY <1>6
  <2>2. sheets' = Sheets
        OBVIOUS
  <2>3. \A s \in sheets' : s.kind = Summary => s = SummarySheet
        BY <2>2 DEF Sheets, ListSheet
  <2>4. SummarySheet \in sheets' /\ SummarySheet.kind = Summary /\ SummarySheet.rows = {LastSummary}
        BY <2>1, <2>2 DEF Sheets, SummarySheet
  <2>5. RowsShown(Summary)' = UNION {s.rows : s \in {t \in sheets' : t.kind = Summary}}
        BY DEF RowsShown
  <2>6. {t \in sheets' : t.kind = Summary} = {SummarySheet}
        BY <2>3, <2>4
  <2> QED BY <2>4, <2>5, <2>6
<1> QED BY <1>1, <1>3, <1>4, <1>9, <1>10, TablesFrame DEF SheetsInv

(* Every step of the dispatch, of a run and of the days.                    *)
LEMMA SheetsNext_Inv == SheetsInv /\ [SheetsNext]_sheetVars => SheetsInv'
<1> SUFFICES ASSUME SheetsInv, [SheetsNext]_sheetVars PROVE SheetsInv'
    OBVIOUS
<1>1. CASE StartNightRun
      BY <1>1, StartNightRun_Inv
<1>2. CASE WriteItem
      BY <1>2, WriteItem_Inv
<1>3. CASE EndWindow
      BY <1>3, EndWindow_Inv
<1>4. CASE NightRunLost
      BY <1>4, NightRunLost_Inv
<1>5. CASE BeginReport
      BY <1>5, BeginReport_Inv
<1>6. CASE ReadWindow
      BY <1>6, ReadWindow_Inv
<1>7. CASE ReadSummary
      BY <1>7, ReadSummary_Inv
<1>8. CASE SkipReport
      BY <1>8, ReportIsOver DEF SkipReport
<1>9. CASE MakeFile
      BY <1>9, ReportIsOver DEF MakeFile
<1>10. ASSUME NEW k \in ListKinds, AskRows(k) PROVE SheetsInv'
       BY <1>10, AskRows_Inv
<1>11. ASSUME NEW k \in due, GetNoRows(k) PROVE SheetsInv'
       BY <1>11, GetNoRows_Inv
<1>12. CASE ReportDayPasses \/ UNCHANGED sheetVars
  <2>1. /\ lists' = lists /\ summaries' = summaries /\ nightRun' = nightRun
        /\ due' = due /\ toAsk' = toAsk /\ window' = window /\ got' = got
        /\ sheets' = sheets /\ verdict' = verdict /\ crossed' = crossed
        BY <1>12 DEF ReportDayPasses, sheetVars, runVars, gotVars, endVars
  <2>2. LastDayOf(lists)' = LastDayOf(lists) /\ LastDayOf(summaries)' = LastDayOf(summaries)
        BY <2>1 DEF LastDayOf
  <2>3. MonthRows' = MonthRows
        BY <2>1, <2>2 DEF MonthRows
  <2>4. \A k : RowsShown(k)' = RowsShown(k)
        BY <2>1 DEF RowsShown
  <2>5. \A k : Fit(k)' = Fit(k)
        BY <2>3 DEF Fit
  <2>6. LastSummary' = LastSummary /\ (MonthIsThere' <=> MonthIsThere)
        BY <2>1, <2>2, <2>3 DEF LastSummary, MonthIsThere
  <2>7. TablesOK' /\ AskingOK'
        BY <2>1 DEF SheetsInv, TablesOK, AskingOK
  <2>8. ReadSoFar'
        BY <2>1, <2>2, <2>5, <2>6 DEF SheetsInv, ReadSoFar
  <2>9. SheetsAreOfTheMonth'
        BY <2>1, <2>3, <2>4 DEF SheetsInv, SheetsAreOfTheMonth
  <2>10. SummaryIsOfTheMonth'
        BY <2>1, <2>2, <2>4 DEF SheetsInv, SummaryIsOfTheMonth
  <2> QED BY <2>7, <2>8, <2>9, <2>10 DEF SheetsInv
<1> QED BY <1>1, <1>2, <1>3, <1>4, <1>5, <1>6, <1>7, <1>8, <1>9, <1>10, <1>11, <1>12 DEF SheetsNext

-----------------------------------------------------------------------------
(* MonthlyFigures.                                                         *)

(* The days of a month.                                                    *)
LEMMA MonthOfDay ==
  ASSUME NEW d \in Nat \ {0}
  PROVE  /\ InMonth(d) \in Nat \ {0}
         /\ \A m \in Nat : InMonth(d) <= m <=> d <= EndOf(m)
<1>1. MonthLen \in Nat \ {0}
      BY MonthlyAssumption
<1> DEFINE q == (d - 1) \div MonthLen
           r == (d - 1) % MonthLen
<1>2. q \in Nat /\ r \in 0..(MonthLen - 1) /\ d - 1 = MonthLen * q + r
      BY <1>1
<1>3. InMonth(d) = q + 1
      BY DEF InMonth
<1> HIDE DEF q, r
<1>4. ASSUME NEW m \in Nat PROVE q + 1 <= m <=> d <= m * MonthLen
  <2>1. CASE q + 1 <= m
    <3>1. PICK k \in Nat : m = q + 1 + k
      <4>1. m - (q + 1) \in Nat /\ m = q + 1 + (m - (q + 1))
            BY <1>2, <2>1
      <4> QED BY <4>1
    <3>2. m * MonthLen = MonthLen * q + MonthLen + k * MonthLen
          BY <1>1, <1>2, <3>1
    <3>3. k * MonthLen >= 0 /\ k * MonthLen \in Nat /\ MonthLen * q \in Nat
          BY <1>1, <1>2, <3>1
    <3> QED BY <1>1, <1>2, <2>1, <3>2, <3>3
  <2>2. CASE m <= q
    <3>1. PICK k \in Nat : q = m + k
      <4>1. q - m \in Nat /\ q = m + (q - m)
            BY <1>2, <2>2
      <4> QED BY <4>1
    <3>2. MonthLen * q = m * MonthLen + k * MonthLen
          BY <1>1, <1>2, <3>1
    <3>3. k * MonthLen \in Nat /\ m * MonthLen \in Nat
          BY <1>1, <3>1
    <3> QED BY <1>1, <1>2, <2>2, <3>2, <3>3
  <2> QED BY <1>2, <2>1, <2>2
<1> QED BY <1>2, <1>3, <1>4 DEF EndOf

(* Within a table that leaves a row out, the table is full, and none of its*)
(* rows is behind the one that is left out.                                *)
LEMMA TopIsFull ==
  ASSUME NEW rows, IsFiniteSet(rows), NEW ahead, NEW n \in Nat,
         NEW top \in Tops(rows, ahead, n), NEW p \in rows \ top
  PROVE  Cardinality(top) = n /\ \A q \in top : <<p, q>> \notin ahead
<1>1. /\ top \subseteq rows
      /\ Cardinality(top) = IF Cardinality(rows) < n THEN Cardinality(rows) ELSE n
      /\ \A q \in top : <<p, q>> \notin ahead
      BY DEF Tops
<1>2. Cardinality(top) # Cardinality(rows)
      BY <1>1, FS_Subset
<1> QED BY <1>1, <1>2

(* What rose by more than another fell is ahead of it, whatever both sold.  *)
LEMMA FasterByFar ==
  ASSUME NEW a \in Nat, NEW b \in Nat, NEW c \in Nat, NEW d \in Nat,
         a > b, c >= d, d > 0
  PROVE  a * c > d * b
<1>1. PICK i \in Nat : a = b + i /\ i > 0
  <2>1. a - b \in Nat /\ a = b + (a - b) /\ a - b > 0
        OBVIOUS
  <2> QED BY <2>1
<1>2. PICK j \in Nat : c = d + j
  <2>1. c - d \in Nat /\ c = d + (c - d)
        OBVIOUS
  <2> QED BY <2>1
<1>3. a * c = d * b + b * j + i * d + i * j
      BY <1>1, <1>2
<1>4. i * d > 0 /\ i * d \in Nat
  <2>1. PICK k \in Nat : d = k + 1
    <3>1. d - 1 \in Nat /\ d = (d - 1) + 1
          OBVIOUS
    <3> QED BY <3>1
  <2>2. i * d = i * k + i /\ i * k \in Nat
        BY <1>1, <2>1
  <2> QED BY <1>1, <2>2
<1>5. b * j \in Nat /\ i * j \in Nat /\ d * b \in Nat
      BY <1>1, <1>2
<1> QED BY <1>3, <1>4, <1>5

(* What may be counted of a product.                                       *)
Counts == [sold : Nat, in : Nat, out : Nat, stock : Nat, price : Nat]

(* What is told of a product is a number.                                   *)
LEMMA CountsAreNumbers ==
  ASSUME NEW h \in Counts
  PROVE  Velocity(h) \in Nat /\ Loss(h) \in Nat /\ Worth(h) \in Nat
<1>1. /\ Scale \in Nat /\ h.sold \in Nat /\ h.in \in Nat
      /\ h.out \in Nat /\ h.stock \in Nat /\ h.price \in Nat
      BY MonthlyAssumption DEF Counts
<1>2. Velocity(h) \in Nat
  <2>1. Scale * h.sold \in Nat
        BY <1>1
  <2> QED BY <1>1, <2>1 DEF Velocity
<1>3. Worth(h) \in Nat
      BY <1>1 DEF Worth
<1>4. Velocity(h) * h.out \in Nat
      BY <1>1, <1>2
<1> QED BY <1>1, <1>2, <1>3, <1>4 DEF Loss

(* Frozen stock is dead in the segments.                                   *)
LEMMA FrozenIsDead ==
  ASSUME NEW h \in Counts, CoverAbove(h, SlowTo)
  PROVE  Segment(h) = "dead_inventory_risk"
<1> DEFINE v == Velocity(h)
           s == Scale * h.stock
<1>1. /\ FastBelow \in Nat /\ StableTo \in Nat /\ SlowTo \in Nat
      /\ FastBelow <= StableTo /\ StableTo <= SlowTo
      BY MonthlyAssumption
<1>2. v \in Nat /\ s \in Nat
      BY CountsAreNumbers, MonthlyAssumption DEF Counts
<1>3. Covered(h) /\ s > SlowTo * v
      BY DEF CoverAbove
<1>4. \A x \in Nat : x <= SlowTo => s > x * v
  <2> SUFFICES ASSUME NEW x \in Nat, x <= SlowTo PROVE s > x * v
      OBVIOUS
  <2>1. PICK k \in Nat : SlowTo = x + k
    <3>1. SlowTo - x \in Nat /\ SlowTo = x + (SlowTo - x)
          BY <1>1
    <3> QED BY <3>1
  <2>2. SlowTo * v = x * v + k * v /\ k * v \in Nat /\ x * v \in Nat
        BY <1>1, <1>2, <2>1
  <2> HIDE DEF v, s
  <2> QED BY <1>2, <1>3, <2>2
<1>5. s > FastBelow * v /\ s > StableTo * v /\ s > SlowTo * v
      BY <1>1, <1>4
<1>6. FastBelow * v \in Nat
      BY <1>1, <1>2
<1> QED BY <1>1, <1>2, <1>3, <1>5, <1>6 DEF Segment, CoverBelow, CoverAbove

(* Enough products that rose fill the table of growth, for each of them    *)
(* comes before each that did not; and so for the fall.                    *)
LEMMA GrowthRose ==
  ASSUME NEW f \in [Item -> Counts], NEW g \in [Item -> Counts], NEW n \in Nat,
         NEW top \in Tops(Moved(f, g), {o \in Moved(f, g) \X Moved(f, g) : Faster(f, g, o[1], o[2])}, n),
         Cardinality({p \in Item : /\ Velocity(f[p]) > Velocity(g[p])
                                   /\ Velocity(g[p]) > 0}) >= n
  PROVE  top \subseteq {p \in Item : /\ Velocity(f[p]) > Velocity(g[p])
                                     /\ Velocity(g[p]) > 0}
<1> DEFINE both == Moved(f, g)
           faster == {o \in both \X both : Faster(f, g, o[1], o[2])}
           rose == {p \in Item : Velocity(f[p]) > Velocity(g[p]) /\ Velocity(g[p]) > 0}
<1>1. both = {p \in Item : Velocity(f[p]) > 0 /\ Velocity(g[p]) > 0}
      BY DEF Moved
<1>2. \A p \in Item : Velocity(f[p]) \in Nat /\ Velocity(g[p]) \in Nat
      BY CountsAreNumbers
<1>3. rose \subseteq both
      BY <1>1, <1>2
<1>4. IsFiniteSet(both) /\ IsFiniteSet(Item) /\ IsFiniteSet(rose)
      BY <1>1, <1>3, FS_Subset, MonthlyAssumption
<1>5. top \subseteq both /\ IsFiniteSet(top) /\ Cardinality(top) <= n
  <2>1. top \subseteq both
        BY DEF Tops
  <2>2. Cardinality(top) = IF Cardinality(both) < n THEN Cardinality(both) ELSE n
        BY DEF Tops
  <2>3. Cardinality(both) \in Nat
        BY <1>4, FS_CardinalityType
  <2> QED BY <1>4, <2>1, <2>2, <2>3, FS_Subset
<1> SUFFICES ASSUME NEW p \in top, p \notin rose PROVE FALSE
    BY DEF rose
<1>6. PICK q \in rose : q \notin top
  <2> SUFFICES ASSUME rose \subseteq top PROVE FALSE
      OBVIOUS
  <2>1. rose # top
        OBVIOUS
  <2>2. Cardinality(rose) < Cardinality(top)
        BY <1>4, <1>5, <2>1, FS_Subset, FS_CardinalityType
  <2>3. Cardinality(rose) >= n
        OBVIOUS
  <2> HIDE DEF rose
  <2> QED BY <1>4, <1>5, <2>2, <2>3, FS_CardinalityType
<1>7. <<q, p>> \notin faster
      BY <1>3, <1>6 DEF Tops
<1>8. ~ Faster(f, g, q, p)
  <2>1. <<q, p>> \in both \X both
        BY <1>3, <1>5, <1>6
  <2> QED BY <1>7, <2>1
<1>9. Velocity(f[q]) > Velocity(g[q]) /\ Velocity(g[p]) >= Velocity(f[p]) /\ Velocity(f[p]) > 0
      BY <1>1, <1>2, <1>3, <1>5, <1>6
<1>10. Velocity(f[q]) * Velocity(g[p]) > Velocity(f[p]) * Velocity(g[q])
       BY <1>1, <1>2, <1>3, <1>5, <1>6, <1>9, FasterByFar
<1> QED BY <1>8, <1>10 DEF Faster

(* The fall of one month is the growth the other way round.                 *)
LEMMA DeclineFell ==
  ASSUME NEW f \in [Item -> Counts], NEW g \in [Item -> Counts], NEW n \in Nat,
         NEW top \in Tops(Moved(f, g), {o \in Moved(f, g) \X Moved(f, g) : Faster(f, g, o[2], o[1])}, n),
         Cardinality({p \in Item : /\ Velocity(f[p]) < Velocity(g[p])
                                   /\ Velocity(f[p]) > 0}) >= n
  PROVE  top \subseteq {p \in Item : /\ Velocity(f[p]) < Velocity(g[p])
                                     /\ Velocity(f[p]) > 0}
<1> DEFINE both == Moved(f, g)
           slower == {o \in both \X both : Faster(f, g, o[2], o[1])}
           back == {o \in both \X both : Faster(g, f, o[1], o[2])}
           fell == {p \in Item : Velocity(f[p]) < Velocity(g[p]) /\ Velocity(f[p]) > 0}
           rose == {p \in Item : Velocity(g[p]) > Velocity(f[p]) /\ Velocity(f[p]) > 0}
<1>1. Moved(g, f) = both
      BY DEF Moved
<1>2. \A p \in Item : Velocity(f[p]) \in Nat /\ Velocity(g[p]) \in Nat
      BY CountsAreNumbers
<1>3. slower = back
  <2>1. both \subseteq Item
        BY DEF Moved
  <2>2. ASSUME NEW p \in both, NEW q \in both PROVE Faster(f, g, q, p) <=> Faster(g, f, p, q)
    <3>1. /\ Velocity(f[p]) \in Nat /\ Velocity(f[q]) \in Nat
          /\ Velocity(g[p]) \in Nat /\ Velocity(g[q]) \in Nat
          BY <1>2, <2>1
    <3>2. ASSUME NEW a \in Nat, NEW b \in Nat, NEW c \in Nat, NEW d \in Nat
          PROVE  a * b > c * d <=> b * a > d * c
          OBVIOUS
    <3>3. /\ Faster(f, g, q, p) <=> Velocity(f[q]) * Velocity(g[p]) > Velocity(f[p]) * Velocity(g[q])
          /\ Faster(g, f, p, q) <=> Velocity(g[p]) * Velocity(f[q]) > Velocity(g[q]) * Velocity(f[p])
          BY DEF Faster
    <3> QED BY <3>1, <3>2, <3>3
  <2>3. \A o \in both \X both : o[1] \in both /\ o[2] \in both
        OBVIOUS
  <2> HIDE DEF both
  <2> QED BY <2>2, <2>3
<1>4. fell = rose
      BY <1>2
<1>5. top \in Tops(Moved(g, f), back, n)
      BY <1>1, <1>3
<1>6. Cardinality(rose) >= n
      BY <1>4
<1>7. top \in Tops(Moved(g, f), {o \in Moved(g, f) \X Moved(g, f) : Faster(g, f, o[1], o[2])}, n)
      BY <1>1, <1>5
<1>8. top \subseteq rose
      BY <1>6, <1>7, GrowthRose
<1> QED BY <1>4, <1>8

(* A product that lost and is not among the losses: they are full of worse.*)
LEMMA LostAreTold ==
  ASSUME NEW f \in [Item -> Counts],
         NEW top \in Tops(Losing(f), {o \in (DOMAIN f) \X (DOMAIN f) : Loss(f[o[1]]) > Loss(f[o[2]])}, TopRows),
         NEW p \in Item \ top
  PROVE  \/ Loss(f[p]) = 0
         \/ Cardinality(top) = TopRows /\ \A q \in top : Loss(f[q]) >= Loss(f[p])
<1>1. DOMAIN f = Item /\ Losing(f) \subseteq Item /\ IsFiniteSet(Losing(f))
      BY FS_Subset, MonthlyAssumption DEF Losing
<1>2. \A q \in Item : Loss(f[q]) \in Nat
      BY CountsAreNumbers
<1> SUFFICES ASSUME Loss(f[p]) # 0
             PROVE  Cardinality(top) = TopRows /\ \A q \in top : Loss(f[q]) >= Loss(f[p])
    OBVIOUS
<1>3. p \in Losing(f) \ top
      BY <1>1, <1>2 DEF Losing
<1> DEFINE ahead == {o \in (DOMAIN f) \X (DOMAIN f) : Loss(f[o[1]]) > Loss(f[o[2]])}
<1>4. TopRows \in Nat /\ top \in Tops(Losing(f), ahead, TopRows)
      BY MonthlyAssumption
<1>5. top \subseteq Item
      BY <1>1, <1>4 DEF Tops
<1>6. Cardinality(top) = TopRows /\ \A q \in top : <<p, q>> \notin ahead
  <2> HIDE DEF ahead
  <2> QED BY <1>1, <1>3, <1>4, TopIsFull
<1>7. ASSUME NEW q \in top PROVE Loss(f[q]) >= Loss(f[p])
  <2>1. q \in Item /\ <<p, q>> \in (DOMAIN f) \X (DOMAIN f)
        BY <1>1, <1>5
  <2>2. ~(Loss(f[p]) > Loss(f[q]))
        BY <1>6, <2>1
  <2> QED BY <1>2, <2>1, <2>2
<1> QED BY <1>6, <1>7

(* Dead stock that is not among the frozen: they are full of dearer stock,  *)
(* or it is worth nothing.                                                  *)
LEMMA DeadAreTold ==
  ASSUME NEW f \in [Item -> Counts],
         NEW top \in Tops(FrozenIn(f), {o \in (DOMAIN f) \X (DOMAIN f) : Worth(f[o[1]]) > Worth(f[o[2]])}, TopRows),
         NEW p \in Item \ top, Segment(f[p]) = "dead_inventory_risk"
  PROVE  \/ Worth(f[p]) = 0
         \/ Cardinality(top) = TopRows /\ \A q \in top : Worth(f[q]) >= Worth(f[p])
<1>1. DOMAIN f = Item /\ FrozenIn(f) \subseteq Item /\ IsFiniteSet(FrozenIn(f))
      BY FS_Subset, MonthlyAssumption DEF FrozenIn
<1>2. \A q \in Item : Worth(f[q]) \in Nat
      BY CountsAreNumbers
<1> SUFFICES ASSUME Worth(f[p]) # 0
             PROVE  Cardinality(top) = TopRows /\ \A q \in top : Worth(f[q]) >= Worth(f[p])
    OBVIOUS
<1>3. p \in FrozenIn(f) \ top
  <2>1. CoverAbove(f[p], SlowTo)
        BY DEF Segment
  <2> QED BY <1>1, <1>2, <2>1 DEF FrozenIn
<1> DEFINE ahead == {o \in (DOMAIN f) \X (DOMAIN f) : Worth(f[o[1]]) > Worth(f[o[2]])}
<1>4. TopRows \in Nat /\ top \in Tops(FrozenIn(f), ahead, TopRows)
      BY MonthlyAssumption
<1>5. top \subseteq Item
      BY <1>1, <1>4 DEF Tops
<1>6. Cardinality(top) = TopRows /\ \A q \in top : <<p, q>> \notin ahead
  <2> HIDE DEF ahead
  <2> QED BY <1>1, <1>3, <1>4, TopIsFull
<1>7. ASSUME NEW q \in top PROVE Worth(f[q]) >= Worth(f[p])
  <2>1. q \in Item /\ <<p, q>> \in (DOMAIN f) \X (DOMAIN f)
        BY <1>1, <1>5
  <2>2. ~(Worth(f[p]) > Worth(f[q]))
        BY <1>6, <2>1
  <2> QED BY <1>2, <2>1, <2>2
<1> QED BY <1>6, <1>7

-----------------------------------------------------------------------------
(* What has been read of a month.                                          *)
ReadOf(table, m) ==
  /\ table \in [DOMAIN table -> Counts] /\ DOMAIN table \subseteq Item
  /\ ~marred => m \in DOMAIN happened /\ table = happened[m]

(* The rows the report compares.                                           *)
RowsRead ==
  /\ monthly.now # {} /\ monthly.now = RowUpTo(EndOf(monthly.month))
  /\ ~marred => monthly.before = RowUpTo(EndOf(monthly.month - 1))

(* The days, the months that are remembered, and at each stage of a report  *)
(* what it has read and what it tells.                                      *)
MonthlyInv ==
  /\ calendar \in Nat \ {0} /\ rowsOf \subseteq 1..calendar
  /\ marred \in BOOLEAN
  /\ happened \in [DOMAIN happened -> [Item -> Happened]]
  /\ monthly = NoReport \/ monthly.at \in {"rows", "month", "earlier", "file", "made"}
  /\ monthly # NoReport => monthly.month \in Nat \ {0, 1} /\ InMonth(calendar) = monthly.month + 1
  /\ monthly.at \in {"month", "earlier", "file", "made"} => RowsRead
  /\ monthly.at \in {"earlier", "file"} => ReadOf(monthly.figures, monthly.month)
  /\ monthly.at = "file" => ReadOf(monthly.earlier, monthly.month - 1)
  /\ TablesAreOfTheMonth /\ MoversMove

(* No report at first.                                                      *)
LEMMA MonthlyInit_Inv == MonthlyInit => MonthlyInv
<1> SUFFICES ASSUME MonthlyInit PROVE MonthlyInv
    OBVIOUS
<1>1. monthly.at = "none" /\ monthly = NoReport
      BY DEF MonthlyInit, NoReport
<1>2. TablesAreOfTheMonth /\ MoversMove
      BY <1>1 DEF TablesAreOfTheMonth, MoversMove, Made
<1>3. happened \in [DOMAIN happened -> [Item -> Happened]]
      BY DEF MonthlyInit
<1>4. calendar = 1 /\ rowsOf = {} /\ marred = FALSE
      BY DEF MonthlyInit
<1>5. calendar \in Nat \ {0} /\ rowsOf \subseteq 1..calendar /\ marred \in BOOLEAN
  <2>1. calendar \in Nat \ {0}
        BY <1>4
  <2>2. rowsOf \subseteq 1..calendar
        BY <1>4
  <2>3. marred \in BOOLEAN
        BY <1>4
  <2> QED BY <2>1, <2>2, <2>3
<1> QED BY <1>1, <1>2, <1>3, <1>5 DEF MonthlyInv

(* The latest row up to a day depends on the rows alone.                    *)
LEMMA RowUpToFrame ==
  ASSUME rowsOf' = rowsOf
  PROVE  \A day : RowUpTo(day)' = RowUpTo(day)
BY DEF RowUpTo

(* A step that leaves the report, and what it goes by, alone.              *)
LEMMA MonthlyFrame ==
  ASSUME MonthlyInv, UNCHANGED <<happened, monthly, marred>>,
         calendar' \in Nat \ {0}, rowsOf' \subseteq 1..calendar',
         monthly # NoReport => InMonth(calendar') = InMonth(calendar),
         monthly.at \in {"month", "earlier", "file", "made"} => RowsRead'
  PROVE  MonthlyInv'
<1>1. TablesAreOfTheMonth' /\ MoversMove'
      BY DEF MonthlyInv, TablesAreOfTheMonth, MoversMove, Made
<1>2. \A table, m : ReadOf(table, m) => ReadOf(table, m)'
      BY DEF ReadOf
<1>3. /\ monthly.at \in {"earlier", "file"} => ReadOf(monthly.figures, monthly.month)'
      /\ monthly.at = "file" => ReadOf(monthly.earlier, monthly.month - 1)'
      BY <1>2 DEF MonthlyInv
<1> QED BY <1>1, <1>3 DEF MonthlyInv, ReadOf

(* No day passes while a report is made.                                    *)
LEMMA MonthDayPasses_Inv == MonthlyInv /\ MonthDayPasses => MonthlyInv'
<1> SUFFICES ASSUME MonthlyInv, MonthDayPasses PROVE MonthlyInv'
    OBVIOUS
<1>1. monthly = NoReport /\ monthly.at = "none"
      BY DEF MonthDayPasses, NoReport
<1>2. calendar' \in Nat \ {0} /\ rowsOf' \subseteq 1..calendar'
  <2>1. calendar \in Nat /\ rowsOf \subseteq 1..calendar /\ rowsOf' = rowsOf /\ calendar' = calendar + 1
        BY DEF MonthlyInv, MonthDayPasses
  <2>2. \A d \in 1..calendar : d \in 1..calendar'
        BY <2>1
  <2> QED BY <2>1, <2>2
<1> QED BY <1>1, <1>2, MonthlyFrame DEF MonthDayPasses

(* A run of today, and today is after the month of the report.             *)
LEMMA RunEnds_Inv == MonthlyInv /\ RunEnds => MonthlyInv'
<1> SUFFICES ASSUME MonthlyInv, RunEnds PROVE MonthlyInv'
    OBVIOUS
<1>1. calendar' \in Nat \ {0} /\ rowsOf' \subseteq 1..calendar'
      BY DEF MonthlyInv, RunEnds
<1>2. ASSUME monthly.at \in {"month", "earlier", "file", "made"}
      PROVE  RowsRead'
  <2>1. /\ monthly # NoReport /\ monthly.month \in Nat \ {0, 1}
        /\ InMonth(calendar) = monthly.month + 1 /\ RowsRead
        BY <1>2 DEF MonthlyInv, NoReport
  <2>2. \A m \in Nat : m <= monthly.month => ~(calendar <= EndOf(m))
    <3>1. calendar \in Nat \ {0}
          BY DEF MonthlyInv
    <3> QED BY <2>1, <3>1, MonthOfDay
  <2>3. ASSUME NEW m \in Nat, m <= monthly.month PROVE RowUpTo(EndOf(m))' = RowUpTo(EndOf(m))
        BY <2>2, <2>3 DEF RunEnds, RowUpTo, EndOf
  <2>4. /\ RowUpTo(EndOf(monthly.month))' = RowUpTo(EndOf(monthly.month))
        /\ RowUpTo(EndOf(monthly.month - 1))' = RowUpTo(EndOf(monthly.month - 1))
    <3>1. monthly' = monthly
          BY DEF RunEnds
    <3> QED BY <2>1, <2>3, <3>1 DEF RowUpTo, RunEnds
  <2> QED BY <2>1, <2>4 DEF RowsRead, RunEnds
<1> QED BY <1>1, <1>2, MonthlyFrame DEF RunEnds

(* A report is about the month before today's.                              *)
LEMMA BeginMonthly_Inv == MonthlyInv /\ BeginMonthly => MonthlyInv'
<1> SUFFICES ASSUME MonthlyInv, BeginMonthly PROVE MonthlyInv'
    OBVIOUS
<1>1. InMonth(calendar) \in Nat
      BY MonthOfDay DEF MonthlyInv
<1>2. /\ monthly'.at = "rows" /\ monthly'.month = InMonth(calendar) - 1
      /\ monthly'.month \in Nat \ {0, 1} /\ InMonth(calendar)' = monthly'.month + 1
      BY <1>1 DEF BeginMonthly, InMonth
<1>3. TablesAreOfTheMonth' /\ MoversMove'
      BY <1>2 DEF TablesAreOfTheMonth, MoversMove, Made
<1> QED BY <1>2, <1>3 DEF MonthlyInv, BeginMonthly

(* The rows it compares are the latest of its month and of the one before.  *)
LEMMA ReadStoreRows_Inv == MonthlyInv /\ ReadStoreRows => MonthlyInv'
<1> SUFFICES ASSUME MonthlyInv, ReadStoreRows PROVE MonthlyInv'
    OBVIOUS
<1>1. monthly.at = "rows" /\ monthly # NoReport
      BY DEF ReadStoreRows, NoReport
<1>2. PICK now \in {{}, RowUpTo(EndOf(monthly.month))},
           before \in {{}, RowUpTo(ComparedWith(monthly.month))} :
       IF now = {} THEN monthly' = NoReport /\ UNCHANGED marred
       ELSE /\ monthly' = [at |-> "month", month |-> monthly.month,
                           now |-> now, before |-> before]
            /\ marred' = (before # RowUpTo(ComparedWith(monthly.month)))
      BY DEF ReadStoreRows
<1>3. CASE now = {}
  <2>1. monthly' = NoReport /\ monthly'.at = "none"
        BY <1>2, <1>3 DEF NoReport
  <2>2. TablesAreOfTheMonth' /\ MoversMove'
        BY <2>1 DEF TablesAreOfTheMonth, MoversMove, Made
  <2> QED BY <1>2, <1>3, <2>1, <2>2 DEF MonthlyInv, ReadStoreRows
<1>4. CASE now # {}
  <2>1. /\ monthly'.at = "month" /\ monthly'.month = monthly.month
        /\ monthly'.now = now /\ monthly'.before = before
        BY <1>2, <1>4
  <2>2. TablesAreOfTheMonth' /\ MoversMove'
        BY <2>1 DEF TablesAreOfTheMonth, MoversMove, Made
  <2>3. RowsRead'
        BY <1>2, <1>4, <2>1, RowUpToFrame DEF RowsRead, ComparedWith, ReadStoreRows
  <2>4. monthly # NoReport => monthly'.month \in Nat \ {0, 1} /\ InMonth(calendar)' = monthly'.month + 1
        BY <2>1 DEF MonthlyInv, ReadStoreRows, InMonth
  <2>5. marred' \in BOOLEAN
        BY <1>2, <1>4
  <2> QED BY <1>1, <2>1, <2>2, <2>3, <2>4, <2>5 DEF MonthlyInv, ReadStoreRows
<1> QED BY <1>3, <1>4

(* A month that is asked for is remembered.                                *)
LEMMA Remembered ==
  ASSUME MonthlyInv, NEW m, Remember(m)
  PROVE  /\ m \in DOMAIN happened' /\ \A k \in DOMAIN happened : k \in DOMAIN happened'
         /\ \A k \in DOMAIN happened : happened'[k] = happened[k]
         /\ happened' \in [DOMAIN happened' -> [Item -> Happened]]
         /\ happened'[m] \in [Item -> Counts]
<1>1. happened \in [DOMAIN happened -> [Item -> Happened]]
      BY DEF MonthlyInv
<1>2. Happened \subseteq Counts
      BY MonthlyAssumption DEF Counts
<1>3. CASE m \in DOMAIN happened
      BY <1>1, <1>2, <1>3 DEF Remember
<1>4. CASE m \notin DOMAIN happened
  <2>1. PICK h \in [Item -> Happened] :
             happened' = [k \in DOMAIN happened \cup {m} |-> IF k = m THEN h ELSE happened[k]]
        BY <1>4 DEF Remember
  <2>2. h \in [Item -> Counts]
        BY <1>2
  <2> QED BY <1>1, <1>4, <2>1, <2>2
<1> QED BY <1>3, <1>4

(* What a call gives of a month is what happened, if nothing failed.        *)
LEMMA ReadIsOfMonth ==
  ASSUME NEW m, happened'[m] \in [Item -> Counts], NEW answer \in ReadsOf(m)
  PROVE  /\ answer.of \in [DOMAIN answer.of -> Counts] /\ DOMAIN answer.of \subseteq Item
         /\ answer.whole \in BOOLEAN
         /\ answer.whole => answer.of = happened'[m]
<1>1. CASE answer = [of |-> [p \in {} |-> {}], whole |-> FALSE]
  <2>1. answer.of = [p \in {} |-> {}] /\ answer.whole = FALSE
        BY <1>1
  <2> QED BY <2>1
<1>2. CASE \E deleted \in {{}} \cup {{p} : p \in Item} :
              answer = [of |-> Counted(m, deleted), whole |-> deleted = {}]
  <2>1. PICK deleted \in {{}} \cup {{p} : p \in Item} :
              answer = [of |-> Counted(m, deleted), whole |-> deleted = {}]
        BY <1>2
  <2>2. answer.of = Counted(m, deleted) /\ answer.whole = (deleted = {})
        BY <2>1
  <2>3. \A p \in Item : /\ happened'[m][p] \in Counts
                        /\ [happened'[m][p] EXCEPT !.sold = 0] \in Counts
        BY DEF Counts
  <2>4. Counted(m, deleted) \in [Item -> Counts]
        BY <2>3 DEF Counted
  <2>5. ASSUME deleted = {} PROVE Counted(m, deleted) = happened'[m]
        BY <2>5 DEF Counted
  <2> QED BY <2>2, <2>4, <2>5
<1> QED BY <1>1, <1>2 DEF ReadsOf

(* The figures of the month are of the month.                               *)
LEMMA ReadMonth_Inv == MonthlyInv /\ ReadMonth => MonthlyInv'
<1> SUFFICES ASSUME MonthlyInv, ReadMonth PROVE MonthlyInv'
    OBVIOUS
<1>1. monthly.at = "month" /\ monthly # NoReport /\ Remember(monthly.month)
      BY DEF ReadMonth, NoReport
<1>2. PICK answer \in ReadsOf(monthly.month) :
       /\ monthly' = [at |-> "earlier", month |-> monthly.month,
                      now |-> monthly.now, before |-> monthly.before, figures |-> answer.of]
       /\ marred' = (marred \/ ~answer.whole)
      BY DEF ReadMonth
<1>3. /\ monthly'.at = "earlier" /\ monthly'.month = monthly.month
      /\ monthly'.now = monthly.now /\ monthly'.before = monthly.before
      /\ monthly'.figures = answer.of
      BY <1>2
<1>4. /\ answer.of \in [DOMAIN answer.of -> Counts] /\ DOMAIN answer.of \subseteq Item
      /\ answer.whole \in BOOLEAN
      /\ answer.whole => answer.of = happened'[monthly.month]
      /\ monthly.month \in DOMAIN happened'
      /\ happened' \in [DOMAIN happened' -> [Item -> Happened]]
      BY <1>1, Remembered, ReadIsOfMonth
<1>5. TablesAreOfTheMonth' /\ MoversMove'
      BY <1>3 DEF TablesAreOfTheMonth, MoversMove, Made
<1>6. RowsRead'
      BY <1>1, <1>2, <1>3, <1>4, RowUpToFrame DEF MonthlyInv, RowsRead, ReadMonth
<1>7. ReadOf(monthly.figures, monthly.month)'
      BY <1>2, <1>3, <1>4 DEF ReadOf, MonthlyInv
<1>8. monthly'.month \in Nat \ {0, 1} /\ InMonth(calendar)' = monthly'.month + 1
      BY <1>1, <1>3 DEF MonthlyInv, ReadMonth, InMonth
<1>9. marred' \in BOOLEAN
      BY <1>2, <1>4 DEF MonthlyInv
<1> QED BY <1>3, <1>4, <1>5, <1>6, <1>7, <1>8, <1>9 DEF MonthlyInv, ReadMonth, ReadOf

(* The earlier figures are of the month before.                             *)
LEMMA ReadEarlier_Inv == MonthlyInv /\ ReadEarlier => MonthlyInv'
<1> SUFFICES ASSUME MonthlyInv, ReadEarlier PROVE MonthlyInv'
    OBVIOUS
<1>1. monthly.at = "earlier" /\ monthly # NoReport /\ Remember(monthly.month - 1)
      BY DEF ReadEarlier, NoReport
<1>2. PICK answer \in ReadsOf(monthly.month - 1) :
       /\ monthly' = [at |-> "file", month |-> monthly.month,
                      now |-> monthly.now, before |-> monthly.before,
                      figures |-> monthly.figures, earlier |-> answer.of]
       /\ marred' = (marred \/ ~answer.whole)
      BY DEF ReadEarlier
<1>3. /\ monthly'.at = "file" /\ monthly'.month = monthly.month
      /\ monthly'.now = monthly.now /\ monthly'.before = monthly.before
      /\ monthly'.figures = monthly.figures /\ monthly'.earlier = answer.of
      BY <1>2
<1>4. /\ answer.of \in [DOMAIN answer.of -> Counts] /\ DOMAIN answer.of \subseteq Item
      /\ answer.whole \in BOOLEAN
      /\ answer.whole => answer.of = happened'[monthly.month - 1]
      /\ monthly.month - 1 \in DOMAIN happened'
      /\ happened' \in [DOMAIN happened' -> [Item -> Happened]]
      /\ \A k \in DOMAIN happened : k \in DOMAIN happened' /\ happened'[k] = happened[k]
      BY <1>1, Remembered, ReadIsOfMonth
<1>5. TablesAreOfTheMonth' /\ MoversMove'
      BY <1>3 DEF TablesAreOfTheMonth, MoversMove, Made
<1>6. RowsRead'
      BY <1>1, <1>2, <1>3, <1>4, RowUpToFrame DEF MonthlyInv, RowsRead, ReadEarlier
<1>7. ReadOf(monthly.earlier, monthly.month - 1)'
      BY <1>2, <1>3, <1>4 DEF ReadOf, MonthlyInv
<1>8. ReadOf(monthly.figures, monthly.month)'
      BY <1>1, <1>2, <1>3, <1>4 DEF ReadOf, MonthlyInv
<1>9. monthly'.month \in Nat \ {0, 1} /\ InMonth(calendar)' = monthly'.month + 1
      BY <1>1, <1>3 DEF MonthlyInv, ReadEarlier, InMonth
<1>10. marred' \in BOOLEAN
       BY <1>2, <1>4 DEF MonthlyInv
<1> QED BY <1>3, <1>4, <1>5, <1>6, <1>7, <1>8, <1>9, <1>10 DEF MonthlyInv, ReadEarlier, ReadOf

(* Nothing is left of a report that has gone.                               *)
LEMMA MonthlyLeaves_Inv == MonthlyInv /\ MonthlyLeaves => MonthlyInv'
<1> SUFFICES ASSUME MonthlyInv, MonthlyLeaves PROVE MonthlyInv'
    OBVIOUS
<1>1. monthly' = NoReport /\ monthly'.at = "none" /\ marred' = FALSE
      BY DEF MonthlyLeaves, NoReport
<1>2. TablesAreOfTheMonth' /\ MoversMove'
      BY <1>1 DEF TablesAreOfTheMonth, MoversMove, Made
<1>3. happened' \in [DOMAIN happened' -> [Item -> Happened]]
      BY DEF MonthlyLeaves
<1>4. calendar' = calendar /\ rowsOf' = rowsOf
      BY DEF MonthlyLeaves
<1> QED BY <1>1, <1>2, <1>3, <1>4 DEF MonthlyInv

(* The tables are made of the figures of both months.                       *)
LEMMA MakeMonthly_Inv == MonthlyInv /\ MakeMonthly => MonthlyInv'
<1> SUFFICES ASSUME MonthlyInv, MakeMonthly PROVE MonthlyInv'
    OBVIOUS
<1> DEFINE f == monthly.figures
           g == monthly.earlier
           all == DOMAIN f
           moreLost == {o \in all \X all : Loss(f[o[1]]) > Loss(f[o[2]])}
           moreFrozen == {o \in all \X all : Worth(f[o[1]]) > Worth(f[o[2]])}
           both == Moved(f, g)
           faster == {o \in both \X both : Faster(f, g, o[1], o[2])}
           slower == {o \in both \X both : Faster(f, g, o[2], o[1])}
<1>1. monthly.at = "file" /\ monthly # NoReport
      BY DEF MakeMonthly, NoReport
<1>2. PICK lost \in Tops(Losing(f), moreLost, TopRows),
           frozen \in Tops(FrozenIn(f), moreFrozen, TopRows),
           growth \in Tops(both, faster, MoverRows),
           decline \in Tops(both, slower, MoverRows) :
          monthly' = [at |-> "made", month |-> monthly.month,
            now |-> monthly.now, before |-> monthly.before,
            lost |-> lost, frozen |-> frozen, growth |-> growth, decline |-> decline,
            segment |-> [p \in all |-> Segment(f[p])]]
      BY DEF MakeMonthly
<1>3. /\ monthly'.at = "made" /\ monthly'.month = monthly.month
      /\ monthly'.now = monthly.now /\ monthly'.before = monthly.before
      /\ monthly'.lost = lost /\ monthly'.frozen = frozen
      /\ monthly'.growth = growth /\ monthly'.decline = decline
      /\ monthly'.segment = [p \in all |-> Segment(f[p])]
      BY <1>2
<1>4. UNCHANGED <<calendar, rowsOf, happened, marred>>
      BY DEF MakeMonthly
<1>5. /\ ReadOf(f, monthly.month) /\ ReadOf(g, monthly.month - 1)
      BY <1>1 DEF MonthlyInv
<1>6. Happened \subseteq Counts
      BY MonthlyAssumption DEF Counts
<1>7. ASSUME ~marred
      PROVE  /\ f \in [Item -> Counts] /\ g \in [Item -> Counts]
             /\ f = happened[monthly.month] /\ g = happened[monthly.month - 1]
      BY <1>5, <1>6, <1>7 DEF ReadOf, MonthlyInv
<1> HIDE DEF f, g
<1>8. ASSUME NEW p \in frozen
      PROVE  p \in all /\ Segment(f[p]) = "dead_inventory_risk"
  <2>1. p \in FrozenIn(f)
        BY DEF Tops
  <2>2. p \in all /\ f[p] \in Counts /\ CoverAbove(f[p], SlowTo)
        BY <2>1, <1>5 DEF FrozenIn, ReadOf
  <2> QED BY <2>2, FrozenIsDead
<1>9. ASSUME ~marred, NEW p \in Item \ lost
      PROVE  \/ Loss(f[p]) = 0
             \/ Cardinality(lost) = TopRows /\ \A q \in lost : Loss(f[q]) >= Loss(f[p])
      BY <1>7, <1>9, LostAreTold
<1>10. ASSUME ~marred, NEW p \in Item \ frozen, Segment(f[p]) = "dead_inventory_risk"
       PROVE  \/ Worth(f[p]) = 0
              \/ Cardinality(frozen) = TopRows /\ \A q \in frozen : Worth(f[q]) >= Worth(f[p])
       BY <1>7, <1>10, DeadAreTold
<1>11. ASSUME ~marred
       PROVE  LET rose == {p \in Item : Velocity(f[p]) > Velocity(g[p]) /\ Velocity(g[p]) > 0}
                  fell == {p \in Item : Velocity(f[p]) < Velocity(g[p]) /\ Velocity(f[p]) > 0}
              IN  /\ Cardinality(rose) >= MoverRows => growth \subseteq rose
                  /\ Cardinality(fell) >= MoverRows => decline \subseteq fell
  <2>1. MoverRows \in Nat
        BY MonthlyAssumption
  <2> QED BY <1>7, <1>11, <2>1, GrowthRose, DeclineFell
<1>12. TablesAreOfTheMonth'
  <2> DEFINE dead == {p \in all : Segment(f[p]) = "dead_inventory_risk"}
  <2>1. {p \in DOMAIN monthly'.segment : monthly'.segment[p] = "dead_inventory_risk"} = dead
        BY <1>3
  <2>2. monthly'.frozen \subseteq dead
        BY <1>3, <1>8
  <2>3. ASSUME ~marred
        PROVE  /\ \A p \in Item \ lost :
                    \/ Loss(f[p]) = 0
                    \/ Cardinality(lost) = TopRows /\ \A q \in lost : Loss(f[q]) >= Loss(f[p])
               /\ \A p \in dead \ frozen :
                    \/ Worth(f[p]) = 0
                    \/ Cardinality(frozen) = TopRows /\ \A q \in frozen : Worth(f[q]) >= Worth(f[p])
        BY <1>7, <1>9, <1>10, <2>3
  <2>4. ASSUME ~marred PROVE f = happened'[monthly'.month]
        BY <1>3, <1>4, <1>7, <2>4
  <2> HIDE DEF dead
  <2> QED BY <1>3, <1>4, <2>1, <2>2, <2>3, <2>4 DEF TablesAreOfTheMonth, Made
<1>13. MoversMove'
  <2>1. ASSUME ~marred PROVE f = happened'[monthly'.month] /\ g = happened'[monthly'.month - 1]
        BY <1>3, <1>4, <1>7, <2>1
  <2> QED BY <1>3, <1>4, <1>11, <2>1 DEF MoversMove, Made
<1>14. RowsRead'
       BY <1>1, <1>3, <1>4, RowUpToFrame DEF MonthlyInv, RowsRead
<1>15. monthly'.month \in Nat \ {0, 1} /\ InMonth(calendar)' = monthly'.month + 1
       BY <1>1, <1>3, <1>4 DEF MonthlyInv, InMonth
<1> QED BY <1>3, <1>4, <1>12, <1>13, <1>14, <1>15 DEF MonthlyInv

(* Every step of a report, of the runs and of the days.                     *)
LEMMA MonthlyNext_Inv == MonthlyInv /\ [MonthlyNext]_monthlyVars => MonthlyInv'
<1> SUFFICES ASSUME MonthlyInv, [MonthlyNext]_monthlyVars PROVE MonthlyInv'
    OBVIOUS
<1>1. CASE MonthDayPasses
      BY <1>1, MonthDayPasses_Inv
<1>2. CASE RunEnds
      BY <1>2, RunEnds_Inv
<1>3. CASE BeginMonthly
      BY <1>3, BeginMonthly_Inv
<1>4. CASE ReadStoreRows
      BY <1>4, ReadStoreRows_Inv
<1>5. CASE ReadMonth
      BY <1>5, ReadMonth_Inv
<1>6. CASE ReadEarlier
      BY <1>6, ReadEarlier_Inv
<1>7. CASE MakeMonthly
      BY <1>7, MakeMonthly_Inv
<1>8. CASE MonthlyLeaves
      BY <1>8, MonthlyLeaves_Inv
<1>9. CASE UNCHANGED monthlyVars
  <2>1. calendar' = calendar /\ rowsOf' = rowsOf
        BY <1>9 DEF monthlyVars
  <2>2. RowsRead <=> RowsRead'
        BY <1>9, RowUpToFrame DEF monthlyVars, RowsRead
  <2> QED BY <1>9, <2>1, <2>2, MonthlyFrame DEF monthlyVars, MonthlyInv
<1> QED BY <1>1, <1>2, <1>3, <1>4, <1>5, <1>6, <1>7, <1>8, <1>9 DEF MonthlyNext

(* The rows a report compares are of its months.                           *)
LEMMA RowsAreOfMonths == MonthlyInv => FiguresAreOfTheirMonths
<1> SUFFICES ASSUME MonthlyInv, Made PROVE FiguresAreOfTheirMonths
    BY DEF FiguresAreOfTheirMonths
<1> DEFINE m == monthly.month
<1>1. m \in Nat \ {0, 1} /\ m - 1 \in Nat /\ RowsRead /\ calendar \in Nat /\ rowsOf \subseteq 1..calendar
  <2>1. monthly.at = "made" /\ monthly # NoReport
        BY DEF Made, NoReport
  <2> QED BY <2>1 DEF MonthlyInv
<1> HIDE DEF m
<1>2. \A d \in rowsOf : /\ InMonth(d) \in Nat
                       /\ \A k \in Nat : InMonth(d) <= k <=> d <= EndOf(k)
      BY <1>1, MonthOfDay
<1>3. \A k \in Nat : /\ RowUpTo(EndOf(k)) \subseteq rowsOf
                    /\ \A x \in RowUpTo(EndOf(k)) : InMonth(x) <= k
                    /\ \A d \in RowUpTo(EndOf(k)), e \in rowsOf : e <= EndOf(k) => e <= d
      BY <1>2 DEF RowUpTo
<1>4. ASSUME NEW k \in Nat, k # 0, HasRow(k), NEW d \in RowUpTo(EndOf(k))
      PROVE  InMonth(d) = k
  <2>1. PICK e \in rowsOf : InMonth(e) = k
        BY <1>4 DEF HasRow
  <2>2. e <= EndOf(k)
        BY <1>2, <1>4, <2>1
  <2>3. e <= d /\ d \in rowsOf /\ InMonth(d) <= k
        BY <1>3, <1>4, <2>2
  <2>4. ASSUME InMonth(d) <= k - 1 PROVE FALSE
    <3>1. k - 1 \in Nat /\ EndOf(k - 1) \in Nat
          BY <1>4, MonthlyAssumption DEF EndOf
    <3>2. d <= EndOf(k - 1)
          BY <1>2, <2>3, <2>4, <3>1
    <3>3. e <= EndOf(k - 1)
          BY <1>1, <2>1, <2>3, <3>1, <3>2
    <3>4. InMonth(e) <= k - 1
          BY <1>2, <2>1, <3>1, <3>3
    <3> QED BY <1>4, <2>1, <3>4
  <2> QED BY <1>2, <1>4, <2>3, <2>4
<1>5. ASSUME NEW k \in Nat, HasRow(k) PROVE RowUpTo(EndOf(k)) # {}
  <2> DEFINE rows == {d \in rowsOf : d <= EndOf(k)}
  <2>1. PICK e \in rowsOf : InMonth(e) = k
        BY <1>5 DEF HasRow
  <2>2. e \in rows
        BY <1>2, <1>5, <2>1
  <2>3. rows \in SUBSET (0..calendar) /\ rows # {}
    <3>1. \A d \in rowsOf : d \in 0..calendar
          BY <1>1
    <3> QED BY <2>2, <3>1
  <2> HIDE DEF rows
  <2>4. PICK d \in rows : \A y \in rows : y <= d
        BY <1>1, <2>3, GreatestOf
  <2>5. d \in RowUpTo(EndOf(k))
        BY <2>4 DEF RowUpTo, rows
  <2> QED BY <2>5
<1>6. /\ monthly.now = RowUpTo(EndOf(m))
      /\ ~marred => monthly.before = RowUpTo(EndOf(m - 1))
      BY <1>1 DEF RowsRead, m
<1>7. m - 1 # 0 /\ m # 0
      BY <1>1
<1>8. \A d \in monthly.now : InMonth(d) <= m
      BY <1>1, <1>3, <1>6
<1>9. HasRow(m) => \A d \in monthly.now : InMonth(d) = m
      BY <1>1, <1>4, <1>6, <1>7
<1>10. ~marred /\ HasRow(m - 1) =>
          monthly.before # {} /\ \A d \in monthly.before : InMonth(d) = m - 1
       BY <1>1, <1>4, <1>5, <1>6, <1>7
<1> QED BY <1>8, <1>9, <1>10 DEF FiguresAreOfTheirMonths, m

(* The reports of a month are of that month, whatever the runs, the days   *)
(* and the failing calls did before.                                       *)
THEOREM ReportsTellIt == ContentsSpec => []ReportsTellTheMonth
<1>1. SheetsInv => SheetsAreOfTheMonth /\ SummaryIsOfTheMonth
      BY DEF SheetsInv
<1>2. MonthlyInv => FiguresAreOfTheirMonths /\ TablesAreOfTheMonth /\ MoversMove
      BY RowsAreOfMonths DEF MonthlyInv
<1>3. SheetsInv /\ MonthlyInv => ReportsTellTheMonth
      BY <1>1, <1>2 DEF ReportsTellTheMonth
<1>4. SheetsSpec => []SheetsInv
      BY SheetsInit_Inv, SheetsNext_Inv, PTL DEF SheetsSpec
<1>5. MonthlySpec => []MonthlyInv
      BY MonthlyInit_Inv, MonthlyNext_Inv, PTL DEF MonthlySpec
<1> QED BY <1>3, <1>4, <1>5, PTL DEF ContentsSpec
=============================================================================
