------------------------------- MODULE Alerts -------------------------------
(***************************************************************************)
(* The alerts of a product: how a recalculation opens, keeps and closes    *)
(* them (jobs/recalc.py, engine/alerts.py) and how the seller acknowledges *)
(* them (api/alerts).                                                      *)
(*                                                                         *)
(* A recalculation goes through its windows, each with figures of its own, *)
(* and for each lists the open rows, closes those whose figures have       *)
(* recovered and opens what the figures call for, in separate calls.  A    *)
(* chronic alert that was acknowledged of late is not opened again.        *)
(*                                                                         *)
(* One product and one kind of alert: kinds share no row.  The rows are    *)
(* numbered in the order they were inserted.                               *)
(***************************************************************************)
EXTENDS Integers, Sequences

CONSTANTS
  AlertWindows,  \* the number of windows of a recalculation
  Cooldown,      \* ALERT_REALERT_COOLDOWN_DAYS
  Recalc,        \* recalculations of the seller that may run at once
  LastDay,       \* bound on days
  MaxAlerts      \* bound on rows

ASSUME AlertAssumption ==
  /\ AlertWindows \in Nat \ {0} /\ Cooldown \in Nat
  /\ LastDay \in Nat \ {0} /\ MaxAlerts \in Nat

(* What the figures say: open an alert, keep an open one, or neither.      *)
Verdict == {"open", "keep", "close"}

VARIABLES
  date,      \* the current day
  chronic,   \* the kind is one of _REALERT_COOLDOWN_KINDS
  figures,   \* what the figures of each window say
  alerts,    \* the rows: the day each was acknowledged, and by the seller
  stage,     \* where each recalculation is
  pass,      \* the window it is at
  listed,    \* the open rows it has listed
  overlap    \* history: two recalculations ran at once

recalcVars == <<stage, pass, listed>>
alertVars == <<date, chronic, figures, alerts, recalcVars, overlap>>

NotYet == 0
OpenAlert == [acked |-> NotYet, seller |-> NotYet]
OpenRows == {i \in DOMAIN alerts : alerts[i].acked = NotYet}

AlertsInit ==
  /\ date = 1
  /\ chronic \in BOOLEAN
  /\ figures \in [1..AlertWindows -> Verdict]
  /\ alerts = <<>>
  /\ stage = [r \in Recalc |-> "idle"]
  /\ pass = [r \in Recalc |-> 1]
  /\ listed = [r \in Recalc |-> {}]
  /\ overlap = FALSE

NextDay ==
  /\ date < LastDay
  /\ date' = date + 1
  /\ UNCHANGED <<chronic, figures, alerts, recalcVars, overlap>>

(* A sync brings other figures for the recalculations to come.             *)
NewFigures(f) ==
  /\ \A r \in Recalc : stage[r] = "idle"
  /\ figures' = f
  /\ UNCHANGED <<date, chronic, alerts, recalcVars, overlap>>

-----------------------------------------------------------------------------
(* The seller.  The list acknowledges what is open; a single alert is      *)
(* acknowledged by its id, also once it is closed.                         *)

SellerAck(rows) ==
  /\ rows # {}
  /\ alerts' = [i \in DOMAIN alerts |->
                  IF i \notin rows THEN alerts[i]
                  ELSE [acked |-> date,
                        seller |-> IF i \in OpenRows THEN date ELSE alerts[i].seller]]
  /\ UNCHANGED <<date, chronic, figures, recalcVars, overlap>>

AckAll == SellerAck(OpenRows)
AckOne(i) == SellerAck({i})

-----------------------------------------------------------------------------
(* The recalculation.                                                      *)

GoTo(r, s) == stage' = [stage EXCEPT ![r] = s]
UnchangedAlerts == UNCHANGED <<date, chronic, figures, alerts>>

(* The window is through, with its alerts written or with an error.        *)
NextWindow(r) ==
  /\ listed' = [listed EXCEPT ![r] = {}]
  /\ IF pass[r] < AlertWindows
     THEN GoTo(r, "listing") /\ pass' = [pass EXCEPT ![r] = @ + 1]
     ELSE GoTo(r, "idle") /\ pass' = [pass EXCEPT ![r] = 1]

StartRecalc(r) ==
  /\ stage[r] = "idle"
  /\ GoTo(r, "listing")
  /\ overlap' = (overlap \/ \E q \in Recalc : stage[q] # "idle")
  /\ UnchangedAlerts /\ UNCHANGED <<pass, listed>>

ListOpen(r) ==
  /\ stage[r] = "listing"
  /\ listed' = [listed EXCEPT ![r] = IF figures[pass[r]] = "close" THEN OpenRows ELSE {}]
  /\ GoTo(r, "closing")
  /\ UnchangedAlerts /\ UNCHANGED <<pass, overlap>>

(* By id: a row the seller has acknowledged meanwhile is written again.    *)
CloseRow(r) ==
  /\ stage[r] = "closing"
  /\ \E i \in listed[r] :
       /\ alerts' = [alerts EXCEPT ![i].acked = date]
       /\ listed' = [listed EXCEPT ![r] = @ \ {i}]
  /\ UNCHANGED <<date, chronic, figures, stage, pass, overlap>>

(* Nothing is left to close and nothing to open.                           *)
Recovered(r) ==
  /\ stage[r] = "closing" /\ listed[r] = {} /\ figures[pass[r]] # "open"
  /\ NextWindow(r)
  /\ UnchangedAlerts /\ UNCHANGED overlap

(* _upsert_or_skip_alert: an open row gets the new message and payload.    *)
UpdateOpen(r) ==
  /\ stage[r] = "closing" /\ figures[pass[r]] = "open" /\ OpenRows # {}
  /\ NextWindow(r)
  /\ UnchangedAlerts /\ UNCHANGED overlap

NoneOpen(r) ==
  /\ stage[r] = "closing" /\ figures[pass[r]] = "open" /\ OpenRows = {}
  /\ GoTo(r, IF chronic THEN "cooldown" ELSE "opening")
  /\ UnchangedAlerts /\ UNCHANGED <<pass, listed, overlap>>

Within(d) == d # NotYet /\ date - d <= Cooldown

(* Mutant: the cutoff is a day short.                                      *)
CoolingDown_DayShort ==
  \E i \in DOMAIN alerts : alerts[i].acked # NotYet /\ date - alerts[i].acked < Cooldown

(* _in_realert_cooldown: whoever acknowledged it.                          *)
CoolingDown == \E i \in DOMAIN alerts : Within(alerts[i].acked)

Withhold(r) ==
  /\ stage[r] = "cooldown" /\ CoolingDown
  /\ NextWindow(r)
  /\ UnchangedAlerts /\ UNCHANGED overlap

CooledDown(r) ==
  /\ stage[r] = "cooldown" /\ ~CoolingDown
  /\ GoTo(r, "opening")
  /\ UnchangedAlerts /\ UNCHANGED <<pass, listed, overlap>>

(* The index alerts_unique_unread: a second open row is refused, and the   *)
(* first one updated in its place.                                         *)
OpenRow(r) ==
  /\ stage[r] = "opening"
  /\ \/ OpenRows = {} /\ Len(alerts) < MaxAlerts /\ alerts' = Append(alerts, OpenAlert)
     \/ OpenRows # {} /\ UNCHANGED alerts
  /\ NextWindow(r)
  /\ UNCHANGED <<date, chronic, figures, overlap>>

(* Whatever call fails ends the turn of this product in this window.       *)
RecalcFails(r) ==
  /\ stage[r] # "idle"
  /\ NextWindow(r)
  /\ UnchangedAlerts /\ UNCHANGED overlap

-----------------------------------------------------------------------------
AlertsNext ==
  \/ NextDay \/ AckAll
  \/ \E f \in [1..AlertWindows -> Verdict] : NewFigures(f)
  \/ \E i \in DOMAIN alerts : AckOne(i)
  \/ \E r \in Recalc :
       \/ StartRecalc(r) \/ ListOpen(r) \/ CloseRow(r) \/ Recovered(r)
       \/ UpdateOpen(r) \/ NoneOpen(r) \/ Withhold(r) \/ CooledDown(r) \/ OpenRow(r)
       \/ RecalcFails(r)

AlertsSpec == AlertsInit /\ [][AlertsNext]_alertVars

-----------------------------------------------------------------------------
(* Every variable keeps to its domain.                                     *)
AlertsTypeOK ==
  /\ date \in 1..LastDay /\ chronic \in BOOLEAN
  /\ figures \in [1..AlertWindows -> Verdict]
  /\ alerts \in Seq([acked : 0..LastDay, seller : 0..LastDay]) /\ Len(alerts) <= MaxAlerts
  /\ stage \in [Recalc -> {"idle", "listing", "closing", "cooldown", "opening"}]
  /\ pass \in [Recalc -> 1..AlertWindows]
  /\ listed \in [Recalc -> SUBSET DOMAIN alerts]
  /\ overlap \in BOOLEAN

(* A chronic alert the seller has acknowledged stays quiet for the         *)
(* cooldown, though the job and the seller's stale pages write the same    *)
(* rows by id between its calls: only two recalculations of the seller at  *)
(* once may open it earlier.                                               *)
AcknowledgedStaysQuiet ==
  [][chronic /\ ~overlap /\ Len(alerts') > Len(alerts) =>
       ~\E i \in DOMAIN alerts : Within(alerts[i].seller)]_alertVars
=============================================================================
