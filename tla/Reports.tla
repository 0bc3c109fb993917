------------------------------ MODULE Reports ------------------------------
(***************************************************************************)
(* Sending the reports of a seller: the daily dispatch, its catch-up after *)
(* a restart (jobs/reports.py, jobs/scheduler.py) and the monthly report   *)
(* (jobs/monthly_report.py).                                               *)
(*                                                                         *)
(* Each looks into report_history, builds and sends the report, and        *)
(* records the outcome, in separate calls; the daily one is repeated until *)
(* it was sent or there was nothing to send.  The index of report_history  *)
(* admits one daily and one monthly row of a seller, channel and day.      *)
(*                                                                         *)
(* One seller and channel, on the first of a month, when both go out.      *)
(***************************************************************************)
EXTENDS Naturals

CONSTANTS
  Job,        \* dispatches that may be at this seller at the same time
  MaxCopies,  \* bound on the copies of a report the seller is sent
  MaxTrouble  \* bound on crashes, failed calls and lost answers

ASSUME ReportsAssumption == MaxCopies \in Nat /\ MaxTrouble \in Nat

Kind == {"daily", "monthly"}
Outcome == {"sent", "skipped", "failed"}

VARIABLES
  record,     \* the status of the day's row of each kind, or "none"
  delivered,  \* history: the reports of each kind the seller was sent
  phase,      \* where each dispatch is
  kindOf,     \* which report it sends
  outcome,    \* what it is about to record
  trouble,    \* the crashes, failed calls and lost answers so far
  lapses      \* history: what may lead to a second copy

jobVars == <<phase, kindOf, outcome>>
reportVars == <<record, delivered, jobVars, trouble, lapses>>

ReportsInit ==
  /\ record = [k \in Kind |-> "none"]
  /\ delivered = [k \in Kind |-> 0]
  /\ phase = [j \in Job |-> "idle"]
  /\ kindOf = [j \in Job |-> "daily"]
  /\ outcome = [j \in Job |-> "failed"]
  /\ trouble = 0 /\ lapses = {}

Trouble(lapse) ==
  /\ trouble < MaxTrouble
  /\ trouble' = trouble + 1
  /\ lapses' = lapses \cup lapse
Calm == UNCHANGED <<trouble, lapses>>

Enter(j, p) == phase' = [phase EXCEPT ![j] = p]

Over(j) ==
  /\ Enter(j, "idle")
  /\ kindOf' = [kindOf EXCEPT ![j] = "daily"]
  /\ outcome' = [outcome EXCEPT ![j] = "failed"]

(* The cron of 09:00, a catch-up after any restart later than that, or the *)
(* monthly cron, at its time or by hand.  Replicas may do so at once.      *)
Dispatch(j, k) ==
  /\ phase[j] = "idle"
  /\ Enter(j, "checking")
  /\ kindOf' = [kindOf EXCEPT ![j] = k]
  /\ lapses' = IF \E i \in Job : phase[i] # "idle" /\ kindOf[i] = k
               THEN lapses \cup {"overlap"} ELSE lapses
  /\ UNCHANGED <<record, delivered, outcome, trouble>>

(* A daily dispatch looks at any row of the day, failures excepted; the    *)
(* monthly one at its own, whatever became of it.                          *)
AlreadySent(k) ==
  IF k = "daily" THEN \E r \in Kind : record[r] \in {"sent", "skipped"}
  ELSE record["monthly"] # "none"

SkipSent(j) ==
  /\ phase[j] = "checking" /\ AlreadySent(kindOf[j])
  /\ Over(j)
  /\ UNCHANGED <<record, delivered>> /\ Calm

NotSentYet(j) ==
  /\ phase[j] = "checking" /\ ~AlreadySent(kindOf[j])
  /\ Enter(j, "building")
  /\ UNCHANGED <<record, delivered, kindOf, outcome>> /\ Calm

(* A check that fails answers: not sent.                                   *)
CheckFails(j) ==
  /\ phase[j] = "checking"
  /\ Trouble({"unchecked"})
  /\ Enter(j, "building")
  /\ UNCHANGED <<record, delivered, kindOf, outcome>>

(* The seller cannot be read or does not want it: nothing is recorded.     *)
NotWanted(j) ==
  /\ phase[j] = "building"
  /\ Over(j)
  /\ UNCHANGED <<record, delivered>> /\ Calm

Conclude(j, o) ==
  /\ Enter(j, "recording")
  /\ outcome' = [outcome EXCEPT ![j] = o]
  /\ UNCHANGED <<record, kindOf>>

(* There is nothing to report, or the file cannot be built, or it is sent, *)
(* or it is not.                                                           *)
NoData(j) ==
  /\ phase[j] = "building"
  /\ Conclude(j, "skipped") /\ UNCHANGED delivered /\ Calm

Deliver(j) ==
  /\ delivered[kindOf[j]] < MaxCopies
  /\ delivered' = [delivered EXCEPT ![kindOf[j]] = @ + 1]

Send(j) ==
  /\ phase[j] = "building"
  /\ Conclude(j, "sent") /\ Deliver(j) /\ Calm

SendFails(j) ==
  /\ phase[j] = "building"
  /\ Conclude(j, "failed") /\ UNCHANGED delivered /\ Calm

(* The provider has it, but its answer did not arrive.                     *)
AnswerLost(j) ==
  /\ phase[j] = "building"
  /\ Conclude(j, "failed") /\ Deliver(j) /\ Trouble({"answer"})

(* Mutant: the row is only inserted: one that is there stays as it is.     *)
Recorded_InsertOnly(k, o) ==
  IF record[k] = "none" THEN [record EXCEPT ![k] = o] ELSE record

(* A daily row that is there is updated; a monthly one is left.            *)
Recorded(k, o) ==
  IF k = "daily" \/ record[k] = "none" THEN [record EXCEPT ![k] = o] ELSE record

RecordHistory(j) ==
  /\ phase[j] = "recording"
  /\ record' = Recorded(kindOf[j], outcome[j])
  /\ Over(j)
  /\ UNCHANGED <<delivered>> /\ Calm

RecordFails(j) ==
  /\ phase[j] = "recording"
  /\ Trouble(IF outcome[j] = "sent" THEN {"unrecorded"} ELSE {})
  /\ Over(j)
  /\ UNCHANGED <<record, delivered>>

(* A restart loses the dispatches; one that had sent has not recorded it.  *)
Restart ==
  /\ \E j \in Job : phase[j] # "idle"
  /\ Trouble(IF \E j \in Job : phase[j] = "recording" /\ outcome[j] = "sent"
             THEN {"unrecorded"} ELSE {})
  /\ phase' = [j \in Job |-> "idle"]
  /\ kindOf' = [j \in Job |-> "daily"]
  /\ outcome' = [j \in Job |-> "failed"]
  /\ UNCHANGED <<record, delivered>>

-----------------------------------------------------------------------------
ReportsNext ==
  \/ \E j \in Job :
       \/ \E k \in Kind : Dispatch(j, k)
       \/ SkipSent(j) \/ NotSentYet(j) \/ CheckFails(j) \/ NotWanted(j)
       \/ NoData(j) \/ Send(j) \/ SendFails(j) \/ AnswerLost(j)
       \/ RecordHistory(j) \/ RecordFails(j)
  \/ Restart

ReportsSpec == ReportsInit /\ [][ReportsNext]_reportVars

-----------------------------------------------------------------------------
(* Every variable keeps to its domain.                                     *)
ReportsTypeOK ==
  /\ record \in [Kind -> Outcome \cup {"none"}]
  /\ delivered \in [Kind -> 0..MaxCopies]
  /\ phase \in [Job -> {"idle", "checking", "building", "recording"}]
  /\ kindOf \in [Job -> Kind] /\ outcome \in [Job -> Outcome]
  /\ trouble \in 0..MaxTrouble
  /\ lapses \subseteq {"overlap", "unchecked", "answer", "unrecorded"}

(* A seller gets a second copy of a report only if a check failed, an      *)
(* answer was lost, what was sent was not recorded, or two dispatches of   *)
(* it overlapped: a failed attempt that is repeated, a crash anywhere else *)
(* and the row of the other kind do not make one.                          *)
ReportedOnce == lapses = {} => \A k \in Kind : delivered[k] <= 1
=============================================================================
