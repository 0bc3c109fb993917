----------------------------- MODULE SyncErrors -----------------------------
(***************************************************************************)
(* Who is told that a warehouse fails: its seller, by the letter the       *)
(* failing sync sends, and the administrators, by the freshness monitor.   *)
(* One warehouse; one sync at a time (ConnectionSync); time in ticks that  *)
(* are long against a sync.  A letter counts when it is handed to the      *)
(* channels: what they do with it the code does not look at.               *)
(***************************************************************************)
EXTENDS Integers, FiniteSets

CONSTANTS
  PauseAfter,   \* SYNC_FAILURE_AUTO_PAUSE_THRESHOLD
  SilentFor,    \* TRANSIENT_NOTIFY_AFTER_HOURS
  LetterPause,  \* SYNC_ERROR_NOTIFY_COOLDOWN_HOURS
  StaleAfter    \* _SYNC_STALE_THRESHOLD_HOURS

ASSUME SyncErrorsAssumption ==
  {PauseAfter, SilentFor, LetterPause, StaleAfter} \subseteq Nat \ {0}

VARIABLES
  count,      \* failure_count, as far as it is compared with PauseAfter
  since,      \* age of error_since
  notified,   \* age of error_notified_at
  onPause,    \* status = "paused"
  attempted,  \* age of last_sync_at, of the row itself before its first sync
  telling,    \* the failed sync on its way to the letter
  flagged,    \* the monitor's flag in system_settings
  watch,      \* a run of the monitor: whether the warehouse is stale, and the flag it read
  viewed,     \* the monitor has run, and the row has not changed since
  heard,      \* the news the administrators had last
  mislaid,    \* the flag could not be read or written
  lastTry,    \* how the last sync ended
  told,       \* the letters of this episode: since the last success or resumption
  amiss       \* a call on the way to a letter has failed, or was crossed by a resumption

watchVars == <<flagged, watch, heard, mislaid>>
errorVars == <<count, since, notified, onPause, attempted, telling, watchVars,
               viewed, lastTry, told, amiss>>

Never == -1
Oldest == 1 + CHOOSE a \in {SilentFor, LetterPause, StaleAfter} :
                \A b \in {SilentFor, LetterPause, StaleAfter} : b <= a
Aged(age) == IF age \in {Never, Oldest} THEN age ELSE age + 1

Quiet == [at |-> "none", pause |-> FALSE]
NotLooking == [at |-> "none"]

ErrorsInit ==
  /\ count = 0 /\ since = Never /\ notified = Never /\ onPause = FALSE
  /\ attempted = 0 /\ telling = Quiet
  /\ flagged = FALSE /\ watch = NotLooking /\ viewed = FALSE
  /\ heard = "recovery" /\ mislaid = FALSE
  /\ lastTry = "success" /\ told = {} /\ amiss = FALSE

SyncSucceeds ==
  /\ telling = Quiet /\ ~onPause
  /\ count' = 0 /\ since' = Never /\ notified' = Never
  /\ attempted' = 0 /\ viewed' = FALSE
  /\ lastTry' = "success" /\ told' = {} /\ amiss' = FALSE
  /\ UNCHANGED <<onPause, telling, watchVars>>

(* The age the episode has for the sync that fails now.  What cannot be    *)
(* read counts as no failures and no episode.                              *)
EpisodeAge(readable) ==
  IF readable /\ count > 0 /\ since # Never THEN since ELSE 0

PausesAt(readable, kind) ==
  kind = "permanent" /\ (IF readable THEN count + 1 ELSE 1) >= PauseAfter

WorthALetter(readable, kind) ==
  kind = "permanent" \/ EpisodeAge(readable) >= SilentFor

SyncFails(readable, kind) ==
  /\ telling = Quiet /\ ~onPause
  /\ count' = IF ~readable THEN 1 ELSE IF count < PauseAfter THEN count + 1 ELSE count
  /\ since' = EpisodeAge(readable)
  /\ onPause' = PausesAt(readable, kind)
  /\ attempted' = 0
  /\ telling' = IF WorthALetter(readable, kind)
                THEN [at |-> "row", pause |-> PausesAt(readable, kind)] ELSE Quiet
  /\ lastTry' = kind /\ viewed' = FALSE
  /\ UNCHANGED <<notified, watchVars, told, amiss>>

(* Mutant: the letter of a pause waits as well.                            *)
Withheld_PauseToo == notified # Never /\ notified < LetterPause

(* The row is read again; the cooldown does not hold a pause back.         *)
Withheld == ~telling.pause /\ notified # Never /\ notified < LetterPause

LookAtRow ==
  /\ telling.at = "row"
  /\ telling' = IF Withheld THEN Quiet ELSE [telling EXCEPT !.at = "seller"]
  /\ UNCHANGED <<count, since, notified, onPause, attempted, watchVars,
                 viewed, lastTry, told, amiss>>

(* The seller is read and the channels are tried, each failure passed over.*)
SendLetter ==
  /\ telling.at = "seller"
  /\ told' = told \cup {IF telling.pause THEN "pause" ELSE "error"}
  /\ telling' = [telling EXCEPT !.at = "stamp"]
  /\ UNCHANGED <<count, since, notified, onPause, attempted, watchVars,
                 viewed, lastTry, amiss>>

StampLetter ==
  /\ telling.at = "stamp"
  /\ notified' = 0
  /\ telling' = Quiet
  /\ UNCHANGED <<count, since, onPause, attempted, watchVars, viewed,
                 lastTry, told, amiss>>

(* Whichever call raises, the rest is given up.                            *)
LetterCallRaises ==
  /\ telling # Quiet
  /\ telling' = Quiet /\ amiss' = TRUE
  /\ UNCHANGED <<count, since, notified, onPause, attempted, watchVars,
                 viewed, lastTry, told>>

ResumeByUser ==
  /\ onPause
  /\ onPause' = FALSE /\ count' = 0 /\ notified' = Never
  /\ lastTry' = "success" /\ told' = {} /\ amiss' = (telling # Quiet) /\ viewed' = FALSE
  /\ UNCHANGED <<since, attempted, telling, watchVars>>

(* A sync was lost with its worker; the watchdog writes the row.           *)
OrphanReset ==
  /\ telling = Quiet /\ ~onPause /\ attempted > 0
  /\ attempted' = 0 /\ lastTry' = "orphan" /\ viewed' = FALSE
  /\ UNCHANGED <<count, since, notified, onPause, telling, watchVars, told, amiss>>

IsStale == ~onPause /\ attempted > StaleAfter

(* The job reads the rows and then its flag; one that cannot be read       *)
(* counts as set.                                                          *)
MonitorLooks ==
  /\ telling = Quiet /\ watch = NotLooking /\ ~viewed
  /\ \/ /\ watch' = [at |-> "look", stale |-> IsStale, alerted |-> flagged]
        /\ UNCHANGED mislaid
     \/ /\ watch' = [at |-> "look", stale |-> IsStale, alerted |-> TRUE]
        /\ mislaid' = TRUE
  /\ UNCHANGED <<count, since, notified, onPause, attempted, telling, flagged, viewed,
                 heard, lastTry, told, amiss>>

(* Mutant: the flag is not reset with the recovery.                        *)
FlagAfter_Sticky == watch.stale \/ flagged

FlagAfter == watch.stale

(* The alarm is sent once, and so is the recovery; the flag is written     *)
(* after them, unless that fails or the worker dies first.                 *)
MonitorTells ==
  /\ watch # NotLooking
  /\ watch' = NotLooking /\ viewed' = (watch.stale = IsStale)
  /\ IF watch.stale = watch.alerted THEN UNCHANGED <<heard, flagged, mislaid>>
     ELSE /\ heard' = IF watch.stale THEN "alarm" ELSE "recovery"
          /\ \/ flagged' = FlagAfter /\ UNCHANGED mislaid
             \/ mislaid' = TRUE /\ UNCHANGED flagged
  /\ UNCHANGED <<count, since, notified, onPause, attempted, telling, lastTry, told, amiss>>

TimePasses ==
  /\ telling = Quiet
  /\ since' = Aged(since) /\ notified' = Aged(notified)
  /\ attempted' = Aged(attempted)
  /\ viewed' = FALSE
  /\ UNCHANGED <<count, onPause, telling, watchVars, lastTry, told, amiss>>

ErrorsNext ==
  \/ SyncSucceeds
  \/ \E readable \in BOOLEAN, kind \in {"permanent", "transient"} : SyncFails(readable, kind)
  \/ LookAtRow \/ SendLetter \/ StampLetter \/ LetterCallRaises
  \/ ResumeByUser \/ OrphanReset
  \/ MonitorLooks \/ MonitorTells \/ TimePasses

(***************************************************************************)
(* Properties.                                                             *)
(***************************************************************************)

(* Unless a call on the way to the letter failed: the seller of a paused   *)
(* warehouse has been told of the pause, however recent an earlier letter  *)
(* was; one whose last sync failed for good has been told in this episode; *)
(* and so has one whose syncs have failed for SilentFor without a success, *)
(* each failure harmless by itself.  The episode survives the letters, the *)
(* watchdog and the counter; a success or a resumption starts a new one.   *)
SellerIsTold ==
  telling = Quiet /\ ~amiss =>
    /\ onPause => "pause" \in told
    /\ lastTry = "permanent" => told # {}
    /\ lastTry = "transient" /\ attempted = 0 /\ since >= SilentFor => told # {}

(* Unless the flag could not be read or written: what the administrators   *)
(* have heard last is how the monitor finds the row, an alarm once per     *)
(* episode and its recovery, through any number of episodes, pauses,       *)
(* resumptions and rows that change while it looks.  The monitor goes by   *)
(* attempts: a warehouse all of whose syncs fail is not stale.             *)
AdministratorsKnow ==
  viewed /\ watch = NotLooking /\ ~mislaid =>
    heard = IF IsStale THEN "alarm" ELSE "recovery"

(* Nobody who should know of a trouble is left without the news.           *)
TroubleIsTold == SellerIsTold /\ AdministratorsKnow

ErrorsSpec == ErrorsInit /\ [][ErrorsNext]_errorVars
=============
