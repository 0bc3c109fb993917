----------------------------- MODULE SyncButton -----------------------------
(***************************************************************************)
(* The button that starts a sync and watches it                            *)
(* (connections/SyncButton.tsx).                                           *)
(*                                                                         *)
(* Every POLL_INTERVAL_MS an interval asks for the status, without waiting *)
(* for the answer before; a status other than syncing, a timeout or        *)
(* leaving the page stops what the two refs hold at that time.  Answers    *)
(* come late, in any order, and after the page was left.                   *)
(*                                                                         *)
(* One mounted button.  A watch is known by its number.                    *)
(***************************************************************************)
EXTENDS Naturals

CONSTANTS
  MaxWatches,  \* bound on watches
  MaxAsked     \* bound on status requests of a watch in flight

ASSUME ButtonAssumption == MaxWatches \in Nat /\ MaxAsked \in Nat

Watch == 1..MaxWatches
NoWatch == 0

VARIABLES
  mounted,
  loading,    \* the POST has not been answered
  polling,    \* the state behind the label
  cooling,    \* cooldownUntil lies ahead
  pollTimer,  \* the watch whose interval the ref holds
  pollTimeout,
  intervals,  \* running intervals, by watch
  timeouts,   \* timeouts that have not fired
  inFlight,   \* status requests not yet answered, for each watch
  watches     \* watches so far

buttonVars == <<mounted, loading, polling, cooling, pollTimer, pollTimeout, intervals,
                timeouts, inFlight, watches>>

ButtonInit ==
  /\ mounted = TRUE /\ loading = FALSE /\ polling = FALSE
  /\ cooling \in BOOLEAN
  /\ pollTimer = NoWatch /\ pollTimeout = NoWatch
  /\ intervals = {} /\ timeouts = {}
  /\ inFlight = [w \in Watch |-> 0]
  /\ watches = 0

timers == <<polling, pollTimer, pollTimeout, intervals, timeouts>>

(* Mutant: the timeout is left to itself.                                  *)
StopPolling_KeepTimeout ==
  /\ intervals' = intervals \ {pollTimer}
  /\ pollTimer' = NoWatch
  /\ polling' = FALSE
  /\ UNCHANGED <<pollTimeout, timeouts>>

StopPolling ==
  /\ intervals' = intervals \ {pollTimer}
  /\ timeouts' = timeouts \ {pollTimeout}
  /\ pollTimer' = NoWatch /\ pollTimeout' = NoWatch
  /\ polling' = FALSE

(* The button is enabled.                                                  *)
Click ==
  /\ mounted /\ ~loading /\ ~polling /\ ~cooling
  /\ loading' = TRUE
  /\ UNCHANGED <<mounted, timers, cooling, inFlight, watches>>

(* The sync was started: also when the page is gone by now.                *)
Started ==
  /\ loading /\ watches < MaxWatches
  /\ loading' = FALSE
  /\ polling' = TRUE
  /\ watches' = watches + 1
  /\ pollTimer' = watches' /\ pollTimeout' = watches'
  /\ intervals' = intervals \cup {watches'}
  /\ timeouts' = timeouts \cup {watches'}
  /\ UNCHANGED <<mounted, cooling, inFlight>>

(* The route refuses, with a cooldown, or the request fails, without.      *)
NotStarted ==
  /\ loading
  /\ loading' = FALSE
  /\ cooling' \in {cooling, TRUE}
  /\ UNCHANGED <<mounted, timers, inFlight, watches>>

IntervalFires(w) ==
  /\ w \in intervals /\ inFlight[w] < MaxAsked
  /\ inFlight' = [inFlight EXCEPT ![w] = @ + 1]
  /\ UNCHANGED <<mounted, loading, timers, cooling, watches>>

Answered(w) ==
  /\ inFlight[w] > 0
  /\ inFlight' = [inFlight EXCEPT ![w] = @ - 1]

(* Still syncing, an error, or no answer at all.                           *)
StillSyncing(w) ==
  /\ Answered(w)
  /\ UNCHANGED <<mounted, loading, timers, cooling, watches>>

(* Whichever watch the answer belongs to, the one held now is stopped.     *)
NoLongerSyncing(w) ==
  /\ Answered(w)
  /\ StopPolling
  /\ cooling' = TRUE
  /\ UNCHANGED <<mounted, loading, watches>>

TimeoutFires(w) ==
  /\ w \in timeouts
  /\ intervals' = intervals \ {pollTimer}
  /\ timeouts' = timeouts \ {w, pollTimeout}
  /\ pollTimer' = NoWatch /\ pollTimeout' = NoWatch /\ polling' = FALSE
  /\ cooling' = TRUE
  /\ UNCHANGED <<mounted, loading, inFlight, watches>>

CooldownEnds ==
  /\ cooling
  /\ cooling' = FALSE
  /\ UNCHANGED <<mounted, loading, timers, inFlight, watches>>

LeavePage ==
  /\ mounted
  /\ mounted' = FALSE
  /\ StopPolling
  /\ UNCHANGED <<loading, cooling, inFlight, watches>>

(* Another button, once nothing of this one is under way.                  *)
Return ==
  /\ ~mounted /\ ~loading /\ timeouts = {} /\ \A w \in Watch : inFlight[w] = 0
  /\ mounted' = TRUE
  /\ cooling' \in BOOLEAN
  /\ watches' = 0
  /\ UNCHANGED <<loading, timers, inFlight>>

-----------------------------------------------------------------------------
ButtonNext ==
  \/ Click \/ Started \/ NotStarted \/ CooldownEnds \/ LeavePage \/ Return
  \/ \E w \in Watch :
       IntervalFires(w) \/ StillSyncing(w) \/ NoLongerSyncing(w) \/ TimeoutFires(w)

ButtonSpec == ButtonInit /\ [][ButtonNext]_buttonVars

-----------------------------------------------------------------------------
(* Every variable keeps to its domain.                                     *)
ButtonTypeOK ==
  /\ mounted \in BOOLEAN /\ loading \in BOOLEAN
  /\ polling \in BOOLEAN /\ cooling \in BOOLEAN
  /\ pollTimer \in Watch \cup {NoWatch} /\ pollTimeout \in Watch \cup {NoWatch}
  /\ intervals \subseteq Watch /\ timeouts \subseteq Watch
  /\ inFlight \in [Watch -> 0..MaxAsked]
  /\ watches \in 0..MaxWatches

(* Whatever comes late, after another watch began or after the page was    *)
(* left: there is never a timer the refs have lost, so none polls on       *)
(* beside another watch or cuts one short that began later, and a button   *)
(* that says it is polling has both its timers running.                    *)
TimersAreHeld ==
  /\ intervals = {pollTimer} \ {NoWatch}
  /\ timeouts = {pollTimeout} \ {NoWatch}
  /\ mounted => (polling <=> intervals # {} /\ timeouts # {})
=============================================================================
