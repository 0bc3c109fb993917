---------------------------- MODULE RadarQueries ----------------------------
(***************************************************************************)
(* A search query of a watched brand: what the seller decides about it     *)
(* (dashboard/radar/actions.ts, api/radar/queries) and what the worker's   *)
(* poll of Wordstat writes meanwhile (jobs/radar.py).                      *)
(*                                                                         *)
(* The poll reads the status, asks the marketplaces whether they know the  *)
(* phrase, and writes the status it decided on.  The seller's operations   *)
(* read before they write as well, and are chosen from pages that show the *)
(* row as it was at some earlier time.                                     *)
(*                                                                         *)
(* One query; its row is a record, NoQuery before the poll has found it.   *)
(* Deleting the brand, which takes the row along, is left out.             *)
(***************************************************************************)
EXTENDS Naturals

CONSTANTS
  Slot,     \* operations of the seller being handled at the same time
  NoQuery,
  Same      \* a column the update does not set

Status == {"new", "early", "watching", "archived"}
Row == [status : Status, favorite : BOOLEAN, present : BOOLEAN]

ASSUME QueriesAssumption == NoQuery \notin Row /\ Same \notin Status /\ Same \notin BOOLEAN

VARIABLES
  query,      \* the row of radar_queries
  fresh,      \* its last_updated_at is within _AUTO_ARCHIVE_DAYS
  looks,      \* history: how the row has looked to the seller
  updates,    \* the update each operation is about to make
  poll,       \* where the poll is
  polled,     \* the row it has read
  decision,   \* history: what the seller decided last
  overtaken,  \* history: the seller wrote since the poll has read
  raced       \* history: the poll wrote after such a write

pollVars == <<poll, polled, overtaken>>
queryVars == <<query, fresh, looks, updates, pollVars, decision, raced>>

Nothing == [favorite |-> Same, status |-> Same, touch |-> FALSE]

(* Marketplaces confirm a phrase: present_in_wb or present_in_ozon.        *)
Natural(q) == IF q # NoQuery /\ q.present THEN "new" ELSE "early"

Look(q) == [archived |-> q.status = "archived", favorite |-> q.favorite]

QueriesInit ==
  /\ query = NoQuery /\ fresh = TRUE
  /\ looks = {}
  /\ updates = [s \in Slot |-> Nothing]
  /\ poll = "idle" /\ polled = NoQuery
  /\ decision = "none" /\ overtaken = FALSE /\ raced = FALSE

-----------------------------------------------------------------------------
(* The seller.  An archived row offers to be restored, any other to be     *)
(* archived; a star is lit or put out by what it looks like.               *)

Offered(look) ==
  {IF look.favorite THEN "unstar" ELSE "star",
   IF look.archived THEN "unarchive" ELSE "archive"}

ApiOps == {"apiFavorite", "apiWatch", "apiUnwatch", "apiArchive", "apiUnarchive"}

Set(favorite, status, touch) == [favorite |-> favorite, status |-> status, touch |-> touch]

(* What an operation has read when it writes.  Those of the pages go on    *)
(* when the read failed.                                                   *)
Seen(op) == IF op \in {"star", "unstar", "unarchive"} THEN {query, NoQuery} ELSE {query}

Reads(row, status) == row # NoQuery /\ row.status = status

(* The update for the row as it was read.  Only the operations of the      *)
(* pages touch last_updated_at; only their archiving puts out the star.    *)
Updates(op, row) ==
  CASE op = "star" ->
         Set(TRUE, IF row = NoQuery \/ Reads(row, "archived") THEN Same ELSE "watching", TRUE)
    [] op \in {"unstar", "apiUnwatch"} ->
         Set(FALSE, IF Reads(row, "watching") THEN Natural(row) ELSE Same, op = "unstar")
    [] op = "archive" -> Set(FALSE, "archived", TRUE)
    [] op = "apiArchive" -> Set(Same, "archived", FALSE)
    [] op \in {"unarchive", "apiUnarchive"} -> Set(Same, Natural(row), op = "unarchive")
    [] op = "apiFavorite" -> Set(TRUE, Same, FALSE)
    [] op = "apiWatch" -> Set(TRUE, "watching", FALSE)

Ask(s, op) ==
  /\ query # NoQuery /\ updates[s] = Nothing
  /\ \E row \in Seen(op) : updates' = [updates EXCEPT ![s] = Updates(op, row)]
  /\ UNCHANGED <<query, fresh, looks, pollVars, decision, raced>>

(* What the seller has made known: archived, watched (with its star), or   *)
(* neither.  An update without a status leaves it, unless the star is out. *)
Known(set) ==
  CASE set.status = "archived" -> "archived"
    [] set.status = "watching" -> "watched"
    [] set.status = Same /\ (decision = "archived" \/ set.favorite = TRUE) -> decision
    [] OTHER -> "none"

Apply(set) ==
  [query EXCEPT !.favorite = IF set.favorite = Same THEN @ ELSE set.favorite,
                !.status = IF set.status = Same THEN @ ELSE set.status]

WriteUpdate(s) ==
  /\ updates[s] # Nothing
  /\ query' = Apply(updates[s])
  /\ fresh' = (fresh \/ updates[s].touch)
  /\ looks' = looks \cup {Look(query')}
  /\ decision' = Known(updates[s])
  /\ overtaken' = TRUE
  /\ raced' = (raced /\ updates[s].status = Same)
  /\ updates' = [updates EXCEPT ![s] = Nothing]
  /\ UNCHANGED <<poll, polled>>

UpdateFails(s) ==
  /\ updates[s] # Nothing
  /\ updates' = [updates EXCEPT ![s] = Nothing]
  /\ UNCHANGED <<query, fresh, looks, pollVars, decision, raced>>

-----------------------------------------------------------------------------
(* The worker.                                                             *)

PollReads ==
  /\ poll = "idle"
  /\ poll' = "asking" /\ polled' = query /\ overtaken' = FALSE
  /\ UNCHANGED <<query, fresh, looks, updates, decision, raced>>

(* Mutant: only what is watched is kept from the matcher.                  *)
PollStatus_WatchedOnly(verdict) ==
  IF polled # NoQuery /\ polled.status = "watching" /\ polled.favorite
  THEN "watching" ELSE verdict

(* _decide_status_for_matched.                                             *)
PollStatus(verdict) ==
  CASE polled = NoQuery -> verdict
    [] polled # NoQuery /\ polled.status = "watching" /\ polled.favorite -> "watching"
    [] polled # NoQuery /\ polled.status = "archived" -> "archived"
    [] OTHER -> verdict

(* The status goes with the frequency in one update.  A phrase beyond the  *)
(* budget, or a marketplace that does not answer, leaves present alone.    *)
PollWrites(verdict, present) ==
  /\ poll = "asking"
  /\ query' = IF polled = NoQuery
              THEN [status |-> PollStatus(verdict), favorite |-> FALSE, present |-> present]
              ELSE [query EXCEPT !.status = PollStatus(verdict), !.present = present]
  /\ fresh' = TRUE
  /\ looks' = looks \cup {Look(query')}
  /\ raced' = (raced \/ overtaken)
  /\ poll' = "idle" /\ polled' = NoQuery /\ overtaken' = FALSE
  /\ UNCHANGED <<updates, decision>>

PollFails ==
  /\ poll = "asking"
  /\ poll' = "idle" /\ polled' = NoQuery /\ overtaken' = FALSE
  /\ UNCHANGED <<query, fresh, looks, updates, decision, raced>>

GrowsOld ==
  /\ query # NoQuery /\ fresh
  /\ fresh' = FALSE
  /\ UNCHANGED <<query, looks, updates, pollVars, decision, raced>>

(* auto_archive_stale_queries spares the starred ones.                     *)
AutoArchive ==
  /\ query # NoQuery /\ ~fresh /\ ~query.favorite /\ query.status # "archived"
  /\ query' = [query EXCEPT !.status = "archived"]
  /\ looks' = looks \cup {Look(query')}
  /\ UNCHANGED <<fresh, updates, pollVars, decision, raced>>

-----------------------------------------------------------------------------
QueriesNext ==
  \/ \E s \in Slot :
       \/ \E op \in ApiOps \cup UNION {Offered(look) : look \in looks} : Ask(s, op)
       \/ WriteUpdate(s) \/ UpdateFails(s)
  \/ PollReads
  \/ \E verdict \in {"new", "archived"}, present \in BOOLEAN : PollWrites(verdict, present)
  \/ PollFails \/ GrowsOld \/ AutoArchive

QueriesSpec == QueriesInit /\ [][QueriesNext]_queryVars

-----------------------------------------------------------------------------
(* Every variable keeps to its domain.                                     *)
QueriesTypeOK ==
  /\ query \in Row \cup {NoQuery} /\ fresh \in BOOLEAN
  /\ looks \subseteq [archived : BOOLEAN, favorite : BOOLEAN]
  /\ updates \in [Slot -> [favorite : BOOLEAN \cup {Same}, status : Status \cup {Same},
                           touch : BOOLEAN]]
  /\ poll \in {"idle", "asking"} /\ polled \in Row \cup {NoQuery}
  /\ decision \in {"none", "archived", "watched"}
  /\ overtaken \in BOOLEAN /\ raced \in BOOLEAN

(* What the seller archived stays archived and what the seller watches     *)
(* stays watched, whatever the matcher and the sweep of old queries say:   *)
(* unless a poll that read the row before the seller's write wrote after.  *)
SellersWordHolds ==
  ~raced =>
    /\ decision = "archived" => query.status = "archived"
    /\ decision = "watched" => query.status = "watching" /\ query.favorite
=============================================================================
