----------------------------- MODULE PriceUpload -----------------------------
(***************************************************************************)
(* A price list on its way to the brands of Radar: the form of             *)
(* dashboard/radar/upload, the route api/radar/upload that keeps a row of  *)
(* the upload and hands the file to the worker, and the worker             *)
(* (radar/api.py), which puts every brand it finds up for review.          *)
(*                                                                         *)
(* The route gives up after 90 seconds, or is stopped by its platform      *)
(* after 60, and the worker goes on.  The worker's handler waits for       *)
(* nothing but the file, so the lists are worked on one after the other;   *)
(* the seller goes through the brands meanwhile.                           *)
(*                                                                         *)
(* One seller and one form.  A word stands for one that may be a brand; no *)
(* list has more than the hundred brands that are taken of one.  The models*)
(* of a list are stored by one call whose failure is passed over.          *)
(***************************************************************************)
EXTENDS Naturals

CONSTANTS
  Word,
  PriceList,    \* in how many lines of a list each word occurs
  NoList,
  UploadId,
  MinLines,     \* min_repetitions
  MaxVerdicts   \* bound on the seller's decisions

ASSUME UploadAssumption ==
  /\ PriceList \subseteq [Word -> Nat] /\ NoList \notin PriceList
  /\ {MinLines, MaxVerdicts} \subseteq Nat

VARIABLES
  chosenList,  \* the file in the form
  uploading,   \* the form waits for an answer
  upload,      \* each upload: list, row, route, worker, words left to write
  review,      \* radar_brands: the status of each word
  verdict,     \* what the seller last decided of a word while nothing was
               \* being uploaded, as he saw it, and no list was sent since
  overdue,     \* history: a route gave up while the worker went on
  unwritten,   \* history: words of an upload that could not be written
  verdicts     \* how many decisions there were

uploadVars == <<chosenList, uploading, upload, review,
                verdict, overdue, unwritten, verdicts>>

Unsent == [list |-> NoList, row |-> "none", route |-> "none", worker |-> "none", left |-> {}]

UploadsInit ==
  /\ chosenList = NoList /\ uploading = FALSE
  /\ upload = [u \in UploadId |-> Unsent]
  /\ review = [w \in Word |-> "absent"]
  /\ verdict = [w \in Word |-> "none"]
  /\ overdue = FALSE
  /\ unwritten = [u \in UploadId |-> {}] /\ verdicts = 0

SellerRests == UNCHANGED <<chosenList, verdict, verdicts>>

-----------------------------------------------------------------------------
(* The form.                                                               *)

PickList(l) ==
  /\ chosenList # l /\ chosenList' = l
  /\ UNCHANGED <<uploading, upload, review, verdict, overdue, unwritten, verdicts>>

(* Mutant: the form can be sent while it waits.                            *)
Sendable_Twice == chosenList # NoList

Sendable == chosenList # NoList /\ ~uploading

(* Whoever sends a list leaves its brands to be put up for review.         *)
SendList(u) ==
  /\ Sendable /\ upload[u] = Unsent
  /\ uploading' = TRUE
  /\ upload' = [upload EXCEPT ![u].list = chosenList, ![u].route = "insert"]
  /\ verdict' = [w \in Word |-> "none"]
  /\ UNCHANGED <<chosenList, review, overdue, unwritten, verdicts>>

(* The seller excludes, restores or deletes a brand of the list.           *)
Decide(w, status) ==
  /\ review[w] # "absent" /\ review[w] # status /\ verdicts < MaxVerdicts
  /\ review' = [review EXCEPT ![w] = status]
  /\ verdict' = [verdict EXCEPT ![w] = IF uploading \/ overdue THEN "none" ELSE status]
  /\ verdicts' = verdicts + 1
  /\ UNCHANGED <<chosenList, uploading, upload, overdue, unwritten>>

-----------------------------------------------------------------------------
(* The route.                                                              *)

(* The answer, or that there was none, puts the form at rest.              *)
FormRests == uploading' = FALSE

InsertRow(u) ==
  /\ upload[u].route = "insert"
  /\ upload' = [upload EXCEPT ![u].row = "processing", ![u].route = "waiting",
                              ![u].worker = "queued"]
  /\ UNCHANGED <<uploading, review, overdue, unwritten>> /\ SellerRests

(* Too many requests, no plan, no such file, or a failed insert.           *)
RouteRefuses(u) ==
  /\ upload[u].route = "insert"
  /\ upload' = [upload EXCEPT ![u].route = "over"] /\ FormRests
  /\ UNCHANGED <<review, overdue, unwritten>> /\ SellerRests

(* Only an upload that is still being worked on.                           *)
MarkFailed(row) == IF row = "processing" THEN "failed" ELSE row

(* The worker has answered, whatever it has.                               *)
RouteAnswers(u) ==
  /\ upload[u].route = "waiting" /\ upload[u].worker = "over"
  /\ upload' = [upload EXCEPT ![u].route = "over"] /\ FormRests
  /\ UNCHANGED <<review, overdue, unwritten>> /\ SellerRests

(* The term is over, or the connection to the worker lost.                 *)
RouteGivesUp(u) ==
  /\ upload[u].route = "waiting"
  /\ \E row \in {upload[u].row, MarkFailed(upload[u].row)} :
       upload' = [upload EXCEPT ![u].route = "over", ![u].row = row]
  /\ overdue' = (overdue \/ upload[u].worker \notin {"over", "dead"}) /\ FormRests
  /\ UNCHANGED <<review, unwritten>> /\ SellerRests

(* The route is stopped, or its answer is lost.                            *)
RouteStops(u) ==
  /\ upload[u].route \in {"insert", "waiting"}
  /\ upload' = [upload EXCEPT ![u].route = "over"] /\ FormRests
  /\ overdue' = (overdue \/ upload[u].worker \notin {"none", "over", "dead"})
  /\ UNCHANGED <<review, unwritten>> /\ SellerRests

-----------------------------------------------------------------------------
(* The worker.                                                             *)

(* The words of a list that are repeated often enough.                     *)
FoundIn(list) == {w \in Word : list[w] >= MinLines}

AtWork(u) == upload[u].worker \in {"brands", "row"}

LoopIsFree == \A u \in UploadId : ~AtWork(u)

TakeList(u) ==
  /\ upload[u].worker = "queued" /\ LoopIsFree
  /\ FoundIn(upload[u].list) # {}
  /\ upload' = [upload EXCEPT ![u].worker = "brands", ![u].left = FoundIn(upload[u].list)]
  /\ UNCHANGED <<uploading, review, overdue, unwritten>> /\ SellerRests

(* A file that cannot be read, or has no brand in it.  Whether the row     *)
(* could be written is not asked.                                          *)
NothingFound(u) ==
  /\ upload[u].worker = "queued" /\ LoopIsFree
  /\ FoundIn(upload[u].list) = {}
  /\ \E row \in {upload[u].row, "failed"} :
       upload' = [upload EXCEPT ![u].worker = "over", ![u].row = row]
  /\ UNCHANGED <<uploading, review, overdue, unwritten>> /\ SellerRests

(* The plan has ended, or a read has failed: the row is left alone.        *)
WorkerRefuses(u) ==
  /\ upload[u].worker = "queued" /\ LoopIsFree
  /\ upload' = [upload EXCEPT ![u].worker = "over"]
  /\ UNCHANGED <<uploading, review, overdue, unwritten>> /\ SellerRests

(* Mutant: the words after one that fails are left out.                    *)
AfterFailure_Ends(left, w) == {}

AfterFailure(left, w) == left \ {w}

LeftOver(u, left) ==
  upload' = [upload EXCEPT ![u].left = left,
                           ![u].worker = IF left = {} THEN "row" ELSE "brands"]

(* Watched or not, it is for review again.                                 *)
PutUp(u, w) ==
  /\ upload[u].worker = "brands" /\ w \in upload[u].left
  /\ review' = [review EXCEPT ![w] = "excluded"]
  /\ LeftOver(u, upload[u].left \ {w})
  /\ UNCHANGED <<uploading, overdue, unwritten>> /\ SellerRests

PutUpFails(u, w) ==
  /\ upload[u].worker = "brands" /\ w \in upload[u].left
  /\ unwritten' = [unwritten EXCEPT ![u] = @ \cup {w}]
  /\ LeftOver(u, AfterFailure(upload[u].left, w))
  /\ UNCHANGED <<uploading, review, overdue>> /\ SellerRests

(* The worker answers as well if the row could not be written.             *)
CompleteRow(u) ==
  /\ upload[u].worker = "row"
  /\ \E row \in {upload[u].row, "completed"} :
       upload' = [upload EXCEPT ![u].worker = "over", ![u].row = row]
  /\ UNCHANGED <<uploading, review, overdue, unwritten>> /\ SellerRests

(* A restart of the worker drops every list it has.                        *)
ListsAreDropped ==
  /\ \E u \in UploadId : upload[u].worker = "queued" \/ AtWork(u)
  /\ upload' = [u \in UploadId |->
       IF upload[u].worker = "queued" \/ AtWork(u)
       THEN [upload[u] EXCEPT !.worker = "dead", !.left = {}] ELSE upload[u]]
  /\ UNCHANGED <<uploading, review, overdue, unwritten>> /\ SellerRests

-----------------------------------------------------------------------------
UploadsNext ==
  \/ \E l \in PriceList : PickList(l)
  \/ \E w \in Word, status \in {"approved", "excluded", "absent"} : Decide(w, status)
  \/ ListsAreDropped
  \/ \E u \in UploadId :
       \/ SendList(u) \/ InsertRow(u) \/ RouteRefuses(u)
       \/ RouteAnswers(u) \/ RouteGivesUp(u) \/ RouteStops(u)
       \/ TakeList(u) \/ NothingFound(u) \/ WorkerRefuses(u) \/ CompleteRow(u)
       \/ \E w \in Word : PutUp(u, w) \/ PutUpFails(u, w)

UploadsSpec == UploadsInit /\ [][UploadsNext]_uploadVars

-----------------------------------------------------------------------------
(* Properties.                                                             *)

(* What the seller has decided of a brand while the form was at rest stands*)
(* until he decides anew or sends another list; unless a route ever gave   *)
(* up an upload that the worker went on with.                              *)
VerdictStands ==
  \A w \in Word : verdict[w] = "none" \/ overdue \/ review[w] = verdict[w]

(* Every brand of a completed list has been put up, except one that could  *)
(* not be written itself or that the seller deleted.                       *)
CompletedIsListed ==
  \A u \in UploadId :
    upload[u].row = "completed" /\ verdicts = 0 =>
      \A w \in FoundIn(upload[u].list) \ unwritten[u] : review[w] # "absent"
=============================================================================
