---------------------------- MODULE ManualEntry -----------------------------
(***************************************************************************)
(* A warehouse kept by hand: the list of articles on its page              *)
(* (connections/[id]/ManualEntry.tsx), the route behind it                 *)
(* (api/connections/[id]/manual) and the worker's /ingest/manual.          *)
(*                                                                         *)
(* A sale or a replenishment is sent as the new stock, counted from the    *)
(* one the row shows.  The list is state made from the page's first props: *)
(* a refresh brings new ones, which it does not take.  One variable tells  *)
(* which row is busy, and the last to set or clear it has its way.         *)
(*                                                                         *)
(* One page is open.  Prices and names are left out.                       *)
(***************************************************************************)
EXTENDS Integers, FiniteSets

CONSTANTS
  Article,
  MostStock,  \* bound on a stock
  Submission  \* the requests there may be at a time

ASSUME ManualAssumption == IsFiniteSet(Article) /\ MostStock \in Nat \ {0}

Stock == 0..MostStock
Amounts == UNION {[S -> Stock] : S \in (SUBSET Article) \ {{}}}

VARIABLES
  keptStock,   \* the stock of each article with a snapshot
  listedItems, \* the page's list: the stock of each article it shows
  busyRow,     \* the article that is busy, or the form
  bulkBusy,    \* the pasted list is being sent
  sent,        \* the requests
  lapsed       \* history: articles whose row may be wrong, as told below

manualVars == <<keptStock, listedItems, busyRow, bulkBusy, sent, lapsed>>

NoAmounts == <<>>
NoSubmission == [by |-> "none", amounts |-> NoAmounts, at |-> "free"]

ManualInit ==
  /\ keptStock \in Amounts
  /\ listedItems = keptStock
  /\ busyRow = "none" /\ bulkBusy = FALSE
  /\ sent = [s \in Submission |-> NoSubmission]
  /\ lapsed = {}

-----------------------------------------------------------------------------
(* The page.                                                               *)

AtWorker(s) == sent[s].at \in {"sent", "late"}

(* The articles of requests that are not over.                             *)
PendingArticles == UNION {DOMAIN sent[s].amounts : s \in Submission}

(* Two requests on one article overlap, or the form sets the stock of an   *)
(* article that has a row: the row may be wrong from here on.              *)
SendAmounts(s, by, amounts) ==
  /\ sent[s].at = "free"
  /\ sent' = [sent EXCEPT ![s] = [by |-> by, amounts |-> amounts, at |-> "sent"]]
  /\ LET listedAnyway == IF by = "row" THEN {} ELSE DOMAIN listedItems IN
       lapsed' = lapsed \cup (DOMAIN amounts \cap (PendingArticles \cup listedAnyway))

Clip(n) == IF n < 0 THEN 0 ELSE n

(* The buttons of a row that is busy are disabled.                         *)
Adjust(s, a, delta) ==
  /\ a \in DOMAIN listedItems /\ busyRow # a
  /\ LET newStock == Clip(listedItems[a] + delta) IN
       /\ newStock # listedItems[a] /\ newStock <= MostStock
       /\ SendAmounts(s, "row", [b \in {a} |-> newStock])
  /\ busyRow' = a
  /\ UNCHANGED <<keptStock, listedItems, bulkBusy>>

AddArticle(s, a, amount) ==
  /\ busyRow # "form"
  /\ SendAmounts(s, "form", [b \in {a} |-> amount])
  /\ busyRow' = "form"
  /\ UNCHANGED <<keptStock, listedItems, bulkBusy>>

(* A pasted list of one article is left to the form.                       *)
AddBulk(s, amounts) ==
  /\ ~bulkBusy /\ Cardinality(DOMAIN amounts) > 1
  /\ SendAmounts(s, "bulk", amounts)
  /\ bulkBusy' = TRUE
  /\ UNCHANGED <<keptStock, listedItems, busyRow>>

NoLongerBusy(by) ==
  IF by = "bulk" THEN bulkBusy' = FALSE /\ UNCHANGED busyRow
  ELSE busyRow' = "none" /\ UNCHANGED bulkBusy

RowsWith(amounts) ==
  [a \in DOMAIN listedItems |-> IF a \in DOMAIN amounts THEN amounts[a] ELSE listedItems[a]]

(* Mutant: the row changes whatever the answer.                            *)
ListAfter_Always(r) == IF r.by = "row" THEN RowsWith(r.amounts) ELSE listedItems

(* The row of an adjustment that was accepted changes, and no other.       *)
ListAfter(r) ==
  IF r.by = "row" /\ r.at = "accepted" THEN RowsWith(r.amounts) ELSE listedItems

ManualAnswered(s) ==
  /\ sent[s].at \in {"accepted", "error"}
  /\ listedItems' = ListAfter(sent[s])
  /\ NoLongerBusy(sent[s].by)
  /\ sent' = [sent EXCEPT ![s] = NoSubmission]
  /\ UNCHANGED <<keptStock, lapsed>>

(* The route gives up, or its answer is lost: the worker goes on.          *)
GivesUp(s) ==
  /\ sent[s].at = "sent"
  /\ NoLongerBusy(sent[s].by)
  /\ sent' = [sent EXCEPT ![s].at = "late"]
  /\ lapsed' = lapsed \cup DOMAIN sent[s].amounts
  /\ UNCHANGED <<keptStock, listedItems>>

(* The page is loaded anew: whoever asked is gone.                         *)
ReloadList ==
  /\ listedItems' = keptStock
  /\ busyRow' = "none" /\ bulkBusy' = FALSE
  /\ sent' = [s \in Submission |->
                IF AtWorker(s) THEN [sent[s] EXCEPT !.at = "late"] ELSE NoSubmission]
  /\ lapsed' = UNION {DOMAIN sent'[s].amounts : s \in Submission}
  /\ UNCHANGED keptStock

-----------------------------------------------------------------------------
(* The route and the worker, which handles one request at a time: nothing  *)
(* between its reading the body and its answer lets another one run.       *)

WorkerReplies(s, result) ==
  sent' = [sent EXCEPT ![s] =
             IF @.at = "late" THEN NoSubmission ELSE [@ EXCEPT !.at = result]]

StoreAmounts(amounts) ==
  keptStock' = [a \in DOMAIN keptStock \cup DOMAIN amounts |->
               IF a \in DOMAIN amounts THEN amounts[a] ELSE keptStock[a]]

Ingest(s) ==
  /\ AtWorker(s)
  /\ StoreAmounts(sent[s].amounts)
  /\ WorkerReplies(s, "accepted")
  /\ UNCHANGED <<listedItems, busyRow, bulkBusy, lapsed>>

(* The warehouse is on pause, or has a sync: the worker has no lock for it *)
(* and answers started: false, with status 200.                            *)
IngestRefused(s) ==
  /\ AtWorker(s)
  /\ WorkerReplies(s, "accepted")
  /\ lapsed' = lapsed \cup DOMAIN sent[s].amounts
  /\ UNCHANGED <<keptStock, listedItems, busyRow, bulkBusy>>

(* Turned away by the route, or the inserts, batch by batch, or the mark   *)
(* fail: the snapshots in by then stay.                                    *)
IngestFails(s, done) ==
  /\ AtWorker(s)
  /\ StoreAmounts([a \in done |-> sent[s].amounts[a]])
  /\ WorkerReplies(s, "error")
  /\ lapsed' = lapsed \cup done
  /\ UNCHANGED <<listedItems, busyRow, bulkBusy>>

-----------------------------------------------------------------------------
ManualNext ==
  \/ \E s \in Submission :
       \/ \E a \in Article : \E delta \in {-1, 1} : Adjust(s, a, delta)
       \/ \E a \in Article, amount \in Stock : AddArticle(s, a, amount)
       \/ \E amounts \in Amounts : AddBulk(s, amounts)
       \/ ManualAnswered(s) \/ GivesUp(s)
       \/ Ingest(s) \/ IngestRefused(s)
       \/ \E done \in SUBSET DOMAIN sent[s].amounts : IngestFails(s, done)
  \/ ReloadList

ManualSpec == ManualInit /\ [][ManualNext]_manualVars

-----------------------------------------------------------------------------
(* Every variable keeps to its domain.                                     *)
ManualTypeOK ==
  /\ keptStock \in Amounts /\ listedItems \in Amounts
  /\ DOMAIN listedItems \subseteq DOMAIN keptStock
  /\ busyRow \in Article \cup {"none", "form"} /\ bulkBusy \in BOOLEAN
  /\ \A s \in Submission :
       \/ sent[s] = NoSubmission
       \/ /\ sent[s].by \in {"row", "form", "bulk"} /\ sent[s].amounts \in Amounts
          /\ sent[s].at \in {"sent", "late", "accepted", "error"}
  /\ lapsed \subseteq Article

(* The stock a row shows, and the next sale is counted from, is the stored *)
(* one once no request on the article is pending, however rows, the form   *)
(* and reloads have interleaved and requests have failed: except after two *)
(* requests on the article overlapped, the form set its stock, the worker  *)
(* refused the lock, or its failure or the route's giving up left the      *)
(* request stored.                                                         *)
RowsShowStoredStock ==
  \A a \in DOMAIN listedItems \ (PendingArticles \cup lapsed) :
    listedItems[a] = keptStock[a]
=============================================================================
