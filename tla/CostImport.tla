------------------------------ MODULE CostImport ------------------------------
(***************************************************************************)
(* The import of cost prices: the form (dashboard/skus/cost-import), the   *)
(* route api/cost-prices/import and the worker's cost_import_api.py.       *)
(*                                                                         *)
(* A file gives costs to articles, for one warehouse.  The worker reads it *)
(* whole and has the database write batch after batch, each for itself: a  *)
(* batch that fails ends the import and leaves the earlier ones written.   *)
(* The route may give the worker up, which goes on.  Its handler waits for *)
(* nothing but the file, so imports are worked on one after the other.     *)
(*                                                                         *)
(* Columns named wrongly in the form make another sheet of the file.       *)
(*                                                                         *)
(* The other file a seller sends, a price list, is PriceUpload; what both  *)
(* promise is stated at the end.                                           *)
(***************************************************************************)
EXTENDS Integers, FiniteSets, Sequences, PriceUpload

CONSTANTS
  Depot,      \* the seller's warehouses
  Code,       \* articles
  InDepot,    \* those each warehouse has
  Cost,       \* cost prices
  NoCost,     \* a product without, and a cell that has none
  Sheet,      \* files: sequences of rows, an article and a cost each
  NoSheet,
  Import,
  BatchSize   \* _RPC_BATCH

ASSUME CostAssumption ==
  /\ InDepot \in [Depot -> SUBSET Code] /\ Depot # {}
  /\ NoCost \notin Cost /\ NoSheet \notin Sheet
  /\ \A s \in Sheet : s \in Seq([article : Code, cost : Cost \cup {NoCost}])
  /\ BatchSize \in Nat \ {0}

VARIABLES
  cost,         \* products.cost_price by warehouse and article
  depotChosen,  \* the form: the warehouse,
  sheetChosen,  \* the file,
  importing,    \* whether it waits for an answer,
  outcome,      \* what it shows of the last one
  import,       \* each import: warehouse, sheet, route, worker, left, matched
  meddled       \* history: products anything else wrote since the form was sent

importForm == <<depotChosen, sheetChosen, importing, outcome>>
costVars == <<cost, importForm, import, meddled>>

NoOutcome == [is |-> "nothing"]
NotSent == [depot |-> CHOOSE d \in Depot : TRUE, sheet |-> NoSheet, route |-> "none",
            worker |-> "none", left |-> {}, matched |-> 0]

CostInit ==
  /\ cost = [d \in Depot |-> [a \in InDepot[d] |-> NoCost]]
  /\ depotChosen = NotSent.depot /\ sheetChosen = NoSheet
  /\ importing = FALSE /\ outcome = NoOutcome
  /\ import = [i \in Import |-> NotSent]
  /\ meddled = {}

-----------------------------------------------------------------------------
(* What is made of a sheet, row by row; a row whose cost is no number that *)
(* is not negative is passed over.                                         *)

(* Mutant: the first cost of an article stands.                            *)
Taken_First(map, row) ==
  IF row.cost = NoCost \/ row.article \in DOMAIN map THEN map
  ELSE [a \in DOMAIN map \cup {row.article} |->
          IF a = row.article THEN row.cost ELSE map[a]]

Taken(map, row) ==
  IF row.cost = NoCost THEN map
  ELSE [a \in DOMAIN map \cup {row.article} |->
          IF a = row.article THEN row.cost ELSE map[a]]

CostMap(sheet) ==
  LET after[n \in 0..Len(sheet)] ==
        IF n = 0 THEN [a \in {} |-> NoCost] ELSE Taken(after[n - 1], sheet[n])
  IN after[Len(sheet)]

-----------------------------------------------------------------------------
(* The form.                                                               *)

PickDepot(d) ==
  /\ depotChosen # d /\ depotChosen' = d
  /\ UNCHANGED <<cost, sheetChosen, importing, outcome, import, meddled>>

PickSheet(s) ==
  /\ sheetChosen # s /\ sheetChosen' = s /\ outcome' = NoOutcome
  /\ UNCHANGED <<cost, depotChosen, importing, import, meddled>>

SendImport(i) ==
  /\ sheetChosen # NoSheet /\ ~importing /\ import[i] = NotSent
  /\ importing' = TRUE /\ outcome' = NoOutcome
  /\ import' = [import EXCEPT ![i].depot = depotChosen, ![i].sheet = sheetChosen,
                              ![i].route = "asked"]
  /\ meddled' = {}
  /\ UNCHANGED <<cost, depotChosen, sheetChosen>>

Say(what) ==
  /\ importing' = FALSE /\ outcome' = what
  /\ UNCHANGED <<depotChosen, sheetChosen>>

-----------------------------------------------------------------------------
(* The route.                                                              *)

(* Too many requests, a warehouse or file that is not there.               *)
RefuseImport(i) ==
  /\ import[i].route = "asked"
  /\ import' = [import EXCEPT ![i].route = "over"] /\ Say([is |-> "error"])
  /\ UNCHANGED <<cost, meddled>>

CallWorker(i) ==
  /\ import[i].route = "asked"
  /\ import' = [import EXCEPT ![i].route = "waiting", ![i].worker = "queued"]
  /\ UNCHANGED <<cost, importForm, meddled>>

AnswerImport(i) ==
  /\ import[i].route = "waiting" /\ import[i].worker \in {"done", "failed"}
  /\ import' = [import EXCEPT ![i].route = "over"]
  /\ Say(IF import[i].worker = "failed" THEN [is |-> "error"]
         ELSE [is |-> "result", of |-> i, matched |-> import[i].matched])
  /\ UNCHANGED <<cost, meddled>>

(* The term is over, or an answer is lost.                                 *)
GiveImportUp(i) ==
  /\ import[i].route = "waiting"
  /\ import' = [import EXCEPT ![i].route = "over"] /\ Say([is |-> "error"])
  /\ UNCHANGED <<cost, meddled>>

-----------------------------------------------------------------------------
(* The worker.                                                             *)

(* A sheet that gives no article a cost, or cannot be read, is refused.    *)
TakeSheet(i) ==
  /\ import[i].worker = "queued"
  /\ \A k \in Import : import[k].worker # "writing"
  /\ LET found == DOMAIN CostMap(import[i].sheet) IN
       import' = [import EXCEPT
         ![i].worker = IF found = {} THEN "failed" ELSE "writing", ![i].left = found]
  /\ UNCHANGED <<cost, importForm, meddled>>

Batches(left) ==
  {b \in SUBSET left :
     Cardinality(b) = IF Cardinality(left) < BatchSize THEN Cardinality(left) ELSE BatchSize}

(* Mutant: whatever warehouse the articles are in.                         *)
Touched_AnyDepot(i, batch) == {p \in Depot \X batch : p[2] \in InDepot[p[1]]}

(* The products bulk_update_cost_prices writes.                            *)
Touched(i, batch) == {p \in {import[i].depot} \X batch : p[2] \in InDepot[p[1]]}

WriteBatch(i) ==
  /\ import[i].worker = "writing"
  /\ \E batch \in Batches(import[i].left) :
       LET map == CostMap(import[i].sheet)
           touched == Touched(i, batch)
           left == import[i].left \ batch
       IN /\ cost' = [d \in Depot |-> [a \in InDepot[d] |->
               IF <<d, a>> \in touched THEN map[a] ELSE cost[d][a]]]
          /\ import' = [import EXCEPT ![i].left = left,
               ![i].matched = @ + Cardinality(touched),
               ![i].worker = IF left = {} THEN "done" ELSE "writing"]
          /\ meddled' = meddled \cup (IF import[i].route = "over" THEN touched ELSE {})
  /\ UNCHANGED importForm

(* Mutant: an import goes on after a batch that failed.                    *)
AfterLoss_GoesOn(left) == IF left = {} THEN "done" ELSE "writing"

AfterLoss(left) == "failed"

BatchFails(i) ==
  /\ import[i].worker = "writing"
  /\ \E batch \in Batches(import[i].left) :
       LET left == import[i].left \ batch
           next == AfterLoss(left)
       IN import' = [import EXCEPT ![i].worker = next,
            ![i].left = IF next = "failed" THEN {} ELSE left,
            ![i].matched = IF next = "failed" THEN 0 ELSE @]
  /\ UNCHANGED <<cost, importForm, meddled>>

(* The worker restarts.                                                    *)
ImportsAreDropped ==
  /\ \E i \in Import : import[i].worker \in {"queued", "writing"}
  /\ import' = [i \in Import |->
       IF import[i].worker \in {"queued", "writing"}
       THEN [import[i] EXCEPT !.worker = "dead", !.left = {}, !.matched = 0] ELSE import[i]]
  /\ UNCHANGED <<cost, importForm, meddled>>

(* The page of a product writes its cost (CostField).                      *)
CostByHand(d, a, c) ==
  /\ a \in InDepot[d] /\ cost[d][a] # c
  /\ cost' = [cost EXCEPT ![d][a] = c]
  /\ meddled' = meddled \cup {<<d, a>>}
  /\ UNCHANGED <<importForm, import>>

-----------------------------------------------------------------------------
CostNext ==
  \/ \E d \in Depot : PickDepot(d)
  \/ \E s \in Sheet : PickSheet(s)
  \/ \E d \in Depot, a \in Code : CostByHand(d, a, NoCost)
  \/ ImportsAreDropped
  \/ \E i \in Import :
       \/ SendImport(i) \/ RefuseImport(i) \/ CallWorker(i) \/ AnswerImport(i)
       \/ GiveImportUp(i) \/ TakeSheet(i) \/ WriteBatch(i) \/ BatchFails(i)

CostSpec == CostInit /\ [][CostNext]_costVars

-----------------------------------------------------------------------------
(* Properties.                                                             *)

(* The cost the last row that has one gives an article.                    *)
LastCost(sheet, a) ==
  LET rows == {r \in DOMAIN sheet : sheet[r].article = a /\ sheet[r].cost # NoCost}
  IN IF rows = {} THEN NoCost
     ELSE sheet[CHOOSE r \in rows : \A q \in rows : q <= r].cost

(* When the form shows a result, every product of the warehouse that is in *)
(* the file has the cost of its last row, as many as are said to match;    *)
(* except those something else has written since the form was sent, an     *)
(* import given up earlier included.                                       *)
ResultIsStored ==
  outcome.is = "result" =>
    LET i == import[outcome.of]
        given == {a \in InDepot[i.depot] : LastCost(i.sheet, a) # NoCost}
    IN /\ outcome.matched = Cardinality(given)
       /\ \A a \in given : cost[i.depot][a] = LastCost(i.sheet, a) \/ <<i.depot, a>> \in meddled

(* A product only ever has a cost that the last row of its article in some *)
(* file sent for its own warehouse gave it.                                *)
CostsStayInTheirDepot ==
  \A d \in Depot : \A a \in InDepot[d] :
    \/ cost[d][a] = NoCost
    \/ \E i \in Import : /\ import[i].depot = d /\ import[i].sheet # NoSheet
                         /\ LastCost(import[i].sheet, a) = cost[d][a]

(* Both imports; they share nothing.                                       *)
ImportsSpec == UploadsSpec /\ CostSpec

(* A file the seller has sent, a price list for Radar or one of costs, does*)
(* all it is said to have done and undoes nothing he did.                  *)
ImportsAreTrue ==
  /\ VerdictStands /\ CompletedIsListed
  /\ ResultIsStored /\ CostsStayInTheirDepot
=============================================================================
