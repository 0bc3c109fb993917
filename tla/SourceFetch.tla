---------------------------- MODULE SourceFetch ----------------------------
(***************************************************************************)
(* One sync of a warehouse: what the adapter of its source fetches, call   *)
(* by call (sources/), and what the worker records of it                   *)
(* (ingest_persist.py).                                                    *)
(*                                                                         *)
(* Some calls are essential: their failure ends the sync with an error.    *)
(* Others are made for what they bring: without it the sync goes on.  A    *)
(* call fails when its last retry does.  Snapshots are inserted in         *)
(* batches; a failure leaves those inserted before it.                     *)
(*                                                                         *)
(* A page, a batch and a response hold one product; prices stand for the   *)
(* prices with and without discount.  The one price there is, is 1.  What  *)
(* a source answers of a product may come without its price; 0 is what the *)
(* code writes for want of one.                                            *)
(***************************************************************************)
EXTENDS Integers, FiniteSets

CONSTANTS
  LastProduct,  \* the number of products
  PageLimits,   \* the values of MAX_PAGES_PER_BATCH, MAX_CARDS_PAGES and MAX_PAGES
  Shelf         \* the seller's own warehouses at the marketplace (wb_fbs)

ASSUME SourceAssumption == LastProduct \in Nat /\ IsFiniteSet(Shelf)

Product == 1..LastProduct
AllShelves == "all"

VARIABLES
  source,     \* the source of the warehouse
  pageLimit,  \* the pages a listing is read to
  inStock,    \* the products in stock, one piece on every shelf
  fetchStage, \* the calls the sync is at
  todo,       \* those that are still to be made of them: shelf and product
  fetchedSkus, \* the products listed so far
  counted,    \* the pieces counted of each
  priced,     \* the products whose price was received
  blank,      \* those received without one, for which the adapter has 0
  last,       \* inventory_snapshots: the last row of each product
  recent,     \* the products whose last row is within _DEDUP_WINDOW_HOURS
  settled,    \* history: the products whose last row is this sync's, or the same
  unpriced    \* history: those whose last recorded answer came without a price

received == <<fetchedSkus, counted, priced, blank>>
sourceVars == <<source, pageLimit, inStock, fetchStage, todo, received,
                last, recent, settled, unpriced>>

NoSnapshot == [stock |-> -1, price |-> -1]

-----------------------------------------------------------------------------
(* The order of the calls, for each source.                                *)

PersistCourse == [products |-> "lookup", lookup |-> "insert"]

OzonFbo == [idle |-> "list", list |-> "info", info |-> "stocks",
            stocks |-> "prices", prices |-> "extras", extras |-> "products"]
OzonFbs == [idle |-> "list", list |-> "stocks", stocks |-> "prices",
            prices |-> "extras", extras |-> "products"]
WbFbo == [idle |-> "rows", rows |-> "extras", extras |-> "products"]
WbFbs == [idle |-> "cards", cards |-> "extras", extras |-> "prices",
          prices |-> "statistics", statistics |-> "warehouses",
          warehouses |-> "stocks", stocks |-> "products"]
Shopify == [idle |-> "variants", variants |-> "products"]
Sheet == [idle |-> "rows", rows |-> "products"]

FetchCourse == [ozon_fbo |-> OzonFbo, ozon_fbs |-> OzonFbs, wb_fbo |-> WbFbo,
                wb_fbs |-> WbFbs, shopify |-> Shopify, sheet |-> Sheet]

NextStage(s) ==
  IF s \in DOMAIN PersistCourse THEN PersistCourse[s] ELSE FetchCourse[source][s]

Ozon == {"ozon_fbo", "ozon_fbs"}

(* The shelves a call for stocks is made for.                              *)
Asked == IF source = "wb_fbs" THEN Shelf ELSE {AllShelves}

CallsFor(s) ==
  CASE s \in {"list", "cards", "variants"} -> {AllShelves} \X Product
    [] s \in {"info", "prices"} -> {AllShelves} \X fetchedSkus
    [] s = "stocks" -> Asked \X fetchedSkus
    [] OTHER -> {}

Goto(s) == fetchStage' = s /\ todo' = CallsFor(s)

-----------------------------------------------------------------------------
SourceInit ==
  /\ source \in DOMAIN FetchCourse
  /\ pageLimit \in PageLimits
  /\ inStock = Product
  /\ fetchStage = "idle" /\ todo = {}
  /\ fetchedSkus = {} /\ priced = {} /\ blank = {}
  /\ counted = [p \in Product |-> 0]
  /\ last = [p \in Product |-> NoSnapshot]
  /\ recent = {} /\ settled = {} /\ unpriced = {}

UnchangedSource == UNCHANGED <<source, pageLimit, inStock>>
UnchangedRows == UNCHANGED <<last, recent, settled, unpriced>>

(* A product is sold out, or back: between syncs, so that what each one is  *)
(* to find is one thing.                                                   *)
MarketMoves(p) ==
  /\ fetchStage = "idle"
  /\ inStock' = IF p \in inStock THEN inStock \ {p} ELSE inStock \cup {p}
  /\ settled' = {}
  /\ UNCHANGED <<source, pageLimit, fetchStage, todo, received, last, recent, unpriced>>

(* The dedup window passes: the next nightly sync is a day later.          *)
NightPasses ==
  /\ fetchStage = "idle" /\ recent # {}
  /\ recent' = {}
  /\ UNCHANGED <<source, pageLimit, inStock, fetchStage, todo, received>>
  /\ UNCHANGED <<last, settled, unpriced>>

NothingFetched ==
  /\ fetchedSkus' = {} /\ priced' = {} /\ blank' = {}
  /\ counted' = [p \in Product |-> 0]

BeginFetch ==
  /\ fetchStage = "idle"
  /\ Goto(NextStage("idle")) /\ NothingFetched
  /\ settled' = {}
  /\ UnchangedSource /\ UNCHANGED <<last, recent, unpriced>>

(* The sync ends, with its mark, and what it fetched is forgotten.         *)
FetchOver ==
  /\ fetchStage' = "idle" /\ todo' = {} /\ NothingFetched

(* Mutant: a batch of stocks that fails is left out.                       *)
EssentialFails_LeavesOut ==
  /\ fetchStage = "stocks"
  /\ \E c \in todo : todo' = todo \ {c}
  /\ UNCHANGED <<fetchStage, received>> /\ UnchangedSource /\ UnchangedRows

(* Any essential call may fail.                                            *)
EssentialFails ==
  /\ \/ fetchStage \in {"list", "info", "rows", "variants", "warehouses"}
     \/ fetchStage \in {"products", "lookup"}
     \/ fetchStage = "stocks" /\ todo # {}
  /\ FetchOver
  /\ UnchangedSource /\ UnchangedRows

-----------------------------------------------------------------------------
(* Listings, page by page.  Ozon ends the sync when the pages run out, the *)
(* others go on with what they have.                                       *)

PagesRead == {c[2] : c \in CallsFor(fetchStage) \ todo}
Listing == fetchStage \in {"list", "cards", "variants"}

(* An answer has the product's price, or none and the adapter puts 0.      *)
PricedOrBlank(p) ==
  \/ priced' = priced \cup {p} /\ UNCHANGED blank
  \/ blank' = blank \cup {p} /\ UNCHANGED priced

ReadPage(p) ==
  /\ Listing /\ Cardinality(PagesRead) < pageLimit
  /\ <<AllShelves, p>> \in todo
  /\ \A q \in Product : <<AllShelves, q>> \in todo => p <= q
  /\ todo' = todo \ {<<AllShelves, p>>}
  /\ fetchedSkus' = fetchedSkus \cup {p}
  /\ IF fetchStage = "variants"
     THEN /\ counted' = [counted EXCEPT ![p] = IF p \in inStock THEN 1 ELSE 0]
          /\ PricedOrBlank(p)
     ELSE UNCHANGED <<counted, priced, blank>>
  /\ UNCHANGED fetchStage /\ UnchangedSource /\ UnchangedRows

PagesRunOut ==
  /\ fetchStage = "list" /\ todo # {} /\ Cardinality(PagesRead) >= pageLimit
  /\ FetchOver
  /\ UnchangedSource /\ UnchangedRows

(* _fetch_card_data stops at a page that fails and returns the others.     *)
ListingEnds ==
  /\ \/ Listing /\ todo = {}
     \/ fetchStage = "variants" /\ Cardinality(PagesRead) >= pageLimit
     \/ fetchStage = "cards"
  /\ IF fetchedSkus = {} THEN FetchOver
     ELSE Goto(NextStage(fetchStage)) /\ UNCHANGED received
  /\ UnchangedSource /\ UnchangedRows

(* One response with all there is: rows that do not parse are left out, and*)
(* without any the sync is over.  A row with no price is kept, with 0.     *)
ReadRows(rows, dear) ==
  /\ fetchStage = "rows"
  /\ IF rows = {} THEN FetchOver
     ELSE /\ fetchedSkus' = rows /\ priced' = dear /\ blank' = rows \ dear
          /\ counted' = [p \in Product |-> IF p \in rows \cap inStock THEN 1 ELSE 0]
          /\ fetchStage' = NextStage("rows") /\ todo' = {}
  /\ UnchangedSource /\ UnchangedRows

-----------------------------------------------------------------------------
(* Calls per product.                                                      *)

InfoCall(c) ==
  /\ fetchStage = "info" /\ c \in todo
  /\ todo' = todo \ {c}
  /\ UNCHANGED <<fetchStage, received>> /\ UnchangedSource /\ UnchangedRows

StocksCall(c) ==
  /\ fetchStage = "stocks" /\ c \in todo
  /\ todo' = todo \ {c}
  /\ counted' = [counted EXCEPT ![c[2]] = @ + IF c[2] \in inStock THEN 1 ELSE 0]
  /\ UNCHANGED <<fetchStage, fetchedSkus, priced, blank>>
  /\ UnchangedSource /\ UnchangedRows

(* The answer may leave the product out.  wb_fbs takes one without a price *)
(* for left out, Ozon puts 0.                                              *)
PricesCall(c) ==
  /\ fetchStage = "prices" /\ c \in todo
  /\ todo' = todo \ {c}
  /\ \/ UNCHANGED <<priced, blank>>
     \/ priced' = priced \cup {c[2]} /\ UNCHANGED blank
     \/ source \in Ozon /\ blank' = blank \cup {c[2]} /\ UNCHANGED priced
  /\ UNCHANGED <<fetchStage, fetchedSkus, counted>> /\ UnchangedSource /\ UnchangedRows

(* Ozon leaves out the batch, _fetch_wb_prices all that follow.            *)
PricesFail(c) ==
  /\ fetchStage = "prices" /\ c \in todo
  /\ todo' = IF source \in Ozon THEN todo \ {c} ELSE {}
  /\ UNCHANGED <<fetchStage, received>> /\ UnchangedSource /\ UnchangedRows

CallsEnd ==
  /\ fetchStage \in {"info", "stocks", "prices"} /\ todo = {}
  /\ Goto(NextStage(fetchStage))
  /\ UNCHANGED received /\ UnchangedSource /\ UnchangedRows

(* Names, brands, categories, commissions: made or failed, it goes on.     *)
Extras ==
  /\ fetchStage = "extras"
  /\ Goto(NextStage(fetchStage))
  /\ UNCHANGED received /\ UnchangedSource /\ UnchangedRows

(* Statistics has the prices of products at the marketplace's warehouses;  *)
(* none if the call fails.                                                 *)
Statistics(withFbo) ==
  /\ fetchStage = "statistics"
  /\ priced' = priced \cup withFbo
  /\ Goto(NextStage(fetchStage))
  /\ UNCHANGED <<fetchedSkus, counted, blank>> /\ UnchangedSource /\ UnchangedRows

(* An empty list of warehouses is not taken for empty warehouses.          *)
Warehouses(answer) ==
  /\ fetchStage = "warehouses"
  /\ IF answer = {} THEN FetchOver
     ELSE Goto(NextStage(fetchStage)) /\ UNCHANGED received
  /\ UnchangedSource /\ UnchangedRows

-----------------------------------------------------------------------------
(* _persist_snapshots.                                                     *)

EnsureProducts ==
  /\ fetchStage = "products"
  /\ Goto(NextStage(fetchStage))
  /\ UNCHANGED received /\ UnchangedSource /\ UnchangedRows

(* Of a product whose price was not answered for Ozon's adapter returns    *)
(* None, and the last one is carried over, if a row within the window has  *)
(* it; for want of one in the answer, and in wb_fbs, it is 0.              *)
Price(p) ==
  IF p \in priced THEN 1
  ELSE IF source \in Ozon /\ p \notin blank THEN last[p].price ELSE 0

(* Mutant: a product without an earlier row is recorded all the same.      *)
SkippedNoPrice_Never == {}

SkippedNoPrice ==
  {p \in fetchedSkus \ (priced \cup blank) : source \in Ozon /\ p \notin recent}

NewRow(p) == [stock |-> counted[p], price |-> Price(p)]

Duplicates == {p \in recent \cap fetchedSkus : last[p] = NewRow(p)}

(* A price that is carried over comes without the price with discount, so  *)
(* its row, and the next one, may differ in that from the last row.        *)
Carried == IF source \in Ozon THEN Duplicates ELSE {}

LookUpRecent(again) ==
  /\ fetchStage = "lookup"
  /\ again \subseteq Carried
  /\ fetchStage' = "insert"
  /\ todo' = {AllShelves} \X
               (fetchedSkus \ (SkippedNoPrice \cup (Duplicates \ again)))
  /\ settled' = Duplicates \ again
  /\ UNCHANGED <<received, last, recent, unpriced>> /\ UnchangedSource

InsertRow(p) ==
  /\ fetchStage = "insert" /\ <<AllShelves, p>> \in todo
  /\ last' = [last EXCEPT ![p] = NewRow(p)]
  /\ recent' = recent \cup {p}
  /\ settled' = settled \cup {p}
  /\ unpriced' = IF p \in priced THEN unpriced \ {p}
                 ELSE IF p \in blank THEN unpriced \cup {p} ELSE unpriced

InsertBatch(p) ==
  /\ InsertRow(p)
  /\ todo' = todo \ {<<AllShelves, p>>}
  /\ UNCHANGED <<fetchStage, received>> /\ UnchangedSource

(* The answer to the insert is lost, or there was no insert.               *)
InsertFails(p) ==
  /\ \/ InsertRow(p)
     \/ fetchStage = "insert" /\ <<AllShelves, p>> \in todo /\ UnchangedRows
  /\ FetchOver
  /\ UnchangedSource

Persisted ==
  /\ fetchStage = "insert" /\ todo = {}
  /\ FetchOver
  /\ UnchangedSource /\ UnchangedRows

-----------------------------------------------------------------------------
SourceNext ==
  \/ NightPasses \/ BeginFetch \/ EssentialFails \/ PagesRunOut \/ ListingEnds
  \/ CallsEnd \/ Extras \/ EnsureProducts \/ Persisted
  \/ \E p \in Product :
       MarketMoves(p) \/ ReadPage(p) \/ InsertBatch(p) \/ InsertFails(p)
  \/ \E rows \in SUBSET Product : \E dear \in SUBSET rows : ReadRows(rows, dear)
  \/ \E again \in SUBSET Product : LookUpRecent(again)
  \/ \E c \in todo : InfoCall(c) \/ StocksCall(c) \/ PricesCall(c) \/ PricesFail(c)
  \/ \E withFbo \in SUBSET Product : Statistics(withFbo)
  \/ \E answer \in {{}, Shelf} : Warehouses(answer)

SourceSpec == SourceInit /\ [][SourceNext]_sourceVars

-----------------------------------------------------------------------------
(* Every variable keeps to its domain.                                     *)
SourceTypeOK ==
  /\ source \in DOMAIN FetchCourse /\ pageLimit \in PageLimits
  /\ inStock \subseteq Product
  /\ fetchStage \in {"insert"} \cup DOMAIN PersistCourse
                            \cup DOMAIN FetchCourse[source]
  /\ todo \subseteq (Shelf \cup {AllShelves}) \X Product
  /\ fetchedSkus \subseteq Product
  /\ priced \subseteq Product /\ blank \subseteq Product
  /\ counted \in [Product -> Nat]
  /\ last \in [Product -> [stock : Nat, price : Nat] \cup {NoSnapshot}]
  /\ recent \subseteq Product /\ settled \subseteq Product
  /\ unpriced \subseteq Product

Pieces(p) == IF p \in inStock THEN Cardinality(Asked) ELSE 0

(* What a sync records is what the source has on all its shelves, however  *)
(* many calls fail, whatever is read only in part, and also where the      *)
(* dedup takes an earlier row for it: a shortfall would be counted as      *)
(* sales, or as a stockout, by the engine.                                 *)
RecordedStockIsTrue ==
  \A p \in settled : last[p].stock = Pieces(p)

(* A price of 0 in the history stands for an answer that came without a    *)
(* price: no call that failed, no page that was not read, no product that  *)
(* was left out of an answer makes one, nor spoils a row with nothing at   *)
(* all, for the price is carried over from the last row within the window  *)
(* or the product is skipped; and what is carried over is what the last    *)
(* recorded answer had.  The seller's own warehouses at Wildberries are    *)
(* left out: their adapter passes 0 whatever the price is missing for.     *)
(* (schemas.py asks for no price instead of the 0 in every case.)          *)
NoPhantomPrice ==
  source # "wb_fbs" =>
    \A p \in Product : last[p] # NoSnapshot =>
                         last[p].price = IF p \in unpriced THEN 0 ELSE 1

(* Neither the stock nor the price of a row is made up.                    *)
SnapshotsAreTrue == RecordedStockIsTrue /\ NoPhantomPrice
=============================================================================
