-------------------------------- MODULE MCWeb --------------------------------
(***************************************************************************)
(* The parts of the web application that share no state in their models,   *)
(* checked in one run: in each behaviour one part is at work and the others*)
(* rest at one of their initial states.                                    *)
(***************************************************************************)
EXTENDS Warehouses, RadarBrands, RadarQueries, AccountDelete, SyncButton,
        Editors, RateLimit, SkuList, SkuFilters, PriceUpload, CostImport

VARIABLE part  \* the part at work

Least(numbers) == CHOOSE n \in numbers : \A k \in numbers : n <= k

(* The article that has a snapshot before the manual entry starts.         *)
SomeArticle == CHOOSE a \in Article : TRUE

(* Price lists in which every word occurs often enough, and in which none. *)
ListsUsed == {[w \in Word |-> 3], [w \in Word |-> 2]}

(* Files of costs: one that names an article twice, one without a cost.    *)
Cell(a, c) == [article |-> a, cost |-> c]
SheetsUsed ==
  {<<Cell("s1", 1), Cell("s2", 1), Cell("s2", 2)>>, <<Cell("s1", NoCost)>>}
DepotsUsed == [w1 |-> {"s1", "s2"}, w2 |-> {"s2"}]

Init ==
  /\ part \in {"warehouses", "brands", "queries", "deletion", "button",
              "subscriptions", "events", "tags", "notes", "manual",
              "limiter", "settings", "list", "filters", "uploads", "import",
              "cost"}
  /\ WarehousesInit /\ (part # "warehouses" => limit = Least(PlanLimit))
  /\ BrandsInit /\ (part # "brands" => brandLimit = Least(BrandLimit))
  /\ QueriesInit
  /\ DeleteInit
  /\ ButtonInit /\ (part # "button" => cooling)
  /\ SubsInit
  /\ EventsInit /\ (part # "events" => \A e \in Event : storedEvents[e] = Gone)
  /\ TagsInit /\ (part # "tags" => storedTags = {})
  /\ NotesInit /\ (part # "notes" => note = Blank)
  /\ ManualInit /\ keptStock = [a \in {SomeArticle} |-> 0]
  /\ LimitInit
  /\ SettingsInit /\ (part # "settings" => ~chatRow.notify)
  /\ SkuListInit
  /\ FiltersInit /\ (part # "filters" => ~address.params["chip"])
  /\ UploadsInit
  /\ CostInit
  /\ FieldInit /\ (part # "cost" => costStored = NoCostText)

(* The part p is at work.                                                  *)
Turn(p) == part = p

(* All others rest.                                                        *)
Rest(p) ==
  /\ UNCHANGED part
  /\ IF p = "warehouses" THEN TRUE ELSE UNCHANGED warehouseVars
  /\ IF p = "brands" THEN TRUE ELSE UNCHANGED brandVars
  /\ IF p = "queries" THEN TRUE ELSE UNCHANGED queryVars
  /\ IF p = "deletion" THEN TRUE ELSE UNCHANGED deleteVars
  /\ IF p = "button" THEN TRUE ELSE UNCHANGED buttonVars
  /\ IF p = "subscriptions" THEN TRUE ELSE UNCHANGED subVars
  /\ IF p = "events" THEN TRUE ELSE UNCHANGED eventVars
  /\ IF p = "tags" THEN TRUE ELSE UNCHANGED tagVars
  /\ IF p = "notes" THEN TRUE ELSE UNCHANGED noteVars
  /\ IF p = "manual" THEN TRUE ELSE UNCHANGED manualVars
  /\ IF p = "limiter" THEN TRUE ELSE UNCHANGED limitVars
  /\ IF p = "settings" THEN TRUE ELSE UNCHANGED settingsVars
  /\ IF p = "list" THEN TRUE ELSE UNCHANGED listVars
  /\ IF p = "filters" THEN TRUE ELSE UNCHANGED filterVars
  /\ IF p = "uploads" THEN TRUE ELSE UNCHANGED uploadVars
  /\ IF p = "import" THEN TRUE ELSE UNCHANGED costVars
  /\ IF p = "cost" THEN TRUE ELSE UNCHANGED fieldVars

(* Once a count of brands has failed nothing is claimed of them any more.  *)
Next ==
  \/ Turn("warehouses") /\ WarehousesNext /\ Rest("warehouses")
  \/ Turn("brands") /\ ~uncounted /\ BrandsNext /\ Rest("brands")
  \/ Turn("queries") /\ QueriesNext /\ Rest("queries")
  \/ Turn("deletion") /\ DeleteNext /\ Rest("deletion")
  \/ Turn("button") /\ ButtonNext /\ Rest("button")
  \/ Turn("subscriptions") /\ SubsNext /\ Rest("subscriptions")
  \/ Turn("events") /\ EventsNext /\ Rest("events")
  \/ Turn("tags") /\ TagsNext /\ Rest("tags")
  \/ Turn("notes") /\ NotesNext /\ Rest("notes")
  \/ Turn("manual") /\ ManualNext /\ Rest("manual")
  \/ Turn("limiter") /\ LimitNext /\ Rest("limiter")
  \/ Turn("settings") /\ SettingsNext /\ Rest("settings")
  \/ Turn("list") /\ SkuListNext /\ Rest("list")
  \/ Turn("filters") /\ FiltersNext /\ Rest("filters")
  \/ Turn("uploads") /\ UploadsNext /\ Rest("uploads")
  \/ Turn("import") /\ CostNext /\ Rest("import")
  \/ Turn("cost") /\ FieldNext /\ Rest("cost")

Spec == Init /\ [][Next]_<<part, warehouseVars, brandVars, queryVars,
                         deleteVars, buttonVars, subVars, eventVars, tagVars,
                         noteVars, manualVars, limitVars, settingsVars,
                         listVars, filterVars, uploadVars, costVars,
                         fieldVars>>
=============================================================================
