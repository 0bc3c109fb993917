----------------------------- MODULE Warehouses -----------------------------
(***************************************************************************)
(* Creating warehouses: the form of connections/new, the route behind it   *)
(* and the limit of the seller's plan.                                     *)
(*                                                                         *)
(* The route reads the limit, counts the warehouses and inserts, in three  *)
(* calls.  Reading is soft: a limit that cannot be read is the default,    *)
(* a count that cannot be read is not applied.  The form stays usable      *)
(* after an error, and after a success until the browser has moved on.     *)
(*                                                                         *)
(* One seller; warehouses are numbered in the order of their creation.     *)
(***************************************************************************)
EXTENDS Integers, FiniteSets

CONSTANTS
  Form,          \* forms open in the seller's tabs
  Request,       \* POST /api/connections being handled at the same time
  PlanLimit,     \* plan_warehouses_limit a seller may have
  DefaultLimit,  \* the limit taken when the seller cannot be read
  NoForm,
  MaxMade        \* bound on warehouses ever created

ASSUME WarehouseAssumption ==
  /\ IsFiniteSet(Request) /\ Request # {}
  /\ PlanLimit \subseteq Nat /\ DefaultLimit \in Nat
  /\ NoForm \notin Form /\ MaxMade \in Nat

VARIABLES
  limit,       \* sellers.plan_warehouses_limit
  highest,     \* history: the highest limit any request has applied or may apply
  warehouses,  \* data_connections of the seller
  made,        \* warehouses ever created
  formAt,      \* what each form waits for
  requestAt,   \* where each request is
  sender,      \* the form that waits for it
  allowed,     \* the limit it has read
  unchecked    \* history: a count could not be read

requestVars == <<requestAt, sender, allowed>>
warehouseVars == <<limit, highest, warehouses, made, formAt, requestVars, unchecked>>

Greater(a, b) == IF a > b THEN a ELSE b

WarehousesInit ==
  /\ limit \in PlanLimit
  /\ highest = limit
  /\ warehouses = {} /\ made = 0
  /\ formAt = [f \in Form |-> "editing"]
  /\ requestAt = [r \in Request |-> "idle"]
  /\ sender = [r \in Request |-> NoForm]
  /\ allowed = [r \in Request |-> 0]
  /\ unchecked = FALSE

(* A payment, its expiry or an administrator.                              *)
ChangePlan(l) ==
  /\ limit' = l
  /\ highest' = Greater(highest, l)
  /\ UNCHANGED <<warehouses, made, formAt, requestVars, unchecked>>

-----------------------------------------------------------------------------
(* The form.                                                               *)

(* The button is disabled only while `loading': a form that has succeeded  *)
(* can be sent again until it is gone.                                     *)
Submit(f, r) ==
  /\ formAt[f] \in {"editing", "leaving"} /\ requestAt[r] = "idle"
  /\ formAt' = [formAt EXCEPT ![f] = "creating"]
  /\ requestAt' = [requestAt EXCEPT ![r] = "reading"]
  /\ sender' = [sender EXCEPT ![r] = f]
  /\ UNCHANGED <<limit, highest, warehouses, made, allowed, unchecked>>

(* fetch rejects; the handler goes on.                                     *)
CreateUnanswered(f) ==
  /\ formAt[f] = "creating"
  /\ formAt' = [formAt EXCEPT ![f] = "editing"]
  /\ sender' = [r \in Request |-> IF sender[r] = f THEN NoForm ELSE sender[r]]
  /\ UNCHANGED <<limit, highest, warehouses, made, requestAt, allowed, unchecked>>

(* The first sync was started, or the warehouse needs none.                *)
FirstSync(f) ==
  /\ formAt[f] = "created"
  /\ formAt' = [formAt EXCEPT ![f] = "leaving"]
  /\ UNCHANGED <<limit, highest, warehouses, made, requestVars, unchecked>>

(* The worker did not start it: the error is shown and the form is back,   *)
(* with the warehouse created.                                             *)
FirstSyncFails(f) ==
  /\ formAt[f] = "created"
  /\ formAt' = [formAt EXCEPT ![f] = "editing"]
  /\ UNCHANGED <<limit, highest, warehouses, made, requestVars, unchecked>>

(* To /connections, or to the form of the kind suggested as a pair.        *)
LeaveForm(f) ==
  /\ formAt[f] = "leaving"
  /\ \E next \in {"closed", "editing"} : formAt' = [formAt EXCEPT ![f] = next]
  /\ UNCHANGED <<limit, highest, warehouses, made, requestVars, unchecked>>

-----------------------------------------------------------------------------
(* The route.                                                              *)

ReadLimit(r) ==
  /\ requestAt[r] = "reading"
  /\ allowed' = [allowed EXCEPT ![r] = limit]
  /\ requestAt' = [requestAt EXCEPT ![r] = "counting"]
  /\ UNCHANGED <<limit, highest, warehouses, made, formAt, sender, unchecked>>

ReadLimitFails(r) ==
  /\ requestAt[r] = "reading"
  /\ allowed' = [allowed EXCEPT ![r] = DefaultLimit]
  /\ highest' = Greater(highest, DefaultLimit)
  /\ requestAt' = [requestAt EXCEPT ![r] = "counting"]
  /\ UNCHANGED <<limit, warehouses, made, formAt, sender, unchecked>>

ReplyTo(r, next) ==
  /\ requestAt' = [requestAt EXCEPT ![r] = "idle"]
  /\ sender' = [sender EXCEPT ![r] = NoForm]
  /\ allowed' = [allowed EXCEPT ![r] = 0]
  /\ formAt' = [f \in Form |-> IF f = sender[r] THEN next ELSE formAt[f]]

(* Mutant: the limit itself still fits.                                    *)
Fits_OneMore(r) == Cardinality(warehouses) <= allowed[r]

Fits(r) == Cardinality(warehouses) < allowed[r]

Count(r) ==
  /\ requestAt[r] = "counting" /\ Fits(r)
  /\ requestAt' = [requestAt EXCEPT ![r] = "inserting"]
  /\ UNCHANGED <<limit, highest, warehouses, made, formAt, sender, allowed, unchecked>>

RefuseOverLimit(r) ==
  /\ requestAt[r] = "counting" /\ ~Fits(r)
  /\ ReplyTo(r, "editing")
  /\ UNCHANGED <<limit, highest, warehouses, made, unchecked>>

CountFails(r) ==
  /\ requestAt[r] = "counting"
  /\ requestAt' = [requestAt EXCEPT ![r] = "inserting"]
  /\ unchecked' = TRUE
  /\ UNCHANGED <<limit, highest, warehouses, made, formAt, sender, allowed>>

Insert(r) ==
  /\ requestAt[r] = "inserting" /\ made < MaxMade
  /\ made' = made + 1
  /\ warehouses' = warehouses \cup {made'}
  /\ ReplyTo(r, "created")
  /\ UNCHANGED <<limit, highest, unchecked>>

(* The request is not valid, its secrets cannot be encrypted, or the       *)
(* insert fails.                                                           *)
NotCreated(r) ==
  /\ requestAt[r] \in {"reading", "inserting"}
  /\ ReplyTo(r, "editing")
  /\ UNCHANGED <<limit, highest, warehouses, made, unchecked>>

Delete(w) ==
  /\ w \in warehouses
  /\ warehouses' = warehouses \ {w}
  /\ UNCHANGED <<limit, highest, made, formAt, requestVars, unchecked>>

-----------------------------------------------------------------------------
WarehousesNext ==
  \/ \E l \in PlanLimit : ChangePlan(l)
  \/ \E f \in Form :
       \/ \E r \in Request : Submit(f, r)
       \/ CreateUnanswered(f) \/ FirstSync(f) \/ FirstSyncFails(f) \/ LeaveForm(f)
  \/ \E r \in Request :
       \/ ReadLimit(r) \/ ReadLimitFails(r) \/ Count(r) \/ RefuseOverLimit(r) \/ CountFails(r)
       \/ Insert(r) \/ NotCreated(r)
  \/ \E w \in warehouses : Delete(w)

WarehousesSpec == WarehousesInit /\ [][WarehousesNext]_warehouseVars

-----------------------------------------------------------------------------
(* Every variable keeps to its domain.                                     *)
WarehousesTypeOK ==
  /\ limit \in PlanLimit /\ highest \in Nat
  /\ made \in 0..MaxMade /\ warehouses \subseteq 1..made
  /\ formAt \in [Form -> {"editing", "creating", "created", "leaving", "closed"}]
  /\ requestAt \in [Request -> {"idle", "reading", "counting", "inserting"}]
  /\ sender \in [Request -> Form \cup {NoForm}]
  /\ allowed \in [Request -> Nat]
  /\ unchecked \in BOOLEAN

(* The count and the insert are two calls, so the limit of the plan can be *)
(* exceeded; but, unless a count failed and was skipped, by no more than   *)
(* the requests that run at the same time, less one, whatever the forms    *)
(* repeat, the plan becomes and the seller deletes.                        *)
OvershootIsBounded ==
  unchecked \/ Cardinality(warehouses) <= highest + Cardinality(Request) - 1
=============================================================================
