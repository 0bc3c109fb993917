---------------------------- MODULE RadarBrands ----------------------------
(***************************************************************************)
(* The brands a seller watches with Radar and the limit of the plan:       *)
(* dashboard/radar/actions.ts, api/radar/brands and the upload of a price  *)
(* list in the worker (radar/api.py).                                      *)
(*                                                                         *)
(* Whoever approves a brand reads the limit, counts the approved ones and  *)
(* writes, in separate calls.  Requests come from several tabs and from    *)
(* the API at once; a price list excludes every brand it mentions.         *)
(*                                                                         *)
(* One seller.  A brand stands for its normalised name: writing a name     *)
(* that is there already changes its row.                                  *)
(***************************************************************************)
EXTENDS Integers, FiniteSets

CONSTANTS
  Brand,
  Visit,        \* requests of the seller being handled at the same time
  BrandLimit,   \* values of sellers.radar_brands_limit
  NoBrand

ASSUME BrandAssumption ==
  /\ IsFiniteSet(Brand) /\ IsFiniteSet(Visit) /\ Visit # {}
  /\ BrandLimit \subseteq Nat /\ NoBrand \notin Brand

VARIABLES
  brandLimit,    \* sellers.radar_brands_limit
  highestLimit,  \* history: the highest it has been
  approved,      \* radar_brands whose status is approved
  excluded,      \* and excluded
  step,          \* what each request does next
  via,           \* where it came from
  target,        \* the brand it is about
  quota,         \* the limit it has read
  uncounted      \* history: a count failed

visitVars == <<step, via, target, quota>>
brandVars == <<brandLimit, highestLimit, approved, excluded, visitVars, uncounted>>

BrandsInit ==
  /\ brandLimit \in BrandLimit
  /\ highestLimit = brandLimit
  /\ approved = {} /\ excluded = {}
  /\ step = [v \in Visit |-> "idle"]
  /\ via = [v \in Visit |-> "list"]
  /\ target = [v \in Visit |-> NoBrand]
  /\ quota = [v \in Visit |-> 0]
  /\ uncounted = FALSE

(* A payment, the end of the subscription or an administrator.             *)
ChangeBrandLimit(n) ==
  /\ brandLimit' = n
  /\ highestLimit' = IF n > highestLimit THEN n ELSE highestLimit
  /\ UNCHANGED <<approved, excluded, visitVars, uncounted>>

-----------------------------------------------------------------------------
(* A brand is restored in the list, which looks at its status first; a     *)
(* name is typed into the form (or sent to POST), which does not look; the *)
(* PATCH of the API reads the limit before the status.                     *)
Course ==
  [list  |-> [idle |-> "status", status |-> "limit", limit |-> "count", count |-> "restoring"],
   form  |-> [idle |-> "limit", limit |-> "count", count |-> "adding"],
   patch |-> [idle |-> "limit", limit |-> "status", status |-> "count", count |-> "restoring"]]

Following(v) == Course[via[v]][step[v]]

Begin(v, b, way) ==
  /\ step[v] = "idle"
  /\ step' = [step EXCEPT ![v] = Course[way].idle]
  /\ via' = [via EXCEPT ![v] = way]
  /\ target' = [target EXCEPT ![v] = b]
  /\ UNCHANGED <<brandLimit, highestLimit, approved, excluded, quota, uncounted>>

Continue(v, next) ==
  /\ step' = [step EXCEPT ![v] = next]
  /\ UNCHANGED <<via, target>>

End(v) ==
  /\ step' = [step EXCEPT ![v] = "idle"]
  /\ via' = [via EXCEPT ![v] = "list"]
  /\ target' = [target EXCEPT ![v] = NoBrand]
  /\ quota' = [quota EXCEPT ![v] = 0]

UnchangedBrands == UNCHANGED <<brandLimit, highestLimit, approved, excluded, uncounted>>

(* A brand that is approved needs no check; one that is gone is an error.  *)
ReadStatus(v) ==
  /\ step[v] = "status"
  /\ \/ target[v] \in approved /\ Continue(v, "restoring") /\ UNCHANGED quota
     \/ target[v] \in excluded /\ Continue(v, Following(v)) /\ UNCHANGED quota
     \/ target[v] \notin approved \cup excluded /\ End(v)
  /\ UnchangedBrands

(* A seller that cannot be read, or has no plan, has the limit 0.          *)
ReadBrandLimit(v) ==
  /\ step[v] = "limit"
  /\ \E n \in {brandLimit, 0} : quota' = [quota EXCEPT ![v] = n]
  /\ Continue(v, Following(v))
  /\ UnchangedBrands

(* A read failed, or the plan of a caller of the API has expired.          *)
GiveUp(v) ==
  /\ step[v] = "status" \/ (step[v] = "limit" /\ via[v] # "list")
  /\ End(v)
  /\ UnchangedBrands

(* Mutant: the brand that reaches the limit is let through.                *)
UnderLimit_OneMore(v) == Cardinality(approved) <= quota[v]

UnderLimit(v) == Cardinality(approved) < quota[v]

CountApproved(v) ==
  /\ step[v] = "count" /\ UnderLimit(v)
  /\ Continue(v, Following(v))
  /\ UNCHANGED quota
  /\ UnchangedBrands

RefuseBrand(v) ==
  /\ step[v] = "count" /\ ~UnderLimit(v)
  /\ End(v)
  /\ UnchangedBrands

(* A count that failed counts 0.                                           *)
CountApprovedFails(v) ==
  /\ step[v] = "count" /\ quota[v] > 0
  /\ Continue(v, Following(v))
  /\ uncounted' = TRUE
  /\ UNCHANGED <<quota, brandLimit, highestLimit, approved, excluded>>

(* The upsert of the form inserts what is not there, the update does not.  *)
Approve(v) ==
  /\ \/ step[v] = "adding"
     \/ step[v] = "restoring" /\ target[v] \in approved \cup excluded
  /\ approved' = approved \cup {target[v]}
  /\ excluded' = excluded \ {target[v]}
  /\ End(v)
  /\ UNCHANGED <<brandLimit, highestLimit, uncounted>>

ApproveFails(v) ==
  /\ step[v] \in {"adding", "restoring"}
  /\ End(v)
  /\ UnchangedBrands

-----------------------------------------------------------------------------
(* Excluding and deleting a brand are single writes.                       *)
Exclude(b) ==
  /\ b \in approved
  /\ approved' = approved \ {b}
  /\ excluded' = excluded \cup {b}
  /\ UNCHANGED <<brandLimit, highestLimit, visitVars, uncounted>>

DeleteBrand(b) ==
  /\ b \in approved \cup excluded
  /\ approved' = approved \ {b}
  /\ excluded' = excluded \ {b}
  /\ UNCHANGED <<brandLimit, highestLimit, visitVars, uncounted>>

(* Every brand found in a price list is put up for review, those that are  *)
(* watched already too.                                                    *)
ExtractBrand(b) ==
  /\ approved' = approved \ {b}
  /\ excluded' = excluded \cup {b}
  /\ UNCHANGED <<brandLimit, highestLimit, visitVars, uncounted>>

-----------------------------------------------------------------------------
BrandsNext ==
  \/ \E n \in BrandLimit : ChangeBrandLimit(n)
  \/ \E b \in Brand : Exclude(b) \/ DeleteBrand(b) \/ ExtractBrand(b)
  \/ \E v \in Visit :
       \/ \E b \in Brand, way \in DOMAIN Course : Begin(v, b, way)
       \/ ReadStatus(v) \/ ReadBrandLimit(v) \/ GiveUp(v)
       \/ CountApproved(v) \/ RefuseBrand(v) \/ CountApprovedFails(v)
       \/ Approve(v) \/ ApproveFails(v)

BrandsSpec == BrandsInit /\ [][BrandsNext]_brandVars

-----------------------------------------------------------------------------
(* Every variable keeps to its domain.                                     *)
BrandsTypeOK ==
  /\ brandLimit \in BrandLimit /\ highestLimit \in Nat
  /\ approved \subseteq Brand /\ excluded \subseteq Brand
  /\ step \in [Visit -> {"idle", "status", "limit", "count", "restoring", "adding"}]
  /\ via \in [Visit -> DOMAIN Course]
  /\ target \in [Visit -> Brand \cup {NoBrand}]
  /\ quota \in [Visit -> Nat]
  /\ uncounted \in BOOLEAN

(* Nobody watches more brands than the highest limit of the plan and one   *)
(* for each further request under way, unless a count failed: also not     *)
(* when a brand seen as approved, and so not checked, is excluded by       *)
(* another tab or a price list and another takes its place meanwhile.      *)
WatchedWithinLimit ==
  uncounted \/ Cardinality(approved) <= highestLimit + Cardinality(Visit) - 1
=============================================================================
