--------------------------- MODULE Limits_proofs ----------------------------
(***************************************************************************)
(* Proofs about the limits of a plan and of a client, for any limits,     *)
(* requests and plans.                                                    *)
(***************************************************************************)
EXTENDS Warehouses, RadarBrands, RateLimit, FiniteSetTheorems, FunctionTheorems,
        WellFoundedInduction, TLAPS

-----------------------------------------------------------------------------
(* Warehouses: the limit of the plan.                                     *)

Inserting == {r \in Request : requestAt[r] = "inserting"}

LimitsKnown ==
  /\ limit <= highest
  /\ \A r \in Request : allowed[r] <= highest

(* A request that has counted holds a place until it has inserted.         *)
PlacesBound ==
  unchecked \/ Cardinality(warehouses) + Cardinality(Inserting)
                 <= highest + Cardinality(Request) - 1

WarehousesInv == WarehousesTypeOK /\ LimitsKnown /\ PlacesBound

(* Both sets are finite, and no more requests insert than there are.       *)
LEMMA Sizes ==
  ASSUME NEW m \in Nat, NEW W \in SUBSET (1..m), NEW I \in SUBSET Request
  PROVE  /\ IsFiniteSet(W) /\ Cardinality(W) \in Nat
         /\ IsFiniteSet(I) /\ Cardinality(I) \in Nat /\ Cardinality(I) <= Cardinality(Request)
         /\ Cardinality(Request) \in Nat \ {0}
<1>1. IsFiniteSet(1..m)
  BY FS_Interval
<1>2. IsFiniteSet(W) /\ IsFiniteSet(I) /\ Cardinality(I) <= Cardinality(Request)
  BY <1>1, FS_Subset, WarehouseAssumption
<1>3. Cardinality(Request) # 0
  BY FS_EmptySet, WarehouseAssumption
<1>4. QED
  BY <1>2, <1>3, FS_CardinalityType, WarehouseAssumption

(* The bound is kept where neither set grows.                              *)
LEMMA NoneAdded ==
  ASSUME WarehousesInv, WarehousesTypeOK', highest <= highest', unchecked' = unchecked,
         warehouses' \subseteq warehouses, Inserting' \subseteq Inserting
  PROVE  PlacesBound'
<1>1. made \in Nat /\ warehouses \in SUBSET (1..made) /\ Inserting \in SUBSET Request
  BY WarehouseAssumption DEF WarehousesInv, WarehousesTypeOK, Inserting
<1>2. /\ IsFiniteSet(warehouses) /\ Cardinality(warehouses) \in Nat
      /\ IsFiniteSet(Inserting) /\ Cardinality(Inserting) \in Nat
      /\ Cardinality(Request) \in Nat
  BY <1>1, Sizes
<1>3. /\ Cardinality(warehouses') <= Cardinality(warehouses)
      /\ Cardinality(Inserting') <= Cardinality(Inserting)
      /\ Cardinality(warehouses') \in Nat /\ Cardinality(Inserting') \in Nat
  BY <1>2, FS_Subset, FS_CardinalityType
<1>4. QED
  BY <1>2, <1>3 DEF WarehousesInv, WarehousesTypeOK, PlacesBound

LEMMA InitWarehouses == WarehousesInit => WarehousesInv
<1> SUFFICES ASSUME WarehousesInit PROVE WarehousesInv
  OBVIOUS
<1>1. WarehousesTypeOK /\ LimitsKnown
  <2>1. WarehousesTypeOK
    <3>1. /\ limit \in PlanLimit /\ highest \in Nat /\ made \in 0..MaxMade
          /\ warehouses \subseteq 1..made
      BY WarehouseAssumption DEF WarehousesInit
    <3>2. /\ formAt \in [Form -> {"editing", "creating", "created", "leaving", "closed"}]
          /\ requestAt \in [Request -> {"idle", "reading", "counting", "inserting"}]
          /\ sender \in [Request -> Form \cup {NoForm}]
          /\ allowed \in [Request -> Nat] /\ unchecked \in BOOLEAN
      BY DEF WarehousesInit
    <3>3. QED
      BY <3>1, <3>2 DEF WarehousesTypeOK
  <2>2. LimitsKnown
    BY WarehouseAssumption DEF WarehousesInit, LimitsKnown
  <2>3. QED
    BY <2>1, <2>2
<1>2. warehouses = {} /\ Inserting = {}
  BY DEF WarehousesInit, Inserting
<1>3. Cardinality(Request) \in Nat \ {0}
  BY FS_EmptySet, FS_CardinalityType, WarehouseAssumption
<1>4. PlacesBound
  BY <1>1, <1>2, <1>3, FS_EmptySet DEF PlacesBound, WarehousesTypeOK
<1>5. QED
  BY <1>1, <1>4 DEF WarehousesInv

(* The steps of a form, of the plan and of the seller.                     *)
LEMMA OthersKeep ==
  ASSUME WarehousesInv,
         \/ \E l \in PlanLimit : ChangePlan(l)
         \/ \E f \in Form :
              \/ \E r \in Request : Submit(f, r)
              \/ CreateUnanswered(f) \/ FirstSync(f) \/ FirstSyncFails(f) \/ LeaveForm(f)
         \/ \E w \in warehouses : Delete(w)
         \/ UNCHANGED warehouseVars
  PROVE  WarehousesInv'
<1> USE WarehouseAssumption DEF WarehousesInv, requestVars
<1>1. ASSUME NEW l \in PlanLimit, ChangePlan(l)
      PROVE  WarehousesInv'
  <2>1. WarehousesTypeOK' /\ LimitsKnown' /\ highest <= highest'
    BY <1>1 DEF ChangePlan, WarehousesTypeOK, LimitsKnown, Greater
  <2>2. Inserting' = Inserting
    BY <1>1 DEF ChangePlan, Inserting
  <2>3. QED
    BY <1>1, <2>1, <2>2, NoneAdded DEF ChangePlan
<1>2. ASSUME NEW f \in Form, NEW r \in Request, Submit(f, r)
      PROVE  WarehousesInv'
  <2>1. WarehousesTypeOK' /\ LimitsKnown' /\ highest <= highest'
    BY <1>2 DEF Submit, WarehousesTypeOK, LimitsKnown
  <2>2. Inserting' \subseteq Inserting
    BY <1>2 DEF Submit, Inserting, WarehousesTypeOK
  <2>3. QED
    BY <1>2, <2>1, <2>2, NoneAdded DEF Submit
<1>3. ASSUME NEW f \in Form,
             CreateUnanswered(f) \/ FirstSync(f) \/ FirstSyncFails(f) \/ LeaveForm(f)
      PROVE  WarehousesInv'
  <2> USE <1>3 DEF CreateUnanswered, FirstSync, FirstSyncFails, LeaveForm
  <2>1. UNCHANGED <<limit, highest, warehouses, made, requestAt, allowed, unchecked>>
    OBVIOUS
  <2>2. WarehousesTypeOK'
    BY DEF WarehousesTypeOK
  <2>3. LimitsKnown' /\ highest <= highest' /\ Inserting' = Inserting
    BY <2>1 DEF WarehousesTypeOK, LimitsKnown, Inserting
  <2>4. QED
    BY <2>1, <2>2, <2>3, NoneAdded
<1>4. ASSUME NEW w \in warehouses, Delete(w)
      PROVE  WarehousesInv'
  <2>1. WarehousesTypeOK' /\ LimitsKnown' /\ highest <= highest' /\ Inserting' = Inserting
    BY <1>4 DEF Delete, WarehousesTypeOK, LimitsKnown, Inserting
  <2>2. QED
    BY <1>4, <2>1, NoneAdded DEF Delete
<1>5. CASE UNCHANGED warehouseVars
  BY <1>5 DEF warehouseVars, WarehousesTypeOK, LimitsKnown, PlacesBound, Inserting
<1>6. QED
  BY <1>1, <1>2, <1>3, <1>4, <1>5

LEMMA RequestKeeps ==
  ASSUME WarehousesInv, NEW r \in Request,
         \/ ReadLimit(r) \/ ReadLimitFails(r) \/ Count(r) \/ RefuseOverLimit(r) \/ CountFails(r)
         \/ Insert(r) \/ NotCreated(r)
  PROVE  WarehousesInv'
<1> USE WarehouseAssumption DEF WarehousesInv, requestVars
<1>1. CASE ReadLimit(r) \/ ReadLimitFails(r)
  <2> USE <1>1 DEF ReadLimit, ReadLimitFails
  <2>0. limit \in Nat /\ highest \in Nat /\ DefaultLimit \in Nat
    BY DEF WarehousesTypeOK
  <2>1. WarehousesTypeOK' /\ LimitsKnown' /\ highest <= highest'
    <3>1. highest <= highest' /\ highest' \in Nat
      BY <2>0 DEF Greater
    <3>2. allowed' \in [Request -> Nat] /\ requestAt' \in [Request -> {"idle", "reading", "counting", "inserting"}]
      BY <2>0 DEF WarehousesTypeOK
    <3>3. LimitsKnown'
      BY <2>0 DEF WarehousesTypeOK, LimitsKnown, Greater
    <3>4. QED
      BY <3>1, <3>2, <3>3 DEF WarehousesTypeOK
  <2>2. Inserting' \subseteq Inserting
    BY DEF Inserting, WarehousesTypeOK
  <2>3. QED
    BY <2>1, <2>2, NoneAdded
<1>2. CASE RefuseOverLimit(r) \/ NotCreated(r)
  <2> USE <1>2 DEF RefuseOverLimit, NotCreated, ReplyTo
  <2>1. WarehousesTypeOK' /\ LimitsKnown' /\ highest <= highest'
    <3>1. WarehousesTypeOK'
      <4>1. ReplyTo(r, "editing") /\ UNCHANGED <<limit, highest, warehouses, made, unchecked>>
        OBVIOUS
      <4>2. formAt' \in [Form -> {"editing", "creating", "created", "leaving", "closed"}]
        BY <4>1 DEF WarehousesTypeOK
      <4>3. QED
        BY <4>1, <4>2 DEF WarehousesTypeOK
    <3>2. highest \in Nat /\ LimitsKnown'
      BY DEF WarehousesTypeOK, LimitsKnown
    <3>3. QED
      BY <3>1, <3>2
  <2>2. Inserting' \subseteq Inserting
    BY DEF Inserting, WarehousesTypeOK
  <2>3. QED
    BY <2>1, <2>2, NoneAdded
<1>3. CASE Count(r)
  <2>1. WarehousesTypeOK' /\ LimitsKnown'
    BY <1>3 DEF Count, WarehousesTypeOK, LimitsKnown
  <2>2. Cardinality(warehouses') < allowed[r] /\ allowed[r] <= highest'
    BY <1>3 DEF Count, Fits, LimitsKnown
  <2>3. made' \in Nat /\ warehouses' \in SUBSET (1..made') /\ Inserting' \in SUBSET Request
    BY <2>1 DEF WarehousesTypeOK, Inserting
  <2>4. /\ Cardinality(warehouses') \in Nat /\ Cardinality(Inserting') \in Nat
        /\ Cardinality(Inserting') <= Cardinality(Request) /\ Cardinality(Request) \in Nat
    BY <2>3, Sizes
  <2>5. PlacesBound'
    BY <2>1, <2>2, <2>4 DEF PlacesBound, WarehousesTypeOK
  <2>6. QED
    BY <2>1, <2>5
<1>4. CASE CountFails(r)
  BY <1>4 DEF CountFails, WarehousesTypeOK, LimitsKnown, PlacesBound
<1>5. CASE Insert(r)
  <2>1. WarehousesTypeOK' /\ LimitsKnown'
    BY <1>5 DEF Insert, ReplyTo, WarehousesTypeOK, LimitsKnown
  <2>2. made \in Nat /\ warehouses \in SUBSET (1..made) /\ Inserting \in SUBSET Request
    BY DEF WarehousesTypeOK, Inserting
  <2>3. /\ IsFiniteSet(warehouses) /\ Cardinality(warehouses) \in Nat
        /\ IsFiniteSet(Inserting) /\ Cardinality(Inserting) \in Nat
        /\ Cardinality(Request) \in Nat
    BY <2>2, Sizes
  <2>4. Cardinality(warehouses') <= Cardinality(warehouses) + 1 /\ Cardinality(warehouses') \in Nat
    <3>1. warehouses' = warehouses \cup {made'}
      BY <1>5 DEF Insert
    <3>2. IsFiniteSet(warehouses') /\ (Cardinality(warehouses') = Cardinality(warehouses)
                                        \/ Cardinality(warehouses') = Cardinality(warehouses) + 1)
      BY <2>3, <3>1, FS_AddElement
    <3>3. QED
      BY <2>3, <3>2
  <2>5. Cardinality(Inserting') = Cardinality(Inserting) - 1
    <3>1. Inserting' = Inserting \ {r} /\ r \in Inserting
      BY <1>5 DEF Insert, ReplyTo, Inserting, WarehousesTypeOK
    <3>2. QED
      BY <2>3, <3>1, FS_RemoveElement
  <2>6. PlacesBound'
    BY <1>5, <2>3, <2>4, <2>5 DEF Insert, PlacesBound, WarehousesTypeOK
  <2>7. QED
    BY <2>1, <2>6
<1>6. QED
  BY <1>1, <1>2, <1>3, <1>4, <1>5

LEMMA InvWarehouses == WarehousesSpec => []WarehousesInv
<1>1. WarehousesInv /\ [WarehousesNext]_warehouseVars => WarehousesInv'
  BY OthersKeep, RequestKeeps DEF WarehousesNext
<1>2. QED
  BY <1>1, InitWarehouses, PTL DEF WarehousesSpec

(* The limit of the plan (api/connections/route.ts) is exceeded by no more *)
(* than the requests handled at once less one, for any number of them, as  *)
(* long as no count fails.                                                 *)
THEOREM PlanLimitHolds == WarehousesSpec => []OvershootIsBounded
<1>1. WarehousesInv => OvershootIsBounded
  <2> SUFFICES ASSUME WarehousesInv PROVE OvershootIsBounded
    OBVIOUS
  <2>1. made \in Nat /\ warehouses \in SUBSET (1..made) /\ Inserting \in SUBSET Request
    BY WarehouseAssumption DEF WarehousesInv, WarehousesTypeOK, Inserting
  <2>2. /\ Cardinality(warehouses) \in Nat /\ Cardinality(Inserting) \in Nat
        /\ Cardinality(Request) \in Nat
    BY <2>1, Sizes
  <2>3. QED
    BY <2>2 DEF WarehousesInv, PlacesBound, WarehousesTypeOK, OvershootIsBounded
<1>2. QED
  BY <1>1, InvWarehouses, PTL

-----------------------------------------------------------------------------
(* RadarBrands: the limit of the watched brands.                          *)

Granting == {v \in Visit : step[v] \in {"restoring", "adding"}}
Granted == {target[v] : v \in Granting}

(* A request keeps to the calls of its course and to a brand.              *)
OnCourse ==
  \A v \in Visit :
    /\ step[v] \in DOMAIN Course[via[v]] \cup {"restoring", "adding"}
    /\ step[v] # "idle" => target[v] \in Brand

BrandLimitsKnown ==
  /\ brandLimit <= highestLimit
  /\ \A v \in Visit : quota[v] <= highestLimit

(* A brand about to be approved is counted with the approved ones: who was *)
(* let through without a count found its brand among them.                 *)
Bounded ==
  uncounted \/ Cardinality(approved \cup Granted) <= highestLimit + Cardinality(Visit) - 1

BrandsInv == BrandsTypeOK /\ OnCourse /\ BrandLimitsKnown /\ Bounded

(* There are no more brands about to be approved (named by a table) than   *)
(* requests, and all sets of brands are finite.                            *)
LEMMA UnionBound ==
  ASSUME NEW A \in SUBSET Brand, NEW W \in SUBSET Visit, NEW G,
         NEW tab \in Surjection(W, G)
  PROVE  /\ IsFiniteSet(A \cup G) /\ Cardinality(A \cup G) \in Nat
         /\ Cardinality(A) \in Nat /\ Cardinality(Visit) \in Nat \ {0}
         /\ Cardinality(A \cup G) <= Cardinality(A) + Cardinality(Visit)
         /\ Cardinality(A) <= Cardinality(A \cup G)
<1>1. IsFiniteSet(W) /\ Cardinality(W) <= Cardinality(Visit)
  BY FS_Subset, BrandAssumption
<1>2. IsFiniteSet(G) /\ Cardinality(G) <= Cardinality(W)
  BY <1>1, FS_Surjection
<1>3. IsFiniteSet(A)
  BY FS_Subset, BrandAssumption
<1>4. /\ IsFiniteSet(A \cup G) /\ IsFiniteSet(A \cap G)
      /\ Cardinality(A \cup G) = Cardinality(A) + Cardinality(G) - Cardinality(A \cap G)
      /\ Cardinality(A) <= Cardinality(A \cup G)
  <2>1. A \cap G \subseteq A /\ A \subseteq A \cup G
    OBVIOUS
  <2>2. QED
    BY <2>1, <1>2, <1>3, FS_Union, FS_Subset
<1>5. Cardinality(Visit) # 0
  BY BrandAssumption, FS_EmptySet
<1>6. /\ Cardinality(W) \in Nat /\ Cardinality(Visit) \in Nat /\ Cardinality(A) \in Nat
      /\ Cardinality(G) \in Nat /\ Cardinality(A \cup G) \in Nat
      /\ Cardinality(A \cap G) \in Nat
  BY <1>1, <1>2, <1>3, <1>4, BrandAssumption, FS_CardinalityType
<1>7. QED
  BY <1>1, <1>2, <1>4, <1>5, <1>6

LEMMA GrantedBound ==
  ASSUME BrandsTypeOK, OnCourse
  PROVE  /\ IsFiniteSet(approved \cup Granted)
         /\ Cardinality(approved) \in Nat /\ Cardinality(approved \cup Granted) \in Nat
         /\ Cardinality(Visit) \in Nat \ {0}
         /\ Cardinality(approved) <= Cardinality(approved \cup Granted)
<1>1. approved \in SUBSET Brand /\ Granting \in SUBSET Visit
  BY DEF BrandsTypeOK, Granting
<1>2. [v \in Granting |-> target[v]] \in Surjection(Granting, Granted)
  BY DEF Surjection, Granted
<1>3. QED
  BY <1>1, <1>2, UnionBound

(* The bound is kept by a step after which no brand is new among the       *)
(* approved ones and those about to be.                                    *)
LEMMA NoNewBrand ==
  ASSUME BrandsInv, BrandsTypeOK', uncounted' = uncounted, highestLimit <= highestLimit',
         (approved \cup Granted)' \subseteq approved \cup Granted
  PROVE  Bounded'
<1>1. /\ IsFiniteSet(approved \cup Granted)
      /\ Cardinality(approved \cup Granted) \in Nat /\ Cardinality(Visit) \in Nat
  BY GrantedBound DEF BrandsInv
<1>2. /\ Cardinality((approved \cup Granted)') <= Cardinality(approved \cup Granted)
      /\ Cardinality((approved \cup Granted)') \in Nat
  BY <1>1, FS_Subset, FS_CardinalityType
<1>3. QED
  BY <1>1, <1>2 DEF Bounded, BrandsInv, BrandsTypeOK

(* The call after each one, by where the request came from.                *)
LEMMA NextCall ==
  ASSUME BrandsTypeOK, NEW v \in Visit, step[v] \in DOMAIN Course[via[v]]
  PROVE  /\ Following(v) \in {"status", "limit", "count", "restoring", "adding"}
         /\ Following(v) \in DOMAIN Course[via[v]] \cup {"restoring", "adding"}
         /\ step[v] \in {"idle", "status", "limit"} =>
              Following(v) \notin {"restoring", "adding"}
<1>1. DOMAIN Course = {"list", "form", "patch"}
  BY DEF Course
<1>2. CASE via[v] = "list"
  BY <1>2 DEF Following, Course
<1>3. CASE via[v] = "form"
  BY <1>3 DEF Following, Course
<1>4. CASE via[v] = "patch"
  BY <1>4 DEF Following, Course
<1>5. QED
  BY <1>1, <1>2, <1>3, <1>4 DEF BrandsTypeOK

(* A request that goes on without a brand to approve, or ends.             *)
LEMMA GoesOn ==
  ASSUME BrandsInv, NEW v \in Visit, NEW next \in {"status", "limit", "count"},
         step[v] # "idle", next \in DOMAIN Course[via[v]],
         Continue(v, next), UnchangedBrands, quota' \in [Visit -> Nat],
         \A u \in Visit : quota'[u] <= highestLimit
  PROVE  BrandsInv'
<1> USE DEF BrandsInv, Continue, UnchangedBrands
<1>1. BrandsTypeOK'
  BY DEF BrandsTypeOK
<1>2. OnCourse' /\ BrandLimitsKnown'
  BY DEF BrandsTypeOK, OnCourse, BrandLimitsKnown
<1>3. (approved \cup Granted)' \subseteq approved \cup Granted
  BY DEF BrandsTypeOK, Granted, Granting
<1>4. QED
  BY <1>1, <1>2, <1>3, NoNewBrand DEF BrandsTypeOK

LEMMA Ends ==
  ASSUME BrandsInv, NEW v \in Visit, End(v),
         UNCHANGED <<brandLimit, highestLimit, uncounted>>,
         approved' \subseteq approved \cup Granted, excluded' \subseteq Brand
  PROVE  BrandsInv'
<1> USE DEF BrandsInv, End
<1>0. DOMAIN Course = {"list", "form", "patch"} /\ DOMAIN Course["list"] = {"idle", "status", "limit", "count"}
  BY DEF Course
<1>1. BrandsTypeOK'
  BY <1>0 DEF BrandsTypeOK, OnCourse, Granted, Granting
<1>2. OnCourse' /\ BrandLimitsKnown'
  BY <1>0 DEF BrandsTypeOK, OnCourse, BrandLimitsKnown
<1>3. (approved \cup Granted)' \subseteq approved \cup Granted
  BY DEF BrandsTypeOK, Granted, Granting
<1>4. QED
  BY <1>1, <1>2, <1>3, NoNewBrand DEF BrandsTypeOK

(* The calls before a write: only a count may let a new brand through.     *)
LEMMA ReadsKeep ==
  ASSUME BrandsInv, NEW v \in Visit,
         ReadStatus(v) \/ ReadBrandLimit(v) \/ GiveUp(v) \/ RefuseBrand(v)
  PROVE  BrandsInv'
<1> USE DEF BrandsInv
<1>0. /\ quota \in [Visit -> Nat] /\ \A u \in Visit : quota[u] <= highestLimit
      /\ excluded \subseteq Brand
  BY DEF BrandsTypeOK, BrandLimitsKnown
<1>1. ASSUME step[v] \in {"status", "limit"}
      PROVE  /\ Following(v) \in {"status", "limit", "count"}
             /\ Following(v) \in DOMAIN Course[via[v]]
  BY <1>1, NextCall DEF OnCourse
<1>2. CASE ReadStatus(v)
  <2>1. CASE target[v] \in approved /\ Continue(v, "restoring") /\ UNCHANGED quota
    <3> USE <1>2, <2>1 DEF ReadStatus, UnchangedBrands, Continue
    <3>1. BrandsTypeOK'
      BY DEF BrandsTypeOK
    <3>2. OnCourse' /\ BrandLimitsKnown'
      BY DEF BrandsTypeOK, OnCourse, BrandLimitsKnown
    <3>3. (approved \cup Granted)' \subseteq approved \cup Granted
      BY DEF BrandsTypeOK, Granted, Granting
    <3>4. QED
      BY <3>1, <3>2, <3>3, NoNewBrand DEF BrandsTypeOK
  <2>2. CASE Continue(v, Following(v)) /\ UNCHANGED quota
    BY <1>0, <1>1, <1>2, <2>2, GoesOn DEF ReadStatus
  <2>3. CASE End(v)
    BY <1>0, <1>2, <2>3, Ends DEF ReadStatus, UnchangedBrands
  <2>4. QED
    BY <1>2, <2>1, <2>2, <2>3 DEF ReadStatus
<1>3. CASE ReadBrandLimit(v)
  <2>1. quota' \in [Visit -> Nat] /\ \A u \in Visit : quota'[u] <= highestLimit
    BY <1>0, <1>3, BrandAssumption DEF ReadBrandLimit, BrandsTypeOK, BrandLimitsKnown
  <2>2. QED
    BY <1>1, <1>3, <2>1, GoesOn DEF ReadBrandLimit
<1>4. CASE GiveUp(v)
  BY <1>0, <1>4, Ends DEF GiveUp, UnchangedBrands
<1>5. CASE RefuseBrand(v)
  BY <1>0, <1>5, Ends DEF RefuseBrand, UnchangedBrands
<1>6. QED
  BY <1>2, <1>3, <1>4, <1>5

(* A count that finds room leaves room for every request that has counted  *)
(* or is yet to write.                                                     *)
LEMMA CountKeeps ==
  ASSUME BrandsInv, NEW v \in Visit, CountApproved(v) \/ CountApprovedFails(v)
  PROVE  BrandsInv'
<1> USE DEF BrandsInv
<1>1. /\ step[v] = "count" /\ Continue(v, Following(v))
      /\ UNCHANGED <<quota, brandLimit, highestLimit, approved, excluded>>
      /\ uncounted' \in BOOLEAN
  BY DEF CountApproved, CountApprovedFails, UnchangedBrands, BrandsTypeOK
<1>2. /\ Following(v) \in {"status", "limit", "count", "restoring", "adding"}
      /\ Following(v) \in DOMAIN Course[via[v]] \cup {"restoring", "adding"}
  BY <1>1, NextCall DEF OnCourse
<1>3. BrandsTypeOK'
  BY <1>1, <1>2 DEF BrandsTypeOK, Continue
<1>4. OnCourse' /\ BrandLimitsKnown'
  BY <1>1, <1>2 DEF BrandsTypeOK, OnCourse, BrandLimitsKnown, Continue
<1>5. CASE CountApproved(v)
  <2>1. Cardinality(approved) < quota[v] /\ quota[v] <= highestLimit
    BY <1>5 DEF CountApproved, UnderLimit, BrandLimitsKnown
  <2>2. /\ Cardinality(approved') \in Nat /\ Cardinality(Visit) \in Nat
        /\ Cardinality((approved \cup Granted)') \in Nat
        /\ Cardinality((approved \cup Granted)') <= Cardinality(approved') + Cardinality(Visit)
    <3>1. /\ approved' \in SUBSET Brand /\ Granting' \in SUBSET Visit
      BY <1>3 DEF BrandsTypeOK, Granting
    <3>2. [u \in Granting' |-> target'[u]] \in Surjection(Granting', Granted')
      BY DEF Surjection, Granted
    <3>3. QED
      BY <3>1, <3>2, UnionBound
  <2>3. QED
    BY <1>1, <1>3, <1>4, <2>1, <2>2 DEF Bounded, BrandsTypeOK
<1>6. CASE CountApprovedFails(v)
  BY <1>3, <1>4, <1>6 DEF CountApprovedFails, Bounded
<1>7. QED
  BY <1>5, <1>6

LEMMA StepKeeps ==
  ASSUME BrandsInv, [BrandsNext]_brandVars
  PROVE  BrandsInv'
<1> USE DEF BrandsInv
<1>0. /\ DOMAIN Course = {"list", "form", "patch"}
      /\ \A way \in DOMAIN Course : Course[way].idle \in {"status", "limit"} \cap DOMAIN Course[way]
  BY DEF Course
<1>1. ASSUME NEW n \in BrandLimit, ChangeBrandLimit(n)
      PROVE  BrandsInv'
  <2> USE <1>1, BrandAssumption DEF ChangeBrandLimit, visitVars
  <2>1. BrandsTypeOK' /\ BrandLimitsKnown' /\ highestLimit <= highestLimit'
    BY DEF BrandsTypeOK, BrandLimitsKnown
  <2>2. OnCourse' /\ (approved \cup Granted)' \subseteq approved \cup Granted
    BY DEF OnCourse, Granted, Granting
  <2>3. QED
    BY <2>1, <2>2, NoNewBrand
<1>2. ASSUME NEW b \in Brand, Exclude(b) \/ DeleteBrand(b) \/ ExtractBrand(b)
      PROVE  BrandsInv'
  <2> USE <1>2 DEF Exclude, DeleteBrand, ExtractBrand, visitVars
  <2>1. BrandsTypeOK' /\ BrandLimitsKnown' /\ highestLimit <= highestLimit'
    BY DEF BrandsTypeOK, BrandLimitsKnown
  <2>2. OnCourse' /\ (approved \cup Granted)' \subseteq approved \cup Granted
    BY DEF OnCourse, Granted, Granting
  <2>3. uncounted' = uncounted
    OBVIOUS
  <2>4. QED
    BY <2>1, <2>2, <2>3, NoNewBrand
<1>3. ASSUME NEW v \in Visit, NEW b \in Brand, NEW way \in DOMAIN Course, Begin(v, b, way)
      PROVE  BrandsInv'
  <2> USE <1>0, <1>3 DEF Begin
  <2>1. BrandsTypeOK' /\ BrandLimitsKnown' /\ highestLimit <= highestLimit'
    BY DEF BrandsTypeOK, BrandLimitsKnown
  <2>2. OnCourse'
    BY DEF OnCourse, BrandsTypeOK
  <2>3. (approved \cup Granted)' \subseteq approved \cup Granted
    BY DEF BrandsTypeOK, Granted, Granting
  <2>4. QED
    BY <2>1, <2>2, <2>3, NoNewBrand
<1>4. ASSUME NEW v \in Visit, Approve(v)
      PROVE  BrandsInv'
  <2>1. step[v] \in {"adding", "restoring"} /\ End(v)
        /\ UNCHANGED <<brandLimit, highestLimit, uncounted>>
        /\ approved' = approved \cup {target[v]} /\ excluded' = excluded \ {target[v]}
    BY <1>4 DEF Approve
  <2>2. approved' \subseteq approved \cup Granted /\ excluded' \subseteq Brand
    BY <2>1 DEF Granted, Granting, BrandsTypeOK
  <2>3. QED
    BY <2>1, <2>2, Ends
<1>5. ASSUME NEW v \in Visit, ApproveFails(v)
      PROVE  BrandsInv'
  <2>1. excluded \subseteq Brand
    BY DEF BrandsTypeOK
  <2>2. QED
    BY <1>5, <2>1, Ends DEF ApproveFails, UnchangedBrands
<1>6. CASE UNCHANGED brandVars
  BY <1>6 DEF brandVars, visitVars, BrandsTypeOK, OnCourse, BrandLimitsKnown, Bounded,
              Granted, Granting
<1>7. QED
  BY <1>1, <1>2, <1>3, <1>4, <1>5, <1>6, ReadsKeep, CountKeeps DEF BrandsNext

LEMMA InitBrands == BrandsInit => BrandsInv
<1> SUFFICES ASSUME BrandsInit PROVE BrandsInv
  OBVIOUS
<1>1. DOMAIN Course = {"list", "form", "patch"} /\ DOMAIN Course["list"] = {"idle", "status", "limit", "count"}
  BY DEF Course
<1>2. BrandsTypeOK /\ OnCourse /\ BrandLimitsKnown
  <2>1. BrandsTypeOK
    BY <1>1, BrandAssumption DEF BrandsInit, BrandsTypeOK
  <2>2. OnCourse
    BY <1>1 DEF BrandsInit, OnCourse
  <2>3. BrandLimitsKnown
    BY BrandAssumption DEF BrandsInit, BrandLimitsKnown
  <2>4. QED
    BY <2>1, <2>2, <2>3
<1>3. approved \cup Granted = {}
  BY DEF BrandsInit, Granted, Granting
<1>4. Bounded
  BY <1>2, <1>3, GrantedBound, FS_EmptySet DEF Bounded, BrandsTypeOK
<1>5. QED
  BY <1>2, <1>4 DEF BrandsInv

LEMMA InvBrands == BrandsSpec => []BrandsInv
BY InitBrands, StepKeeps, PTL DEF BrandsSpec

(* Every reachable state is well typed: a request keeps to the calls of    *)
(* the action or route it came through.                                    *)
THEOREM BrandsTypeCorrect == BrandsSpec => []BrandsTypeOK
<1>1. BrandsInv => BrandsTypeOK
  BY DEF BrandsInv
<1>2. QED
  BY <1>1, InvBrands, PTL

(* The limit of the plan (radar/actions.ts, api/radar/brands) is exceeded  *)
(* by no more than the requests under way less one, for any number of      *)
(* brands and requests, as long as no count fails.                         *)
THEOREM BrandLimitHolds == BrandsSpec => []WatchedWithinLimit
<1>1. BrandsInv => WatchedWithinLimit
  <2> SUFFICES ASSUME BrandsInv PROVE WatchedWithinLimit
    OBVIOUS
  <2>1. /\ Cardinality(approved) <= Cardinality(approved \cup Granted)
        /\ Cardinality(approved) \in Nat /\ Cardinality(approved \cup Granted) \in Nat
        /\ Cardinality(Visit) \in Nat
    BY GrantedBound DEF BrandsInv
  <2>2. QED
    BY <2>1 DEF BrandsInv, Bounded, BrandsTypeOK, WatchedWithinLimit
<1>2. QED
  BY <1>1, InvBrands, PTL

-----------------------------------------------------------------------------
(* The limiter: whoever lets a request pass has room for Webhook of them   *)
(* within a window.                                                        *)

Times == [age : 0..WindowLen, no : Nat]
Place == {ThisWindow, LastWindow} \cup {MemoryOf(i) : i \in WebProcess}
           \cup {MemoryBefore(n) : n \in 1..restarts}
By(p) == {r \in passed : r.by = p}

LimitTypes ==
  /\ phase \in 0..(WindowLen - 1) /\ counted \in Nat /\ restarts \in Nat
  /\ times \in [WebProcess -> SUBSET Times]
  /\ \A i \in WebProcess : IsFiniteSet(times[i])
  /\ passed \subseteq [age : 0..(WindowLen - 1), no : Nat, by : Place]
  /\ IsFiniteSet(passed)
  /\ born \subseteq [age : 0..(WindowLen - 1), no : 1..restarts] /\ IsFiniteSet(born)
  /\ promise \in [limit : Nat, via : {"memory", "redis"}, left : 0..WindowLen, kept : {TRUE}]

(* The counter of Redis has counted all it has let pass in this window;    *)
(* what it let pass in the last one is older.                              *)
RedisHolds ==
  /\ Cardinality(By(ThisWindow)) <= counted /\ Cardinality(By(ThisWindow)) <= Webhook
  /\ Cardinality(By(LastWindow)) <= Webhook
  /\ \A r \in By(ThisWindow) : r.no <= counted
  /\ \A r \in By(LastWindow) : r.age > phase

(* What the memory of an instance let pass is still in it; the restart that*)
(* emptied it is more recent than what it had let pass.                    *)
MemoryHolds ==
  /\ \A i \in WebProcess :
       /\ Cardinality(By(MemoryOf(i))) <= Webhook
       /\ \A r \in By(MemoryOf(i)) : [age |-> r.age, no |-> r.no] \in times[i]
  /\ \A n \in 1..restarts :
       /\ Cardinality(By(MemoryBefore(n))) <= Webhook
       /\ \A r \in By(MemoryBefore(n)) : \E b \in born : b.no = n /\ b.age <= r.age

(* The times that will still be in the window when Retry-After is over.    *)
StillHeld(i) == {t \in times[i] : t.age + promise.left < WindowLen}

PromiseStands ==
  promise.limit # 0 =>
    /\ promise.via = "memory" =>
         \A i \in WebProcess : Cardinality(StillHeld(i)) < promise.limit
    /\ promise.via = "redis" =>
         /\ promise.limit = Webhook
         /\ \/ promise.left > 0 /\ promise.left = WindowLen - phase
            \/ promise.left = 0 /\ phase = 0 /\ counted = 0

LimitInv == LimitTypes /\ RedisHolds /\ MemoryHolds /\ PromiseStands

(* What is made of the elements of a finite set is finite and no more.     *)
LEMMA ImageOf ==
  ASSUME NEW S, IsFiniteSet(S), NEW f, NEW T, \A t \in T : \E s \in S : t = f[s]
  PROVE  IsFiniteSet(T) /\ Cardinality(T) <= Cardinality(S)
<1> DEFINE U == {f[s] : s \in S}
           g == [s \in S |-> f[s]]
<1>1. g \in Surjection(S, U)
  <2>1. g \in [S -> U] /\ \A u \in U : \E s \in S : g[s] = u
        OBVIOUS
  <2> QED BY <2>1, Fun_IsSurj
<1>2. IsFiniteSet(U) /\ Cardinality(U) <= Cardinality(S)
      BY <1>1, FS_Surjection
<1>3. T \in SUBSET U
      OBVIOUS
<1>4. IsFiniteSet(T) /\ Cardinality(T) <= Cardinality(U)
      BY <1>2, <1>3, FS_Subset
<1> HIDE DEF U
<1> QED BY <1>2, <1>4, FS_CardinalityType

(* A set of that size can be numbered.                                     *)
LEMMA Numbered ==
  ASSUME NEW S, IsFiniteSet(S), NEW n \in Nat, Cardinality(S) <= n
  PROVE  \E f \in [S -> 1..n] : \A a, b \in S : f[a] = f[b] => a = b
<1>1. Cardinality(S) \in Nat /\ ExistsBijection(1..Cardinality(S), S)
      BY FS_CardinalityType
<1>2. ExistsBijection(S, 1..Cardinality(S))
      BY <1>1, Fun_ExistsBijSymmetric
<1>3. PICK f : f \in Bijection(S, 1..Cardinality(S))
      BY <1>2 DEF ExistsBijection
<1>4. f \in [S -> 1..Cardinality(S)] /\ \A a, b \in S : f[a] = f[b] => a = b
      BY <1>3 DEF Bijection, Injection, IsInjective
<1>5. f \in [S -> 1..n]
      BY <1>1, <1>4
<1> QED BY <1>4, <1>5

(* The number of a request tells it from all others of its tick.           *)
LEMMA NowIsNew ==
  ASSUME NEW S, IsFiniteSet(S)
  PROVE  /\ Now(S).no \in Nat /\ Now(S) = [age |-> 0, no |-> Now(S).no]
         /\ Now(S) \notin S /\ Now(S) \in Times
<1> DEFINE c == Cardinality(S)
           f == [n \in 0..c |-> [age |-> 0, no |-> n]]
<1>1. c \in Nat
      BY FS_CardinalityType
<1> HIDE DEF c
<1>2. \E n \in 0..c : [age |-> 0, no |-> n] \notin S
  <2> SUFFICES ASSUME \A n \in 0..c : [age |-> 0, no |-> n] \in S PROVE FALSE
      OBVIOUS
  <2>1. f \in [0..c -> S] /\ \A a, b \in 0..c : f[a] = f[b] => a = b
        OBVIOUS
  <2>2. f \in Injection(0..c, S)
        BY <2>1, Fun_IsInj
  <2>3. Cardinality(0..c) <= Cardinality(S)
        BY <2>2, FS_Injection
  <2>4. Cardinality(0..c) = c + 1
        BY <1>1, FS_Interval
  <2> QED BY <1>1, <2>3, <2>4 DEF c
<1> DEFINE m == CHOOSE n \in 0..c : [age |-> 0, no |-> n] \notin S
<1>3. m \in 0..c /\ [age |-> 0, no |-> m] \notin S
      BY <1>2
<1>4. Now(S) = [age |-> 0, no |-> m]
      BY DEF Now, c
<1> HIDE DEF m
<1> QED BY <1>1, <1>3, <1>4, RateLimitAssumption DEF Times

(* A non-empty set of numbers has a least one.                             *)
LEMMA LeastOf ==
  ASSUME NEW T \in SUBSET Nat, T # {}
  PROVE  \E x \in T : \A y \in T : x <= y
<1>1. IsWellFoundedOn(OpToRel(<, Nat), Nat)
      BY NatLessThanWellFounded, Zenon
<1>2. PICK x \in T : \A y \in T : <<y, x>> \notin OpToRel(<, Nat)
      BY <1>1, WFMin, Zenon
<1>3. \A y \in T : ~(y < x)
      BY <1>2 DEF OpToRel
<1> QED BY <1>3

(* Retry-After leads to the tick at which the oldest time leaves.          *)
LEMMA WaitFits ==
  ASSUME NEW S \in SUBSET Times, S # {}, \A t \in S : t.age < WindowLen
  PROVE  /\ Wait(S) \in 1..WindowLen
         /\ \E t \in S : t.age + Wait(S) = WindowLen
<1> USE RateLimitAssumption
<1> DEFINE T == {WindowLen - t.age : t \in S}
<1>1. T \in SUBSET (1..WindowLen) /\ T # {}
      BY DEF Times
<1>2. PICK w \in T : \A y \in T : w <= y
  <2> HIDE DEF T
  <2>1. T \in SUBSET Nat
        BY <1>1
  <2> QED BY <1>1, <2>1, LeastOf
<1>3. w \in 1..WindowLen
      BY <1>1, <1>2
<1>4. PICK t \in S : w = WindowLen - t.age
      BY <1>2
<1>5. /\ \E u \in S : u.age + w = WindowLen
      /\ \A u \in S : u.age + w <= WindowLen
  <2>1. t.age + w = WindowLen
        BY <1>4 DEF Times
  <2>2. ASSUME NEW u \in S PROVE u.age + w <= WindowLen
    <3>1. w <= WindowLen - u.age
          BY <1>2
    <3> QED BY <1>3, <3>1 DEF Times
  <2> QED BY <2>1, <2>2
<1> HIDE DEF T
<1>6. \E v \in 1..WindowLen : /\ \E u \in S : u.age + v = WindowLen
                              /\ \A u \in S : u.age + v <= WindowLen
      BY <1>3, <1>5
<1> QED BY <1>6 DEF Wait

(* Whatever lets a request pass is told apart from the rest.               *)
LEMMA PlacesDiffer ==
  /\ ThisWindow # LastWindow
  /\ \A i : MemoryOf(i) # ThisWindow /\ MemoryOf(i) # LastWindow
  /\ \A n : MemoryBefore(n) # ThisWindow /\ MemoryBefore(n) # LastWindow
  /\ \A i, n : MemoryOf(i) # MemoryBefore(n)
  /\ \A i, j : MemoryOf(i) = MemoryOf(j) => i = j
  /\ \A m, n : MemoryBefore(m) = MemoryBefore(n) => m = n
BY DEF ThisWindow, LastWindow, MemoryOf, MemoryBefore

LEMMA InitLimit == LimitInit => LimitInv
<1> SUFFICES ASSUME LimitInit PROVE LimitInv
    OBVIOUS
<1> USE RateLimitAssumption DEF LimitInit
<1>1. \A p : By(p) = {}
      BY DEF By
<1>2. IsFiniteSet({}) /\ Cardinality({}) = 0
      BY FS_EmptySet
<1>3. LimitTypes
      BY <1>2 DEF LimitTypes, NoPromise
<1>4. RedisHolds
      BY <1>1, <1>2 DEF RedisHolds
<1>5. MemoryHolds
      BY <1>1, <1>2 DEF MemoryHolds
<1> QED BY <1>3, <1>4, <1>5 DEF LimitInv, PromiseStands, NoPromise

(* A request that is counted in memory.                                    *)
LEMMA MemoryKeeps ==
  ASSUME LimitInv, NEW i \in WebProcess, NEW n \in Nat \ {0}, NEW durable \in BOOLEAN,
         durable => n = Webhook, MemoryRequest(i, n, durable),
         counted' \in {counted, NextCount}, UNCHANGED <<phase, born, restarts>>
  PROVE  LimitInv'
<1> USE RateLimitAssumption
<1> DEFINE held == Young(times[i])
           now == Now(held)
           new == LetPass(now.no, MemoryOf(i))
           mine == By(MemoryOf(i))
<1>1. /\ held \subseteq times[i] /\ held \subseteq Times /\ IsFiniteSet(held)
      /\ \A t \in held : t.age < WindowLen
      /\ Cardinality(held) \in Nat
  <2>1. held \in SUBSET times[i] /\ times[i] \subseteq Times /\ IsFiniteSet(times[i])
        BY DEF LimitInv, LimitTypes, Young
  <2>2. IsFiniteSet(held)
        BY <2>1, FS_Subset
  <2> QED BY <2>1, <2>2, FS_CardinalityType DEF Young
<1>2. now.no \in Nat /\ now = [age |-> 0, no |-> now.no] /\ now \notin held /\ now \in Times
      BY <1>1, NowIsNew
<1>3. \/ /\ Cardinality(held) < n /\ times' = [times EXCEPT ![i] = held \cup {now}]
         /\ promise' = Settled
         /\ passed' = IF durable THEN passed \cup {new} ELSE passed
      \/ /\ ~(Cardinality(held) < n) /\ times' = [times EXCEPT ![i] = held]
         /\ promise' = Told(n, "memory", Wait(held), IsRetry(n, "memory"),
                            Cardinality(held) <= n /\ Cardinality(WebProcess) = 1)
         /\ passed' = passed
      BY DEF MemoryRequest, InMemory
<1>4. counted' \in Nat /\ counted <= counted'
      BY DEF LimitInv, LimitTypes, NextCount
<1> HIDE DEF now, held
<1>5. \A r \in mine : [age |-> r.age, no |-> r.no] \in held
  <2> SUFFICES ASSUME NEW r \in mine PROVE [age |-> r.age, no |-> r.no] \in held
      OBVIOUS
  <2>1. [age |-> r.age, no |-> r.no] \in times[i]
        BY DEF LimitInv, MemoryHolds
  <2>2. r.age < WindowLen
        BY DEF LimitInv, LimitTypes, By
  <2> QED BY <2>1, <2>2 DEF held, Young
<1>6. IsFiniteSet(mine) /\ Cardinality(mine) <= Cardinality(held) /\ Cardinality(mine) \in Nat
  <2> DEFINE f == [t \in held |-> [age |-> t.age, no |-> t.no, by |-> MemoryOf(i)]]
  <2>1. \A r \in mine : \E t \in held : r = f[t]
    <3> SUFFICES ASSUME NEW r \in mine PROVE \E t \in held : r = f[t]
        OBVIOUS
    <3>1. r = [age |-> r.age, no |-> r.no, by |-> MemoryOf(i)]
          BY DEF LimitInv, LimitTypes, By
    <3>2. [age |-> r.age, no |-> r.no] \in held
          BY <1>5
    <3> QED BY <3>1, <3>2
  <2> HIDE DEF f
  <2>2. IsFiniteSet(mine) /\ Cardinality(mine) <= Cardinality(held)
        BY <1>1, <2>1, ImageOf
  <2> QED BY <2>2, FS_CardinalityType
<1>7. promise' \in [limit : Nat, via : {"memory", "redis"}, left : 0..WindowLen, kept : {TRUE}]
      /\ PromiseStands'
  <2>1. CASE Cardinality(held) < n
    <3>1. promise' = [limit |-> 0, via |-> "memory", left |-> 0, kept |-> promise.kept]
          BY <1>3, <2>1 DEF Settled, NoPromise
    <3>2. promise.kept = TRUE
          BY DEF LimitInv, LimitTypes
    <3>3. promise'.limit = 0
          BY <3>1
    <3>4. PromiseStands'
          BY <3>3 DEF PromiseStands
    <3>5. promise' = [limit |-> 0, via |-> "memory", left |-> 0, kept |-> TRUE]
          BY <3>1, <3>2
    <3> QED BY <3>4, <3>5
  <2>2. CASE ~(Cardinality(held) < n)
    <3>1. held # {}
          BY <1>1, <2>2, FS_EmptySet
    <3>2. Wait(held) \in 1..WindowLen /\ \E t \in held : t.age + Wait(held) = WindowLen
          BY <1>1, <3>1, WaitFits
    <3> DEFINE keepable == Cardinality(held) <= n /\ Cardinality(WebProcess) = 1
    <3>3. ~IsRetry(n, "memory")
      <4> SUFFICES ASSUME IsRetry(n, "memory") PROVE FALSE
          OBVIOUS
      <4>1. promise.limit = n /\ promise.via = "memory" /\ promise.left = 0
            BY DEF IsRetry
      <4>2. Cardinality(StillHeld(i)) < n
            BY <4>1 DEF LimitInv, PromiseStands
      <4>3. StillHeld(i) = held
        <5>1. \A t \in times[i] : t.age + promise.left = t.age
              BY <4>1 DEF LimitInv, LimitTypes, Times
        <5> QED BY <5>1 DEF StillHeld, held, Young
      <4> QED BY <2>2, <4>2, <4>3
    <3>4. promise' = [limit |-> IF keepable THEN n ELSE 0, via |-> "memory",
                      left |-> Wait(held), kept |-> TRUE]
          BY <1>3, <2>2, <3>3 DEF Told, LimitInv, LimitTypes
    <3>5. ASSUME keepable, NEW j \in WebProcess PROVE Cardinality(StillHeld(j)') < n
      <4>1. j = i
            BY <3>5, FS_Singleton
      <4>2. PICK oldest \in held : oldest.age + Wait(held) = WindowLen
            BY <3>2
      <4>3. StillHeld(j)' \in SUBSET (held \ {oldest})
        <5>1. times'[j] = held
              BY <1>3, <2>2, <4>1 DEF LimitInv, LimitTypes
        <5>2. StillHeld(j)' = {t \in held : t.age + Wait(held) < WindowLen}
              BY <3>4, <5>1 DEF StillHeld
        <5>3. oldest \notin StillHeld(j)'
              BY <1>1, <3>2, <4>2, <5>2
        <5> QED BY <5>2, <5>3
      <4>4. IsFiniteSet(held \ {oldest}) /\ Cardinality(held \ {oldest}) = Cardinality(held) - 1
            BY <1>1, FS_RemoveElement
      <4>5. Cardinality(StillHeld(j)') <= Cardinality(held) - 1
            /\ Cardinality(StillHeld(j)') \in Nat
            BY <4>3, <4>4, FS_Subset, FS_CardinalityType
      <4> QED BY <1>1, <3>5, <4>5
    <3>6. PromiseStands'
          BY <3>4, <3>5 DEF PromiseStands
    <3> HIDE DEF keepable
    <3> QED BY <3>2, <3>4, <3>6
  <2> QED BY <2>1, <2>2
<1>8. /\ times' \in [WebProcess -> SUBSET Times]
      /\ \A j \in WebProcess : IsFiniteSet(times'[j])
      /\ \A j \in WebProcess : j # i => times'[j] = times[j]
      /\ held \subseteq times'[i]
  <2>1. IsFiniteSet(held \cup {now})
        BY <1>1, FS_AddElement
  <2>2. PICK next \in {held, held \cup {now}} : times' = [times EXCEPT ![i] = next]
        BY <1>3
  <2>3. next \in SUBSET Times /\ held \subseteq next
        BY <1>1, <1>2
  <2>4. IsFiniteSet(next)
        BY <1>1, <2>1
  <2>5. \A j \in WebProcess : times'[j] = IF j = i THEN next ELSE times[j]
        BY <2>2 DEF LimitInv, LimitTypes
  <2>6. times' \in [WebProcess -> SUBSET Times]
        BY <2>2, <2>3 DEF LimitInv, LimitTypes
  <2> QED BY <2>3, <2>4, <2>5, <2>6 DEF LimitInv, LimitTypes
<1>9. new = [age |-> 0, no |-> now.no, by |-> MemoryOf(i)]
      BY DEF LetPass
<1>10. ASSUME durable, Cardinality(held) < n
       PROVE  now \in times'[i]
       BY <1>3, <1>10 DEF LimitInv, LimitTypes
<1> HIDE DEF new
<1>11. CASE passed' = passed
  <2>1. \A p : By(p)' = By(p)
        BY <1>11 DEF By
  <2>2. LimitTypes'
        BY <1>4, <1>7, <1>8, <1>11 DEF LimitInv, LimitTypes, Place
  <2>3. RedisHolds'
    <3>1. /\ Cardinality(By(ThisWindow)) <= counted'
          /\ \A r \in By(ThisWindow) : r.no \in Nat /\ r.no <= counted'
      <4>1. IsFiniteSet(By(ThisWindow))
        <5>1. By(ThisWindow) \in SUBSET passed
              BY DEF By
        <5> QED BY <5>1, FS_Subset DEF LimitInv, LimitTypes
      <4>2. Cardinality(By(ThisWindow)) \in Nat /\ counted \in Nat
            BY <4>1, FS_CardinalityType DEF LimitInv, LimitTypes
      <4>3. \A r \in By(ThisWindow) : r.no \in Nat /\ r.no <= counted
            BY DEF LimitInv, LimitTypes, RedisHolds, By
      <4> QED BY <1>4, <4>2, <4>3 DEF LimitInv, RedisHolds
    <3> QED BY <2>1, <3>1 DEF LimitInv, RedisHolds
  <2>4. MemoryHolds'
        BY <1>5, <1>8, <2>1 DEF LimitInv, MemoryHolds
  <2> QED BY <1>7, <2>2, <2>3, <2>4 DEF LimitInv
<1>12. CASE durable /\ Cardinality(held) < n /\ passed' = passed \cup {new}
  <2>1. /\ \A p : p # MemoryOf(i) => By(p)' = By(p)
        /\ By(MemoryOf(i))' = mine \cup {new}
        BY <1>9, <1>12 DEF By
  <2>2. LimitTypes'
    <3>1. IsFiniteSet(passed')
          BY <1>12, FS_AddElement DEF LimitInv, LimitTypes
    <3>2. new \in [age : 0..(WindowLen - 1), no : Nat, by : Place]
          BY <1>2, <1>9 DEF Place
    <3> QED BY <1>4, <1>7, <1>8, <1>12, <3>1, <3>2 DEF LimitInv, LimitTypes, Place
  <2>3. RedisHolds'
    <3>1. /\ Cardinality(By(ThisWindow)) <= counted'
          /\ \A r \in By(ThisWindow) : r.no \in Nat /\ r.no <= counted'
      <4>1. IsFiniteSet(By(ThisWindow))
        <5>1. By(ThisWindow) \in SUBSET passed
              BY DEF By
        <5> QED BY <5>1, FS_Subset DEF LimitInv, LimitTypes
      <4>2. Cardinality(By(ThisWindow)) \in Nat /\ counted \in Nat
            BY <4>1, FS_CardinalityType DEF LimitInv, LimitTypes
      <4>3. \A r \in By(ThisWindow) : r.no \in Nat /\ r.no <= counted
            BY DEF LimitInv, LimitTypes, RedisHolds, By
      <4> QED BY <1>4, <4>2, <4>3 DEF LimitInv, RedisHolds
    <3> QED BY <2>1, <3>1, PlacesDiffer DEF LimitInv, RedisHolds
  <2>4. Cardinality(By(MemoryOf(i))') <= Webhook
    <3>1. Cardinality(mine \cup {new})
            = IF new \in mine THEN Cardinality(mine) ELSE Cardinality(mine) + 1
          BY <1>6, FS_AddElement
    <3> HIDE DEF mine
    <3> QED BY <1>1, <1>6, <1>12, <2>1, <3>1
  <2>5. \A r \in By(MemoryOf(i))' : [age |-> r.age, no |-> r.no] \in times'[i]
    <3>1. [age |-> new.age, no |-> new.no] = now
          BY <1>2, <1>9
    <3>2. [age |-> new.age, no |-> new.no] \in times'[i]
          BY <1>10, <1>12, <3>1
    <3> HIDE DEF mine
    <3> QED BY <1>5, <1>8, <2>1, <3>2
  <2>6. MemoryHolds'
    <3>1. ASSUME NEW j \in WebProcess
          PROVE  /\ Cardinality(By(MemoryOf(j))') <= Webhook
                 /\ \A r \in By(MemoryOf(j))' : [age |-> r.age, no |-> r.no] \in times'[j]
      <4>1. CASE j = i
            BY <2>4, <2>5, <4>1
      <4>2. CASE j # i
            BY <1>8, <2>1, <4>2, PlacesDiffer DEF LimitInv, MemoryHolds
      <4> QED BY <4>1, <4>2
    <3>2. \A m : By(MemoryBefore(m))' = By(MemoryBefore(m))
          BY <2>1, PlacesDiffer
    <3> QED BY <3>1, <3>2 DEF LimitInv, MemoryHolds
  <2> QED BY <1>7, <2>2, <2>3, <2>6 DEF LimitInv
<1> QED BY <1>3, <1>11, <1>12

(* What has passed through one place is finite.                            *)
LEMMA ByIsFinite ==
  ASSUME LimitTypes, NEW p
  PROVE  IsFiniteSet(By(p)) /\ Cardinality(By(p)) \in Nat
<1>1. By(p) \in SUBSET passed
      BY DEF By
<1>2. IsFiniteSet(By(p))
      BY <1>1, FS_Subset DEF LimitTypes
<1> QED BY <1>2, FS_CardinalityType

(* A request that Redis counts.                                            *)
LEMMA RedisKeeps ==
  ASSUME LimitInv, WebhookComes
  PROVE  LimitInv'
<1> USE RateLimitAssumption
<1> DEFINE new == LetPass(NextCount, ThisWindow)
<1>1. /\ counted \in Nat /\ counted' = NextCount /\ UNCHANGED <<phase, times, born, restarts>>
      /\ counted <= counted' /\ counted' \in Nat /\ counted' # 0
      /\ counted' <= Webhook => counted' = counted + 1
      BY DEF WebhookComes, LimitInv, LimitTypes, NextCount
<1>2. new = [age |-> 0, no |-> counted', by |-> ThisWindow]
      BY <1>1 DEF LetPass
<1>3. \/ /\ counted' <= Webhook /\ passed' = passed \cup {new} /\ promise' = Settled
      \/ /\ ~(counted' <= Webhook) /\ passed' = passed
         /\ promise' = Told(Webhook, "redis", WindowLen - phase, IsRetry(Webhook, "redis"), TRUE)
      BY <1>1 DEF WebhookComes, Countable
<1> HIDE DEF new
<1>4. promise' \in [limit : Nat, via : {"memory", "redis"}, left : 0..WindowLen, kept : {TRUE}]
      /\ PromiseStands'
  <2>1. CASE counted' <= Webhook
    <3>1. promise' = [limit |-> 0, via |-> "memory", left |-> 0, kept |-> promise.kept]
          BY <1>3, <2>1 DEF Settled, NoPromise
    <3>2. promise.kept = TRUE
          BY DEF LimitInv, LimitTypes
    <3>3. promise'.limit = 0
          BY <3>1
    <3>4. PromiseStands'
          BY <3>3 DEF PromiseStands
    <3>5. promise' = [limit |-> 0, via |-> "memory", left |-> 0, kept |-> TRUE]
          BY <3>1, <3>2
    <3> QED BY <3>4, <3>5
  <2>2. CASE ~(counted' <= Webhook)
    <3>1. ~IsRetry(Webhook, "redis")
      <4> SUFFICES ASSUME IsRetry(Webhook, "redis") PROVE FALSE
          OBVIOUS
      <4>1. promise.limit = Webhook /\ promise.via = "redis" /\ promise.left = 0
            BY DEF IsRetry
      <4>2. counted = 0
            BY <4>1 DEF LimitInv, PromiseStands
      <4> QED BY <1>1, <2>2, <4>2 DEF NextCount
    <3>2. promise' = [limit |-> Webhook, via |-> "redis", left |-> WindowLen - phase,
                      kept |-> TRUE]
          BY <1>3, <2>2, <3>1 DEF Told, LimitInv, LimitTypes
    <3>3. WindowLen - phase \in 1..WindowLen
          BY DEF LimitInv, LimitTypes
    <3>4. PromiseStands'
          BY <1>1, <3>2, <3>3 DEF PromiseStands
    <3> QED BY <3>2, <3>3, <3>4
  <2> QED BY <2>1, <2>2
<1>5. /\ \A p : p # ThisWindow => By(p)' = By(p)
      /\ \/ By(ThisWindow)' = By(ThisWindow)
         \/ counted' <= Webhook /\ By(ThisWindow)' = By(ThisWindow) \cup {new}
  <2>1. CASE passed' = passed
        BY <2>1 DEF By
  <2>2. CASE counted' <= Webhook /\ passed' = passed \cup {new}
        BY <1>2, <2>2 DEF By
  <2> QED BY <1>3, <2>1, <2>2
<1>6. LimitTypes'
  <2>1. IsFiniteSet(passed')
    <3>1. IsFiniteSet(passed) /\ IsFiniteSet(passed \cup {new})
          BY FS_AddElement DEF LimitInv, LimitTypes
    <3> QED BY <1>3, <3>1
  <2>2. new \in [age : 0..(WindowLen - 1), no : Nat, by : Place]
        BY <1>1, <1>2 DEF Place
  <2> QED BY <1>1, <1>3, <1>4, <2>1, <2>2 DEF LimitInv, LimitTypes, Place
<1>7. RedisHolds'
  <2> DEFINE B == By(ThisWindow)
  <2>1. IsFiniteSet(B) /\ Cardinality(B) \in Nat
        BY ByIsFinite DEF LimitInv
  <2>2. \A r \in B : r.no \in Nat /\ r.no <= counted
        BY DEF LimitInv, LimitTypes, RedisHolds, By
  <2>3. Cardinality(B) <= counted /\ Cardinality(B) <= Webhook
        BY DEF LimitInv, RedisHolds
  <2>4. /\ Cardinality(B') <= counted' /\ Cardinality(B') <= Webhook
        /\ \A r \in B' : r.no <= counted'
    <3> HIDE DEF B
    <3>1. CASE B' = B
          BY <1>1, <2>1, <2>2, <2>3, <3>1
    <3>2. CASE counted' <= Webhook /\ B' = B \cup {new}
      <4>1. Cardinality(B \cup {new})
              = IF new \in B THEN Cardinality(B) ELSE Cardinality(B) + 1
            BY <2>1, FS_AddElement
      <4> QED BY <1>1, <1>2, <2>1, <2>2, <2>3, <3>2, <4>1
    <3> QED BY <1>5, <3>1, <3>2 DEF B
  <2> QED BY <1>1, <1>5, <2>4, PlacesDiffer DEF LimitInv, RedisHolds
<1>8. MemoryHolds'
      BY <1>1, <1>5, PlacesDiffer DEF LimitInv, MemoryHolds
<1> QED BY <1>4, <1>6, <1>7, <1>8 DEF LimitInv

(* A tick.                                                                 *)
LEMMA SecondKeeps ==
  ASSUME LimitInv, Second
  PROVE  LimitInv'
<1> USE RateLimitAssumption
<1> DEFINE rolled == phase' = 0
           Later(r) == [age |-> r.age + 1, no |-> r.no,
                        by |-> IF rolled /\ r.by = ThisWindow THEN LastWindow ELSE r.by]
<1>1. /\ phase \in 0..(WindowLen - 1) /\ counted \in Nat
      /\ phase' = IF phase + 1 = WindowLen THEN 0 ELSE phase + 1
      /\ counted' = IF rolled THEN 0 ELSE counted
      /\ restarts' = restarts
  <2>1. phase \in 0..(WindowLen - 1) /\ counted \in Nat
        BY DEF LimitInv, LimitTypes
  <2>2. (phase + 1) % WindowLen = IF phase + 1 = WindowLen THEN 0 ELSE phase + 1
        BY <2>1
  <2> QED BY <2>1, <2>2 DEF Second
<1>2. passed \subseteq [age : 0..(WindowLen - 1), no : Nat, by : Place]
      BY DEF LimitInv, LimitTypes
<1>3. \A x \in passed' : x.age < WindowLen /\ \E r \in passed : x = Later(r)
  <2>1. \A x \in Young(Aged(passed)) :
          x.age < WindowLen /\ \E r \in passed : x = [age |-> r.age + 1, no |-> r.no, by |-> r.by]
        BY <1>2 DEF Young, Aged
  <2>2. CASE ~rolled
        BY <2>1, <2>2 DEF Second
  <2>3. CASE rolled
    <3> SUFFICES ASSUME NEW x \in passed'
                 PROVE  x.age < WindowLen /\ \E r \in passed : x = Later(r)
        OBVIOUS
    <3>1. PICK y \in Young(Aged(passed)) : x = Over(y)
          BY <2>3 DEF Second
    <3>2. PICK r \in passed : y = [age |-> r.age + 1, no |-> r.no, by |-> r.by]
          BY <2>1
    <3>3. x = Later(r)
          BY <2>3, <3>1, <3>2 DEF Over
    <3>4. x.age = y.age
          BY <3>2, <3>3
    <3> QED BY <2>1, <3>3, <3>4
  <2> QED BY <2>2, <2>3
<1>4. born' \subseteq [age : 0..(WindowLen - 1), no : 1..restarts] /\ IsFiniteSet(born')
  <2> DEFINE f == [b \in born |-> [b EXCEPT !.age = @ + 1]]
  <2>1. born \subseteq [age : 0..(WindowLen - 1), no : 1..restarts] /\ IsFiniteSet(born)
        BY DEF LimitInv, LimitTypes
  <2>2. \A c \in born' : \E b \in born : c = f[b]
        BY DEF Second, Young, Aged
  <2>3. IsFiniteSet(born')
    <3> HIDE DEF f
    <3> QED BY <2>1, <2>2, ImageOf
  <2> QED BY <2>1, <2>3 DEF Second, Young, Aged
<1>5. /\ times' \in [WebProcess -> SUBSET Times]
      /\ \A i \in WebProcess : IsFiniteSet(times'[i])
  <2> SUFFICES ASSUME NEW i \in WebProcess
               PROVE  times'[i] \in SUBSET Times /\ IsFiniteSet(times'[i])
      BY DEF Second
  <2> DEFINE f == [t \in times[i] |-> [t EXCEPT !.age = @ + 1]]
  <2>1. times[i] \in SUBSET Times /\ IsFiniteSet(times[i])
        BY DEF LimitInv, LimitTypes
  <2>2. times'[i] = {t \in Aged(times[i]) : t.age <= WindowLen}
        BY DEF Second
  <2>3. \A u \in times'[i] : \E t \in times[i] : u = f[t]
        BY <2>2 DEF Aged
  <2>4. IsFiniteSet(times'[i])
    <3> HIDE DEF f
    <3> QED BY <2>1, <2>3, ImageOf
  <2>5. times'[i] \in SUBSET Times
        BY <2>1, <2>2 DEF Aged, Times
  <2> QED BY <2>4, <2>5
<1> HIDE DEF Later
<1>6. \A r : /\ Later(r).age = r.age + 1 /\ Later(r).no = r.no
             /\ Later(r).by = IF rolled /\ r.by = ThisWindow THEN LastWindow ELSE r.by
      BY DEF Later
<1>7. passed' \subseteq [age : 0..(WindowLen - 1), no : Nat, by : Place] /\ IsFiniteSet(passed')
  <2> DEFINE f == [r \in passed |-> Later(r)]
  <2>1. \A x \in passed' : \E r \in passed : x = f[r]
        BY <1>3
  <2>2. IsFiniteSet(passed')
    <3> HIDE DEF f
    <3> QED BY <2>1, ImageOf DEF LimitInv, LimitTypes
  <2>3. ASSUME NEW x \in passed' PROVE x \in [age : 0..(WindowLen - 1), no : Nat, by : Place]
    <3>1. PICK r \in passed : x = Later(r)
          BY <1>3
    <3>2. x.age < WindowLen
          BY <1>3
    <3>3. r \in [age : 0..(WindowLen - 1), no : Nat, by : Place]
          BY <1>2
    <3>4. LastWindow \in Place
          BY DEF Place
    <3> QED BY <3>1, <3>2, <3>3, <3>4 DEF Later
  <2> QED BY <2>2, <2>3
<1>8. ASSUME NEW p, NEW q, \A x \in By(p)' : \E r \in By(q) : x = Later(r)
      PROVE  Cardinality(By(p)') <= Cardinality(By(q))
  <2> DEFINE f == [r \in By(q) |-> Later(r)]
  <2>1. \A x \in By(p)' : \E r \in By(q) : x = f[r]
        BY <1>8
  <2> HIDE DEF f
  <2> QED BY <2>1, ByIsFinite, ImageOf DEF LimitInv
<1>9. ASSUME NEW p, p # ThisWindow, p # LastWindow
      PROVE  \A x \in By(p)' : \E r \in By(p) : x = Later(r)
      BY <1>3, <1>6, <1>9 DEF By
<1>10. IF rolled THEN By(ThisWindow)' = {}
                 ELSE \A x \in By(ThisWindow)' : \E r \in By(ThisWindow) : x = Later(r)
       BY <1>3, <1>6, PlacesDiffer DEF By
<1>11. \A x \in By(LastWindow)' :
         \E r \in By(IF rolled THEN ThisWindow ELSE LastWindow) : x = Later(r)
  <2> SUFFICES ASSUME NEW x \in By(LastWindow)'
               PROVE  \E r \in By(IF rolled THEN ThisWindow ELSE LastWindow) : x = Later(r)
      OBVIOUS
  <2>1. PICK r \in passed : x = Later(r)
        BY <1>3 DEF By
  <2>2. x.age < WindowLen /\ x.by = LastWindow
        BY <1>3 DEF By
  <2>3. CASE ~rolled
        BY <1>6, <2>1, <2>2, <2>3 DEF By
  <2>4. CASE rolled
    <3>1. r.by # LastWindow
      <4> SUFFICES ASSUME r.by = LastWindow PROVE FALSE
          OBVIOUS
      <4>1. r.age > phase
            BY DEF LimitInv, RedisHolds, By
      <4>2. phase = WindowLen - 1
            BY <1>1, <2>4
      <4>3. r.age \in 0..(WindowLen - 1)
            BY <1>2
      <4> QED BY <1>1, <4>1, <4>2, <4>3
    <3>2. r.by = ThisWindow
          BY <1>6, <2>1, <2>2, <3>1
    <3> QED BY <2>1, <2>4, <3>2 DEF By
  <2> QED BY <2>3, <2>4
<1>12. RedisHolds'
  <2>1. \A p : Cardinality(By(p)) \in Nat
        BY ByIsFinite DEF LimitInv
  <2>2. Cardinality({}) = 0
        BY FS_EmptySet
  <2>3. /\ Cardinality(By(ThisWindow)) <= counted /\ Cardinality(By(ThisWindow)) <= Webhook
        /\ Cardinality(By(LastWindow)) <= Webhook
        BY DEF LimitInv, RedisHolds
  <2>4. CASE rolled
    <3>1. Cardinality(By(LastWindow)') <= Cardinality(By(ThisWindow))
          BY <1>8, <1>11, <2>4
    <3>2. Cardinality(By(LastWindow)') \in Nat
      <4>1. By(LastWindow)' \in SUBSET passed'
            BY DEF By
      <4> QED BY <1>7, <4>1, FS_Subset, FS_CardinalityType
    <3>3. Cardinality(By(LastWindow)') <= Webhook
          BY <2>1, <2>3, <3>1, <3>2
    <3>4. ASSUME NEW x \in By(LastWindow)' PROVE x.age > 0
      <4>1. PICK r \in passed : x = Later(r)
            BY <1>3 DEF By
      <4> QED BY <1>2, <1>6, <4>1
    <3>5. phase' = 0 /\ counted' = 0 /\ By(ThisWindow)' = {}
          BY <1>1, <1>10, <2>4
    <3>6. Cardinality(By(ThisWindow)') = 0
          BY <2>2, <3>5
    <3> QED BY <3>3, <3>4, <3>5, <3>6 DEF RedisHolds
  <2>5. CASE ~rolled
    <3>1. /\ Cardinality(By(LastWindow)') <= Cardinality(By(LastWindow))
          /\ Cardinality(By(ThisWindow)') <= Cardinality(By(ThisWindow))
          BY <1>8, <1>10, <1>11, <2>5
    <3>2. Cardinality(By(LastWindow)') \in Nat /\ Cardinality(By(ThisWindow)') \in Nat
      <4>1. By(LastWindow)' \in SUBSET passed' /\ By(ThisWindow)' \in SUBSET passed'
            BY DEF By
      <4> QED BY <1>7, <4>1, FS_Subset, FS_CardinalityType
    <3>3. ASSUME NEW x \in By(LastWindow)' PROVE x.age > phase'
      <4>1. PICK r \in By(LastWindow) : x = Later(r)
            BY <1>11, <2>5
      <4>2. r.age > phase /\ r.age \in Nat
            BY <1>2 DEF LimitInv, RedisHolds, By
      <4>3. phase' = phase + 1
            BY <1>1, <2>5
      <4> QED BY <1>1, <1>6, <4>1, <4>2, <4>3
    <3>4. ASSUME NEW x \in By(ThisWindow)' PROVE x.no <= counted'
      <4>1. PICK r \in By(ThisWindow) : x = Later(r)
            BY <1>10, <2>5
      <4> QED BY <1>1, <1>6, <2>5, <4>1 DEF LimitInv, RedisHolds
    <3>5. counted' = counted
          BY <1>1, <2>5
    <3> QED BY <1>1, <2>1, <2>3, <3>1, <3>2, <3>3, <3>4, <3>5 DEF RedisHolds
  <2> QED BY <2>4, <2>5
<1>13. MemoryHolds'
  <2>1. \A p : Cardinality(By(p)) \in Nat /\ Cardinality(By(p)') \in Nat
    <3> SUFFICES ASSUME NEW p PROVE Cardinality(By(p)') \in Nat
        BY ByIsFinite DEF LimitInv
    <3>1. By(p)' \in SUBSET passed'
          BY DEF By
    <3> QED BY <1>7, <3>1, FS_Subset, FS_CardinalityType
  <2>2. ASSUME NEW i \in WebProcess
        PROVE  /\ Cardinality(By(MemoryOf(i))') <= Webhook
               /\ \A x \in By(MemoryOf(i))' : [age |-> x.age, no |-> x.no] \in times'[i]
    <3>1. \A x \in By(MemoryOf(i))' : \E r \in By(MemoryOf(i)) : x = Later(r)
          BY <1>9, PlacesDiffer
    <3>2. Cardinality(By(MemoryOf(i))') <= Cardinality(By(MemoryOf(i)))
          BY <1>8, <3>1
    <3>3. Cardinality(By(MemoryOf(i))) <= Webhook
          BY DEF LimitInv, MemoryHolds
    <3>4. ASSUME NEW x \in By(MemoryOf(i))' PROVE [age |-> x.age, no |-> x.no] \in times'[i]
      <4>1. PICK r \in By(MemoryOf(i)) : x = Later(r)
            BY <3>1
      <4> DEFINE t == [age |-> r.age, no |-> r.no]
      <4>2. t \in times[i]
            BY DEF LimitInv, MemoryHolds
      <4>3. [t EXCEPT !.age = @ + 1] = [age |-> x.age, no |-> x.no]
            BY <1>6, <4>1
      <4>4. x.age < WindowLen /\ x.age \in Nat
            BY <1>3, <1>7 DEF By
      <4>5. times'[i] = {u \in Aged(times[i]) : u.age <= WindowLen}
            BY DEF Second
      <4>6. [t EXCEPT !.age = @ + 1] \in Aged(times[i])
            BY <4>2 DEF Aged
      <4> QED BY <4>3, <4>4, <4>5, <4>6
    <3> QED BY <2>1, <3>2, <3>3, <3>4
  <2>3. ASSUME NEW n \in 1..restarts
        PROVE  /\ Cardinality(By(MemoryBefore(n))') <= Webhook
               /\ \A x \in By(MemoryBefore(n))' : \E b \in born' : b.no = n /\ b.age <= x.age
    <3>1. \A x \in By(MemoryBefore(n))' : \E r \in By(MemoryBefore(n)) : x = Later(r)
          BY <1>9, PlacesDiffer
    <3>2. Cardinality(By(MemoryBefore(n))') <= Cardinality(By(MemoryBefore(n)))
          BY <1>8, <3>1
    <3>3. Cardinality(By(MemoryBefore(n))) <= Webhook
          BY DEF LimitInv, MemoryHolds
    <3>4. ASSUME NEW x \in By(MemoryBefore(n))'
          PROVE  \E b \in born' : b.no = n /\ b.age <= x.age
      <4>1. PICK r \in By(MemoryBefore(n)) : x = Later(r)
            BY <3>1
      <4>2. PICK b \in born : b.no = n /\ b.age <= r.age
            BY DEF LimitInv, MemoryHolds
      <4> DEFINE c == [b EXCEPT !.age = @ + 1]
      <4>3. b \in [age : 0..(WindowLen - 1), no : 1..restarts] /\ r.age \in Nat
            BY <1>2 DEF LimitInv, LimitTypes, By
      <4>4. c.no = n /\ c.age = b.age + 1
            BY <4>2, <4>3
      <4>5. x.age = r.age + 1 /\ x.age < WindowLen
            BY <1>3, <1>6, <4>1 DEF By
      <4>6. c.age <= x.age /\ c.age < WindowLen
            BY <4>2, <4>3, <4>4, <4>5
      <4>7. c \in born'
            BY <4>6 DEF Second, Young, Aged
      <4> QED BY <4>4, <4>6, <4>7
    <3> QED BY <2>1, <3>2, <3>3, <3>4
  <2> QED BY <1>1, <2>2, <2>3 DEF MemoryHolds
<1>14. promise' \in [limit : Nat, via : {"memory", "redis"}, left : 0..WindowLen, kept : {TRUE}]
       /\ PromiseStands'
  <2>1. promise \in [limit : Nat, via : {"memory", "redis"}, left : 0..WindowLen, kept : {TRUE}]
        BY DEF LimitInv, LimitTypes
  <2>2. CASE promise.left = 0
    <3>1. promise' = [limit |-> 0, via |-> "memory", left |-> 0, kept |-> TRUE]
          BY <2>1, <2>2 DEF Second, Settled, NoPromise
    <3>2. promise'.limit = 0
          BY <3>1
    <3> QED BY <3>1, <3>2 DEF PromiseStands
  <2>3. CASE promise.left # 0
    <3>1. promise' = [promise EXCEPT !.left = @ - 1]
          BY <2>3 DEF Second
    <3>2. /\ promise'.limit = promise.limit /\ promise'.via = promise.via
          /\ promise'.left = promise.left - 1 /\ promise.left \in 1..WindowLen
          BY <2>1, <2>3, <3>1
    <3>3. promise' \in [limit : Nat, via : {"memory", "redis"}, left : 0..WindowLen, kept : {TRUE}]
      <4>1. promise' = [limit |-> promise.limit, via |-> promise.via,
                        left |-> promise.left - 1, kept |-> promise.kept]
            BY <2>1, <3>1
      <4>2. promise.left - 1 \in 0..WindowLen
            BY <3>2
      <4> QED BY <2>1, <4>1, <4>2
    <3>4. ASSUME NEW i \in WebProcess, promise.limit # 0, promise.via = "memory"
          PROVE  Cardinality(StillHeld(i)') < promise.limit
      <4>1. times[i] \in SUBSET Times /\ IsFiniteSet(times[i])
            BY DEF LimitInv, LimitTypes
      <4>2. StillHeld(i) \in SUBSET times[i]
            BY DEF StillHeld
      <4>3. IsFiniteSet(StillHeld(i)) /\ Cardinality(StillHeld(i)) \in Nat
            BY <4>1, <4>2, FS_Subset, FS_CardinalityType
      <4> DEFINE f == [t \in StillHeld(i) |-> [t EXCEPT !.age = @ + 1]]
      <4>4. ASSUME NEW u \in StillHeld(i)' PROVE \E t \in StillHeld(i) : u = f[t]
        <5>1. u \in times'[i] /\ u.age + promise'.left < WindowLen
              BY DEF StillHeld
        <5>2. PICK t \in times[i] : u = [t EXCEPT !.age = @ + 1]
              BY <5>1 DEF Second, Aged
        <5>3. t.age \in Nat /\ u.age = t.age + 1
              BY <4>1, <5>2 DEF Times
        <5>4. t.age + promise.left < WindowLen
              BY <3>2, <5>1, <5>3
        <5> QED BY <5>2, <5>4 DEF StillHeld
      <4> HIDE DEF f
      <4>5. IsFiniteSet(StillHeld(i)') /\ Cardinality(StillHeld(i)') <= Cardinality(StillHeld(i))
            BY <4>3, <4>4, ImageOf
      <4>6. Cardinality(StillHeld(i)') \in Nat
            BY <4>5, FS_CardinalityType
      <4>7. Cardinality(StillHeld(i)) < promise.limit
            BY <3>4 DEF LimitInv, PromiseStands
      <4> QED BY <2>1, <4>3, <4>5, <4>6, <4>7
    <3>5. ASSUME promise.limit # 0, promise.via = "redis"
          PROVE  \/ promise'.left > 0 /\ promise'.left = WindowLen - phase'
                 \/ promise'.left = 0 /\ phase' = 0 /\ counted' = 0
      <4>1. promise.left = WindowLen - phase
            BY <2>3, <3>5 DEF LimitInv, PromiseStands
      <4> QED BY <1>1, <3>2, <4>1
    <3>6. promise.limit # 0 /\ promise.via = "redis" => promise.limit = Webhook
          BY DEF LimitInv, PromiseStands
    <3> QED BY <3>2, <3>3, <3>4, <3>5, <3>6 DEF PromiseStands
  <2> QED BY <2>2, <2>3
<1>15. LimitTypes'
  <2>1. phase' \in 0..(WindowLen - 1) /\ counted' \in Nat /\ restarts' \in Nat
        BY <1>1 DEF LimitInv, LimitTypes
  <2> QED BY <1>1, <1>4, <1>5, <1>7, <1>14, <2>1 DEF LimitTypes, Place
<1> QED BY <1>12, <1>13, <1>14, <1>15 DEF LimitInv

(* A restart of an instance.                                               *)
LEMMA RestartKeeps ==
  ASSUME LimitInv, NEW i \in WebProcess, RestartOf(i)
  PROVE  LimitInv'
<1> USE RateLimitAssumption
<1>0. PICK n0 \in Nat : n0 = restarts + 1
      BY DEF LimitInv, LimitTypes
<1> DEFINE Moved(r) == [age |-> r.age, no |-> r.no,
                        by |-> IF r.by = MemoryOf(i) THEN MemoryBefore(n0) ELSE r.by]
           cut == [age |-> 0, no |-> n0]
<1>1. /\ restarts \in Nat /\ restarts' = n0 /\ UNCHANGED <<phase, counted, promise>>
      /\ times' = [times EXCEPT ![i] = {}] /\ born' = born \cup {cut}
      BY <1>0 DEF RestartOf, LimitInv, LimitTypes
<1>2. passed \subseteq [age : 0..(WindowLen - 1), no : Nat, by : Place]
      BY DEF LimitInv, LimitTypes
<1>3. \A x \in passed' : \E r \in passed : x = Moved(r)
  <2> SUFFICES ASSUME NEW x \in passed' PROVE \E r \in passed : x = Moved(r)
      OBVIOUS
  <2>1. PICK r \in passed : x = CutOff(r, i, n0)
        BY <1>1 DEF RestartOf
  <2>2. r = [age |-> r.age, no |-> r.no, by |-> r.by]
        BY <1>2
  <2> QED BY <2>1, <2>2 DEF CutOff
<1> HIDE DEF Moved
<1>4. \A r : /\ Moved(r).age = r.age /\ Moved(r).no = r.no
             /\ Moved(r).by = IF r.by = MemoryOf(i) THEN MemoryBefore(n0) ELSE r.by
      BY DEF Moved
<1>5. \A n \in 1..n0 : n \in 1..restarts \/ n = n0
      BY <1>0, <1>1
<1>6. \A r \in passed : r.by # MemoryBefore(n0)
  <2> SUFFICES ASSUME NEW r \in passed, r.by = MemoryBefore(n0) PROVE FALSE
      OBVIOUS
  <2>1. \E n \in 1..restarts : MemoryBefore(n0) = MemoryBefore(n)
    <3>1. MemoryBefore(n0) \in Place
          BY <1>2
    <3> QED BY <3>1, PlacesDiffer DEF Place
  <2>2. n0 \in 1..restarts
        BY <2>1, PlacesDiffer
  <2> QED BY <1>0, <1>1, <2>2
<1>7. By(MemoryOf(i))' = {}
      BY <1>3, <1>4, PlacesDiffer DEF By
<1>8. \A x \in By(MemoryBefore(n0))' : \E r \in By(MemoryOf(i)) : x = Moved(r)
      BY <1>3, <1>4, <1>6 DEF By
<1>9. ASSUME NEW p, p # MemoryOf(i), p # MemoryBefore(n0)
      PROVE  \A x \in By(p)' : \E r \in By(p) : x = Moved(r)
      BY <1>3, <1>4, <1>9 DEF By
<1>10. ASSUME NEW p, NEW q, \A x \in By(p)' : \E r \in By(q) : x = Moved(r),
              Cardinality(By(q)) <= Webhook
       PROVE  Cardinality(By(p)') <= Webhook /\ Cardinality(By(p)') <= Cardinality(By(q))
              /\ Cardinality(By(p)') \in Nat
  <2> DEFINE f == [r \in By(q) |-> Moved(r)]
  <2>1. \A x \in By(p)' : \E r \in By(q) : x = f[r]
        BY <1>10
  <2>2. IsFiniteSet(By(q)) /\ Cardinality(By(q)) \in Nat
        BY ByIsFinite DEF LimitInv
  <2> HIDE DEF f
  <2>3. IsFiniteSet(By(p)') /\ Cardinality(By(p)') <= Cardinality(By(q))
        BY <2>1, <2>2, ImageOf
  <2>4. Cardinality(By(p)') \in Nat
        BY <2>3, FS_CardinalityType
  <2> QED BY <1>10, <2>2, <2>3, <2>4
<1>11. LimitTypes'
  <2> DEFINE f == [r \in passed |-> Moved(r)]
  <2>1. \A x \in passed' : \E r \in passed : x = f[r]
        BY <1>3
  <2>2. IsFiniteSet(passed')
    <3> HIDE DEF f
    <3> QED BY <2>1, ImageOf DEF LimitInv, LimitTypes
  <2>3. Place \subseteq Place' /\ MemoryBefore(n0) \in Place'
    <3>1. 1..restarts \subseteq 1..restarts' /\ n0 \in 1..restarts'
          BY <1>0, <1>1
    <3> QED BY <3>1 DEF Place
  <2>4. ASSUME NEW x \in passed' PROVE x \in [age : 0..(WindowLen - 1), no : Nat, by : Place']
    <3>1. PICK r \in passed : x = Moved(r)
          BY <1>3
    <3>2. r \in [age : 0..(WindowLen - 1), no : Nat, by : Place]
          BY <1>2
    <3> QED BY <2>3, <3>1, <3>2 DEF Moved
  <2>5. /\ times' \in [WebProcess -> SUBSET Times]
        /\ \A j \in WebProcess : IsFiniteSet(times'[j])
        BY <1>1, FS_EmptySet DEF LimitInv, LimitTypes
  <2>6. IsFiniteSet(born')
        BY <1>1, FS_AddElement DEF LimitInv, LimitTypes
  <2>7. born' \subseteq [age : 0..(WindowLen - 1), no : 1..restarts']
    <3>1. 1..restarts \subseteq 1..restarts' /\ n0 \in 1..restarts'
          BY <1>0, <1>1
    <3>2. 0 \in 0..(WindowLen - 1)
          OBVIOUS
    <3>3. born \subseteq [age : 0..(WindowLen - 1), no : 1..restarts]
          BY DEF LimitInv, LimitTypes
    <3> QED BY <1>1, <3>1, <3>2, <3>3
  <2> QED BY <1>1, <2>2, <2>4, <2>5, <2>6, <2>7 DEF LimitInv, LimitTypes
<1>12. RedisHolds'
  <2>1. /\ \A x \in By(ThisWindow)' : \E r \in By(ThisWindow) : x = Moved(r)
        /\ \A x \in By(LastWindow)' : \E r \in By(LastWindow) : x = Moved(r)
        BY <1>9, PlacesDiffer
  <2>2. /\ Cardinality(By(ThisWindow)) <= counted /\ Cardinality(By(ThisWindow)) <= Webhook
        /\ Cardinality(By(LastWindow)) <= Webhook
        /\ Cardinality(By(ThisWindow)) \in Nat /\ counted \in Nat
        BY ByIsFinite DEF LimitInv, LimitTypes, RedisHolds
  <2>3. /\ Cardinality(By(ThisWindow)') <= Cardinality(By(ThisWindow))
        /\ Cardinality(By(ThisWindow)') <= Webhook
        /\ Cardinality(By(ThisWindow)') \in Nat
        /\ Cardinality(By(LastWindow)') <= Webhook
        BY <1>10, <2>1, <2>2
  <2>4. \A x \in By(ThisWindow)' : x.no <= counted
        BY <1>4, <2>1 DEF LimitInv, RedisHolds
  <2>5. \A x \in By(LastWindow)' : x.age > phase
        BY <1>4, <2>1 DEF LimitInv, RedisHolds
  <2> QED BY <1>1, <2>2, <2>3, <2>4, <2>5 DEF RedisHolds
<1>13. MemoryHolds'
  <2>1. ASSUME NEW j \in WebProcess
        PROVE  /\ Cardinality(By(MemoryOf(j))') <= Webhook
               /\ \A x \in By(MemoryOf(j))' : [age |-> x.age, no |-> x.no] \in times'[j]
    <3>1. CASE j = i
      <4>1. Cardinality({}) = 0
            BY FS_EmptySet
      <4> QED BY <1>7, <3>1, <4>1
    <3>2. CASE j # i
      <4>1. \A x \in By(MemoryOf(j))' : \E r \in By(MemoryOf(j)) : x = Moved(r)
            BY <1>9, <3>2, PlacesDiffer
      <4>2. Cardinality(By(MemoryOf(j))') <= Webhook
            BY <1>10, <4>1 DEF LimitInv, MemoryHolds
      <4>3. times'[j] = times[j]
            BY <1>1, <3>2 DEF LimitInv, LimitTypes
      <4> QED BY <1>4, <4>1, <4>2, <4>3 DEF LimitInv, MemoryHolds
    <3> QED BY <3>1, <3>2
  <2>2. ASSUME NEW n \in 1..n0
        PROVE  /\ Cardinality(By(MemoryBefore(n))') <= Webhook
               /\ \A x \in By(MemoryBefore(n))' : \E b \in born' : b.no = n /\ b.age <= x.age
    <3>1. CASE n = n0
      <4>1. Cardinality(By(MemoryBefore(n))') <= Webhook
            BY <1>8, <1>10, <3>1 DEF LimitInv, MemoryHolds
      <4>2. ASSUME NEW x \in By(MemoryBefore(n))' PROVE cut.no = n /\ cut.age <= x.age
        <5>1. PICK r \in By(MemoryOf(i)) : x = Moved(r)
              BY <1>8, <3>1
        <5>2. x.age = r.age /\ r.age \in Nat
              BY <1>2, <1>4, <5>1 DEF By
        <5> QED BY <3>1, <5>2
      <4> QED BY <1>1, <4>1, <4>2
    <3>2. CASE n # n0
      <4>1. n \in 1..restarts
            BY <1>5, <3>2
      <4>2. \A x \in By(MemoryBefore(n))' : \E r \in By(MemoryBefore(n)) : x = Moved(r)
            BY <1>9, <3>2, PlacesDiffer
      <4>3. Cardinality(By(MemoryBefore(n))') <= Webhook
            BY <1>10, <4>1, <4>2 DEF LimitInv, MemoryHolds
      <4>4. born \subseteq born'
            BY <1>1
      <4> QED BY <1>4, <4>1, <4>2, <4>3, <4>4 DEF LimitInv, MemoryHolds
    <3> QED BY <3>1, <3>2
  <2> QED BY <1>1, <2>1, <2>2 DEF MemoryHolds
<1>14. PromiseStands'
  <2>1. CASE promise.limit # 0 /\ promise.via = "memory"
    <3>1. ASSUME NEW j \in WebProcess PROVE Cardinality(StillHeld(j)') < promise.limit
      <4>1. StillHeld(j)' = {} \/ StillHeld(j)' = StillHeld(j)
            BY <1>1 DEF StillHeld, LimitInv, LimitTypes
      <4>2. Cardinality({}) = 0 /\ promise.limit \in Nat
            BY FS_EmptySet DEF LimitInv, LimitTypes
      <4> QED BY <2>1, <4>1, <4>2 DEF LimitInv, PromiseStands
    <3> QED BY <1>1, <2>1, <3>1 DEF PromiseStands
  <2>2. CASE ~(promise.limit # 0 /\ promise.via = "memory")
        BY <1>1, <2>2 DEF LimitInv, PromiseStands
  <2> QED BY <2>1, <2>2
<1> QED BY <1>11, <1>12, <1>13, <1>14 DEF LimitInv

LEMMA StepLimit == LimitInv /\ [LimitNext]_limitVars => LimitInv'
<1> SUFFICES ASSUME LimitInv, [LimitNext]_limitVars PROVE LimitInv'
    OBVIOUS
<1>1. ASSUME NEW i \in WebProcess, NEW n \in Preset, RequestComes(i, n) PROVE LimitInv'
  <2>1. n \in Nat \ {0} /\ MemoryRequest(i, n, FALSE) /\ counted' \in {counted, NextCount}
        /\ UNCHANGED <<phase, born, restarts>>
        BY <1>1, RateLimitAssumption DEF RequestComes
  <2> QED BY <2>1, MemoryKeeps
<1>2. ASSUME NEW i \in WebProcess, WebhookInMemory(i) PROVE LimitInv'
  <2>1. Webhook \in Nat \ {0} /\ MemoryRequest(i, Webhook, TRUE)
        /\ counted' \in {counted, NextCount} /\ UNCHANGED <<phase, born, restarts>>
        BY <1>2, RateLimitAssumption DEF WebhookInMemory
  <2> QED BY <2>1, MemoryKeeps
<1>3. CASE UNCHANGED limitVars
  <2>1. UNCHANGED <<phase, counted, times, passed, born, restarts, promise>>
        BY <1>3 DEF limitVars
  <2>2. /\ \A p : By(p)' = By(p)
        /\ \A i : StillHeld(i)' = StillHeld(i)
        BY <2>1 DEF By, StillHeld
  <2>3. LimitTypes'
        BY <2>1 DEF LimitInv, LimitTypes, Place
  <2>4. RedisHolds' /\ MemoryHolds' /\ PromiseStands'
        BY <2>1, <2>2 DEF LimitInv, RedisHolds, MemoryHolds, PromiseStands
  <2> QED BY <2>3, <2>4 DEF LimitInv
<1> QED BY <1>1, <1>2, <1>3, RestartKeeps, RedisKeeps, SecondKeeps DEF LimitNext

(* There are no more places than two windows of Redis, the instances and   *)
(* the restarts, and no more requests than Webhook for each place.         *)
LEMMA BurstBound == LimitInv => BurstIsBounded
<1> SUFFICES ASSUME LimitInv PROVE BurstIsBounded
    OBVIOUS
<1> USE RateLimitAssumption
<1> DEFINE redis == {ThisWindow, LastWindow}
           memory == {MemoryOf(i) : i \in WebProcess}
           before == {MemoryBefore(b.no) : b \in born}
           P == (redis \cup memory) \cup before
           w == Cardinality(WebProcess)
           c == Cardinality(born)
<1>1. w \in Nat /\ c \in Nat
      BY FS_CardinalityType DEF LimitInv, LimitTypes
<1>2. IsFiniteSet(redis) /\ Cardinality(redis) <= 2 /\ Cardinality(redis) \in Nat
  <2>1. IsFiniteSet({ThisWindow}) /\ Cardinality({ThisWindow}) = 1
        BY FS_Singleton
  <2>2. redis = {ThisWindow} \cup {LastWindow}
        OBVIOUS
  <2>3. IsFiniteSet({ThisWindow} \cup {LastWindow})
        /\ Cardinality({ThisWindow} \cup {LastWindow})
             = IF LastWindow \in {ThisWindow} THEN 1 ELSE 1 + 1
        BY <2>1, FS_AddElement
  <2> HIDE DEF redis
  <2> QED BY <2>2, <2>3, FS_CardinalityType
<1>3. IsFiniteSet(memory) /\ Cardinality(memory) <= w /\ Cardinality(memory) \in Nat
  <2> DEFINE f == [i \in WebProcess |-> MemoryOf(i)]
  <2>1. \A m \in memory : \E i \in WebProcess : m = f[i]
        OBVIOUS
  <2> HIDE DEF f, memory
  <2> QED BY <2>1, ImageOf, FS_CardinalityType
<1>4. IsFiniteSet(before) /\ Cardinality(before) <= c /\ Cardinality(before) \in Nat
  <2> DEFINE f == [b \in born |-> MemoryBefore(b.no)]
  <2>1. \A m \in before : \E b \in born : m = f[b]
        OBVIOUS
  <2>2. IsFiniteSet(born)
        BY DEF LimitInv, LimitTypes
  <2> HIDE DEF f, before
  <2> QED BY <2>1, <2>2, ImageOf, FS_CardinalityType
<1>5. \A r \in passed : r.by \in P
  <2> SUFFICES ASSUME NEW r \in passed PROVE r.by \in P
      OBVIOUS
  <2>1. r.by \in Place
        BY DEF LimitInv, LimitTypes
  <2>2. ASSUME NEW n \in 1..restarts, r.by = MemoryBefore(n) PROVE r.by \in before
    <3>1. r \in By(MemoryBefore(n))
          BY <2>2 DEF By
    <3>2. \E b \in born : b.no = n
          BY <3>1 DEF LimitInv, MemoryHolds
    <3> QED BY <2>2, <3>2
  <2> QED BY <2>1, <2>2 DEF Place
<1>6. \A p \in P : Cardinality(By(p)) <= Webhook
  <2>1. \A b \in born : b.no \in 1..restarts
        BY DEF LimitInv, LimitTypes
  <2> QED BY <2>1 DEF LimitInv, RedisHolds, MemoryHolds
<1> HIDE DEF redis, memory, before
<1>7. IsFiniteSet(P) /\ Cardinality(P) \in Nat /\ Cardinality(P) <= 2 + w + c
  <2> DEFINE Q == redis \cup memory
  <2>1. /\ IsFiniteSet(Q)
        /\ Cardinality(Q) = Cardinality(redis) + Cardinality(memory) - Cardinality(redis \cap memory)
        BY <1>2, <1>3, FS_Union
  <2>2. IsFiniteSet(redis \cap memory) /\ IsFiniteSet(Q \cap before)
        BY <1>2, <2>1, FS_Intersection
  <2>3. /\ IsFiniteSet(Q \cup before)
        /\ Cardinality(Q \cup before) = Cardinality(Q) + Cardinality(before) - Cardinality(Q \cap before)
        BY <1>4, <2>1, FS_Union
  <2>4. Cardinality(redis \cap memory) \in Nat /\ Cardinality(Q \cap before) \in Nat
        /\ Cardinality(Q) \in Nat /\ Cardinality(Q \cup before) \in Nat
        BY <2>1, <2>2, <2>3, FS_CardinalityType
  <2> HIDE DEF Q, w, c
  <2>5. Cardinality(Q \cup before) <= 2 + w + c
        BY <1>1, <1>2, <1>3, <1>4, <2>1, <2>3, <2>4
  <2> QED BY <2>3, <2>4, <2>5 DEF Q
<1> HIDE DEF P, w, c
<1> DEFINE Numbers(p, f) == f \in [By(p) -> 1..Webhook] /\ \A a, b \in By(p) : f[a] = f[b] => a = b
           g == [p \in P |-> CHOOSE f : Numbers(p, f)]
           F == [r \in passed |-> <<r.by, g[r.by][r]>>]
<1>8. \A p \in P : Numbers(p, g[p])
  <2> SUFFICES ASSUME NEW p \in P PROVE Numbers(p, g[p])
      OBVIOUS
  <2>1. \E f \in [By(p) -> 1..Webhook] : \A a, b \in By(p) : f[a] = f[b] => a = b
        BY <1>6, ByIsFinite, Numbered DEF LimitInv
  <2> QED BY <2>1
<1> HIDE DEF g
<1>9. F \in Injection(passed, P \X (1..Webhook))
  <2>1. ASSUME NEW r \in passed PROVE F[r] \in P \X (1..Webhook)
    <3>1. r \in By(r.by)
          BY DEF By
    <3> QED BY <1>5, <1>8, <3>1
  <2>2. ASSUME NEW r \in passed, NEW s \in passed, F[r] = F[s] PROVE r = s
    <3>1. r.by = s.by /\ g[r.by][r] = g[s.by][s]
          BY <2>2
    <3>2. r \in By(r.by) /\ s \in By(r.by)
          BY <3>1 DEF By
    <3> QED BY <1>5, <1>8, <3>1, <3>2
  <2>3. F \in [passed -> P \X (1..Webhook)]
        BY <2>1
  <2> HIDE DEF F
  <2> QED BY <2>2, <2>3, Fun_IsInj
<1> HIDE DEF F
<1>10. IsFiniteSet(1..Webhook) /\ Cardinality(1..Webhook) = Webhook
       BY FS_Interval
<1>11. /\ IsFiniteSet(P \X (1..Webhook))
       /\ Cardinality(P \X (1..Webhook)) = Cardinality(P) * Webhook
       BY <1>7, <1>10, FS_Product
<1>12. Cardinality(passed) <= Cardinality(P) * Webhook
       BY <1>9, <1>11, FS_Injection
<1>13. Cardinality(passed) \in Nat
       BY FS_CardinalityType DEF LimitInv, LimitTypes
<1>14. \A a, b, n \in Nat : a <= b => a * n <= n * b
       OBVIOUS
<1>15. Cardinality(P) * Webhook <= Webhook * (2 + w + c)
  <2>1. 2 + w + c \in Nat
        BY <1>1
  <2> QED BY <1>7, <1>14, <2>1
<1>16. Cardinality(P) * Webhook \in Nat /\ Webhook * (2 + w + c) \in Nat
       BY <1>1, <1>7
<1>17. Cardinality(passed) <= Webhook * (2 + w + c)
       BY <1>12, <1>13, <1>15, <1>16
<1> QED BY <1>17 DEF BurstIsBounded, w, c

(* The durable route lets no more pass within a window than there is room  *)
(* for, and a client that waited for Retry-After is let pass, whatever the *)
(* limits, the window and the instances, whether Redis answers or not and  *)
(* whenever an instance restarts (checkRateLimit, checkRateLimitDurable).  *)
THEOREM LimiterHolds == LimitSpec => []LimiterKeepsItsWord
<1>1. LimitInit => LimitInv
      BY InitLimit
<1>2. LimitInv /\ [LimitNext]_limitVars => LimitInv'
      BY StepLimit
<1>3. LimitInv => LimiterKeepsItsWord
  <2>1. LimitInv => RetryAfterHolds
        BY DEF LimitInv, LimitTypes, RetryAfterHolds
  <2> QED BY <2>1, BurstBound DEF LimiterKeepsItsWord
<1> QED BY <1>1, <1>2, <1>3, PTL DEF LimitSpec
=============================================================================
