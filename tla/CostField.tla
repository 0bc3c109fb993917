------------------------------- MODULE CostField -------------------------------
(***************************************************************************)
(* The cost price on the page of one product: the field and its button     *)
(* (skus/[id]/UnitEconomics.tsx) and saveCostPrice (skus/actions.ts).      *)
(*                                                                         *)
(* The field goes on being typed in while a save is under way, may be set  *)
(* back to what was saved before, and takes no new props.  Two pages may   *)
(* show the product, and an import of cost prices write it.                *)
(***************************************************************************)
EXTENDS Naturals

CONSTANTS
  CostText,     \* what the field may say
  NoCostText,   \* nothing, which clears the cost
  Unfit,        \* what is no cost
  MaxCostSaves  \* bound on saves and on writes by others

ASSUME FieldAssumption ==
  NoCostText \in CostText /\ Unfit \notin CostText /\ MaxCostSaves \in Nat

VARIABLES
  costStored,  \* products.cost_price
  costField,   \* the text in the field
  costSaved,   \* savedCost
  costStatus,
  saving,      \* the save under way: its text, and what became of it
  costSaves,   \* saves so far
  otherCosts,  \* writes by others so far
  costOvertaken    \* history: another has written since the last save was kept

fieldVars == <<costStored, costField, costSaved, costStatus, saving,
               costSaves, otherCosts, costOvertaken>>

NoSave == [is |-> "none", text |-> NoCostText]

FieldInit ==
  /\ costStored \in CostText
  /\ costField = costStored /\ costSaved = costStored /\ costStatus = "idle"
  /\ saving = NoSave
  /\ costSaves = 0 /\ otherCosts = 0 /\ costOvertaken = FALSE

TypeCost(text) ==
  /\ costField # text /\ costField' = text
  /\ UNCHANGED <<costStored, costSaved, costStatus, saving, costSaves, otherCosts, costOvertaken>>

(* The button is there while the field differs from what was saved.        *)
Dirty == costField # costSaved

PressSave ==
  /\ Dirty /\ costStatus # "saving" /\ costSaves < MaxCostSaves
  /\ IF costField = Unfit THEN costStatus' = "error" /\ UNCHANGED <<saving, costSaves>>
     ELSE /\ costStatus' = "saving" /\ costSaves' = costSaves + 1
          /\ saving' = [is |-> "sent", text |-> costField]
  /\ UNCHANGED <<costStored, costField, costSaved, otherCosts, costOvertaken>>

(* The cost is written; the action may yet answer that it was not.         *)
SaveIsKept ==
  /\ saving.is = "sent"
  /\ costStored' = saving.text /\ costOvertaken' = FALSE
  /\ \E is \in {"kept", "failed"} : saving' = [saving EXCEPT !.is = is]
  /\ UNCHANGED <<costField, costSaved, costStatus, costSaves, otherCosts>>

SaveFails ==
  /\ saving.is = "sent" /\ saving' = [saving EXCEPT !.is = "failed"]
  /\ UNCHANGED <<costStored, costField, costSaved, costStatus, costSaves, otherCosts, costOvertaken>>

(* Mutant: what the field says by now.                                     *)
TextSaved_Current == costField

(* What was sent.                                                          *)
TextSaved == saving.text

SaveAnswered ==
  /\ saving.is \in {"kept", "failed"} /\ saving' = NoSave
  /\ IF saving.is = "kept" THEN costSaved' = TextSaved /\ costStatus' = "saved"
     ELSE costStatus' = "error" /\ UNCHANGED costSaved
  /\ UNCHANGED <<costStored, costField, costSaves, otherCosts, costOvertaken>>

(* The timer of two seconds only puts out what it was set for.             *)
CostSavedFades ==
  /\ costStatus = "saved" /\ costStatus' = "idle"
  /\ UNCHANGED <<costStored, costField, costSaved, saving, costSaves, otherCosts, costOvertaken>>

(* Another page, or an import.                                             *)
OtherWrites(text) ==
  /\ otherCosts < MaxCostSaves /\ otherCosts' = otherCosts + 1
  /\ costStored' = text /\ costOvertaken' = TRUE
  /\ UNCHANGED <<costField, costSaved, costStatus, saving, costSaves>>

(* The page is opened anew, with nothing under way.                        *)
OpenPage ==
  /\ saving = NoSave
  /\ costField' = costStored /\ costSaved' = costStored /\ costStatus' = "idle"
  /\ costOvertaken' = FALSE
  /\ UNCHANGED <<costStored, saving, costSaves, otherCosts>>

FieldNext ==
  \/ \E text \in CostText \cup {Unfit} : TypeCost(text)
  \/ PressSave \/ SaveIsKept \/ SaveFails \/ SaveAnswered \/ CostSavedFades \/ OpenPage
  \/ \E text \in CostText : OtherWrites(text)

FieldSpec == FieldInit /\ [][FieldNext]_fieldVars

-----------------------------------------------------------------------------
(* A field that offers no save, and tells of none that failed, shows what  *)
(* is stored, unless another has written the product since.                *)
CleanFieldIsStored ==
  ~Dirty /\ costStatus \in {"idle", "saved"} /\ ~costOvertaken => costStored = costField
=============================================================================
