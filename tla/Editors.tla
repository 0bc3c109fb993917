------------------------------- MODULE Editors -------------------------------
(***************************************************************************)
(* The small editors of the dashboard side by side: notes, tags, events    *)
(* and the cost of a product, the stocks of a warehouse kept by hand, the  *)
(* subscriptions to reports and the chat they are sent to.  They share no  *)
(* state: each is a component of its own, and what they have in common is  *)
(* what a user relies on.                                                  *)
(***************************************************************************)
EXTENDS NotesCell, TagsEditor, EventsEditor, CostField, ManualEntry,
        Subscriptions, Settings

EditorsSpec ==
  /\ NotesSpec /\ TagsSpec /\ EventsSpec
  /\ FieldSpec /\ ManualSpec /\ SubsSpec /\ SettingsSpec

(* An editor at rest shows what is stored, whatever was pressed while a    *)
(* save was under way, whichever saves failed and whatever other tabs      *)
(* wrote, and what is stored is what he chose: each part names the         *)
(* exceptions its code makes.                                              *)
EditorsShowTheStored ==
  /\ ShownNoteIsStored /\ ShownTagsAreStored /\ ShownEventsAreStored
  /\ CleanFieldIsStored /\ RowsShowStoredStock
  /\ SwitchIsKept /\ SettingsAreTrue
=============================================================================
