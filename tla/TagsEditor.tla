----------------------------- MODULE TagsEditor -----------------------------
(***************************************************************************)
(* The tags of a product: the editor of its page (skus/[id]/TagsEditor)    *)
(* and the action that stores them (saveProductTags).                      *)
(*                                                                         *)
(* The editor shows a change at once and saves the whole list; the saves   *)
(* of a page are sent one after the other, each answered with the page's   *)
(* fresh props, which are rendered when no save is pending.  Other pages   *)
(* save their own lists.                                                   *)
(*                                                                         *)
(* A tag stands for its trimmed text, compared without case.               *)
(***************************************************************************)
EXTENDS Naturals, Sequences, FiniteSets

CONSTANTS
  Tag,
  MostTags,    \* 20 in the code
  MaxTagSaves  \* bound on saves pending

ASSUME TagsAssumption == IsFiniteSet(Tag) /\ MostTags \in Nat /\ MaxTagSaves \in Nat

VARIABLES
  storedTags,   \* products.tags
  shownTags,    \* the editor's state
  initialTags,  \* its prop
  freshTags,    \* the props answered and not yet rendered: none or one list
  adding,       \* the input is open
  tagStatus,
  tagSaves,     \* the lists pending, the first one is being saved
  tagOutcome,   \* what became of the first one, once it has
  tagsElsewhere \* history: another page wrote and this one has not caught up

tagVars == <<storedTags, shownTags, initialTags, freshTags, adding, tagStatus, tagSaves,
             tagOutcome, tagsElsewhere>>

Lists == {s \in SUBSET Tag : Cardinality(s) <= MostTags}

TagsInit ==
  /\ storedTags \in Lists
  /\ shownTags = storedTags /\ initialTags = storedTags /\ freshTags = {}
  /\ adding = FALSE /\ tagStatus = "idle"
  /\ tagSaves = <<>> /\ tagOutcome = "none"
  /\ tagsElsewhere = FALSE

-----------------------------------------------------------------------------
Persist(list) ==
  /\ Len(tagSaves) < MaxTagSaves
  /\ tagSaves' = Append(tagSaves, list)
  /\ tagStatus' = "saving"

StartAdding ==
  /\ ~adding
  /\ adding' = TRUE
  /\ UNCHANGED <<storedTags, shownTags, initialTags, freshTags, tagStatus, tagSaves,
                 tagOutcome, tagsElsewhere>>

(* Escape, an empty draft, a tag that is there or one too many.            *)
NothingAdded ==
  /\ adding
  /\ adding' = FALSE
  /\ UNCHANGED <<storedTags, shownTags, initialTags, freshTags, tagStatus, tagSaves,
                 tagOutcome, tagsElsewhere>>

AddTag(t) ==
  /\ adding /\ t \notin shownTags /\ Cardinality(shownTags) < MostTags
  /\ adding' = FALSE
  /\ shownTags' = shownTags \cup {t}
  /\ Persist(shownTags')
  /\ UNCHANGED <<storedTags, initialTags, freshTags, tagOutcome, tagsElsewhere>>

(* Mutant: the list to save is made of the props.                          *)
RemoveTag_FromProps(t) ==
  /\ ~adding /\ t \in shownTags
  /\ shownTags' = shownTags \ {t}
  /\ Persist(initialTags \ {t})
  /\ UNCHANGED <<storedTags, initialTags, freshTags, adding, tagOutcome, tagsElsewhere>>

(* A click beside the input closes it first.                               *)
RemoveTag(t) ==
  /\ ~adding /\ t \in shownTags
  /\ shownTags' = shownTags \ {t}
  /\ Persist(shownTags')
  /\ UNCHANGED <<storedTags, initialTags, freshTags, adding, tagOutcome, tagsElsewhere>>

-----------------------------------------------------------------------------
SaveTags ==
  /\ tagSaves # <<>> /\ tagOutcome = "none"
  /\ \/ tagOutcome' = "ok" /\ storedTags' = Head(tagSaves)
     \/ tagOutcome' = "failed" /\ UNCHANGED storedTags
  /\ UNCHANGED <<shownTags, initialTags, freshTags, adding, tagStatus, tagSaves, tagsElsewhere>>

(* Only a save that succeeded revalidates the page.                        *)
TagsAnswered ==
  /\ tagOutcome # "none"
  /\ tagSaves' = Tail(tagSaves) /\ tagOutcome' = "none"
  /\ tagStatus' = IF tagOutcome = "ok" THEN "idle" ELSE "error"
  /\ freshTags' = IF tagOutcome = "ok" THEN {storedTags} ELSE freshTags
  /\ UNCHANGED <<storedTags, shownTags, initialTags, adding, tagsElsewhere>>

(* The effect: on another list, and not while a tag is typed.              *)
RenderTags ==
  /\ tagSaves = <<>>
  /\ \E list \in freshTags :
       /\ initialTags' = list
       /\ shownTags' = IF list # initialTags /\ ~adding THEN list ELSE shownTags
  /\ freshTags' = {}
  /\ tagsElsewhere' = (tagsElsewhere /\ shownTags' # storedTags)
  /\ UNCHANGED <<storedTags, adding, tagStatus, tagSaves, tagOutcome>>

OtherPageSaves(list) ==
  /\ storedTags' = list
  /\ tagsElsewhere' = TRUE
  /\ UNCHANGED <<shownTags, initialTags, freshTags, adding, tagStatus, tagSaves, tagOutcome>>

-----------------------------------------------------------------------------
TagsNext ==
  \/ StartAdding \/ NothingAdded
  \/ \E t \in Tag : AddTag(t) \/ RemoveTag(t)
  \/ SaveTags \/ TagsAnswered \/ RenderTags
  \/ \E list \in Lists : OtherPageSaves(list)

TagsSpec == TagsInit /\ [][TagsNext]_tagVars

-----------------------------------------------------------------------------
(* Every variable keeps to its domain.                                     *)
TagsTypeOK ==
  /\ storedTags \in Lists /\ shownTags \in Lists /\ initialTags \in Lists
  /\ freshTags \subseteq Lists
  /\ adding \in BOOLEAN /\ tagsElsewhere \in BOOLEAN
  /\ tagStatus \in {"idle", "saving", "error"}
  /\ tagSaves \in Seq(Lists) /\ Len(tagSaves) <= MaxTagSaves
  /\ tagOutcome \in {"none", "ok", "failed"}

(* With nothing pending and no error on the page, the tags it shows are    *)
(* the stored ones, unless another page wrote: saves that fail in between  *)
(* are made good by the next one, and props that come while a tag is typed *)
(* are not missed.                                                         *)
ShownTagsAreStored ==
  tagSaves = <<>> /\ freshTags = {} /\ tagStatus # "error" /\ ~tagsElsewhere =>
    shownTags = storedTags
=============================================================================
