----------------------------- MODULE SkuFilters -----------------------------
(***************************************************************************)
(* The filters of the list of products.  Their values live in the address; *)
(* each control makes a new address from the one it was rendered with, the *)
(* search after a pause and the button perhaps after erasing the notes,    *)
(* and the address shown changes only when the page for it has come.       *)
(*                                                                         *)
(* A param stands for all that are written alike and is set or not: range  *)
(* for the ranges and dates that go with the button, brand for the three   *)
(* attributes, chip for the filter that a tile of the overview has set,    *)
(* switch for that of inactive products and for the chip's threshold.  The *)
(* days of the reorder, written with the button and kept by the segments,  *)
(* are left out.  The router goes to the last address it was asked for.    *)
(***************************************************************************)
EXTENDS Naturals

CONSTANT MaxClicks  \* bound on the controls used

ASSUME SkuFiltersAssumption == MaxClicks \in Nat

VARIABLES
  address,   \* the address shown: its params, and the list a page was chosen of
  goingTo,   \* where the router is going, and whether it leaves the old one
  backTo,    \* the entry Back returns to
  searchBox, \* its text, whether it has the focus, the address its timer holds
  rangeBox,  \* the text of the fields
  typedIn,   \* they were typed in since they were last filled
  erasing,   \* the button's click that waits for the notes: its address and text
  wanted,    \* what the user has last asked for of each param
  hurried,   \* a control was used while another was still at work
  setAside,  \* the search was set from outside while it had the focus
  clicks

boxVars == <<searchBox, rangeBox, typedIn, setAside>>
filterVars == <<address, goingTo, backTo, boxVars, erasing, wanted, hurried, clicks>>

Param == {"q", "range", "brand", "switch", "chip", "segment"}
Plain == [p \in Param |-> FALSE]

(* What may be absent is a set of at most one: a page number with the      *)
(* filters it was chosen under, an address one is bound for or came from.  *)
FirstPage == {}
Nowhere == {}
Start(chip) == [params |-> [Plain EXCEPT !["chip"] = chip], page |-> FirstPage]

FiltersInit ==
  /\ \E chip \in BOOLEAN : address = Start(chip)
  /\ wanted = address.params
  /\ goingTo = Nowhere /\ backTo = Nowhere
  /\ searchBox = [text |-> FALSE, focus |-> FALSE, timer |-> Nowhere]
  /\ rangeBox = FALSE /\ typedIn = FALSE /\ erasing = Nowhere
  /\ hurried = FALSE /\ setAside = FALSE /\ clicks = 0

AtRest == goingTo = Nowhere /\ searchBox.timer = Nowhere /\ erasing = Nowhere

Use(early) ==
  /\ clicks < MaxClicks /\ clicks' = clicks + 1
  /\ hurried' = (hurried \/ early)

UseControl == Use(~AtRest)

(* The address the router was on its way to is forgotten.                  *)
SendTo(to, leaves) == goingTo' = {[to |-> to, leaves |-> leaves]}

(* Mutant: the other filters go.                                           *)
With_Alone(a, p, v) == [params |-> [Plain EXCEPT ![p] = v], page |-> FirstPage]

(* Mutant: the page stays.                                                 *)
With_PageToo(a, p, v) == [a EXCEPT !.params[p] = v]

(* The same address but for one param, on its first page.                  *)
With(a, p, v) == [params |-> [a.params EXCEPT ![p] = v], page |-> FirstPage]

Want(p, v) == wanted' = [wanted EXCEPT ![p] = v]

(* A select, the switch or the threshold.                                  *)
Choose(p, v) ==
  /\ UseControl /\ SendTo(With(address, p, v), FALSE)
  /\ Want(p, v)
  /\ UNCHANGED <<address, backTo, boxVars, erasing>>

(* The cross of an attribute is a link.                                    *)
CrossOut ==
  /\ UseControl /\ address.params["brand"]
  /\ SendTo(With(address, "brand", FALSE), TRUE)
  /\ Want("brand", FALSE)
  /\ UNCHANGED <<address, backTo, boxVars, erasing>>

TypeRange ==
  /\ rangeBox' = ~rangeBox /\ typedIn' = TRUE
  /\ UNCHANGED <<address, goingTo, backTo, searchBox, setAside, erasing, wanted, hurried, clicks>>

Calculate ==
  /\ UseControl /\ erasing = Nowhere
  /\ SendTo(With(address, "range", rangeBox), FALSE)
  /\ Want("range", rangeBox)
  /\ UNCHANGED <<address, backTo, boxVars, erasing>>

(* ... and erase the notes first: what is written then is what was there   *)
(* at the click.                                                           *)
CalculateErasing ==
  /\ UseControl /\ erasing = Nowhere
  /\ erasing' = {[to |-> address, range |-> rangeBox]}
  /\ Want("range", rangeBox)
  /\ UNCHANGED <<address, goingTo, backTo, boxVars>>

NotesErased ==
  /\ \E e \in erasing : SendTo(With(e.to, "range", e.range), FALSE)
  /\ erasing' = Nowhere
  /\ UNCHANGED <<address, backTo, boxVars, wanted, hurried, clicks>>

FocusOrBlur ==
  /\ searchBox' = [searchBox EXCEPT !.focus = ~@]
  /\ UNCHANGED <<address, goingTo, backTo, rangeBox, typedIn, setAside, erasing, wanted,
                 hurried, clicks>>

(* The timer starts anew, also within its pause, and keeps the address of  *)
(* this moment.                                                            *)
TypeSearch ==
  /\ searchBox.focus /\ Use(goingTo # Nowhere \/ erasing # Nowhere)
  /\ searchBox' = [searchBox EXCEPT !.text = ~@, !.timer = {address}]
  /\ setAside' = FALSE
  /\ Want("q", ~searchBox.text)
  /\ UNCHANGED <<address, goingTo, backTo, rangeBox, typedIn, erasing>>

SearchFires ==
  /\ \E a \in searchBox.timer : SendTo(With(a, "q", searchBox.text), FALSE)
  /\ searchBox' = [searchBox EXCEPT !.timer = Nowhere]
  /\ UNCHANGED <<address, backTo, rangeBox, typedIn, setAside, erasing, wanted,
                 hurried, clicks>>

(* The links of the segments keep what is neither range nor attribute.     *)
SegmentLink(v) ==
  LET kept == [address.params EXCEPT !["segment"] = v, !["range"] = FALSE, !["brand"] = FALSE]
  IN /\ UseControl /\ SendTo([params |-> kept, page |-> FirstPage], TRUE)
     /\ wanted' = [wanted EXCEPT !["segment"] = v, !["range"] = FALSE, !["brand"] = FALSE]
     /\ UNCHANGED <<address, backTo, boxVars, erasing>>

(* The chip's reset keeps the segment alone.                               *)
ResetChip ==
  LET kept == [Plain EXCEPT !["segment"] = address.params["segment"]]
  IN /\ UseControl /\ address.params["chip"]
     /\ SendTo([params |-> kept, page |-> FirstPage], FALSE)
     /\ wanted' = kept
     /\ UNCHANGED <<address, backTo, boxVars, erasing>>

PageLink ==
  /\ UseControl /\ SendTo([address EXCEPT !.page = {address.params}], TRUE)
  /\ UNCHANGED <<address, backTo, boxVars, erasing, wanted>>

(* Mutant: the fields are filled once.                                     *)
Filled_Once(a) == UNCHANGED <<searchBox, rangeBox, typedIn, setAside>>

(* A new address fills the fields, the search only out of focus.           *)
Filled(a) ==
  /\ rangeBox' = a.params["range"] /\ typedIn' = FALSE
  /\ IF searchBox.focus
     THEN /\ setAside' = (setAside \/ a.params["q"] # searchBox.text)
          /\ UNCHANGED searchBox
     ELSE /\ setAside' = FALSE
          /\ searchBox' = [searchBox EXCEPT !.text = a.params["q"]]

Arrive(a) ==
  /\ address' = a
  /\ IF a = address THEN UNCHANGED boxVars ELSE Filled(a)

PageComes ==
  /\ \E g \in goingTo :
       /\ Arrive(g.to)
       /\ backTo' = IF g.leaves THEN {address} ELSE backTo
  /\ goingTo' = Nowhere
  /\ UNCHANGED <<erasing, wanted, hurried, clicks>>

GoBack ==
  /\ UseControl
  /\ \E b \in backTo : Arrive(b) /\ wanted' = b.params
  /\ backTo' = Nowhere /\ goingTo' = Nowhere
  /\ UNCHANGED erasing

FiltersNext ==
  \/ \E v \in BOOLEAN :
       Choose("brand", v) \/ Choose("switch", v) \/ SegmentLink(v)
  \/ CrossOut
  \/ TypeRange \/ Calculate \/ CalculateErasing \/ NotesErased
  \/ FocusOrBlur \/ TypeSearch \/ SearchFires
  \/ ResetChip \/ PageLink \/ PageComes \/ GoBack

(***************************************************************************)
(* Properties.                                                             *)
(***************************************************************************)
(* Once all is at rest the address holds what the user has last asked for  *)
(* of every filter, and not only of the one touched last: unless a control *)
(* was used before another had done its work, as when a filter is chosen   *)
(* within the pause of the search, which then writes from the old address. *)
ChoicesStand == AtRest /\ ~hurried => address.params = wanted

(* Then the fields show the filters of the list: those of the ranges unless*)
(* they have been typed in since, the search unless its address was lost   *)
(* or it was set from outside while in focus.                              *)
FieldsShowTheFilters ==
  AtRest =>
    /\ ~typedIn => rangeBox = address.params["range"]
    /\ ~hurried /\ ~setAside => searchBox.text = address.params["q"]

(* A page number never outlives the list it was chosen of, however the     *)
(* address came about: the list of other filters starts at its beginning.  *)
PageIsOfThisList ==
  \A p \in address.page : p = address.params

FiltersSpec == FiltersInit /\ [][FiltersNext]_filterVars
=============================================================================
