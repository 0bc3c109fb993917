--------------------------- MODULE Subscriptions ----------------------------
(***************************************************************************)
(* A seller's subscription to one report on one channel: the list of       *)
(* subscriptions with its switch, its form and its button to delete        *)
(* (alerts/subscriptions/SubscriptionsList.tsx) and the actions behind     *)
(* them (alerts/subscriptions/actions.ts).                                 *)
(*                                                                         *)
(* The form keeps the parameters it was opened with, which are left out    *)
(* here, but takes `enabled' from the list; saving looks for a row of the  *)
(* kind and the channel and updates it, or inserts one.  The calls of a    *)
(* page are sent one after the other, its list is refreshed when none is   *)
(* pending.  The table has one row of a kind and a channel.                *)
(***************************************************************************)
EXTENDS Naturals, Sequences

CONSTANTS
  Page,        \* the seller's open pages
  MaxRows,     \* bound on rows ever inserted
  MaxSubCalls  \* bound on calls of a page pending

ASSUME SubscriptionsAssumption == MaxRows \in Nat \ {0} /\ MaxSubCalls \in Nat

NoSub == [id |-> 0, enabled |-> FALSE]

VARIABLES
  sub,       \* the row of notification_subscriptions: its id and its switch
  inserted,  \* rows inserted so far
  listing,   \* the row each page shows
  openForm,  \* its open form, if one is: the switch as it was on opening
  subCalls,  \* its pending calls, the first one is under way
  found,     \* the id that call has looked up, if it saves and has looked
  choice,    \* history: what the seller last said of the row
  behind     \* history: a save was made by a page that did not show the row
             \* as it was, or while another call was pending

stored == <<sub, inserted>>
pages == <<listing, openForm, subCalls, found>>
subVars == <<stored, pages, choice, behind>>

SubsInit ==
  /\ sub = [id |-> 1, enabled |-> TRUE]
  /\ inserted = 1
  /\ listing = [p \in Page |-> sub]
  /\ openForm = [p \in Page |-> {}]
  /\ subCalls = [p \in Page |-> <<>>]
  /\ found = [p \in Page |-> {}]
  /\ choice = "on" /\ behind = FALSE

-----------------------------------------------------------------------------
(* A page.                                                                 *)

Push(p, op, enabled) ==
  /\ Len(subCalls[p]) < MaxSubCalls
  /\ subCalls' = [subCalls EXCEPT ![p] =
       Append(@, [op |-> op, id |-> listing[p].id, enabled |-> enabled])]

Pending == {q \in Page : subCalls[q] # <<>>}
Saving == {q \in Page : \E i \in DOMAIN subCalls[q] : subCalls[q][i].op = "save"}

Toggle(p) ==
  /\ listing[p] # NoSub
  /\ Push(p, "toggle", ~listing[p].enabled)
  /\ behind' = (behind \/ Saving # {})
  /\ UNCHANGED <<stored, listing, openForm, found, choice>>

Remove(p) ==
  /\ listing[p] # NoSub
  /\ Push(p, "delete", FALSE)
  /\ behind' = (behind \/ Saving # {})
  /\ UNCHANGED <<stored, listing, openForm, found, choice>>

OpenForm(p) ==
  /\ listing[p] # NoSub /\ openForm[p] = {}
  /\ openForm' = [openForm EXCEPT ![p] = {listing[p].enabled}]
  /\ UNCHANGED <<stored, listing, subCalls, found, choice, behind>>

CloseForm(p) ==
  /\ openForm[p] # {}
  /\ openForm' = [openForm EXCEPT ![p] = {}]
  /\ UNCHANGED <<stored, listing, subCalls, found, choice, behind>>

(* Mutant: the form keeps the switch too as it was when it was opened.     *)
SavedSwitch_Frozen(p) == CHOOSE f \in openForm[p] : TRUE

(* sub.enabled, from the list as it is by now.                             *)
SavedSwitch(p) == listing[p].enabled

SaveForm(p) ==
  /\ openForm[p] # {} /\ p \notin Saving
  /\ Push(p, "save", SavedSwitch(p))
  /\ behind' = (behind \/ listing[p] # sub \/ Pending # {})
  /\ UNCHANGED <<stored, listing, openForm, found, choice>>

(* A kind and channel the list does not show can be added, switched on.    *)
Add(p) ==
  /\ listing[p] = NoSub /\ p \notin Saving
  /\ Push(p, "save", TRUE)
  /\ behind' = (behind \/ listing[p] # sub \/ Pending # {})
  /\ UNCHANGED <<stored, listing, openForm, found, choice>>

-----------------------------------------------------------------------------
(* The actions.                                                            *)

Current(p) == Head(subCalls[p])

(* Succeeded or not: router.refresh() or the fresh props of the answer.    *)
SubAnswered(p) ==
  /\ subCalls' = [subCalls EXCEPT ![p] = Tail(@)]
  /\ found' = [found EXCEPT ![p] = {}]

RunToggle(p) ==
  /\ p \in Pending /\ Current(p).op = "toggle"
  /\ IF sub.id = Current(p).id
     THEN /\ sub' = [sub EXCEPT !.enabled = Current(p).enabled]
          /\ choice' = IF Current(p).enabled THEN "on" ELSE "off"
     ELSE UNCHANGED <<sub, choice>>
  /\ SubAnswered(p)
  /\ UNCHANGED <<inserted, listing, openForm, behind>>

RunDelete(p) ==
  /\ p \in Pending /\ Current(p).op = "delete"
  /\ IF sub.id = Current(p).id THEN sub' = NoSub /\ choice' = "gone"
     ELSE UNCHANGED <<sub, choice>>
  /\ SubAnswered(p)
  /\ UNCHANGED <<inserted, listing, openForm, behind>>

LookUp(p) ==
  /\ p \in Pending /\ Current(p).op = "save" /\ found[p] = {}
  /\ found' = [found EXCEPT ![p] = {sub.id}]
  /\ UNCHANGED <<stored, listing, openForm, subCalls, choice, behind>>

(* An update of a row that is gone changes nothing; an insert beside a row *)
(* of the same kind and channel is refused.  The form that saved closes.   *)
SaveSub(p) ==
  /\ found[p] # {}
  /\ IF found[p] = {NoSub.id}
     THEN IF sub = NoSub /\ inserted < MaxRows
          THEN /\ sub' = [id |-> inserted + 1, enabled |-> Current(p).enabled]
               /\ inserted' = inserted + 1
               /\ choice' = IF Current(p).id = NoSub.id THEN "on" ELSE choice
          ELSE sub # NoSub /\ UNCHANGED <<stored, choice>>
     ELSE /\ IF found[p] = {sub.id}
             THEN sub' = [sub EXCEPT !.enabled = Current(p).enabled]
             ELSE UNCHANGED sub
          /\ UNCHANGED <<inserted, choice>>
  /\ openForm' = [openForm EXCEPT ![p] = {}]
  /\ SubAnswered(p)
  /\ UNCHANGED <<listing, behind>>

SubCallFails(p) ==
  /\ p \in Pending
  /\ SubAnswered(p)
  /\ UNCHANGED <<stored, listing, openForm, choice, behind>>

(* A row with another id is another component: its form is not open.       *)
RefreshSubs(p) ==
  /\ subCalls[p] = <<>> /\ listing[p] # sub
  /\ listing' = [listing EXCEPT ![p] = sub]
  /\ openForm' = IF sub.id = listing[p].id THEN openForm ELSE [openForm EXCEPT ![p] = {}]
  /\ UNCHANGED <<stored, subCalls, found, choice, behind>>

-----------------------------------------------------------------------------
SubsNext ==
  \E p \in Page :
    \/ Toggle(p) \/ Remove(p) \/ OpenForm(p) \/ CloseForm(p) \/ SaveForm(p) \/ Add(p)
    \/ RunToggle(p) \/ RunDelete(p) \/ LookUp(p) \/ SaveSub(p) \/ SubCallFails(p)
    \/ RefreshSubs(p)

SubsSpec == SubsInit /\ [][SubsNext]_subVars

-----------------------------------------------------------------------------
Shown == [id : 0..MaxRows, enabled : BOOLEAN]

(* Every variable keeps to its domain.                                     *)
SubsTypeOK ==
  /\ sub \in Shown /\ inserted \in 1..MaxRows
  /\ listing \in [Page -> Shown]
  /\ \A p \in Page :
       /\ openForm[p] \subseteq BOOLEAN
       /\ Len(subCalls[p]) <= MaxSubCalls
       /\ found[p] \subseteq 0..MaxRows
  /\ choice \in {"on", "off", "gone"} /\ behind \in BOOLEAN

(* A subscription is on, off or gone as the seller last said, whatever     *)
(* forms are open and saved: unless one was saved by a page that did not   *)
(* show the row as it was, or beside another call.                         *)
SwitchIsKept ==
  ~behind => choice = IF sub = NoSub THEN "gone" ELSE IF sub.enabled THEN "on" ELSE "off"
=============================================================================
