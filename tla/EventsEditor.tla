---------------------------- MODULE EventsEditor ----------------------------
(***************************************************************************)
(* The calendar of a product's events: the editor of its page              *)
(* (skus/[id]/EventsEditor) and the actions behind it (skus/actions.ts).   *)
(*                                                                         *)
(* A change and a deletion are shown at once and not taken back when they  *)
(* fail; a new event is shown when it is answered.  The calls of a page    *)
(* are sent one after the other, each that succeeded brings the page's     *)
(* fresh props, rendered when none is pending.                             *)
(*                                                                         *)
(* Holidays, which are read only, and the order of the rows are left out;  *)
(* the button that saves all changed rows makes one change for each.       *)
(***************************************************************************)
EXTENDS Naturals, Sequences, FiniteSets

CONSTANTS
  Event,         \* ids the table product_events may give
  Detail,        \* title, dates and comment of an event
  Gone,          \* there is no such event
  MaxEventCalls  \* bound on calls pending

ASSUME EventsAssumption ==
  /\ IsFiniteSet(Event) /\ Event \cap {"none", "failed", Gone} = {}
  /\ Gone \notin Detail /\ MaxEventCalls \in Nat

VARIABLES
  storedEvents,   \* product_events
  shownEvents,    \* userEvents of the editor
  initialEvents,  \* its prop
  freshEvents,    \* the props answered and not yet rendered: none or one list
  eventCalls,     \* the calls pending, the first one is under way
  eventOutcome,   \* what became of the first one: the id it created, if any
  unmended,       \* history: a call failed and no other list was rendered since
  eventsElsewhere \* history: another page wrote and this one has not caught up

eventVars == <<storedEvents, shownEvents, initialEvents, freshEvents, eventCalls,
               eventOutcome, unmended, eventsElsewhere>>

Calendar == [Event -> Detail \cup {Gone}]

EventsInit ==
  /\ storedEvents \in Calendar
  /\ shownEvents = storedEvents /\ initialEvents = storedEvents /\ freshEvents = {}
  /\ eventCalls = <<>> /\ eventOutcome = "none"
  /\ unmended = FALSE /\ eventsElsewhere = FALSE

-----------------------------------------------------------------------------
(* The page.                                                               *)

CallServer(op, e, d) ==
  /\ Len(eventCalls) < MaxEventCalls
  /\ eventCalls' = Append(eventCalls, [op |-> op, id |-> e, detail |-> d])

ServerSide == <<storedEvents, initialEvents, freshEvents, eventOutcome, unmended, eventsElsewhere>>

(* The form can be sent again until it is answered.                        *)
CreateEvent(d) ==
  /\ CallServer("create", Gone, d)
  /\ UNCHANGED <<ServerSide, shownEvents>>

(* A row whose fields differ from what is shown.                           *)
ChangeEvent(e, d) ==
  /\ shownEvents[e] \notin {Gone, d}
  /\ shownEvents' = [shownEvents EXCEPT ![e] = d]
  /\ CallServer("update", e, d)
  /\ UNCHANGED ServerSide

DeleteEvent(e) ==
  /\ shownEvents[e] # Gone
  /\ shownEvents' = [shownEvents EXCEPT ![e] = Gone]
  /\ CallServer("delete", e, Gone)
  /\ UNCHANGED ServerSide

-----------------------------------------------------------------------------
(* The calls.                                                              *)

Used == {e \in Event : \/ Gone # storedEvents[e] \/ Gone # shownEvents[e]
                       \/ Gone # initialEvents[e]
                       \/ \E list \in freshEvents : Gone # list[e]
                       \/ \E i \in DOMAIN eventCalls : eventCalls[i].id = e}

(* An update of an event that is not there succeeds and changes nothing.   *)
RunEventCall ==
  /\ eventCalls # <<>> /\ eventOutcome = "none"
  /\ LET call == Head(eventCalls)
     IN  \/ eventOutcome' = "failed" /\ UNCHANGED storedEvents
         \/ /\ call.op = "create"
            /\ \E e \in Event \ Used :
                 /\ storedEvents' = [storedEvents EXCEPT ![e] = call.detail]
                 /\ eventOutcome' = e
         \/ /\ call.op # "create"
            /\ storedEvents' = [storedEvents EXCEPT
                 ![call.id] = IF @ = Gone THEN Gone ELSE call.detail]
            /\ eventOutcome' = call.id
  /\ UNCHANGED <<shownEvents, initialEvents, freshEvents, eventCalls, unmended,
                 eventsElsewhere>>

EventAnswered ==
  /\ eventOutcome # "none"
  /\ eventCalls' = Tail(eventCalls) /\ eventOutcome' = "none"
  /\ IF eventOutcome = "failed"
     THEN unmended' = TRUE /\ UNCHANGED <<shownEvents, freshEvents>>
     ELSE /\ freshEvents' = {storedEvents}
          /\ shownEvents' = IF Head(eventCalls).op = "create"
                            THEN [shownEvents EXCEPT ![eventOutcome] = Head(eventCalls).detail]
                            ELSE shownEvents
          /\ UNCHANGED unmended
  /\ UNCHANGED <<storedEvents, initialEvents, eventsElsewhere>>

(* Mutant: the key of the effect is made of the ids alone.                 *)
OtherList_ByIds(list) ==
  \E e \in Event : (list[e] = Gone) # (initialEvents[e] = Gone)

(* initialKey: every column of every event.                                *)
OtherList(list) == list # initialEvents

RenderEvents ==
  /\ eventCalls = <<>>
  /\ \E list \in freshEvents :
       /\ initialEvents' = list
       /\ shownEvents' = IF OtherList(list) THEN list ELSE shownEvents
       /\ unmended' = (unmended /\ list = initialEvents)
       /\ eventsElsewhere' = (eventsElsewhere /\ (list = initialEvents \/ list # storedEvents))
  /\ freshEvents' = {}
  /\ UNCHANGED <<storedEvents, eventCalls, eventOutcome>>

(* Bound: one write of another page at a time that this one has not seen.  *)
OtherPageEdits(e, d) ==
  /\ ~eventsElsewhere /\ storedEvents[e] \notin {Gone, d}
  /\ storedEvents' = [storedEvents EXCEPT ![e] = d]
  /\ eventsElsewhere' = TRUE
  /\ UNCHANGED <<shownEvents, initialEvents, freshEvents, eventCalls, eventOutcome,
                 unmended>>

-----------------------------------------------------------------------------
EventsNext ==
  \/ \E d \in Detail : CreateEvent(d)
  \/ \E e \in Event :
       \/ DeleteEvent(e)
       \/ \E d \in Detail : ChangeEvent(e, d)
       \/ \E d \in Detail \cup {Gone} : OtherPageEdits(e, d)
  \/ RunEventCall \/ EventAnswered \/ RenderEvents

EventsSpec == EventsInit /\ [][EventsNext]_eventVars

-----------------------------------------------------------------------------
(* Every variable keeps to its domain.                                     *)
EventsTypeOK ==
  /\ storedEvents \in Calendar /\ shownEvents \in Calendar /\ initialEvents \in Calendar
  /\ freshEvents \subseteq Calendar
  /\ Len(eventCalls) <= MaxEventCalls
  /\ eventOutcome \in Event \cup {"none", "failed"}
  /\ unmended \in BOOLEAN /\ eventsElsewhere \in BOOLEAN

(* With nothing pending, the events shown are the stored ones, though what *)
(* is shown at once may be saved in any order with what is shown late, and *)
(* though a call failed before, once another list came with the answer of  *)
(* a later one: unless another page wrote since.                           *)
ShownEventsAreStored ==
  eventCalls = <<>> /\ freshEvents = {} /\ ~unmended /\ ~eventsElsewhere =>
    shownEvents = storedEvents
=============================================================================
