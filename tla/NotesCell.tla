----------------------------- MODULE NotesCell ------------------------------
(***************************************************************************)
(* The note of a product in the list of products: the cell that edits it   *)
(* (skus/NotesCell.tsx), the erasure of all notes (SkusFilters.tsx) and    *)
(* the actions behind them (skus/actions.ts).                              *)
(*                                                                         *)
(* What is typed is saved when typing pauses and when the field is left,   *)
(* unless it equals what the cell believes stored.  The calls of a page    *)
(* are sent one after the other, each answered with the page's fresh       *)
(* props, which are rendered when none is pending.                         *)
(***************************************************************************)
EXTENDS Naturals, Sequences

CONSTANTS
  Text,           \* what a note may say
  Blank,          \* nothing
  Erase,          \* the call that erases all notes
  MaxNoteCalls    \* bound on calls pending

ASSUME NotesAssumption == Blank \in Text /\ Erase \notin Text /\ MaxNoteCalls \in Nat

VARIABLES
  note,         \* products.user_notes
  typed,        \* the cell's value
  editing,
  noteStatus,
  lastSaved,    \* lastSavedRef
  debounce,     \* the timer runs
  initialNote,  \* the prop
  freshNote,    \* the props answered and not yet rendered: none or one text
  noteCalls,    \* the calls pending, the first one is under way
  noteOutcome,  \* what became of the first one, once it has
  crossed,      \* history: an edit was dropped or the notes were erased with a
                \* save pending, or the field was opened during an erasure
  noteElsewhere \* history: another page wrote the note

cell == <<typed, editing, noteStatus, lastSaved, debounce>>
noteVars == <<note, cell, initialNote, freshNote, noteCalls, noteOutcome, crossed, noteElsewhere>>

NotesInit ==
  /\ note \in Text
  /\ typed = note /\ editing = FALSE /\ noteStatus = "idle" /\ lastSaved = note
  /\ debounce = FALSE
  /\ initialNote = note /\ freshNote = {}
  /\ noteCalls = <<>> /\ noteOutcome = "none"
  /\ crossed = FALSE /\ noteElsewhere = FALSE

-----------------------------------------------------------------------------
(* The cell.                                                               *)

PersistNote ==
  IF typed = lastSaved
  THEN /\ noteStatus' = "idle"
       /\ crossed' = (crossed \/ noteCalls # <<>>)
       /\ UNCHANGED noteCalls
  ELSE /\ Len(noteCalls) < MaxNoteCalls
       /\ noteCalls' = Append(noteCalls, typed)
       /\ noteStatus' = "saving"
       /\ UNCHANGED crossed

Erasing == Erase \in {noteCalls[i] : i \in DOMAIN noteCalls}

Edit ==
  /\ ~editing
  /\ editing' = TRUE
  /\ crossed' = (crossed \/ Erasing \/ freshNote # {})
  /\ UNCHANGED <<note, typed, noteStatus, lastSaved, debounce, initialNote, freshNote,
                 noteCalls, noteOutcome, noteElsewhere>>

Type(text) ==
  /\ editing /\ text # typed
  /\ typed' = text /\ debounce' = TRUE
  /\ UNCHANGED <<note, editing, noteStatus, lastSaved, initialNote, freshNote,
                 noteCalls, noteOutcome, crossed, noteElsewhere>>

DebounceFires ==
  /\ debounce
  /\ debounce' = FALSE
  /\ PersistNote
  /\ UNCHANGED <<note, typed, editing, lastSaved, initialNote, freshNote, noteOutcome,
                 noteElsewhere>>

(* onBlur, or Enter with a modifier.                                       *)
LeaveField ==
  /\ editing
  /\ editing' = FALSE /\ debounce' = FALSE
  /\ PersistNote
  /\ UNCHANGED <<note, typed, lastSaved, initialNote, freshNote, noteOutcome, noteElsewhere>>

Escape ==
  /\ editing
  /\ typed' = lastSaved
  /\ editing' = FALSE /\ debounce' = FALSE
  /\ crossed' = (crossed \/ noteCalls # <<>>)
  /\ UNCHANGED <<note, noteStatus, lastSaved, initialNote, freshNote, noteCalls, noteOutcome,
                 noteElsewhere>>

(* The button of the filters: whoever reaches for it leaves the field.     *)
EraseNotes ==
  /\ ~editing /\ ~Erasing /\ Len(noteCalls) < MaxNoteCalls
  /\ noteCalls' = Append(noteCalls, Erase)
  /\ crossed' = (crossed \/ noteCalls # <<>> \/ freshNote # {})
  /\ UNCHANGED <<note, cell, initialNote, freshNote, noteOutcome, noteElsewhere>>

-----------------------------------------------------------------------------
(* The calls.                                                              *)

RunNoteCall ==
  /\ noteCalls # <<>> /\ noteOutcome = "none"
  /\ \/ /\ noteOutcome' = "ok"
        /\ note' = IF Head(noteCalls) = Erase THEN Blank ELSE Head(noteCalls)
     \/ noteOutcome' = "failed" /\ UNCHANGED note
  /\ UNCHANGED <<cell, initialNote, freshNote, noteCalls, crossed, noteElsewhere>>

(* Mutant: the ref keeps what the page was loaded with.                    *)
SavedRef_KeepsInitial(call) == lastSaved

(* The save that succeeded is what the cell believes stored.               *)
SavedRef(call) == IF call # Erase /\ noteOutcome = "ok" THEN call ELSE lastSaved

NoteAnswered ==
  /\ noteOutcome # "none"
  /\ noteCalls' = Tail(noteCalls) /\ noteOutcome' = "none"
  /\ lastSaved' = SavedRef(Head(noteCalls))
  /\ noteStatus' = CASE Head(noteCalls) = Erase -> noteStatus
                     [] Head(noteCalls) # Erase /\ noteOutcome = "ok" -> "saved"
                     [] OTHER -> "error"
  /\ freshNote' = IF noteOutcome = "ok" THEN {note} ELSE freshNote
  /\ UNCHANGED <<note, typed, editing, debounce, initialNote, crossed, noteElsewhere>>

SavedFades ==
  /\ noteStatus = "saved"
  /\ noteStatus' = "idle"
  /\ UNCHANGED <<note, typed, editing, lastSaved, debounce, initialNote, freshNote, noteCalls,
                 noteOutcome, crossed, noteElsewhere>>

(* The effect: on another text, and not while the field is open.           *)
RenderNote ==
  /\ noteCalls = <<>>
  /\ \E text \in freshNote :
       /\ initialNote' = text
       /\ IF text # initialNote /\ ~editing
          THEN typed' = text /\ lastSaved' = text
          ELSE UNCHANGED <<typed, lastSaved>>
  /\ freshNote' = {}
  /\ UNCHANGED <<note, editing, noteStatus, debounce, noteCalls, noteOutcome, crossed, noteElsewhere>>

(* Another page saves or erases the note.                                  *)
OtherPageWrites(text) ==
  /\ note' = text
  /\ noteElsewhere' = TRUE
  /\ UNCHANGED <<cell, initialNote, freshNote, noteCalls, noteOutcome, crossed>>

(* The list is left and loaded again.                                      *)
ReloadNotes ==
  /\ noteCalls = <<>>
  /\ typed' = note /\ editing' = FALSE /\ noteStatus' = "idle" /\ lastSaved' = note
  /\ debounce' = FALSE
  /\ initialNote' = note /\ freshNote' = {}
  /\ crossed' = FALSE /\ noteElsewhere' = FALSE
  /\ UNCHANGED <<note, noteCalls, noteOutcome>>

-----------------------------------------------------------------------------
NotesNext ==
  \/ Edit \/ (\E text \in Text : Type(text)) \/ DebounceFires \/ LeaveField \/ Escape
  \/ EraseNotes \/ RunNoteCall \/ NoteAnswered \/ SavedFades \/ RenderNote
  \/ (\E text \in Text : OtherPageWrites(text)) \/ ReloadNotes

NotesSpec == NotesInit /\ [][NotesNext]_noteVars

-----------------------------------------------------------------------------
(* Every variable keeps to its domain.                                     *)
NotesTypeOK ==
  /\ note \in Text /\ typed \in Text /\ lastSaved \in Text /\ initialNote \in Text
  /\ freshNote \subseteq Text
  /\ editing \in BOOLEAN /\ debounce \in BOOLEAN
  /\ noteStatus \in {"idle", "saving", "saved", "error"}
  /\ noteCalls \in Seq(Text \cup {Erase}) /\ Len(noteCalls) <= MaxNoteCalls
  /\ noteOutcome \in {"none", "ok", "failed"}
  /\ crossed \in BOOLEAN /\ noteElsewhere \in BOOLEAN

(* A closed cell with nothing pending and no error shows the stored note,  *)
(* however typing, leaving, saves that fail, erasures and fresh props have *)
(* interleaved: unless another page wrote, or the seller took an edit back *)
(* or erased the notes with a save pending, or edited during an erasure.   *)
ShownNoteIsStored ==
  /\ noteCalls = <<>> /\ freshNote = {} /\ ~editing /\ noteStatus # "error"
  /\ ~crossed /\ ~noteElsewhere
  => typed = note
=============================================================================
