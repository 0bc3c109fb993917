------------------------------ MODULE Settings ------------------------------
(***************************************************************************)
(* The Telegram chat of a seller and the switch of its notifications, and  *)
(* all who write them: the settings page, which saves every field as it    *)
(* shows it, the account page, the bot's webhook and the jobs that find a  *)
(* chat dead.                                                              *)
(***************************************************************************)
EXTENDS Integers, FiniteSets

CONSTANTS
  Chat,
  NoChat,
  TokenLife,      \* TTL_SECONDS of a link, in ticks
  MaxLoads,       \* bound on the times the settings page is opened
  MaxSaves,       \* bound on the writes of both pages
  MaxBadCalls     \* bound on calls that fail or are repeated

ASSUME SettingsAssumption ==
  /\ NoChat \notin Chat /\ TokenLife \in Nat
  /\ {MaxLoads, MaxSaves, MaxBadCalls} \subseteq Nat

VARIABLES
  chatRow,   \* telegram_chat_id and notify_telegram
  shownForm, \* the settings page: fields, what it was opened with, age of its link
  started,   \* per chat, how far the webhook is with its /start
  wasLinked, \* per chat, whether it was, and was not, linked since its /start came
  truthful,  \* what the bot has said was so at some time since the /start
  sendTo,    \* the job that sends to a chat it has read earlier
  deadChats, \* chats that have blocked the bot
  chosen,    \* what the seller and the bot have agreed on
  overwrote,  \* a page or a job has written what it knew from before
  loads, saves, badCalls

botVars == <<started, wasLinked, truthful>>
jobVars == <<sendTo, deadChats>>
settingsBounds == <<loads, saves, badCalls>>
settingsVars == <<chatRow, shownForm, botVars, jobVars, chosen, overwrote, settingsBounds>>

Closed == [open |-> FALSE, was |-> [chat |-> NoChat, notify |-> FALSE],
           chat |-> NoChat, notify |-> FALSE, link |-> 0]
Unasked == [yes |-> FALSE, no |-> FALSE]

SettingsInit ==
  /\ chatRow \in [chat : {NoChat}, notify : BOOLEAN]
  /\ chosen = chatRow
  /\ shownForm = Closed
  /\ started = [c \in Chat |-> "none"]
  /\ wasLinked = [c \in Chat |-> Unasked]
  /\ truthful = TRUE
  /\ sendTo = NoChat /\ deadChats = {} /\ overwrote = FALSE
  /\ loads = 0 /\ saves = 0 /\ badCalls = 0

(* Every write of the row goes through here: who was linked, and when.     *)
WasLinked(new, asked) ==
  [c \in Chat |-> IF started[c] = "none" \/ c = asked THEN Unasked
                  ELSE [yes |-> wasLinked[c].yes \/ new.chat = c,
                        no |-> wasLinked[c].no \/ new.chat # c]]

WriteChat(new) == chatRow' = new /\ wasLinked' = WasLinked(new, NoChat)

OpenSettings ==
  /\ loads < MaxLoads /\ loads' = loads + 1
  /\ shownForm' = [open |-> TRUE, was |-> chatRow, link |-> 0,
                   chat |-> chatRow.chat, notify |-> chatRow.notify]
  /\ UNCHANGED <<chatRow, botVars, jobVars, chosen, overwrote, saves, badCalls>>

EditForm ==
  /\ shownForm.open
  /\ \/ \E c \in Chat \cup {NoChat} : shownForm' = [shownForm EXCEPT !.chat = c]
     \/ shownForm' = [shownForm EXCEPT !.notify = ~@]
  /\ UNCHANGED <<chatRow, botVars, jobVars, chosen, overwrote, settingsBounds>>

(* What the seller has changed on the page, over what he had chosen.       *)
Changed(field) == shownForm[field] # shownForm.was[field]

(* The POST: all fields at once.  After it the page is rendered anew but   *)
(* keeps its fields; what it was opened with is what it has now saved.     *)
SaveSettings ==
  LET shown == [chat |-> shownForm.chat, notify |-> shownForm.notify]
  IN /\ shownForm.open /\ saves < MaxSaves /\ saves' = saves + 1
     /\ WriteChat(shown)
     /\ chosen' = [f \in {"chat", "notify"} |-> IF Changed(f) THEN shown[f] ELSE chosen[f]]
     /\ overwrote' = (overwrote \/ \E f \in {"chat", "notify"} : ~Changed(f) /\ shown[f] # chatRow[f])
     /\ shownForm' = [shownForm EXCEPT !.was = shown]
     /\ UNCHANGED <<started, truthful, jobVars, loads, badCalls>>

(* A switch of the account page writes its own column.                     *)
AccountSwitch ==
  /\ saves < MaxSaves /\ saves' = saves + 1
  /\ \E v \in BOOLEAN : /\ WriteChat([chatRow EXCEPT !.notify = v])
                        /\ chosen' = [chosen EXCEPT !.notify = v]
  /\ UNCHANGED <<shownForm, started, truthful, jobVars, overwrote, loads, badCalls>>

(* The seller follows the page's link from a chat: /start with its token.  *)
(* One that is too old, or none, is answered with a greeting.              *)
StartComes(c) ==
  /\ shownForm.open /\ shownForm.link <= TokenLife /\ started[c] = "none" /\ c \notin deadChats
  /\ started' = [started EXCEPT ![c] = "update"]
  /\ wasLinked' = [wasLinked EXCEPT ![c] = [yes |-> chatRow.chat = c, no |-> chatRow.chat # c]]
  /\ UNCHANGED <<chatRow, shownForm, truthful, jobVars, chosen, overwrote,
                 settingsBounds>>

(* Mutant: the UPDATE takes any row of the seller.                         *)
Free_Always == TRUE

Free == chatRow.chat = NoChat

Linked(c) == [chat |-> c, notify |-> TRUE]

(* The seller agrees to the chat if he has no other.                       *)
Agreed(c) == IF chosen.chat = NoChat \/ overwrote THEN Linked(c) ELSE chosen

(* The answer, by what the row was since the question.                     *)
Tell(c, what, since) ==
  /\ started' = [started EXCEPT ![c] = "none"]
  /\ truthful' = (truthful /\ (what = "connected" => since.yes) /\ (what = "another" => since.no))

(* The UPDATE of a row without a chat, and the answer to the chat.         *)
LinkChat(c) ==
  /\ started[c] = "update" /\ Free
  /\ chatRow' = Linked(c) /\ wasLinked' = WasLinked(Linked(c), c)
  /\ chosen' = Agreed(c)
  /\ Tell(c, "connected", [wasLinked[c] EXCEPT !.yes = TRUE])
  /\ UNCHANGED <<shownForm, jobVars, overwrote, settingsBounds>>

(* ... that met a chat, be it its own: of an earlier /start, or because    *)
(* the transport has repeated the UPDATE.                                  *)
LinkMeetsChat(c) ==
  /\ started[c] = "update" /\ ~Free
  /\ started' = [started EXCEPT ![c] = "read"]
  /\ UNCHANGED <<chatRow, shownForm, wasLinked, truthful, jobVars, chosen,
                 overwrote, settingsBounds>>

LinkIsRepeated(c) ==
  /\ started[c] = "update" /\ Free /\ badCalls < MaxBadCalls /\ badCalls' = badCalls + 1
  /\ WriteChat(Linked(c)) /\ chosen' = Agreed(c)
  /\ started' = [started EXCEPT ![c] = "read"]
  /\ UNCHANGED <<shownForm, truthful, jobVars, overwrote, loads, saves>>

(* Mutant: any chat means this chat.                                       *)
AnswerTo_AnyChat(c) == IF chatRow.chat # NoChat THEN "connected" ELSE "greeting"

AnswerTo(c) ==
  IF chatRow.chat = c THEN "connected"
  ELSE IF chatRow.chat # NoChat THEN "another" ELSE "greeting"

ReadLinked(c) ==
  /\ started[c] = "read"
  /\ Tell(c, AnswerTo(c), wasLinked[c])
  /\ wasLinked' = [wasLinked EXCEPT ![c] = Unasked]
  /\ UNCHANGED <<chatRow, shownForm, jobVars, chosen, overwrote, settingsBounds>>

(* A call raises, its write made or not: a greeting.                       *)
LinkRaises(c) ==
  /\ started[c] # "none" /\ badCalls < MaxBadCalls /\ badCalls' = badCalls + 1
  /\ \/ UNCHANGED <<chatRow, chosen>> /\ wasLinked' = [wasLinked EXCEPT ![c] = Unasked]
     \/ /\ started[c] = "update" /\ Free
        /\ chatRow' = Linked(c) /\ wasLinked' = WasLinked(Linked(c), c)
        /\ chosen' = Agreed(c)
  /\ started' = [started EXCEPT ![c] = "none"]
  /\ UNCHANGED <<shownForm, truthful, jobVars, overwrote, loads, saves>>

(* A job reads the row and sends; Telegram says whether the chat is dead.  *)
JobReads ==
  /\ sendTo = NoChat /\ chatRow.notify /\ chatRow.chat # NoChat
  /\ sendTo' = chatRow.chat
  /\ UNCHANGED <<chatRow, shownForm, botVars, deadChats, chosen, overwrote,
                 settingsBounds>>

JobSends ==
  /\ sendTo # NoChat /\ sendTo \notin deadChats
  /\ sendTo' = NoChat
  /\ UNCHANGED <<chatRow, shownForm, botVars, deadChats, chosen, overwrote,
                 settingsBounds>>

(* clear_dead_telegram, which may fail unseen.                             *)
Cleared == [chatRow EXCEPT !.chat = NoChat]

JobMeetsDeadChat ==
  /\ sendTo \in deadChats
  /\ sendTo' = NoChat
  /\ \/ /\ WriteChat(Cleared)
        /\ overwrote' = (overwrote \/ chatRow.chat \notin {sendTo, NoChat})
        /\ chosen' = IF chosen.chat = sendTo THEN [chosen EXCEPT !.chat = NoChat] ELSE chosen
        /\ UNCHANGED badCalls
     \/ /\ badCalls < MaxBadCalls /\ badCalls' = badCalls + 1
        /\ UNCHANGED <<chatRow, wasLinked, overwrote, chosen>>
  /\ UNCHANGED <<shownForm, started, truthful, deadChats, loads, saves>>

BlockBot(c) ==
  /\ c \notin deadChats /\ started[c] = "none"
  /\ deadChats' = deadChats \cup {c}
  /\ UNCHANGED <<chatRow, shownForm, botVars, sendTo, chosen, overwrote,
                 settingsBounds>>

MinutePasses ==
  /\ shownForm.open /\ shownForm.link <= TokenLife
  /\ shownForm' = [shownForm EXCEPT !.link = @ + 1]
  /\ UNCHANGED <<chatRow, botVars, jobVars, chosen, overwrote, settingsBounds>>

SettingsNext ==
  \/ OpenSettings \/ EditForm \/ SaveSettings \/ AccountSwitch \/ MinutePasses
  \/ JobReads \/ JobSends \/ JobMeetsDeadChat
  \/ \E c \in Chat : \/ StartComes(c) \/ LinkChat(c) \/ LinkMeetsChat(c)
                     \/ LinkIsRepeated(c) \/ ReadLinked(c) \/ LinkRaises(c) \/ BlockBot(c)

(***************************************************************************)
(* Properties.                                                             *)
(***************************************************************************)

(* The row holds what the seller has last chosen and the bot agreed to: a  *)
(* second chat does not push out the first, and only a dead chat goes by   *)
(* itself.  Unless a page was saved, or a chat found dead, after the row   *)
(* had changed under it.                                                   *)
ChoiceIsKept == ~overwrote => chatRow = chosen

(* The bot tells a chat that it is connected only if it was at some time   *)
(* since its /start, and that another one is only if it was not, although  *)
(* the UPDATE may be repeated and the row change between the two calls.    *)
BotTellsTheTruth == truthful

(* The row and the bot's answers are both true.                            *)
SettingsAreTrue == ChoiceIsKept /\ BotTellsTheTruth

SettingsSpec == SettingsInit /\ [][SettingsNext]_settingsVars
=============
