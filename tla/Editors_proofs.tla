--------------------------- MODULE Editors_proofs ---------------------------
(***************************************************************************)
(* Proofs about the editors, for any texts, tags, events, articles, pages, *)
(* chats and bounds.                                                       *)
(***************************************************************************)
EXTENDS Editors, FiniteSetTheorems, SequenceTheorems, TLAPS

-----------------------------------------------------------------------------
(* CostField: a field at rest.                                             *)

(* What the page believes saved is stored, unless it tells of a failure or *)
(* another has written since.                                              *)
FieldInv ==
  /\ saving \in [is : {"none", "sent", "kept", "failed"}, text : CostText]
  /\ costStored \in CostText /\ costField \in CostText \cup {Unfit}
  /\ saving = NoSave \/ costStatus = "saving"
  /\ saving.is = "none" => saving = NoSave
  /\ saving.is = "kept" /\ ~costOvertaken => costStored = saving.text
  /\ costStatus \in {"idle", "saved"} /\ ~costOvertaken => costStored = costSaved

LEMMA InitField == FieldInit => FieldInv
BY FieldAssumption DEF FieldInit, FieldInv, NoSave

LEMMA StepField == FieldInv /\ [FieldNext]_fieldVars => FieldInv'
<1> SUFFICES ASSUME FieldInv, [FieldNext]_fieldVars PROVE FieldInv'
    OBVIOUS
<1> USE FieldAssumption DEF FieldInv
<1>1. ASSUME NEW text \in CostText \cup {Unfit}, TypeCost(text) PROVE FieldInv'
      BY <1>1 DEF TypeCost
<1>2. CASE PressSave
  <2>1. CASE costField = Unfit
        BY <1>2, <2>1 DEF PressSave
  <2>2. CASE costField # Unfit
        BY <1>2, <2>2 DEF PressSave
  <2> QED BY <2>1, <2>2
<1>3. CASE SaveIsKept
  <2>1. PICK is \in {"kept", "failed"} : saving' = [saving EXCEPT !.is = is]
        BY <1>3 DEF SaveIsKept
  <2>2. /\ saving'.text = saving.text /\ saving'.is = is
        /\ saving' \in [is : {"none", "sent", "kept", "failed"}, text : CostText]
        BY <2>1
  <2>3. costStatus = "saving"
        BY <1>3 DEF SaveIsKept, NoSave
  <2> QED BY <1>3, <2>2, <2>3 DEF SaveIsKept
<1>4. CASE SaveFails
  <2>1. /\ saving'.is = "failed"
        /\ saving' \in [is : {"none", "sent", "kept", "failed"}, text : CostText]
        BY <1>4 DEF SaveFails
  <2>2. costStatus = "saving"
        BY <1>4 DEF SaveFails, NoSave
  <2> QED BY <1>4, <2>1, <2>2 DEF SaveFails
<1>5. CASE SaveAnswered
      BY <1>5 DEF SaveAnswered, TextSaved, NoSave
<1>6. CASE CostSavedFades
      BY <1>6 DEF CostSavedFades
<1>7. CASE OpenPage
      BY <1>7 DEF OpenPage, NoSave
<1>8. ASSUME NEW text \in CostText, OtherWrites(text) PROVE FieldInv'
      BY <1>8 DEF OtherWrites
<1>9. CASE UNCHANGED fieldVars
      BY <1>9 DEF fieldVars
<1> QED BY <1>1, <1>2, <1>3, <1>4, <1>5, <1>6, <1>7, <1>8, <1>9 DEF FieldNext

(* A field that offers no save shows what is stored.                       *)
THEOREM CostIsStored == FieldSpec => []CleanFieldIsStored
<1>1. FieldInv => CleanFieldIsStored
      BY DEF FieldInv, CleanFieldIsStored, Dirty
<1> QED BY InitField, StepField, <1>1, PTL DEF FieldSpec

-----------------------------------------------------------------------------
(* Settings: the chat and what the bot says of it.                         *)

ChatRow == [chat : Chat \cup {NoChat}, notify : BOOLEAN]
Answer == [yes : BOOLEAN, no : BOOLEAN]

SettingsTypes ==
  /\ chatRow \in ChatRow /\ chosen \in ChatRow
  /\ shownForm \in [open : BOOLEAN, was : ChatRow, chat : Chat \cup {NoChat},
                    notify : BOOLEAN, link : Nat]
  /\ started \in [Chat -> {"none", "update", "read"}]
  /\ wasLinked \in [Chat -> Answer]
  /\ sendTo \in Chat \cup {NoChat}

(* Of a chat whose /start is under way it is known what it is now.         *)
LinksSeen ==
  \A c \in Chat : started[c] # "none" =>
    /\ chatRow.chat = c => wasLinked[c].yes
    /\ chatRow.chat # c => wasLinked[c].no

SettingsInv == SettingsTypes /\ LinksSeen /\ SettingsAreTrue

LEMMA InitSettings == SettingsInit => SettingsInv
<1> SUFFICES ASSUME SettingsInit PROVE SettingsInv
    OBVIOUS
<1>1. Closed \in [open : BOOLEAN, was : ChatRow, chat : Chat \cup {NoChat},
                  notify : BOOLEAN, link : Nat]
      BY DEF Closed, ChatRow
<1>2. SettingsTypes
      BY <1>1 DEF SettingsInit, SettingsTypes, ChatRow, Answer, Unasked
<1> QED BY <1>2 DEF SettingsInit, SettingsInv, LinksSeen, SettingsAreTrue, ChoiceIsKept,
           BotTellsTheTruth

(* What a write leaves known of the chats that are asking.                 *)
LEMMA WasLinkedType ==
  ASSUME SettingsInv, NEW new, NEW asked
  PROVE  /\ WasLinked(new, asked) \in [Chat -> Answer]
         /\ \A c \in Chat : started[c] # "none" /\ c # asked =>
              /\ new.chat = c => WasLinked(new, asked)[c].yes
              /\ new.chat # c => WasLinked(new, asked)[c].no
<1> DEFINE one(c) == IF started[c] = "none" \/ c = asked THEN Unasked
                     ELSE [yes |-> wasLinked[c].yes \/ new.chat = c,
                           no |-> wasLinked[c].no \/ new.chat # c]
<1>1. WasLinked(new, asked) = [c \in Chat |-> one(c)]
      BY DEF WasLinked
<1>2. ASSUME NEW c \in Chat PROVE one(c) \in Answer
  <2>1. Unasked \in Answer
        BY DEF Unasked, Answer
  <2>2. (wasLinked[c].yes \/ new.chat = c) \in BOOLEAN /\ (wasLinked[c].no \/ new.chat # c) \in BOOLEAN
        OBVIOUS
  <2> QED BY <2>1, <2>2 DEF Answer
<1>3. ASSUME NEW c \in Chat, started[c] # "none", c # asked
      PROVE  /\ new.chat = c => one(c).yes
             /\ new.chat # c => one(c).no
      BY <1>3
<1> QED BY <1>1, <1>2, <1>3

(* A write of the row, all else as it was.                                 *)
LEMMA WriteKeepsLinks ==
  ASSUME SettingsInv, NEW new, WriteChat(new), started' = started
  PROVE  /\ chatRow' = new /\ wasLinked' \in [Chat -> Answer]
         /\ LinksSeen'
<1>1. chatRow' = new /\ wasLinked' = WasLinked(new, NoChat)
      BY DEF WriteChat
<1>2. \A c \in Chat : c # NoChat
      BY SettingsAssumption
<1> QED BY <1>1, <1>2, WasLinkedType DEF LinksSeen

(* The bot links a chat: the row was free, and so was what had been agreed.*)
LEMMA LinkIsChosen ==
  ASSUME SettingsInv, NEW c \in Chat, Free, chatRow' = Linked(c), chosen' = Agreed(c),
         overwrote' = overwrote
  PROVE  chatRow' \in ChatRow /\ chosen' \in ChatRow /\ ChoiceIsKept'
<1>1. Linked(c) \in ChatRow
      BY DEF Linked, ChatRow
<1>2. chosen \in ChatRow /\ (~overwrote => chosen.chat = NoChat)
      BY DEF SettingsInv, SettingsTypes, SettingsAreTrue, ChoiceIsKept, Free
<1>3. chosen' \in ChatRow /\ (~overwrote => chosen' = Linked(c))
      BY <1>1, <1>2 DEF Agreed
<1> QED BY <1>1, <1>3 DEF ChoiceIsKept

LEMMA PagesKeep ==
  ASSUME SettingsInv, OpenSettings \/ EditForm \/ SaveSettings \/ AccountSwitch \/ MinutePasses
  PROVE  SettingsInv'
<1> USE DEF SettingsInv, SettingsTypes
<1>1. CASE OpenSettings
      BY <1>1 DEF OpenSettings, ChatRow, botVars, jobVars, LinksSeen, SettingsAreTrue,
         ChoiceIsKept, BotTellsTheTruth
<1>2. CASE EditForm
      BY <1>2 DEF EditForm, botVars, jobVars, LinksSeen, SettingsAreTrue,
         ChoiceIsKept, BotTellsTheTruth
<1>3. CASE SaveSettings
  <2> DEFINE shown == [chat |-> shownForm.chat, notify |-> shownForm.notify]
             kept == [f \in {"chat", "notify"} |-> IF Changed(f) THEN shown[f] ELSE chosen[f]]
  <2>1. shown \in ChatRow
        BY DEF ChatRow
  <2>2. /\ WriteChat(shown) /\ chosen' = kept
        /\ overwrote' = (overwrote \/ \E f \in {"chat", "notify"} : ~Changed(f) /\ shown[f] # chatRow[f])
        /\ shownForm' = [shownForm EXCEPT !.was = shown]
        /\ UNCHANGED <<started, truthful, sendTo, deadChats>>
        BY <1>3 DEF SaveSettings, jobVars
  <2>3. kept \in ChatRow
    <3>1. kept = [chat |-> IF Changed("chat") THEN shown.chat ELSE chosen.chat,
                  notify |-> IF Changed("notify") THEN shown.notify ELSE chosen.notify]
          OBVIOUS
    <3> QED BY <2>1, <3>1 DEF ChatRow
  <2>4. ASSUME ~overwrote' PROVE kept = shown
    <3>1. chosen = chatRow
          BY <2>2, <2>4 DEF SettingsAreTrue, ChoiceIsKept
    <3>2. \A f \in {"chat", "notify"} : kept[f] = shown[f]
          BY <2>2, <2>4, <3>1
    <3> QED BY <2>1, <2>3, <3>2 DEF ChatRow
  <2>5. LinksSeen' /\ chatRow' = shown /\ wasLinked' \in [Chat -> Answer]
        BY <2>2, WriteKeepsLinks
  <2>6. ChoiceIsKept'
        BY <2>2, <2>4, <2>5 DEF ChoiceIsKept
  <2>7. shownForm' \in [open : BOOLEAN, was : ChatRow, chat : Chat \cup {NoChat},
                        notify : BOOLEAN, link : Nat]
        BY <2>1, <2>2
  <2> QED BY <2>1, <2>2, <2>3, <2>5, <2>6, <2>7 DEF SettingsAreTrue, BotTellsTheTruth
<1>4. CASE AccountSwitch
  <2>1. PICK v \in BOOLEAN : /\ WriteChat([chatRow EXCEPT !.notify = v])
                             /\ chosen' = [chosen EXCEPT !.notify = v]
        BY <1>4 DEF AccountSwitch
  <2>2. UNCHANGED <<shownForm, started, truthful, sendTo, deadChats, overwrote>>
        BY <1>4 DEF AccountSwitch, jobVars
  <2>3. /\ LinksSeen' /\ chatRow' = [chatRow EXCEPT !.notify = v]
        /\ wasLinked' \in [Chat -> Answer]
        BY <2>1, <2>2, WriteKeepsLinks
  <2>4. chatRow' \in ChatRow /\ chosen' \in ChatRow
        BY <2>1, <2>3 DEF ChatRow
  <2> QED BY <2>1, <2>2, <2>3, <2>4 DEF SettingsAreTrue, ChoiceIsKept, BotTellsTheTruth
<1>5. CASE MinutePasses
      BY <1>5 DEF MinutePasses, botVars, jobVars, LinksSeen, SettingsAreTrue,
         ChoiceIsKept, BotTellsTheTruth
<1> QED BY <1>1, <1>2, <1>3, <1>4, <1>5

LEMMA BotKeeps ==
  ASSUME SettingsInv, NEW c \in Chat,
         \/ StartComes(c) \/ LinkChat(c) \/ LinkMeetsChat(c)
         \/ LinkIsRepeated(c) \/ ReadLinked(c) \/ LinkRaises(c) \/ BlockBot(c)
  PROVE  SettingsInv'
<1> USE DEF SettingsInv, SettingsTypes, jobVars, botVars
<1>0. Unasked \in Answer
      BY DEF Unasked, Answer
<1>1. CASE StartComes(c)
  <2>1. [yes |-> chatRow.chat = c, no |-> chatRow.chat # c] \in Answer
        BY DEF Answer
  <2>2. started' \in [Chat -> {"none", "update", "read"}] /\ wasLinked' \in [Chat -> Answer]
        BY <1>1, <2>1 DEF StartComes
  <2>3. LinksSeen'
        BY <1>1 DEF StartComes, LinksSeen
  <2> QED BY <1>1, <2>2, <2>3 DEF StartComes, SettingsAreTrue, ChoiceIsKept, BotTellsTheTruth
<1>2. CASE LinkChat(c)
  <2>1. /\ Free /\ chatRow' = Linked(c) /\ wasLinked' = WasLinked(Linked(c), c)
        /\ chosen' = Agreed(c) /\ started' = [started EXCEPT ![c] = "none"]
        /\ UNCHANGED <<shownForm, sendTo, deadChats, overwrote>>
        BY <1>2 DEF LinkChat, Tell
  <2>2. truthful' = truthful
    <3>1. [wasLinked[c] EXCEPT !.yes = TRUE].yes
          BY DEF Answer
    <3> QED BY <1>2, <3>1 DEF LinkChat, Tell, SettingsAreTrue, BotTellsTheTruth
  <2>3. chatRow' \in ChatRow /\ chosen' \in ChatRow /\ ChoiceIsKept'
        BY <2>1, LinkIsChosen
  <2>4. wasLinked' \in [Chat -> Answer] /\ LinksSeen'
        BY <2>1, WasLinkedType DEF LinksSeen
  <2> QED BY <2>1, <2>2, <2>3, <2>4 DEF SettingsAreTrue, BotTellsTheTruth
<1>3. CASE LinkMeetsChat(c)
      BY <1>3 DEF LinkMeetsChat, LinksSeen, SettingsAreTrue, ChoiceIsKept, BotTellsTheTruth
<1>4. CASE LinkIsRepeated(c)
  <2>1. /\ Free /\ WriteChat(Linked(c)) /\ chosen' = Agreed(c)
        /\ started[c] = "update" /\ started' = [started EXCEPT ![c] = "read"]
        /\ UNCHANGED <<shownForm, truthful, sendTo, deadChats, overwrote>>
        BY <1>4 DEF LinkIsRepeated
  <2>2. chatRow' = Linked(c) /\ wasLinked' = WasLinked(Linked(c), NoChat)
        BY <2>1 DEF WriteChat
  <2>3. chatRow' \in ChatRow /\ chosen' \in ChatRow /\ ChoiceIsKept'
        BY <2>1, <2>2, LinkIsChosen
  <2>4. wasLinked' \in [Chat -> Answer] /\ LinksSeen'
        BY <2>1, <2>2, WasLinkedType, SettingsAssumption DEF LinksSeen
  <2> QED BY <2>1, <2>3, <2>4 DEF SettingsAreTrue, BotTellsTheTruth
<1>5. CASE ReadLinked(c)
  <2>1. /\ started' = [started EXCEPT ![c] = "none"]
        /\ wasLinked' = [wasLinked EXCEPT ![c] = Unasked]
        /\ UNCHANGED <<chatRow, shownForm, sendTo, deadChats, chosen, overwrote>>
        BY <1>5 DEF ReadLinked, Tell
  <2>2. truthful'
    <3>1. /\ AnswerTo(c) = "connected" => wasLinked[c].yes
          /\ AnswerTo(c) = "another" => wasLinked[c].no
          BY <1>5 DEF ReadLinked, AnswerTo, LinksSeen
    <3> QED BY <1>5, <3>1 DEF ReadLinked, Tell, SettingsAreTrue, BotTellsTheTruth
  <2> QED BY <1>0, <2>1, <2>2 DEF LinksSeen, SettingsAreTrue, ChoiceIsKept, BotTellsTheTruth
<1>6. CASE LinkRaises(c)
  <2>1. /\ started' = [started EXCEPT ![c] = "none"]
        /\ UNCHANGED <<shownForm, truthful, sendTo, deadChats, overwrote>>
        BY <1>6 DEF LinkRaises
  <2>2. CASE UNCHANGED <<chatRow, chosen>> /\ wasLinked' = [wasLinked EXCEPT ![c] = Unasked]
        BY <1>0, <2>1, <2>2 DEF LinksSeen, SettingsAreTrue, ChoiceIsKept, BotTellsTheTruth
  <2>3. CASE /\ started[c] = "update" /\ Free
             /\ chatRow' = Linked(c) /\ wasLinked' = WasLinked(Linked(c), c)
             /\ chosen' = Agreed(c)
    <3>1. chatRow' \in ChatRow /\ chosen' \in ChatRow /\ ChoiceIsKept'
          BY <2>1, <2>3, LinkIsChosen
    <3>2. wasLinked' \in [Chat -> Answer] /\ LinksSeen'
          BY <2>1, <2>3, WasLinkedType DEF LinksSeen
    <3> QED BY <2>1, <3>1, <3>2 DEF SettingsAreTrue, BotTellsTheTruth
  <2> QED BY <1>6, <2>2, <2>3 DEF LinkRaises
<1>7. CASE BlockBot(c)
      BY <1>7 DEF BlockBot, LinksSeen, SettingsAreTrue, ChoiceIsKept, BotTellsTheTruth
<1> QED BY <1>1, <1>2, <1>3, <1>4, <1>5, <1>6, <1>7

LEMMA JobsKeep ==
  ASSUME SettingsInv, JobReads \/ JobSends \/ JobMeetsDeadChat
  PROVE  SettingsInv'
<1> USE DEF SettingsInv, SettingsTypes, jobVars, botVars
<1>1. CASE JobReads
      BY <1>1 DEF JobReads, ChatRow, LinksSeen, SettingsAreTrue, ChoiceIsKept, BotTellsTheTruth
<1>2. CASE JobSends
      BY <1>2 DEF JobSends, LinksSeen, SettingsAreTrue, ChoiceIsKept, BotTellsTheTruth
<1>3. CASE JobMeetsDeadChat
  <2>1. sendTo' = NoChat /\ UNCHANGED <<shownForm, started, truthful, deadChats>>
        BY <1>3 DEF JobMeetsDeadChat
  <2>2. CASE UNCHANGED <<chatRow, wasLinked, overwrote, chosen>>
        BY <2>1, <2>2 DEF LinksSeen, SettingsAreTrue, ChoiceIsKept, BotTellsTheTruth
  <2>3. CASE /\ WriteChat(Cleared)
             /\ overwrote' = (overwrote \/ chatRow.chat \notin {sendTo, NoChat})
             /\ chosen' = IF chosen.chat = sendTo THEN [chosen EXCEPT !.chat = NoChat] ELSE chosen
    <3>1. LinksSeen' /\ chatRow' = Cleared /\ wasLinked' \in [Chat -> Answer]
          BY <2>1, <2>3, WriteKeepsLinks
    <3>2. chatRow' \in ChatRow /\ chosen' \in ChatRow
          BY <2>3, <3>1 DEF Cleared, ChatRow
    <3>3. ASSUME ~overwrote' PROVE chatRow' = chosen'
      <4>1. chosen = chatRow /\ chatRow.chat \in {sendTo, NoChat}
            BY <2>3, <3>3 DEF SettingsAreTrue, ChoiceIsKept
      <4>2. chatRow'.chat = NoChat /\ chatRow'.notify = chatRow.notify
            BY <3>1 DEF Cleared, ChatRow
      <4>3. chosen'.chat = NoChat /\ chosen'.notify = chatRow.notify
            BY <2>3, <4>1 DEF ChatRow
      <4> QED BY <3>2, <4>2, <4>3 DEF ChatRow
    <3> QED BY <2>1, <3>1, <3>2, <3>3 DEF SettingsAreTrue, ChoiceIsKept, BotTellsTheTruth
  <2> QED BY <1>3, <2>2, <2>3 DEF JobMeetsDeadChat
<1> QED BY <1>1, <1>2, <1>3

LEMMA StepSettings == SettingsInv /\ [SettingsNext]_settingsVars => SettingsInv'
<1> SUFFICES ASSUME SettingsInv, [SettingsNext]_settingsVars PROVE SettingsInv'
    OBVIOUS
<1>1. CASE UNCHANGED settingsVars
      BY <1>1 DEF settingsVars, botVars, jobVars, SettingsInv, SettingsTypes, LinksSeen,
         SettingsAreTrue, ChoiceIsKept, BotTellsTheTruth
<1> QED BY <1>1, PagesKeep, BotKeeps, JobsKeep DEF SettingsNext

(* The row is what the seller has chosen, and the bot tells no chat what   *)
(* was not so since it asked: for any number of chats and failing calls.   *)
THEOREM SettingsTrue == SettingsSpec => []SettingsAreTrue
<1>1. SettingsInv => SettingsAreTrue
      BY DEF SettingsInv
<1> QED BY InitSettings, StepSettings, <1>1, PTL DEF SettingsSpec

-----------------------------------------------------------------------------
(* Subscriptions: the switch.                                              *)

SubCall == [op : {"toggle", "delete", "save"}, id : 0..MaxRows, enabled : BOOLEAN]

(* A row, or the look of none.                                             *)
Genuine(row) == row \in Shown /\ (row.id = 0 => row = NoSub)

SubsTypes ==
  /\ Genuine(sub) /\ inserted \in 1..MaxRows
  /\ listing \in [Page -> Shown] /\ openForm \in [Page -> SUBSET BOOLEAN]
  /\ subCalls \in [Page -> Seq(SubCall)] /\ found \in [Page -> SUBSET (0..MaxRows)]
  /\ choice \in {"on", "off", "gone"} /\ behind \in BOOLEAN

(* Forms are open, and switches and buttons pressed, on rows that are      *)
(* shown; only a save looks up.                                            *)
PagesFit ==
  \A p \in Page :
    /\ Genuine(listing[p])
    /\ openForm[p] # {} => listing[p] # NoSub
    /\ \A i \in DOMAIN subCalls[p] : subCalls[p][i].op # "save" => subCalls[p][i].id # 0
    /\ found[p] # {} => subCalls[p] # <<>> /\ Head(subCalls[p]).op = "save"

(* A save that was not behind is alone, and has the row as it is.          *)
SavesFit ==
  ~behind => \A p \in Saving :
    /\ Pending = {p} /\ Len(subCalls[p]) = 1
    /\ subCalls[p][1].id = sub.id
    /\ subCalls[p][1].enabled = (IF sub = NoSub THEN TRUE ELSE sub.enabled)
    /\ found[p] \subseteq {sub.id}

SubsInv == SubsTypes /\ PagesFit /\ SavesFit /\ SwitchIsKept

LEMMA InitSubs == SubsInit => SubsInv
<1> SUFFICES ASSUME SubsInit PROVE SubsInv
    OBVIOUS
<1>1. Genuine(sub) /\ sub.id = 1 /\ sub.enabled /\ sub # NoSub
      BY SubscriptionsAssumption DEF SubsInit, Genuine, Shown, NoSub
<1>2. SubsTypes
  <2>1. <<>> \in Seq(SubCall)
        OBVIOUS
  <2>2. subCalls \in [Page -> Seq(SubCall)]
        BY <2>1 DEF SubsInit
  <2>3. inserted \in 1..MaxRows
        BY SubscriptionsAssumption DEF SubsInit
  <2> QED BY <1>1, <2>2, <2>3 DEF SubsInit, SubsTypes, Genuine
<1>3. PagesFit
      BY <1>1 DEF SubsInit, PagesFit, NoSub
<1>4. SavesFit
      BY DEF SubsInit, SavesFit, Saving
<1>5. SwitchIsKept
      BY <1>1 DEF SubsInit, SwitchIsKept
<1> QED BY <1>2, <1>3, <1>4, <1>5 DEF SubsInv

(* A queue gets one more, or loses its first.                              *)
LEMMA Appended ==
  ASSUME NEW S, NEW q \in Seq(S), NEW e \in S
  PROVE  /\ Append(q, e) \in Seq(S) /\ Append(q, e) # <<>>
         /\ Len(Append(q, e)) = Len(q) + 1
         /\ DOMAIN Append(q, e) = 1..(Len(q) + 1)
         /\ \A i \in DOMAIN Append(q, e) : Append(q, e)[i] = IF i = Len(q) + 1 THEN e ELSE q[i]
         /\ q # <<>> => Head(Append(q, e)) = Head(q)
<1>1. Append(q, e) \in Seq(S) /\ Len(Append(q, e)) = Len(q) + 1
      OBVIOUS
<1>2. DOMAIN Append(q, e) = 1..(Len(q) + 1)
      BY <1>1
<1>3. \A i \in 1..(Len(q) + 1) : Append(q, e)[i] = IF i = Len(q) + 1 THEN e ELSE q[i]
      OBVIOUS
<1>4. Append(q, e) # <<>>
  <2>1. Len(q) \in Nat /\ Len(<<>>) = 0
        OBVIOUS
  <2> QED BY <1>1, <2>1
<1>5. q # <<>> => Head(Append(q, e)) = Head(q)
  <2> SUFFICES ASSUME q # <<>> PROVE Head(Append(q, e)) = Head(q)
      OBVIOUS
  <2>1. Len(q) \in Nat /\ Len(q) >= 1
        OBVIOUS
  <2>2. Append(q, e)[1] = q[1]
        BY <1>3, <2>1
  <2> QED BY <1>1, <1>4, <2>2
<1> QED BY <1>1, <1>2, <1>3, <1>4, <1>5

LEMMA Tailed ==
  ASSUME NEW S, NEW q \in Seq(S), q # <<>>
  PROVE  /\ Tail(q) \in Seq(S) /\ Len(Tail(q)) = Len(q) - 1
         /\ DOMAIN Tail(q) = 1..(Len(q) - 1)
         /\ \A i \in DOMAIN Tail(q) : i + 1 \in DOMAIN q /\ Tail(q)[i] = q[i + 1]
         /\ Head(q) = q[1] /\ 1 \in DOMAIN q /\ q[1] \in S
         /\ Len(q) \in Nat \ {0} /\ DOMAIN q = 1..Len(q)
<1>1. Tail(q) \in Seq(S) /\ Len(Tail(q)) = Len(q) - 1 /\ Len(q) \in Nat \ {0}
      OBVIOUS
<1>2. DOMAIN Tail(q) = 1..(Len(q) - 1) /\ DOMAIN q = 1..Len(q)
      BY <1>1
<1>3. \A i \in 1..(Len(q) - 1) : Tail(q)[i] = q[i + 1]
      BY <1>1
<1>4. Head(q) = q[1] /\ 1 \in DOMAIN q /\ q[1] \in S
      BY <1>1, <1>2
<1> QED BY <1>1, <1>2, <1>3, <1>4

(* The call a page sends: one more in its queue.                           *)
Sent(p, op, enabled) == [op |-> op, id |-> listing[p].id, enabled |-> enabled]

LEMMA Pushed ==
  ASSUME SubsInv, NEW p \in Page, NEW op \in {"toggle", "delete", "save"},
         NEW enabled \in BOOLEAN, Push(p, op, enabled)
  PROVE  /\ Sent(p, op, enabled) \in SubCall
         /\ subCalls' \in [Page -> Seq(SubCall)]
         /\ \A q \in Page : q # p => subCalls'[q] = subCalls[q]
         /\ Len(subCalls'[p]) = Len(subCalls[p]) + 1
         /\ \A i \in DOMAIN subCalls'[p] :
              subCalls'[p][i] = IF i = Len(subCalls[p]) + 1 THEN Sent(p, op, enabled)
                                ELSE subCalls[p][i]
         /\ subCalls[p] # <<>> => Head(subCalls'[p]) = Head(subCalls[p])
         /\ subCalls'[p] # <<>>
<1>1. Sent(p, op, enabled) \in SubCall
      BY DEF SubsInv, SubsTypes, SubCall, Shown, Sent
<1>2. subCalls' = [subCalls EXCEPT ![p] = Append(subCalls[p], Sent(p, op, enabled))]
      BY DEF Push, Sent
<1>3. subCalls[p] \in Seq(SubCall)
      BY DEF SubsInv, SubsTypes
<1>4. /\ subCalls'[p] = Append(subCalls[p], Sent(p, op, enabled))
      /\ \A q \in Page : q # p => subCalls'[q] = subCalls[q]
      BY <1>2 DEF SubsInv, SubsTypes
<1>5. Append(subCalls[p], Sent(p, op, enabled)) \in Seq(SubCall)
      BY <1>1, <1>3
<1>6. subCalls' \in [Page -> Seq(SubCall)]
      BY <1>2, <1>5 DEF SubsInv, SubsTypes
<1>7. /\ Len(subCalls'[p]) = Len(subCalls[p]) + 1
      /\ \A i \in DOMAIN subCalls'[p] :
           subCalls'[p][i] = IF i = Len(subCalls[p]) + 1 THEN Sent(p, op, enabled)
                             ELSE subCalls[p][i]
      /\ subCalls[p] # <<>> => Head(subCalls'[p]) = Head(subCalls[p])
      /\ subCalls'[p] # <<>>
      BY <1>1, <1>3, <1>4, Appended
<1> QED BY <1>1, <1>4, <1>6, <1>7

LEMMA SendKeeps ==
  ASSUME SubsInv, NEW p \in Page, Toggle(p) \/ Remove(p) \/ SaveForm(p) \/ Add(p)
  PROVE  SubsInv'
<1>0. /\ SubsTypes /\ PagesFit /\ SavesFit /\ SwitchIsKept
      /\ listing[p] \in Shown /\ listing[p].enabled \in BOOLEAN
      BY DEF SubsInv, SubsTypes, Shown
<1>1. UNCHANGED <<sub, inserted, listing, openForm, found, choice>>
      BY DEF Toggle, Remove, SaveForm, Add, stored
<1>2. SwitchIsKept'
  <2>1. behind' \in BOOLEAN /\ (behind => behind')
        BY <1>0 DEF Toggle, Remove, SaveForm, Add, SubsTypes
  <2> QED BY <1>0, <1>1, <2>1 DEF SwitchIsKept, SubsTypes
<1>3. ASSUME NEW op \in {"toggle", "delete", "save"}, NEW enabled \in BOOLEAN,
             Push(p, op, enabled), op # "save" => listing[p] # NoSub, behind' \in BOOLEAN
      PROVE  SubsTypes' /\ PagesFit'
  <2>1. SubsTypes'
        BY <1>0, <1>1, <1>3, Pushed DEF SubsTypes, Genuine
  <2>2. listing[p].id = 0 => listing[p] = NoSub
        BY <1>0 DEF PagesFit, Genuine
  <2>3. ASSUME NEW q \in Page
        PROVE  /\ \A i \in DOMAIN subCalls'[q] : subCalls'[q][i].op # "save" => subCalls'[q][i].id # 0
               /\ found'[q] # {} => subCalls'[q] # <<>> /\ Head(subCalls'[q]).op = "save"
    <3>1. CASE q # p
      <4>1. subCalls'[q] = subCalls[q]
            BY <1>3, <3>1, Pushed
      <4> QED BY <1>0, <1>1, <4>1 DEF PagesFit
    <3>2. CASE q = p
      <4> DEFINE call == Sent(p, op, enabled)
      <4>1. /\ Len(subCalls'[p]) = Len(subCalls[p]) + 1
            /\ \A i \in DOMAIN subCalls'[p] :
                 subCalls'[p][i] = IF i = Len(subCalls[p]) + 1 THEN call ELSE subCalls[p][i]
            /\ subCalls[p] # <<>> => Head(subCalls'[p]) = Head(subCalls[p])
            /\ subCalls'[p] # <<>>
            /\ subCalls'[p] \in Seq(SubCall) /\ subCalls[p] \in Seq(SubCall)
            BY <1>0, <1>3, Pushed DEF SubsTypes
      <4>2. DOMAIN subCalls'[p] = 1..Len(subCalls'[p]) /\ DOMAIN subCalls[p] = 1..Len(subCalls[p])
            /\ Len(subCalls[p]) \in Nat
            BY <4>1
      <4>3. call.op = op /\ call.id = listing[p].id
            BY DEF Sent
      <4>4. ASSUME NEW i \in DOMAIN subCalls'[p], subCalls'[p][i].op # "save"
            PROVE  subCalls'[p][i].id # 0
        <5>1. CASE i = Len(subCalls[p]) + 1
              BY <1>3, <2>2, <4>1, <4>3, <4>4, <5>1
        <5>2. CASE i # Len(subCalls[p]) + 1
          <6>1. i \in DOMAIN subCalls[p] /\ subCalls'[p][i] = subCalls[p][i]
                BY <4>1, <4>2, <5>2
          <6> QED BY <1>0, <4>4, <6>1 DEF PagesFit
        <5> QED BY <5>1, <5>2
      <4>5. found'[p] # {} => Head(subCalls'[p]).op = "save"
            BY <1>0, <1>1, <4>1 DEF PagesFit
      <4> QED BY <3>2, <4>1, <4>4, <4>5
    <3> QED BY <3>1, <3>2
  <2> QED BY <1>0, <1>1, <2>1, <2>3 DEF PagesFit, Genuine
<1>4. ASSUME NEW op \in {"toggle", "delete"}, NEW enabled \in BOOLEAN,
             Push(p, op, enabled), listing[p] # NoSub, behind' = (behind \/ Saving # {})
      PROVE  SubsInv'
  <2>1. SubsTypes' /\ PagesFit'
        BY <1>0, <1>3, <1>4 DEF SubsTypes
  <2>2. SavesFit'
    <3> SUFFICES ASSUME ~behind' PROVE Saving' = {}
        BY DEF SavesFit
    <3>1. Saving = {}
          BY <1>4
    <3>2. ASSUME NEW q \in Page, NEW i \in DOMAIN subCalls'[q], subCalls'[q][i].op = "save"
          PROVE  FALSE
      <4>1. CASE q # p
        <5>1. subCalls'[q] = subCalls[q]
              BY <1>4, <4>1, Pushed
        <5> QED BY <3>1, <3>2, <5>1 DEF Saving
      <4>2. CASE q = p
        <5> DEFINE call == Sent(p, op, enabled)
        <5>1. /\ Len(subCalls'[p]) = Len(subCalls[p]) + 1
              /\ subCalls'[p][i] = IF i = Len(subCalls[p]) + 1 THEN call ELSE subCalls[p][i]
              /\ subCalls'[p] \in Seq(SubCall) /\ subCalls[p] \in Seq(SubCall)
              BY <1>0, <1>4, <3>2, <4>2, Pushed DEF SubsTypes
        <5>2. call.op # "save"
              BY <1>4 DEF Sent
        <5>3. i \in DOMAIN subCalls[p] /\ subCalls[p][i].op = "save"
              BY <3>2, <4>2, <5>1, <5>2
        <5> QED BY <3>1, <5>3 DEF Saving
      <4> QED BY <4>1, <4>2
    <3> QED BY <3>2 DEF Saving
  <2> QED BY <1>2, <2>1, <2>2 DEF SubsInv
<1>5. ASSUME NEW enabled \in BOOLEAN, Push(p, "save", enabled),
             behind' = (behind \/ listing[p] # sub \/ Pending # {}),
             enabled = IF listing[p] = NoSub THEN TRUE ELSE listing[p].enabled
      PROVE  SubsInv'
  <2>1. SubsTypes' /\ PagesFit'
        BY <1>0, <1>3, <1>5 DEF SubsTypes
  <2>2. SavesFit'
    <3> SUFFICES ASSUME ~behind', NEW q \in Saving'
                 PROVE  /\ Pending' = {q} /\ Len(subCalls'[q]) = 1
                        /\ subCalls'[q][1].id = sub.id
                        /\ subCalls'[q][1].enabled = (IF sub = NoSub THEN TRUE ELSE sub.enabled)
                        /\ found'[q] \subseteq {sub.id}
        BY <1>1 DEF SavesFit
    <3>1. listing[p] = sub /\ Pending = {}
          BY <1>5
    <3>2. \A r \in Page : subCalls[r] = <<>> /\ found[r] = {}
          BY <1>0, <3>1 DEF Pending, PagesFit
    <3>3. \A r \in Page : r # p => subCalls'[r] = <<>>
          BY ZenonT(60), <1>5, <3>2, Pushed
    <3>7. subCalls[p] = <<>> /\ Len(subCalls[p]) = 0
          BY <3>2
    <3>4. /\ Len(subCalls'[p]) = 1 /\ subCalls'[p] # <<>> /\ subCalls'[p] \in Seq(SubCall)
          /\ subCalls'[p][1] = Sent(p, "save", enabled)
      <4>1. /\ subCalls' \in [Page -> Seq(SubCall)] /\ subCalls'[p] # <<>>
            /\ Len(subCalls'[p]) = Len(subCalls[p]) + 1
            /\ \A i \in DOMAIN subCalls'[p] :
                 subCalls'[p][i] = IF i = Len(subCalls[p]) + 1 THEN Sent(p, "save", enabled)
                                   ELSE subCalls[p][i]
            BY ZenonT(60), <1>5, Pushed
      <4>2. Len(subCalls'[p]) = 1 /\ 1 \in DOMAIN subCalls'[p]
            BY <3>7, <4>1
      <4> QED BY <3>7, <4>1, <4>2
    <3>8. subCalls'[p][1].id = listing[p].id /\ subCalls'[p][1].enabled = enabled
          BY <3>4 DEF Sent
    <3>5. q = p
          BY <3>3 DEF Saving
    <3>6. Pending' = {p}
          BY <3>3, <3>4 DEF Pending
    <3>9. found'[p] = {}
          BY <1>1, <3>2
    <3> QED BY <1>5, <3>1, <3>4, <3>5, <3>6, <3>8, <3>9
  <2> QED BY <1>2, <2>1, <2>2 DEF SubsInv
<1>6. CASE Toggle(p)
  <2>1. (~listing[p].enabled) \in BOOLEAN
        OBVIOUS
  <2> QED BY <1>4, <1>6, <2>1 DEF Toggle
<1>7. CASE Remove(p)
      BY <1>4, <1>7 DEF Remove
<1>8. CASE SaveForm(p)
  <2>1. listing[p] # NoSub
        BY <1>0, <1>8 DEF SaveForm, PagesFit
  <2> QED BY <1>0, <1>5, <1>8, <2>1 DEF SaveForm, SavedSwitch
<1>9. CASE Add(p)
      BY <1>5, <1>9 DEF Add
<1> QED BY <1>6, <1>7, <1>8, <1>9

(* A call is answered: the next one is under way.  No save is left, unless *)
(* some page was behind.                                                   *)
LEMMA Answered ==
  ASSUME SubsInv, NEW p \in Page, subCalls[p] # <<>>, SubAnswered(p)
  PROVE  /\ subCalls' \in [Page -> Seq(SubCall)]
         /\ found' \in [Page -> SUBSET (0..MaxRows)]
         /\ \A q \in Page :
              /\ \A i \in DOMAIN subCalls'[q] :
                   subCalls'[q][i].op # "save" => subCalls'[q][i].id # 0
              /\ found'[q] # {} => subCalls'[q] # <<>> /\ Head(subCalls'[q]).op = "save"
         /\ ~behind => Saving' = {}
<1>1. /\ subCalls \in [Page -> Seq(SubCall)] /\ found \in [Page -> SUBSET (0..MaxRows)]
      /\ PagesFit /\ SavesFit
      BY DEF SubsInv, SubsTypes
<1>2. subCalls[p] \in Seq(SubCall) /\ subCalls[p] # <<>>
      BY <1>1
<1>3. /\ Tail(subCalls[p]) \in Seq(SubCall)
      /\ Len(subCalls[p]) \in Nat \ {0}
      /\ DOMAIN Tail(subCalls[p]) = 1..(Len(subCalls[p]) - 1)
      /\ \A i \in DOMAIN Tail(subCalls[p]) :
           i + 1 \in DOMAIN subCalls[p] /\ Tail(subCalls[p])[i] = subCalls[p][i + 1]
      BY <1>2, Tailed
<1>4. /\ subCalls' = [subCalls EXCEPT ![p] = Tail(subCalls[p])]
      /\ found' = [found EXCEPT ![p] = {}]
      BY DEF SubAnswered
<1>5. subCalls' \in [Page -> Seq(SubCall)] /\ found' \in [Page -> SUBSET (0..MaxRows)]
      BY <1>1, <1>3, <1>4
<1>6. /\ subCalls'[p] = Tail(subCalls[p]) /\ found'[p] = {}
      /\ \A q \in Page : q # p => subCalls'[q] = subCalls[q] /\ found'[q] = found[q]
      BY <1>1, <1>4
<1>7. ASSUME NEW q \in Page
      PROVE  /\ \A i \in DOMAIN subCalls'[q] :
                  subCalls'[q][i].op # "save" => subCalls'[q][i].id # 0
             /\ found'[q] # {} => subCalls'[q] # <<>> /\ Head(subCalls'[q]).op = "save"
  <2>1. CASE q = p
    <3>1. ASSUME NEW i \in DOMAIN subCalls'[p], subCalls'[p][i].op # "save"
          PROVE  subCalls'[p][i].id # 0
      <4>1. i + 1 \in DOMAIN subCalls[p] /\ subCalls'[p][i] = subCalls[p][i + 1]
            BY <1>3, <1>6, <3>1
      <4> QED BY <1>1, <3>1, <4>1 DEF PagesFit
    <3> QED BY <1>6, <2>1, <3>1
  <2>2. CASE q # p
        BY <1>1, <1>6, <2>2 DEF PagesFit
  <2> QED BY <2>1, <2>2
<1>8. ASSUME ~behind, NEW q \in Page, NEW i \in DOMAIN subCalls'[q], subCalls'[q][i].op = "save"
      PROVE  FALSE
  <2>1. CASE q # p
    <3>1. q \in Saving
          BY <1>6, <1>8, <2>1 DEF Saving
    <3>2. p \in Pending
          BY DEF Pending
    <3> QED BY <1>1, <1>8, <2>1, <3>1, <3>2 DEF SavesFit
  <2>2. CASE q = p
    <3>1. i \in DOMAIN Tail(subCalls[p])
          BY <1>6, <1>8, <2>2
    <3>2. i + 1 \in DOMAIN subCalls[p] /\ subCalls[p][i + 1].op = "save"
          BY <1>3, <1>6, <1>8, <2>2, <3>1
    <3>3. p \in Saving
          BY <3>2 DEF Saving
    <3>4. Len(subCalls[p]) = 1
          BY <1>1, <1>8, <3>3 DEF SavesFit
    <3> QED BY <1>3, <3>1, <3>4
  <2> QED BY <2>1, <2>2
<1> QED BY <1>5, <1>7, <1>8 DEF Saving

(* So an answer only has to keep the row, the forms and the choice.        *)
LEMMA AnswerKeeps ==
  ASSUME SubsInv, NEW p \in Page, subCalls[p] # <<>>, SubAnswered(p),
         UNCHANGED <<listing, behind>>,
         openForm' \in [Page -> SUBSET BOOLEAN],
         \A q \in Page : openForm'[q] \subseteq openForm[q],
         Genuine(sub)', inserted' \in 1..MaxRows, choice' \in {"on", "off", "gone"},
         SwitchIsKept'
  PROVE  SubsInv'
<1>1. SubsTypes /\ PagesFit
      BY DEF SubsInv
<1>2. SubsTypes'
      BY <1>1, Answered DEF SubsTypes, Genuine
<1>3. PagesFit'
  <2>1. \A q \in Page : Genuine(listing[q])' /\ (openForm'[q] # {} => listing'[q] # NoSub)
        BY <1>1 DEF PagesFit, Genuine
  <2> QED BY <2>1, Answered DEF PagesFit
<1>4. SavesFit'
      BY Answered DEF SavesFit
<1> QED BY <1>2, <1>3, <1>4 DEF SubsInv

LEMMA RunsKeep ==
  ASSUME SubsInv, NEW p \in Page,
         RunToggle(p) \/ RunDelete(p) \/ SubCallFails(p)
  PROVE  SubsInv'
<1>1. SubsTypes /\ PagesFit /\ SwitchIsKept
      BY DEF SubsInv
<1>2. subCalls[p] # <<>> /\ SubAnswered(p)
      BY DEF RunToggle, RunDelete, SubCallFails, Pending
<1>3. subCalls[p] \in Seq(SubCall)
      BY <1>1 DEF SubsTypes
<1>4. Current(p) = subCalls[p][1] /\ 1 \in DOMAIN subCalls[p] /\ Current(p) \in SubCall
      BY <1>2, <1>3, Tailed DEF Current
<1>5. UNCHANGED <<listing, behind, inserted>>
      BY DEF RunToggle, RunDelete, SubCallFails, stored
<1>7. Current(p).enabled \in BOOLEAN
      BY <1>4 DEF SubCall
<1>8. CASE RunToggle(p)
  <2>1. Current(p).id # 0 /\ openForm' = openForm
        BY <1>1, <1>4, <1>8 DEF PagesFit, RunToggle
  <2>2. CASE sub.id = Current(p).id
    <3>1. /\ sub' = [sub EXCEPT !.enabled = Current(p).enabled]
          /\ choice' = IF Current(p).enabled THEN "on" ELSE "off"
          BY <1>8, <2>2 DEF RunToggle
    <3>2. sub' \in Shown /\ sub'.id = sub.id /\ sub'.enabled = Current(p).enabled
          BY <1>1, <1>7, <3>1 DEF SubsTypes, Genuine, Shown
    <3>3. sub' # NoSub /\ Genuine(sub)'
          BY <2>1, <2>2, <3>2 DEF Genuine, NoSub, Shown
    <3>4. SwitchIsKept' /\ choice' \in {"on", "off", "gone"}
          BY <3>1, <3>2, <3>3 DEF SwitchIsKept
    <3> QED BY <1>1, <1>2, <1>5, <2>1, <3>3, <3>4, AnswerKeeps DEF SubsTypes
  <2>3. CASE sub.id # Current(p).id
    <3>1. UNCHANGED <<sub, choice>>
          BY <1>8, <2>3 DEF RunToggle
    <3> QED BY <1>1, <1>2, <1>5, <2>1, <3>1, AnswerKeeps DEF SubsTypes, SwitchIsKept, Genuine
  <2> QED BY <2>2, <2>3
<1>9. CASE RunDelete(p)
  <2>1. openForm' = openForm
        BY <1>9 DEF RunDelete
  <2>2. CASE sub.id = Current(p).id
    <3>1. sub' = NoSub /\ choice' = "gone"
          BY <1>9, <2>2 DEF RunDelete
    <3>2. Genuine(sub)'
          BY <3>1, SubscriptionsAssumption DEF Genuine, NoSub, Shown
    <3>3. SwitchIsKept'
          BY <3>1 DEF SwitchIsKept
    <3> QED BY <1>1, <1>2, <1>5, <2>1, <3>1, <3>2, <3>3, AnswerKeeps DEF SubsTypes
  <2>3. CASE sub.id # Current(p).id
    <3>1. UNCHANGED <<sub, choice>>
          BY <1>9, <2>3 DEF RunDelete
    <3> QED BY <1>1, <1>2, <1>5, <2>1, <3>1, AnswerKeeps DEF SubsTypes, SwitchIsKept, Genuine
  <2> QED BY <2>2, <2>3
<1>10. CASE SubCallFails(p)
  <2>1. UNCHANGED <<sub, choice, openForm>>
        BY <1>10 DEF SubCallFails, stored
  <2> QED BY <1>1, <1>2, <1>5, <2>1, AnswerKeeps DEF SubsTypes, SwitchIsKept, Genuine
<1> QED BY <1>8, <1>9, <1>10

(* A save that was not behind writes the switch as it is, or switches on   *)
(* what was not there.                                                     *)
LEMMA SaveKeeps ==
  ASSUME SubsInv, NEW p \in Page, SaveSub(p)
  PROVE  SubsInv'
<1>1. SubsTypes /\ PagesFit /\ SavesFit /\ SwitchIsKept
      BY DEF SubsInv
<1>2. /\ found[p] # {} /\ SubAnswered(p) /\ UNCHANGED <<listing, behind>>
      /\ openForm' = [openForm EXCEPT ![p] = {}]
      BY DEF SaveSub
<1>3. subCalls[p] # <<>> /\ Head(subCalls[p]).op = "save" /\ subCalls[p] \in Seq(SubCall)
      BY <1>1, <1>2 DEF PagesFit, SubsTypes
<1>4. Current(p) = subCalls[p][1] /\ 1 \in DOMAIN subCalls[p] /\ Current(p) \in SubCall
      BY <1>3, Tailed DEF Current
<1>5. Current(p).enabled \in BOOLEAN
      BY <1>4 DEF SubCall
<1>6. p \in Saving
      BY <1>3, <1>4 DEF Saving, Current
<1>7. ~behind => /\ Current(p).id = sub.id
                 /\ Current(p).enabled = (IF sub = NoSub THEN TRUE ELSE sub.enabled)
                 /\ found[p] = {sub.id}
      BY ZenonT(60), <1>1, <1>2, <1>4, <1>6 DEF SavesFit
<1>8. /\ openForm' \in [Page -> SUBSET BOOLEAN]
      /\ \A q \in Page : openForm'[q] \subseteq openForm[q]
  <2>1. openForm \in [Page -> SUBSET BOOLEAN]
        BY <1>1 DEF SubsTypes
  <2> QED BY <1>2, <2>1
<1>9. Genuine(sub) /\ inserted \in 1..MaxRows /\ choice \in {"on", "off", "gone"}
      /\ sub \in Shown /\ sub.id \in 0..MaxRows /\ sub.enabled \in BOOLEAN
      BY <1>1 DEF SubsTypes, Genuine, Shown
<1>10. NoSub.id = 0
       BY DEF NoSub
<1>11. /\ Genuine(sub)' /\ inserted' \in 1..MaxRows
       /\ choice' \in {"on", "off", "gone"} /\ SwitchIsKept'
  <2>1. CASE found[p] = {0} /\ sub = NoSub
    <3>1. /\ inserted < MaxRows
          /\ sub' = [id |-> inserted + 1, enabled |-> Current(p).enabled]
          /\ inserted' = inserted + 1
          /\ choice' = IF Current(p).id = NoSub.id THEN "on" ELSE choice
          BY <1>10, <2>1 DEF SaveSub
    <3>2. inserted' \in 1..MaxRows /\ inserted' # 0
          BY <1>9, <3>1, SubscriptionsAssumption
    <3>3. sub' \in Shown /\ sub'.id # 0 /\ sub'.enabled = Current(p).enabled
          BY <1>5, <3>1, <3>2 DEF Shown
    <3>4. sub' # NoSub /\ Genuine(sub)'
          BY <1>10, <3>3 DEF Genuine, Shown
    <3>5. choice' \in {"on", "off", "gone"}
          BY <1>9, <3>1
    <3>6. ~behind => choice' = "on" /\ sub'.enabled
          BY <1>7, <2>1, <3>1, <3>3
    <3>7. SwitchIsKept'
          BY <1>2, <3>4, <3>6 DEF SwitchIsKept
    <3> QED BY <3>2, <3>4, <3>5, <3>7
  <2>2. CASE found[p] # {0} /\ found[p] = {sub.id}
    <3>1. /\ sub' = [sub EXCEPT !.enabled = Current(p).enabled]
          /\ UNCHANGED <<inserted, choice>>
          BY <1>10, <2>2 DEF SaveSub
    <3>2. sub.id # 0
          BY <2>2
    <3>3. sub' \in Shown /\ sub'.id = sub.id /\ sub'.enabled = Current(p).enabled
          BY <1>5, <1>9, <3>1 DEF Shown
    <3>4. sub # NoSub /\ sub' # NoSub /\ Genuine(sub)'
          BY <1>10, <3>2, <3>3 DEF Genuine, Shown
    <3>5. ~behind => sub'.enabled = sub.enabled
          BY <1>7, <3>3, <3>4
    <3>6. SwitchIsKept'
          BY <1>1, <1>2, <3>1, <3>4, <3>5 DEF SwitchIsKept
    <3> QED BY <1>9, <3>1, <3>4, <3>6
  <2>3. CASE ~(found[p] = {0} /\ sub = NoSub) /\ ~(found[p] # {0} /\ found[p] = {sub.id})
    <3>1. UNCHANGED <<sub, inserted, choice>>
          BY <1>10, <2>3 DEF SaveSub, stored
    <3> QED BY <1>1, <1>2, <1>9, <3>1 DEF SwitchIsKept, Genuine
  <2> QED BY <2>1, <2>2, <2>3
<1> QED BY <1>2, <1>3, <1>8, <1>11, AnswerKeeps

(* What changes neither the row nor a queue.                               *)
LEMMA RestKeeps ==
  ASSUME SubsInv, NEW p \in Page,
         OpenForm(p) \/ CloseForm(p) \/ LookUp(p) \/ RefreshSubs(p)
  PROVE  SubsInv'
<1>1. SubsTypes /\ PagesFit /\ SavesFit /\ SwitchIsKept
      BY DEF SubsInv
<1>2. UNCHANGED <<sub, inserted, subCalls, choice, behind>>
      BY DEF OpenForm, CloseForm, LookUp, RefreshSubs, stored
<1>3. SwitchIsKept' /\ Genuine(sub)'
      BY <1>1, <1>2 DEF SwitchIsKept, SubsTypes, Genuine
<1>4. Saving' = Saving /\ Pending' = Pending
      BY <1>2 DEF Saving, Pending
<1>5. CASE OpenForm(p)
  <2>1. /\ listing[p] # NoSub /\ UNCHANGED <<listing, found>>
        /\ openForm' = [openForm EXCEPT ![p] = {listing[p].enabled}]
        BY <1>5 DEF OpenForm
  <2>2. listing[p].enabled \in BOOLEAN
        BY <1>1 DEF SubsTypes, Shown
  <2>3. SubsTypes'
        BY <1>1, <1>2, <1>3, <2>1, <2>2 DEF SubsTypes
  <2>4. PagesFit'
        BY <1>1, <1>2, <2>1 DEF PagesFit, SubsTypes, Genuine
  <2>5. SavesFit'
        BY <1>1, <1>2, <1>4, <2>1 DEF SavesFit
  <2> QED BY <1>3, <2>3, <2>4, <2>5 DEF SubsInv
<1>6. CASE CloseForm(p)
  <2>1. /\ UNCHANGED <<listing, found>>
        /\ openForm' = [openForm EXCEPT ![p] = {}]
        BY <1>6 DEF CloseForm
  <2>2. SubsTypes'
        BY <1>1, <1>2, <1>3, <2>1 DEF SubsTypes
  <2>3. PagesFit'
        BY <1>1, <1>2, <2>1 DEF PagesFit, SubsTypes, Genuine
  <2>4. SavesFit'
        BY <1>1, <1>2, <1>4, <2>1 DEF SavesFit
  <2> QED BY <1>3, <2>2, <2>3, <2>4 DEF SubsInv
<1>7. CASE LookUp(p)
  <2>1. /\ UNCHANGED <<listing, openForm>>
        /\ found' = [found EXCEPT ![p] = {sub.id}]
        /\ subCalls[p] # <<>> /\ Head(subCalls[p]).op = "save"
        BY <1>7 DEF LookUp, Pending, Current
  <2>2. sub.id \in 0..MaxRows
        BY <1>1 DEF SubsTypes, Genuine, Shown
  <2>3. SubsTypes'
        BY <1>1, <1>2, <1>3, <2>1, <2>2 DEF SubsTypes
  <2>4. PagesFit'
        BY <1>1, <1>2, <2>1 DEF PagesFit, SubsTypes, Genuine
  <2>5. \A q \in Page : q # p => found'[q] = found[q]
        BY <1>1, <2>1 DEF SubsTypes
  <2>6. found'[p] = {sub.id}
        BY <1>1, <2>1 DEF SubsTypes
  <2>7. \A q \in Page : found'[q] \subseteq found[q] \cup {sub.id}
        BY <2>5, <2>6
  <2>8. SavesFit'
        BY <1>1, <1>2, <1>4, <2>7 DEF SavesFit, Saving
  <2> QED BY <1>3, <2>3, <2>4, <2>8 DEF SubsInv
<1>8. CASE RefreshSubs(p)
  <2>1. /\ listing' = [listing EXCEPT ![p] = sub] /\ UNCHANGED found
        /\ openForm' = IF sub.id = listing[p].id THEN openForm
                       ELSE [openForm EXCEPT ![p] = {}]
        BY <1>8 DEF RefreshSubs
  <2>2. sub \in Shown /\ Genuine(sub)
        BY <1>1 DEF SubsTypes, Genuine
  <2>3. SubsTypes'
        BY <1>1, <1>2, <1>3, <2>1, <2>2 DEF SubsTypes
  <2>4. /\ listing'[p] = sub /\ \A q \in Page : q # p => listing'[q] = listing[q]
        /\ \A q \in Page : openForm'[q] \subseteq openForm[q]
        /\ sub.id # listing[p].id => openForm'[p] = {}
        BY <1>1, <2>1 DEF SubsTypes
  <2>5. \A q \in Page : Genuine(listing[q])'
        BY <1>1, <2>2, <2>4 DEF PagesFit, Genuine
  <2>6. ASSUME NEW q \in Page, openForm'[q] # {} PROVE listing'[q] # NoSub
    <3>1. listing[q] # NoSub /\ Genuine(listing[q])
          BY <1>1, <2>4, <2>6 DEF PagesFit
    <3>2. listing[q].id # 0
          BY <3>1 DEF Genuine
    <3>3. CASE q = p
      <4>1. sub.id # 0
            BY <2>4, <2>6, <3>2, <3>3
      <4> QED BY <2>4, <3>3, <4>1 DEF NoSub
    <3> QED BY <2>4, <3>1, <3>3
  <2>7. PagesFit'
        BY <1>1, <1>2, <2>1, <2>5, <2>6 DEF PagesFit
  <2>8. SavesFit'
        BY <1>1, <1>2, <1>4, <2>1 DEF SavesFit
  <2> QED BY <1>3, <2>3, <2>7, <2>8 DEF SubsInv
<1> QED BY <1>5, <1>6, <1>7, <1>8

LEMMA StepSubs == SubsInv /\ [SubsNext]_subVars => SubsInv'
<1> SUFFICES ASSUME SubsInv, [SubsNext]_subVars PROVE SubsInv'
    OBVIOUS
<1>1. CASE UNCHANGED subVars
      BY <1>1 DEF SubsInv, SubsTypes, PagesFit, SavesFit, SwitchIsKept, Genuine, Saving,
                  Pending, subVars, stored, pages
<1>2. ASSUME NEW p \in Page, Toggle(p) \/ Remove(p) \/ SaveForm(p) \/ Add(p)
      PROVE  SubsInv'
      BY <1>2, SendKeeps
<1>3. ASSUME NEW p \in Page, RunToggle(p) \/ RunDelete(p) \/ SubCallFails(p)
      PROVE  SubsInv'
      BY <1>3, RunsKeep
<1>4. ASSUME NEW p \in Page, OpenForm(p) \/ CloseForm(p) \/ LookUp(p) \/ RefreshSubs(p)
      PROVE  SubsInv'
      BY <1>4, RestKeeps
<1>5. ASSUME NEW p \in Page, SaveSub(p) PROVE SubsInv'
      BY <1>5, SaveKeeps
<1> QED BY <1>1, <1>2, <1>3, <1>4, <1>5 DEF SubsNext

(* Whatever forms are open and saved, a subscription is on, off or gone as *)
(* the seller last said, as long as nobody saved from a page that was      *)
(* behind (SubscriptionsList.tsx, subscriptions/actions.ts).               *)
THEOREM SwitchKept == SubsSpec => []SwitchIsKept
<1>1. SubsInv => SwitchIsKept
      BY DEF SubsInv
<1> QED BY <1>1, InitSubs, StepSubs, PTL DEF SubsSpec

-----------------------------------------------------------------------------
(* Tags.  The list saved last is the one shown; answers bring what is      *)
(* stored, unless another page wrote.                                      *)

TagsAgree ==
  /\ tagOutcome = "ok" => storedTags = tagSaves[1]
  /\ tagOutcome # "ok" => freshTags \subseteq {storedTags}
  /\ tagSaves = <<>> /\ tagStatus # "error" => shownTags = storedTags

TagsInv ==
  /\ TagsTypeOK
  /\ tagOutcome # "none" => tagSaves # <<>>
  /\ tagSaves # <<>> => tagSaves[Len(tagSaves)] = shownTags
  /\ ~tagsElsewhere => TagsAgree

LEMMA InitTags == TagsInit => TagsInv
<1> SUFFICES ASSUME TagsInit PROVE TagsInv
    OBVIOUS
<1>1. tagSaves = <<>> /\ tagSaves \in Seq(Lists) /\ Len(tagSaves) = 0
      BY DEF TagsInit
<1>2. TagsTypeOK
  <2>1. Len(tagSaves) <= MaxTagSaves
        BY <1>1, TagsAssumption
  <2> QED BY <1>1, <2>1 DEF TagsInit, TagsTypeOK
<1>3. TagsAgree
      BY DEF TagsInit, TagsAgree
<1> QED BY <1>1, <1>2, <1>3 DEF TagsInit, TagsInv

(* A list of tags with one more, if there is room, or one less.            *)
LEMMA ListsChange ==
  ASSUME NEW list \in Lists, NEW t \in Tag
  PROVE  /\ list \ {t} \in Lists
         /\ t \notin list /\ Cardinality(list) < MostTags => list \cup {t} \in Lists
<1>1. IsFiniteSet(list) /\ list \subseteq Tag /\ Cardinality(list) <= MostTags
      BY TagsAssumption, FS_Subset DEF Lists
<1>2. Cardinality(list) \in Nat /\ MostTags \in Nat
      BY <1>1, TagsAssumption, FS_CardinalityType
<1>3. list \ {t} \in Lists
  <2>1. Cardinality(list \ {t}) <= Cardinality(list)
        BY <1>1, <1>2, FS_RemoveElement
  <2>2. Cardinality(list \ {t}) \in Nat
        BY <1>1, FS_RemoveElement, FS_CardinalityType
  <2> QED BY <1>1, <1>2, <2>1, <2>2 DEF Lists
<1>4. ASSUME t \notin list, Cardinality(list) < MostTags PROVE list \cup {t} \in Lists
  <2>1. Cardinality(list \cup {t}) = Cardinality(list) + 1
        BY <1>1, <1>4, FS_AddElement
  <2> QED BY <1>1, <1>2, <1>4, <2>1 DEF Lists
<1> QED BY <1>3, <1>4

(* The editor shows a list and saves it.                                   *)
LEMMA PersistKeeps ==
  ASSUME TagsInv, NEW list \in Lists, shownTags' = list, Persist(list), adding' \in BOOLEAN,
         UNCHANGED <<storedTags, initialTags, freshTags, tagOutcome, tagsElsewhere>>
  PROVE  TagsInv'
<1>1. TagsTypeOK
      BY DEF TagsInv
<1>2. /\ tagSaves \in Seq(Lists) /\ Len(tagSaves) < MaxTagSaves
      /\ tagSaves' = Append(tagSaves, list) /\ tagStatus' = "saving"
      BY <1>1 DEF TagsTypeOK, Persist
<1>3. /\ tagSaves' \in Seq(Lists) /\ tagSaves' # <<>> /\ Len(tagSaves') = Len(tagSaves) + 1
      /\ DOMAIN tagSaves' = 1..(Len(tagSaves) + 1)
      /\ \A i \in DOMAIN tagSaves' :
           tagSaves'[i] = IF i = Len(tagSaves) + 1 THEN list ELSE tagSaves[i]
      BY <1>2, Appended
<1>4. Len(tagSaves) \in Nat /\ Len(tagSaves') <= MaxTagSaves
      BY <1>2, <1>3, TagsAssumption
<1>5. TagsTypeOK'
      BY <1>1, <1>2, <1>3, <1>4 DEF TagsTypeOK
<1>6. tagSaves'[Len(tagSaves')] = shownTags'
      BY <1>3, <1>4
<1>7. ASSUME ~tagsElsewhere PROVE TagsAgree'
  <2>1. tagOutcome = "ok" => tagSaves # <<>> /\ storedTags = tagSaves[1]
        BY <1>7 DEF TagsInv, TagsAgree
  <2>2. tagOutcome = "ok" => tagSaves'[1] = tagSaves[1]
        BY <1>2, <1>3, <1>4, <2>1
  <2> QED BY <1>3, <1>7, <2>1, <2>2 DEF TagsInv, TagsAgree
<1> QED BY <1>3, <1>5, <1>6, <1>7 DEF TagsInv

LEMMA StepTags == TagsInv /\ [TagsNext]_tagVars => TagsInv'
<1> SUFFICES ASSUME TagsInv, [TagsNext]_tagVars PROVE TagsInv'
    OBVIOUS
<1>0. TagsTypeOK /\ tagSaves \in Seq(Lists)
      BY DEF TagsInv, TagsTypeOK
<1>1. CASE UNCHANGED tagVars
      BY <1>1 DEF TagsInv, TagsTypeOK, TagsAgree, tagVars
<1>2. CASE StartAdding \/ NothingAdded
      BY <1>2 DEF TagsInv, TagsTypeOK, TagsAgree, StartAdding, NothingAdded
<1>3. ASSUME NEW t \in Tag, AddTag(t) PROVE TagsInv'
  <2>1. shownTags \cup {t} \in Lists
        BY <1>0, <1>3, ListsChange DEF AddTag, TagsTypeOK
  <2> QED BY <1>3, <2>1, PersistKeeps DEF AddTag
<1>4. ASSUME NEW t \in Tag, RemoveTag(t) PROVE TagsInv'
  <2>1. shownTags \ {t} \in Lists
        BY <1>0, ListsChange DEF TagsTypeOK
  <2> QED BY <1>0, <1>4, <2>1, PersistKeeps DEF RemoveTag, TagsTypeOK
<1>5. CASE SaveTags
  <2>1. /\ Head(tagSaves) = tagSaves[1] /\ Head(tagSaves) \in Lists /\ tagSaves # <<>>
        /\ UNCHANGED <<shownTags, initialTags, freshTags, adding, tagStatus, tagSaves, tagsElsewhere>>
        BY <1>0, <1>5, Tailed DEF SaveTags
  <2>2. CASE tagOutcome' = "ok" /\ storedTags' = Head(tagSaves)
        BY <2>1, <2>2 DEF TagsInv, TagsTypeOK, TagsAgree
  <2>3. CASE tagOutcome' = "failed" /\ UNCHANGED storedTags
        BY <1>5, <2>1, <2>3 DEF TagsInv, TagsTypeOK, TagsAgree, SaveTags
  <2> QED BY <1>5, <2>2, <2>3 DEF SaveTags
<1>6. CASE TagsAnswered
  <2>1. /\ tagOutcome # "none" /\ tagOutcome' = "none" /\ tagSaves' = Tail(tagSaves)
        /\ tagStatus' = IF tagOutcome = "ok" THEN "idle" ELSE "error"
        /\ freshTags' = IF tagOutcome = "ok" THEN {storedTags} ELSE freshTags
        /\ UNCHANGED <<storedTags, shownTags, initialTags, adding, tagsElsewhere>>
        BY <1>6 DEF TagsAnswered
  <2>2. tagSaves # <<>> /\ tagSaves[Len(tagSaves)] = shownTags
        BY <2>1 DEF TagsInv
  <2>3. /\ tagSaves' \in Seq(Lists) /\ Len(tagSaves') = Len(tagSaves) - 1
        /\ Len(tagSaves) \in Nat \ {0} /\ DOMAIN tagSaves' = 1..(Len(tagSaves) - 1)
        /\ \A i \in DOMAIN tagSaves' : tagSaves'[i] = tagSaves[i + 1]
        BY <1>0, <2>1, <2>2, Tailed
  <2>4. TagsTypeOK'
    <3>1. Len(tagSaves') <= MaxTagSaves
          BY <1>0, <2>3, TagsAssumption DEF TagsTypeOK
    <3> QED BY <1>0, <2>1, <2>3, <3>1 DEF TagsTypeOK
  <2>5. tagSaves' # <<>> => tagSaves'[Len(tagSaves')] = shownTags'
    <3>1. tagSaves' # <<>> => Len(tagSaves') \in DOMAIN tagSaves'
          BY <2>3
    <3>2. Len(tagSaves') + 1 = Len(tagSaves)
          BY <2>3
    <3> QED BY <2>1, <2>2, <2>3, <3>1, <3>2
  <2>6. ASSUME ~tagsElsewhere PROVE TagsAgree'
    <3>1. freshTags' \subseteq {storedTags'}
          BY <2>1, <2>6 DEF TagsInv, TagsAgree
    <3>2. ASSUME tagSaves' = <<>>, tagStatus' # "error" PROVE shownTags' = storedTags'
      <4>1. tagOutcome = "ok"
            BY <2>1, <3>2
      <4>2. storedTags = tagSaves[1]
            BY <2>6, <4>1 DEF TagsInv, TagsAgree
      <4>3. Len(tagSaves) = 1
            BY <2>3, <3>2
      <4> QED BY <2>1, <2>2, <4>2, <4>3
    <3> QED BY <2>1, <3>1, <3>2 DEF TagsAgree
  <2> QED BY <2>1, <2>4, <2>5, <2>6 DEF TagsInv
<1>7. CASE RenderTags
  <2>1. /\ tagSaves = <<>> /\ freshTags' = {}
        /\ tagsElsewhere' = (tagsElsewhere /\ shownTags' # storedTags)
        /\ UNCHANGED <<storedTags, adding, tagStatus, tagSaves, tagOutcome>>
        BY <1>7 DEF RenderTags
  <2>2. PICK list \in freshTags :
          /\ initialTags' = list
          /\ shownTags' = IF list # initialTags /\ ~adding THEN list ELSE shownTags
        BY <1>7 DEF RenderTags
  <2>3. list \in Lists
        BY <1>0, <2>2 DEF TagsTypeOK
  <2>4. TagsTypeOK'
    <3>1. tagsElsewhere' \in BOOLEAN
          BY <2>1
    <3> QED BY <1>0, <2>1, <2>2, <2>3, <3>1 DEF TagsTypeOK
  <2>5. tagOutcome = "none"
        BY <2>1 DEF TagsInv, TagsTypeOK
  <2>6. ASSUME ~tagsElsewhere' PROVE TagsAgree'
    <3>1. CASE tagsElsewhere
      <4>1. shownTags' = storedTags
            BY <2>1, <2>6, <3>1
      <4> QED BY <2>1, <2>5, <4>1 DEF TagsAgree
    <3>2. CASE ~tagsElsewhere
      <4>1. list = storedTags
            BY <2>2, <2>5, <3>2 DEF TagsInv, TagsAgree
      <4>2. tagStatus # "error" => shownTags = storedTags
            BY <2>1, <3>2 DEF TagsInv, TagsAgree
      <4> QED BY <2>1, <2>2, <2>5, <4>1, <4>2 DEF TagsAgree
    <3> QED BY <3>1, <3>2
  <2> QED BY <2>1, <2>4, <2>5, <2>6 DEF TagsInv
<1>8. ASSUME NEW list \in Lists, OtherPageSaves(list) PROVE TagsInv'
      BY <1>8 DEF TagsInv, TagsTypeOK, OtherPageSaves
<1> QED BY <1>1, <1>2, <1>3, <1>4, <1>5, <1>6, <1>7, <1>8 DEF TagsNext

(* With nothing pending and no error, the tags shown are the stored ones,  *)
(* unless another page wrote (TagsEditor.tsx, saveProductTags).            *)
THEOREM TagsStored == TagsSpec => []ShownTagsAreStored
<1>1. TagsInv => ShownTagsAreStored
      BY DEF TagsInv, TagsAgree, ShownTagsAreStored
<1> QED BY <1>1, InitTags, StepTags, PTL DEF TagsSpec

-----------------------------------------------------------------------------
(* Notes.  Until an edit crosses a save or another page writes, the cell's *)
(* ref holds the stored note, except between the erasure of all notes and  *)
(* the render of its answer; what is saved last is what the cell shows;    *)
(* and an erasure runs alone.                                              *)

Calm == ~crossed /\ ~noteElsewhere
Unrendered ==
  noteCalls = <<>> /\ note = Blank /\ freshNote = {Blank} /\ initialNote # Blank /\ ~editing

PropsFollow ==
  /\ noteOutcome # "ok" =>
       /\ freshNote # {} => freshNote = {note}
       /\ freshNote = {} => initialNote = note
       /\ lastSaved = note \/ Unrendered
  /\ noteOutcome = "ok" => note = IF noteCalls[1] = Erase THEN Blank ELSE noteCalls[1]

EraseIsAlone ==
  Erasing => noteCalls = <<Erase>> /\ ~editing /\ freshNote = {} /\ lastSaved = initialNote

CellIsSaved ==
  ~editing =>
    /\ noteCalls # <<>> /\ ~Erasing => noteCalls[Len(noteCalls)] = typed
    /\ (noteCalls = <<>> \/ Erasing) /\ noteStatus # "error" => typed = lastSaved

NoteAgrees == PropsFollow /\ EraseIsAlone /\ CellIsSaved

NotesInv ==
  /\ NotesTypeOK
  /\ noteOutcome # "none" => noteCalls # <<>>
  /\ debounce => editing
  /\ Calm => NoteAgrees

NoteCall == Text \cup {Erase}

LEMMA InitNotes == NotesInit => NotesInv
<1> SUFFICES ASSUME NotesInit PROVE NotesInv
    OBVIOUS
<1>1. noteCalls = <<>> /\ noteCalls \in Seq(Text \cup {Erase}) /\ Len(noteCalls) = 0
      BY DEF NotesInit
<1>2. Len(noteCalls) <= MaxNoteCalls
      BY <1>1, NotesAssumption
<1>3. NotesTypeOK
      BY <1>1, <1>2 DEF NotesInit, NotesTypeOK
<1>4. ~Erasing
      BY <1>1 DEF Erasing
<1>5. NoteAgrees
      BY <1>1, <1>4 DEF NotesInit, NoteAgrees, PropsFollow, EraseIsAlone, CellIsSaved
<1> QED BY <1>3, <1>5 DEF NotesInit, NotesInv

(* What a call at the end of the queue changes.                            *)
LEMMA NoteSent ==
  ASSUME NotesInv, NEW call \in NoteCall, Len(noteCalls) < MaxNoteCalls,
         noteCalls' = Append(noteCalls, call)
  PROVE  /\ noteCalls' \in Seq(NoteCall) /\ Len(noteCalls') <= MaxNoteCalls
         /\ noteCalls' # <<>> /\ noteCalls'[Len(noteCalls')] = call
         /\ noteCalls # <<>> => noteCalls'[1] = noteCalls[1]
         /\ Erasing' <=> (Erasing \/ call = Erase)
         /\ noteCalls = <<>> => noteCalls' = <<call>>
<1>1. noteCalls \in Seq(NoteCall)
      BY DEF NotesInv, NotesTypeOK, NoteCall
<1>2. /\ noteCalls' \in Seq(NoteCall) /\ noteCalls' # <<>>
      /\ Len(noteCalls') = Len(noteCalls) + 1
      /\ DOMAIN noteCalls' = 1..(Len(noteCalls) + 1)
      /\ \A i \in DOMAIN noteCalls' :
           noteCalls'[i] = IF i = Len(noteCalls) + 1 THEN call ELSE noteCalls[i]
      BY <1>1, Appended
<1>3. Len(noteCalls) \in Nat /\ DOMAIN noteCalls = 1..Len(noteCalls)
      BY <1>1
<1>4. Len(noteCalls') <= MaxNoteCalls
      BY <1>2, <1>3, NotesAssumption
<1>5. noteCalls'[Len(noteCalls')] = call
      BY <1>2, <1>3
<1>6. noteCalls # <<>> => noteCalls'[1] = noteCalls[1]
  <2> SUFFICES ASSUME noteCalls # <<>> PROVE noteCalls'[1] = noteCalls[1]
      OBVIOUS
  <2>1. Len(noteCalls) # 0
        BY <1>1
  <2> QED BY <1>2, <1>3, <2>1
<1>7. Erasing' <=> (Erasing \/ call = Erase)
  <2>1. \A i \in DOMAIN noteCalls : i \in DOMAIN noteCalls' /\ noteCalls'[i] = noteCalls[i]
        BY <1>2, <1>3
  <2>2. Len(noteCalls) + 1 \in DOMAIN noteCalls' /\ noteCalls'[Len(noteCalls) + 1] = call
        BY <1>2, <1>3
  <2>3. \A i \in DOMAIN noteCalls' : i = Len(noteCalls) + 1 \/ i \in DOMAIN noteCalls
        BY <1>2, <1>3
  <2> QED BY <2>1, <2>2, <2>3 DEF Erasing
<1>8. noteCalls = <<>> => noteCalls' = <<call>>
      OBVIOUS
<1> QED BY <1>2, <1>4, <1>5, <1>6, <1>7, <1>8

(* Typing pauses, or the field is left.                                    *)
LEMMA PersistNoteKeeps ==
  ASSUME NotesInv, DebounceFires \/ LeaveField
  PROVE  NotesInv'
<1>1. /\ NotesTypeOK /\ editing /\ debounce' = FALSE /\ PersistNote
      /\ UNCHANGED <<note, typed, lastSaved, initialNote, freshNote, noteOutcome, noteElsewhere>>
      BY DEF NotesInv, DebounceFires, LeaveField
<1>2. editing' \in BOOLEAN
      BY <1>1 DEF DebounceFires, LeaveField, NotesTypeOK
<1>3. typed \in NoteCall /\ typed # Erase
      BY <1>1, NotesAssumption DEF NotesTypeOK, NoteCall
<1>4. CASE typed = lastSaved
  <2>1. /\ noteStatus' = "idle" /\ UNCHANGED noteCalls
        /\ crossed' = (crossed \/ noteCalls # <<>>)
        BY <1>1, <1>4 DEF PersistNote
  <2>2. NotesTypeOK'
        BY <1>1, <1>2, <2>1 DEF NotesTypeOK
  <2>3. ASSUME Calm' PROVE NoteAgrees'
    <3>1. noteCalls = <<>> /\ NoteAgrees
          BY <1>1, <2>1, <2>3 DEF Calm, NotesInv
    <3>2. ~Erasing /\ ~Erasing'
          BY <2>1, <3>1 DEF Erasing
    <3>3. noteOutcome # "ok"
          BY <3>1 DEF NotesInv
    <3>4. ~Unrendered
          BY <1>1 DEF Unrendered
    <3>5. PropsFollow'
          BY <1>1, <3>1, <3>3, <3>4 DEF NoteAgrees, PropsFollow
    <3>6. CellIsSaved'
          BY <1>1, <1>4, <2>1, <3>1 DEF CellIsSaved
    <3> QED BY <3>2, <3>5, <3>6 DEF NoteAgrees, EraseIsAlone
  <2> QED BY <1>1, <2>1, <2>2, <2>3 DEF NotesInv
<1>5. CASE typed # lastSaved
  <2>1. /\ Len(noteCalls) < MaxNoteCalls /\ noteCalls' = Append(noteCalls, typed)
        /\ noteStatus' = "saving" /\ UNCHANGED crossed
        BY <1>1, <1>5 DEF PersistNote
  <2>2. /\ noteCalls' \in Seq(NoteCall) /\ Len(noteCalls') <= MaxNoteCalls
        /\ noteCalls' # <<>> /\ noteCalls'[Len(noteCalls')] = typed
        /\ noteCalls # <<>> => noteCalls'[1] = noteCalls[1]
        /\ Erasing' <=> Erasing
        BY <1>3, <2>1, NoteSent
  <2>3. NotesTypeOK'
        BY <1>1, <1>2, <2>1, <2>2 DEF NotesTypeOK, NoteCall
  <2>4. ASSUME Calm' PROVE NoteAgrees'
    <3>1. NoteAgrees
          BY <1>1, <2>1, <2>4 DEF Calm, NotesInv
    <3>2. ~Erasing /\ ~Erasing'
          BY <1>1, <2>2, <3>1 DEF NoteAgrees, EraseIsAlone
    <3>3. ~Unrendered
          BY <1>1 DEF Unrendered
    <3>4. noteOutcome = "ok" => noteCalls'[1] = noteCalls[1]
          BY <2>2 DEF NotesInv
    <3>5. PropsFollow'
          BY <1>1, <3>1, <3>3, <3>4 DEF NoteAgrees, PropsFollow
    <3>6. CellIsSaved'
          BY <1>1, <2>2, <3>2 DEF CellIsSaved
    <3> QED BY <3>2, <3>5, <3>6 DEF NoteAgrees, EraseIsAlone
  <2> QED BY <1>1, <2>2, <2>3, <2>4 DEF NotesInv
<1> QED BY <1>4, <1>5

(* The button that erases all notes is pressed.                            *)
LEMMA EraseNotesKeeps ==
  ASSUME NotesInv, EraseNotes
  PROVE  NotesInv'
<1>1. /\ NotesTypeOK /\ ~editing /\ Len(noteCalls) < MaxNoteCalls
      /\ noteCalls' = Append(noteCalls, Erase)
      /\ crossed' = (crossed \/ noteCalls # <<>> \/ freshNote # {})
      /\ UNCHANGED <<note, typed, editing, noteStatus, lastSaved, debounce, initialNote,
                     freshNote, noteOutcome, noteElsewhere>>
      BY DEF NotesInv, EraseNotes, cell
<1>2. /\ noteCalls' \in Seq(NoteCall) /\ Len(noteCalls') <= MaxNoteCalls
      /\ noteCalls' # <<>> /\ Erasing' /\ (noteCalls = <<>> => noteCalls' = <<Erase>>)
      BY <1>1, NoteSent DEF NoteCall
<1>3. NotesTypeOK'
      BY <1>1, <1>2 DEF NotesTypeOK, NoteCall
<1>4. ASSUME Calm' PROVE NoteAgrees'
  <2>1. noteCalls = <<>> /\ freshNote = {} /\ NoteAgrees
        BY <1>1, <1>4 DEF Calm, NotesInv
  <2>2. noteOutcome = "none" /\ initialNote = note /\ lastSaved = note
        BY <1>1, <2>1 DEF NotesInv, NotesTypeOK, NoteAgrees, PropsFollow, Unrendered
  <2>3. PropsFollow'
        BY <1>1, <2>1, <2>2 DEF PropsFollow
  <2>4. EraseIsAlone'
        BY <1>1, <1>2, <2>1, <2>2 DEF EraseIsAlone
  <2>5. CellIsSaved'
        BY <1>1, <1>2, <2>1 DEF NoteAgrees, CellIsSaved
  <2> QED BY <2>3, <2>4, <2>5 DEF NoteAgrees
<1> QED BY <1>1, <1>2, <1>3, <1>4 DEF NotesInv

(* A call is answered.                                                     *)
LEMMA NoteAnsweredKeeps ==
  ASSUME NotesInv, NoteAnswered
  PROVE  NotesInv'
<1>1. /\ NotesTypeOK /\ noteOutcome # "none" /\ noteCalls # <<>>
      /\ noteCalls \in Seq(NoteCall)
      BY DEF NotesInv, NoteAnswered, NotesTypeOK, NoteCall
<1>2. /\ Head(noteCalls) = noteCalls[1] /\ noteCalls[1] \in NoteCall /\ 1 \in DOMAIN noteCalls
      /\ Tail(noteCalls) \in Seq(NoteCall)
      /\ Len(Tail(noteCalls)) = Len(noteCalls) - 1
      /\ DOMAIN Tail(noteCalls) = 1..(Len(noteCalls) - 1)
      /\ \A i \in DOMAIN Tail(noteCalls) :
           i + 1 \in DOMAIN noteCalls /\ Tail(noteCalls)[i] = noteCalls[i + 1]
      /\ Len(noteCalls) \in Nat \ {0}
      BY <1>1, Tailed
<1>3. /\ noteCalls' = Tail(noteCalls) /\ noteOutcome' = "none"
      /\ lastSaved' = IF noteCalls[1] # Erase /\ noteOutcome = "ok" THEN noteCalls[1]
                      ELSE lastSaved
      /\ freshNote' = IF noteOutcome = "ok" THEN {note} ELSE freshNote
      /\ UNCHANGED <<note, typed, editing, debounce, initialNote, crossed, noteElsewhere>>
      BY <1>2 DEF NoteAnswered, SavedRef
<1>4. /\ noteCalls[1] = Erase => noteStatus' = noteStatus
      /\ noteCalls[1] # Erase /\ noteOutcome = "ok" => noteStatus' = "saved"
      /\ noteCalls[1] # Erase /\ noteOutcome # "ok" => noteStatus' = "error"
      BY <1>2, Zenon DEF NoteAnswered
<1>5. noteStatus' \in {"idle", "saving", "saved", "error"}
      BY <1>1, <1>4 DEF NotesTypeOK
<1>6. NotesTypeOK'
  <2>1. Len(noteCalls') <= MaxNoteCalls
        BY <1>1, <1>2, <1>3, NotesAssumption DEF NotesTypeOK
  <2>2. lastSaved' \in Text
        BY <1>1, <1>2, <1>3 DEF NotesTypeOK, NoteCall
  <2>3. freshNote' \subseteq Text
        BY <1>1, <1>3 DEF NotesTypeOK
  <2> QED BY <1>1, <1>2, <1>3, <1>5, <2>1, <2>2, <2>3 DEF NotesTypeOK, NoteCall
<1>7. ASSUME Calm' PROVE NoteAgrees'
  <2>1. NoteAgrees
        BY <1>3, <1>7 DEF Calm, NotesInv
  <2>2. Erasing => noteCalls' = <<>> /\ noteCalls[1] = Erase
    <3> SUFFICES ASSUME Erasing PROVE noteCalls' = <<>> /\ noteCalls[1] = Erase
        OBVIOUS
    <3>1. noteCalls = <<Erase>>
          BY <2>1 DEF NoteAgrees, EraseIsAlone
    <3> QED BY <1>3, <3>1
  <2>3. noteCalls[1] = Erase => Erasing
        BY <1>2 DEF Erasing
  <2>4. Erasing' => Erasing
        BY <1>2, <1>3 DEF Erasing
  <2>5. ~Erasing'
        BY <2>2, <2>4 DEF Erasing
  <2>6. ~Unrendered
        BY <1>1 DEF Unrendered
  <2>7. noteOutcome # "ok" => lastSaved = note
        BY <2>1, <2>6 DEF NoteAgrees, PropsFollow
  <2>8. PropsFollow'
    <3>1. CASE noteOutcome = "ok" /\ noteCalls[1] # Erase
          BY <1>3, <2>1, <3>1 DEF NoteAgrees, PropsFollow
    <3>2. CASE noteOutcome = "ok" /\ noteCalls[1] = Erase
      <4>1. note = Blank /\ ~editing /\ lastSaved = initialNote /\ noteCalls' = <<>>
            BY <2>1, <2>2, <2>3, <3>2 DEF NoteAgrees, PropsFollow, EraseIsAlone
      <4>2. lastSaved' = lastSaved /\ freshNote' = {note}
            BY <1>3, <3>2
      <4>3. lastSaved' = note' \/ Unrendered'
            BY <1>3, <4>1, <4>2 DEF Unrendered
      <4> QED BY <1>3, <4>2, <4>3 DEF PropsFollow
    <3>3. CASE noteOutcome # "ok"
          BY <1>3, <2>1, <2>7, <3>3 DEF NoteAgrees, PropsFollow
    <3> QED BY <3>1, <3>2, <3>3
  <2>9. ASSUME ~editing, noteCalls' # <<>> PROVE noteCalls'[Len(noteCalls')] = typed'
    <3>1. noteCalls[Len(noteCalls)] = typed
          BY <1>1, <2>1, <2>2, <2>9 DEF NoteAgrees, CellIsSaved
    <3>2. Len(noteCalls') # 0
          BY <1>2, <1>3, <2>9
    <3>3. Len(noteCalls') \in DOMAIN Tail(noteCalls) /\ Len(noteCalls') + 1 = Len(noteCalls)
          BY <1>2, <1>3, <3>2
    <3> QED BY <1>2, <1>3, <3>1, <3>3
  <2>10. ASSUME ~editing, noteCalls' = <<>>, noteStatus' # "error" PROVE typed' = lastSaved'
    <3>1. CASE noteCalls[1] = Erase
          BY <1>3, <1>4, <2>1, <2>3, <2>10, <3>1 DEF NoteAgrees, CellIsSaved
    <3>2. CASE noteCalls[1] # Erase
      <4>1. noteOutcome = "ok" /\ lastSaved' = noteCalls[1]
            BY <1>3, <1>4, <2>10, <3>2
      <4>5. Len(noteCalls') = 0
            BY <2>10
      <4>2. Len(noteCalls) = 1
            BY <1>2, <1>3, <4>5
      <4>3. ~Erasing
            BY <2>2, <3>2
      <4>4. noteCalls[1] = typed
            BY <1>1, <2>1, <2>10, <4>2, <4>3 DEF NoteAgrees, CellIsSaved
      <4> QED BY <1>3, <4>1, <4>4
    <3> QED BY <3>1, <3>2
  <2>11. CellIsSaved'
        BY <1>3, <2>5, <2>9, <2>10 DEF CellIsSaved
  <2> QED BY <2>5, <2>8, <2>11 DEF NoteAgrees, EraseIsAlone
<1> QED BY <1>3, <1>6, <1>7 DEF NotesInv

LEMMA StepNotes == NotesInv /\ [NotesNext]_noteVars => NotesInv'
<1> SUFFICES ASSUME NotesInv, [NotesNext]_noteVars PROVE NotesInv'
    OBVIOUS
<1>0. NotesTypeOK
      BY DEF NotesInv
<1>1. CASE UNCHANGED noteVars
      BY <1>1 DEF NotesInv, NotesTypeOK, Calm, NoteAgrees, PropsFollow, EraseIsAlone,
                  CellIsSaved, Unrendered, Erasing, noteVars, cell
<1>2. CASE Edit
  <2>1. /\ editing' /\ crossed' = (crossed \/ Erasing \/ freshNote # {})
        /\ UNCHANGED <<note, typed, noteStatus, lastSaved, debounce, initialNote, freshNote,
                       noteCalls, noteOutcome, noteElsewhere>>
        BY <1>2 DEF Edit
  <2>2. NotesTypeOK'
        BY <1>0, <1>2 DEF Edit, NotesTypeOK
  <2>3. ASSUME Calm' PROVE NoteAgrees'
    <3>1. NoteAgrees /\ ~Erasing /\ freshNote = {}
          BY <2>1, <2>3 DEF Calm, NotesInv
    <3>2. ~Unrendered /\ ~Erasing'
          BY <2>1, <3>1 DEF Unrendered, Erasing
    <3>3. PropsFollow'
          BY <2>1, <3>1, <3>2 DEF NoteAgrees, PropsFollow
    <3> QED BY <2>1, <3>2, <3>3 DEF NoteAgrees, EraseIsAlone, CellIsSaved
  <2> QED BY <2>1, <2>2, <2>3 DEF NotesInv
<1>3. ASSUME NEW text \in Text, Type(text) PROVE NotesInv'
  <2>1. /\ editing /\ typed' = text /\ debounce'
        /\ UNCHANGED <<note, editing, noteStatus, lastSaved, initialNote, freshNote,
                       noteCalls, noteOutcome, crossed, noteElsewhere>>
        BY <1>3 DEF Type
  <2>2. NotesTypeOK'
        BY <1>0, <1>3 DEF Type, NotesTypeOK
  <2>3. ASSUME Calm' PROVE NoteAgrees'
    <3>1. NoteAgrees
          BY <2>1, <2>3 DEF Calm, NotesInv
    <3>2. ~Unrendered /\ ~Erasing /\ ~Erasing'
          BY <2>1, <3>1 DEF Unrendered, Erasing, NoteAgrees, EraseIsAlone
    <3>3. PropsFollow'
          BY <2>1, <3>1, <3>2 DEF NoteAgrees, PropsFollow
    <3> QED BY <2>1, <3>2, <3>3 DEF NoteAgrees, EraseIsAlone, CellIsSaved
  <2> QED BY <2>1, <2>2, <2>3 DEF NotesInv
<1>4. CASE DebounceFires \/ LeaveField
      BY <1>4, PersistNoteKeeps
<1>5. CASE Escape
  <2>1. /\ typed' = lastSaved /\ editing' = FALSE /\ debounce' = FALSE
        /\ editing /\ crossed' = (crossed \/ noteCalls # <<>>)
        /\ UNCHANGED <<note, noteStatus, lastSaved, initialNote, freshNote, noteCalls,
                       noteOutcome, noteElsewhere>>
        BY <1>5 DEF Escape
  <2>2. NotesTypeOK'
        BY <1>0, <1>5 DEF Escape, NotesTypeOK
  <2>3. ASSUME Calm' PROVE NoteAgrees'
    <3>1. NoteAgrees /\ noteCalls = <<>>
          BY <2>1, <2>3 DEF Calm, NotesInv
    <3>2. ~Unrendered /\ ~Erasing'
          BY <2>1, <3>1 DEF Unrendered, Erasing
    <3>3. noteOutcome # "ok"
          BY <3>1 DEF NotesInv
    <3>4. PropsFollow'
          BY <2>1, <3>1, <3>2, <3>3 DEF NoteAgrees, PropsFollow
    <3> QED BY <2>1, <3>1, <3>2, <3>4 DEF NoteAgrees, EraseIsAlone, CellIsSaved
  <2> QED BY <2>1, <2>2, <2>3 DEF NotesInv
<1>6. CASE EraseNotes
      BY <1>6, EraseNotesKeeps
<1>7. CASE RunNoteCall
  <2>1. /\ noteCalls # <<>> /\ noteOutcome = "none"
        /\ UNCHANGED <<typed, editing, noteStatus, lastSaved, debounce, initialNote, freshNote,
                       noteCalls, crossed, noteElsewhere>>
        BY <1>7 DEF RunNoteCall, cell
  <2>2. Head(noteCalls) = noteCalls[1] /\ noteCalls[1] \in NoteCall
        BY <1>0, <2>1, Tailed DEF NotesTypeOK, NoteCall
  <2>3. ~Unrendered
        BY <2>1 DEF Unrendered
  <2>4. CASE noteOutcome' = "ok" /\ note' = IF Head(noteCalls) = Erase THEN Blank ELSE Head(noteCalls)
    <3>1. note' \in Text
          BY <2>2, <2>4, NotesAssumption DEF NoteCall
    <3>2. NotesTypeOK'
          BY <1>0, <2>1, <2>4, <3>1 DEF NotesTypeOK
    <3>3. ASSUME Calm' PROVE NoteAgrees'
      <4>1. NoteAgrees
            BY <2>1, <3>3 DEF Calm, NotesInv
      <4>2. PropsFollow'
            BY <2>1, <2>2, <2>4 DEF PropsFollow
      <4> QED BY <2>1, <4>1, <4>2 DEF NoteAgrees, EraseIsAlone, CellIsSaved, Erasing
    <3> QED BY <2>1, <3>2, <3>3 DEF NotesInv
  <2>5. CASE noteOutcome' = "failed" /\ UNCHANGED note
    <3>1. NotesTypeOK'
          BY <1>0, <2>1, <2>5 DEF NotesTypeOK
    <3>2. ASSUME Calm' PROVE NoteAgrees'
      <4>1. NoteAgrees
            BY <2>1, <3>2 DEF Calm, NotesInv
      <4>2. PropsFollow'
            BY <2>1, <2>3, <2>5, <4>1 DEF NoteAgrees, PropsFollow
      <4> QED BY <2>1, <4>1, <4>2 DEF NoteAgrees, EraseIsAlone, CellIsSaved, Erasing
    <3> QED BY <2>1, <3>1, <3>2 DEF NotesInv
  <2> QED BY <1>7, <2>4, <2>5 DEF RunNoteCall
<1>8. CASE NoteAnswered
      BY <1>8, NoteAnsweredKeeps
<1>9. CASE SavedFades
  <2>1. /\ noteStatus = "saved" /\ noteStatus' = "idle"
        /\ UNCHANGED <<note, typed, editing, lastSaved, debounce, initialNote, freshNote,
                       noteCalls, noteOutcome, crossed, noteElsewhere>>
        BY <1>9 DEF SavedFades
  <2> QED BY <1>0, <2>1 DEF NotesInv, NotesTypeOK, Calm, NoteAgrees, PropsFollow, EraseIsAlone,
                            CellIsSaved, Unrendered, Erasing
<1>10. CASE RenderNote
  <2>1. /\ noteCalls = <<>> /\ freshNote' = {}
        /\ UNCHANGED <<note, editing, noteStatus, debounce, noteCalls, noteOutcome, crossed,
                       noteElsewhere>>
        BY <1>10 DEF RenderNote
  <2>2. PICK text \in freshNote :
          /\ initialNote' = text
          /\ IF text # initialNote /\ ~editing
             THEN typed' = text /\ lastSaved' = text
             ELSE UNCHANGED <<typed, lastSaved>>
        BY <1>10 DEF RenderNote
  <2>3. text \in Text
        BY <1>0, <2>2 DEF NotesTypeOK
  <2>4. NotesTypeOK'
        BY <1>0, <2>1, <2>2, <2>3 DEF NotesTypeOK
  <2>5. ASSUME Calm' PROVE NoteAgrees'
    <3>1. NoteAgrees /\ noteOutcome # "ok"
          BY <2>1, <2>5 DEF Calm, NotesInv
    <3>2. text = note /\ freshNote = {note} /\ (lastSaved = note \/ Unrendered)
          BY <2>2, <3>1 DEF NoteAgrees, PropsFollow
    <3>3. lastSaved' = note
          BY <2>2, <3>2 DEF Unrendered
    <3>4. PropsFollow'
          BY <2>1, <2>2, <3>1, <3>2, <3>3 DEF PropsFollow
    <3>5. ~Erasing /\ ~Erasing'
          BY <2>1 DEF Erasing
    <3>6. CellIsSaved'
          BY <2>1, <2>2, <3>1 DEF NoteAgrees, CellIsSaved
    <3> QED BY <3>4, <3>5, <3>6 DEF NoteAgrees, EraseIsAlone
  <2> QED BY <2>1, <2>4, <2>5 DEF NotesInv
<1>11. ASSUME NEW text \in Text, OtherPageWrites(text) PROVE NotesInv'
  <2>1. NotesTypeOK' /\ ~Calm'
        BY <1>0, <1>11 DEF OtherPageWrites, NotesTypeOK, Calm, cell
  <2> QED BY <1>11, <2>1 DEF NotesInv, OtherPageWrites, cell
<1>12. CASE ReloadNotes
  <2>1. /\ noteCalls = <<>> /\ noteCalls' = <<>>
        /\ typed' = note /\ lastSaved' = note /\ initialNote' = note /\ freshNote' = {}
        /\ debounce' = FALSE /\ UNCHANGED <<note, noteOutcome>>
        BY <1>12 DEF ReloadNotes
  <2>2. NotesTypeOK'
        BY <1>0, <1>12 DEF ReloadNotes, NotesTypeOK
  <2>3. noteOutcome # "ok" /\ ~Erasing'
        BY <2>1 DEF NotesInv, Erasing
  <2>4. NoteAgrees'
        BY <2>1, <2>3 DEF NoteAgrees, PropsFollow, EraseIsAlone, CellIsSaved
  <2> QED BY <2>1, <2>2, <2>4 DEF NotesInv
<1> QED BY <1>1, <1>2, <1>3, <1>4, <1>5, <1>6, <1>7, <1>8, <1>9, <1>10, <1>11, <1>12 DEF NotesNext

(* A closed cell with nothing pending shows the stored note, unless an     *)
(* edit crossed a save or another page wrote (NotesCell.tsx).              *)
THEOREM NoteStored == NotesSpec => []ShownNoteIsStored
<1>1. NotesInv => ShownNoteIsStored
      BY DEF NotesInv, Calm, NoteAgrees, PropsFollow, CellIsSaved, Unrendered, ShownNoteIsStored
<1> QED BY <1>1, InitNotes, StepNotes, PTL DEF NotesSpec

-----------------------------------------------------------------------------
(* Events.  A call stands until it has taken effect.  An event with        *)
(* standing calls is there and is shown as the last of them leaves it; any *)
(* other is shown as it is stored, once it is shown at all: unless a call  *)
(* failed or another page wrote.                                           *)

EventCall == [op : {"create", "update", "delete"}, id : Event \cup {Gone},
              detail : Detail \cup {Gone}]

Standing == {i \in DOMAIN eventCalls : eventOutcome \in Event => i > 1}
On(e) == {i \in Standing : eventCalls[i].id = e}
Created == eventOutcome \in Event /\ eventCalls[1].op = "create"
Healthy == ~unmended /\ ~eventsElsewhere /\ eventOutcome # "failed"

EventsTypes ==
  /\ EventsTypeOK /\ eventCalls \in Seq(EventCall)
  /\ eventOutcome # "none" => eventCalls # <<>>

CallsFit ==
  /\ \A i \in DOMAIN eventCalls :
       /\ eventCalls[i].op = "create" <=> eventCalls[i].id = Gone
       /\ eventCalls[i].op = "delete" <=> eventCalls[i].detail = Gone
       /\ eventCalls[i].op = "delete" => shownEvents[eventCalls[i].id] = Gone
  /\ \A i, j \in DOMAIN eventCalls :
       i < j /\ eventCalls[i].op = "delete" => eventCalls[i].id # eventCalls[j].id

OutcomeFits ==
  /\ eventOutcome \in Event /\ ~Created => eventCalls[1].id = eventOutcome
  /\ Created => /\ shownEvents[eventOutcome] = Gone
                /\ \A i \in DOMAIN eventCalls : eventCalls[i].id # eventOutcome

PropsAreStored ==
  ~eventsElsewhere /\ eventOutcome \notin Event => freshEvents \subseteq {storedEvents}

EventAgrees(e) ==
  /\ \A i \in On(e) :
       /\ storedEvents[e] # Gone
       /\ (\A j \in On(e) : j <= i) => shownEvents[e] = eventCalls[i].detail
  /\ On(e) = {} =>
       IF Created /\ e = eventOutcome THEN storedEvents[e] = eventCalls[1].detail
       ELSE shownEvents[e] = storedEvents[e]

EventsInv ==
  /\ EventsTypes /\ CallsFit /\ OutcomeFits /\ PropsAreStored
  /\ Healthy => \A e \in Event : EventAgrees(e)

LEMMA InitEvents == EventsInit => EventsInv
<1> SUFFICES ASSUME EventsInit PROVE EventsInv
    OBVIOUS
<1>1. eventCalls = <<>> /\ eventCalls \in Seq(EventCall) /\ Len(eventCalls) = 0
      /\ DOMAIN eventCalls = {}
      BY DEF EventsInit
<1>2. Len(eventCalls) <= MaxEventCalls /\ eventOutcome = "none" /\ "none" \notin Event
      BY <1>1, EventsAssumption DEF EventsInit
<1>3. EventsTypes
      BY <1>1, <1>2 DEF EventsInit, EventsTypes, EventsTypeOK
<1>4. CallsFit /\ OutcomeFits /\ PropsAreStored
      BY <1>1, <1>2 DEF EventsInit, CallsFit, OutcomeFits, PropsAreStored, Created
<1>5. \A e \in Event : EventAgrees(e)
      BY <1>1, <1>2 DEF EventsInit, EventAgrees, On, Standing, Created
<1> QED BY <1>3, <1>4, <1>5 DEF EventsInv

(* What a call at the end of the queue changes.                            *)
LEMMA EventSent ==
  ASSUME EventsInv, NEW op \in {"create", "update", "delete"}, NEW id \in Event \cup {Gone},
         NEW d \in Detail \cup {Gone}, CallServer(op, id, d), UNCHANGED ServerSide
  PROVE  /\ eventCalls' \in Seq(EventCall) /\ eventCalls' # <<>>
         /\ Len(eventCalls') <= MaxEventCalls
         /\ Len(eventCalls) \in Nat /\ DOMAIN eventCalls = 1..Len(eventCalls)
         /\ DOMAIN eventCalls' = 1..(Len(eventCalls) + 1)
         /\ \A i \in DOMAIN eventCalls : eventCalls'[i] = eventCalls[i]
         /\ eventCalls'[Len(eventCalls) + 1].op = op
         /\ eventCalls'[Len(eventCalls) + 1].id = id
         /\ eventCalls'[Len(eventCalls) + 1].detail = d
         /\ eventOutcome \in Event => 1 \in DOMAIN eventCalls
         /\ Created' = Created
         /\ \A e \in Event : On(e)' = On(e) \cup (IF e = id THEN {Len(eventCalls) + 1} ELSE {})
<1> DEFINE call == [op |-> op, id |-> id, detail |-> d]
           n == Len(eventCalls)
<1>1. call \in EventCall
      BY DEF EventCall
<1>2. /\ eventCalls \in Seq(EventCall) /\ n < MaxEventCalls /\ eventCalls' = Append(eventCalls, call)
      /\ eventOutcome' = eventOutcome
      BY DEF EventsInv, EventsTypes, CallServer, ServerSide
<1>3. call.op = op /\ call.id = id /\ call.detail = d
      OBVIOUS
<1> HIDE DEF call
<1>4. /\ eventCalls' \in Seq(EventCall) /\ eventCalls' # <<>>
      /\ Len(eventCalls') = n + 1 /\ DOMAIN eventCalls' = 1..(n + 1)
      /\ \A i \in DOMAIN eventCalls' :
           eventCalls'[i] = IF i = n + 1 THEN call ELSE eventCalls[i]
      BY <1>1, <1>2, Appended
<1>5. n \in Nat /\ DOMAIN eventCalls = 1..n
      BY <1>2
<1>6. Len(eventCalls') <= MaxEventCalls
      BY <1>2, <1>4, <1>5, EventsAssumption
<1>7. \A i \in DOMAIN eventCalls : eventCalls'[i] = eventCalls[i]
      BY <1>4, <1>5
<1>8. eventCalls'[n + 1] = call
      BY <1>4, <1>5
<1>9. ASSUME eventOutcome \in Event PROVE 1 \in DOMAIN eventCalls
  <2>1. eventCalls # <<>>
        BY <1>9, EventsAssumption DEF EventsInv, EventsTypes
  <2> QED BY <1>2, <2>1, Tailed
<1>10. Created' = Created
      BY <1>2, <1>7, <1>9 DEF Created
<1>11. Standing' = Standing \cup {n + 1}
  <2>1. \A i \in DOMAIN eventCalls' : i \in DOMAIN eventCalls \/ i = n + 1
        BY <1>4, <1>5
  <2>2. \A i \in DOMAIN eventCalls : i \in DOMAIN eventCalls'
        BY <1>4, <1>5
  <2>3. n + 1 \in DOMAIN eventCalls'
        BY <1>4, <1>5
  <2>4. eventOutcome \in Event => n + 1 > 1
        BY <1>5, <1>9
  <2> QED BY <1>2, <2>1, <2>2, <2>3, <2>4 DEF Standing
<1>12. \A e \in Event : On(e)' = On(e) \cup (IF e = id THEN {n + 1} ELSE {})
      BY <1>3, <1>7, <1>8, <1>11 DEF On, Standing
<1> QED BY <1>3, <1>4, <1>5, <1>6, <1>7, <1>8, <1>9, <1>10, <1>12

(* The page makes a call.  Every call but a creation is on an event that   *)
(* is shown, and shows its effect.                                         *)
LEMMA PageCallKeeps ==
  ASSUME EventsInv, NEW op \in {"create", "update", "delete"}, NEW id \in Event \cup {Gone},
         NEW d \in Detail \cup {Gone}, CallServer(op, id, d), UNCHANGED ServerSide,
         op = "create" <=> id = Gone, op = "delete" <=> d = Gone,
         id = Gone => shownEvents' = shownEvents,
         id # Gone => shownEvents[id] # Gone /\ shownEvents' = [shownEvents EXCEPT ![id] = d]
  PROVE  EventsInv'
<1> DEFINE n == Len(eventCalls)
<1>0. /\ EventsTypes /\ EventsTypeOK /\ CallsFit /\ OutcomeFits /\ PropsAreStored
      /\ shownEvents \in Calendar /\ Gone \notin Event
      BY EventsAssumption DEF EventsInv, EventsTypes, EventsTypeOK
<1>1. /\ eventCalls' \in Seq(EventCall) /\ eventCalls' # <<>>
      /\ Len(eventCalls') <= MaxEventCalls
      /\ n \in Nat /\ DOMAIN eventCalls = 1..n /\ DOMAIN eventCalls' = 1..(n + 1)
      /\ \A i \in DOMAIN eventCalls : eventCalls'[i] = eventCalls[i]
      /\ eventCalls'[n + 1].op = op /\ eventCalls'[n + 1].id = id
      /\ eventCalls'[n + 1].detail = d
      /\ eventOutcome \in Event => 1 \in DOMAIN eventCalls
      /\ Created' = Created
      /\ \A e \in Event : On(e)' = On(e) \cup (IF e = id THEN {n + 1} ELSE {})
      BY EventSent
<1> HIDE DEF n
<1>2. UNCHANGED <<storedEvents, initialEvents, freshEvents, eventOutcome, unmended, eventsElsewhere>>
      BY DEF ServerSide
<1>3. /\ shownEvents' \in Calendar
      /\ \A e \in Event : e # id => shownEvents'[e] = shownEvents[e]
      /\ id # Gone => id \in Event /\ shownEvents'[id] = d /\ shownEvents[id] # Gone
      BY <1>0 DEF Calendar
<1>4. EventsTypes'
      BY <1>0, <1>1, <1>2, <1>3 DEF EventsTypes, EventsTypeOK
<1>5. \A i \in DOMAIN eventCalls' : i \in DOMAIN eventCalls \/ i = n + 1
      BY <1>1
<1>6. ASSUME NEW i \in DOMAIN eventCalls, eventCalls[i].op = "delete" PROVE eventCalls[i].id # id
  <2>1. shownEvents[eventCalls[i].id] = Gone
        BY <1>0, <1>6 DEF CallsFit
  <2>2. eventCalls[i].id # Gone
        BY <1>0, <1>6 DEF CallsFit
  <2> QED BY <1>3, <2>1, <2>2
<1>7. CallsFit'
  <2>1. ASSUME NEW i \in DOMAIN eventCalls'
        PROVE  /\ eventCalls'[i].op = "create" <=> eventCalls'[i].id = Gone
               /\ eventCalls'[i].op = "delete" <=> eventCalls'[i].detail = Gone
               /\ eventCalls'[i].op = "delete" => shownEvents'[eventCalls'[i].id] = Gone
    <3>1. CASE i = n + 1
          BY <1>1, <1>3, <3>1
    <3>2. CASE i \in DOMAIN eventCalls
      <4>1. eventCalls'[i] = eventCalls[i] /\ eventCalls[i] \in EventCall
            BY <1>0, <1>1, <3>2 DEF EventsTypes
      <4>2. eventCalls[i].id \in Event \cup {Gone}
            BY <4>1 DEF EventCall
      <4> QED BY <1>0, <1>3, <1>6, <3>2, <4>1, <4>2 DEF CallsFit
    <3> QED BY <1>5, <3>1, <3>2
  <2>2. ASSUME NEW i \in DOMAIN eventCalls', NEW j \in DOMAIN eventCalls',
               i < j, eventCalls'[i].op = "delete"
        PROVE  eventCalls'[i].id # eventCalls'[j].id
    <3>1. i \in DOMAIN eventCalls
          BY <1>1, <2>2
    <3>2. CASE j = n + 1
          BY <1>1, <1>6, <2>2, <3>1, <3>2
    <3>3. CASE j \in DOMAIN eventCalls
          BY <1>0, <1>1, <2>2, <3>1, <3>3 DEF CallsFit
    <3> QED BY <1>5, <3>2, <3>3
  <2> QED BY <2>1, <2>2 DEF CallsFit
<1>8. OutcomeFits'
  <2>1. eventOutcome \in Event => eventCalls'[1] = eventCalls[1]
        BY <1>1
  <2>2. ASSUME Created
        PROVE  /\ shownEvents'[eventOutcome] = Gone
               /\ \A i \in DOMAIN eventCalls' : eventCalls'[i].id # eventOutcome
    <3>1. /\ eventOutcome \in Event /\ shownEvents[eventOutcome] = Gone
          /\ \A i \in DOMAIN eventCalls : eventCalls[i].id # eventOutcome
          BY <1>0, <2>2 DEF OutcomeFits, Created
    <3>2. id # eventOutcome
          BY <1>0, <1>3, <3>1
    <3> QED BY <1>1, <1>3, <1>5, <3>1, <3>2
  <2> QED BY <1>0, <1>1, <1>2, <2>1, <2>2 DEF OutcomeFits
<1>9. PropsAreStored'
      BY <1>0, <1>2 DEF PropsAreStored
<1>10. ASSUME Healthy', NEW e \in Event PROVE EventAgrees(e)'
  <2>1. EventAgrees(e)
        BY <1>2, <1>10 DEF Healthy, EventsInv
  <2>2. On(e) \subseteq DOMAIN eventCalls
        BY DEF On, Standing
  <2>3. \A i \in On(e) : eventCalls'[i] = eventCalls[i] /\ i < n + 1 /\ i # n + 1
        BY <1>1, <2>2
  <2>4. CASE e = id
    <3>1. On(e)' = On(e) \cup {n + 1}
          BY <1>1, <2>4
    <3>2. storedEvents[e] # Gone
      <4>1. CASE On(e) # {}
            BY <2>1, <4>1 DEF EventAgrees
      <4>2. CASE On(e) = {}
        <5>1. ~(Created /\ e = eventOutcome)
              BY <1>0, <1>3, <2>4 DEF OutcomeFits
        <5> QED BY <1>0, <1>3, <2>1, <2>4, <4>2, <5>1 DEF EventAgrees
      <4> QED BY <4>1, <4>2
    <3>3. ASSUME NEW i \in On(e)', \A j \in On(e)' : j <= i
          PROVE  shownEvents'[e] = eventCalls'[i].detail
      <4>1. n + 1 <= i
            BY <3>1, <3>3
      <4>2. i = n + 1
            BY <1>1, <2>2, <3>1, <4>1
      <4> QED BY <1>0, <1>1, <1>3, <2>4, <4>2
    <3> QED BY <1>2, <3>1, <3>2, <3>3 DEF EventAgrees
  <2>5. CASE e # id
    <3>1. On(e)' = On(e) /\ shownEvents'[e] = shownEvents[e]
          BY ZenonT(60), <1>1, <1>3, <2>5
    <3>2. Created => eventCalls'[1] = eventCalls[1]
          BY <1>1 DEF Created
    <3> QED BY <1>1, <1>2, <2>1, <2>3, <3>1, <3>2 DEF EventAgrees
  <2> QED BY <2>4, <2>5
<1> QED BY <1>4, <1>7, <1>8, <1>9, <1>10 DEF EventsInv

(* The first call takes effect, or fails.                                  *)
LEMMA RunEventKeeps ==
  ASSUME EventsInv, RunEventCall
  PROVE  EventsInv'
<1>0. /\ EventsTypes /\ EventsTypeOK /\ CallsFit /\ OutcomeFits /\ PropsAreStored
      /\ storedEvents \in Calendar /\ Gone \notin Event /\ Gone \notin Detail
      /\ "none" \notin Event /\ "failed" \notin Event
      BY EventsAssumption DEF EventsInv, EventsTypes, EventsTypeOK
<1>1. /\ eventCalls # <<>> /\ eventOutcome = "none"
      /\ UNCHANGED <<shownEvents, initialEvents, freshEvents, eventCalls, unmended, eventsElsewhere>>
      BY DEF RunEventCall
<1>2. /\ Head(eventCalls) = eventCalls[1] /\ 1 \in DOMAIN eventCalls /\ eventCalls[1] \in EventCall
      /\ Len(eventCalls) \in Nat \ {0} /\ DOMAIN eventCalls = 1..Len(eventCalls)
      BY <1>0, <1>1, Tailed DEF EventsTypes
<1>3. eventCalls[1].id \in Event \cup {Gone} /\ eventCalls[1].detail \in Detail \cup {Gone}
      BY <1>2 DEF EventCall
<1>4. CallsFit'
      BY <1>0, <1>1 DEF CallsFit
<1>5. ~Created /\ Standing = DOMAIN eventCalls
      BY <1>0, <1>1 DEF Created, Standing
<1>6. CASE eventOutcome' = "failed" /\ UNCHANGED storedEvents
  <2>1. EventsTypes'
        BY <1>0, <1>1, <1>6 DEF EventsTypes, EventsTypeOK
  <2>2. OutcomeFits' /\ PropsAreStored' /\ ~Healthy'
        BY <1>0, <1>1, <1>6 DEF OutcomeFits, PropsAreStored, Healthy, Created
  <2> QED BY <1>4, <2>1, <2>2 DEF EventsInv
<1>7. ASSUME eventCalls[1].op = "create", NEW e \in Event \ Used,
             storedEvents' = [storedEvents EXCEPT ![e] = eventCalls[1].detail],
             eventOutcome' = e
      PROVE  EventsInv'
  <2>1. storedEvents' \in Calendar
        BY <1>0, <1>3, <1>7 DEF Calendar
  <2>2. EventsTypes'
        BY <1>0, <1>1, <1>7, <2>1 DEF EventsTypes, EventsTypeOK
  <2>3. /\ shownEvents[e] = Gone /\ \A i \in DOMAIN eventCalls : eventCalls[i].id # e
        BY <1>7 DEF Used
  <2>4. Created' /\ eventCalls[1].id = Gone
        BY <1>0, <1>1, <1>2, <1>7 DEF Created, CallsFit
  <2>5. OutcomeFits' /\ PropsAreStored'
        BY <1>1, <1>7, <2>3, <2>4 DEF OutcomeFits, PropsAreStored
  <2>6. ASSUME Healthy', NEW x \in Event PROVE EventAgrees(x)'
    <3>1. EventAgrees(x)
          BY <1>0, <1>1, <2>6 DEF Healthy, EventsInv
    <3>2. On(x)' = On(x)
      <4>1. 1 \notin On(x)
            BY <1>0, <2>4 DEF On
      <4>2. \A i \in DOMAIN eventCalls : i # 1 => i > 1
            BY <1>2
      <4> QED BY <1>1, <1>5, <1>7, <4>1, <4>2 DEF On, Standing
    <3>3. CASE x = e
      <4>1. On(x) = {}
            BY <2>3, <3>3 DEF On, Standing
      <4>2. storedEvents'[x] = eventCalls[1].detail
            BY <1>0, <1>7, <3>3 DEF Calendar
      <4> QED BY <1>1, <1>7, <2>4, <3>2, <3>3, <4>1, <4>2 DEF EventAgrees
    <3>4. CASE x # e
      <4>1. storedEvents'[x] = storedEvents[x]
            BY <1>0, <1>7, <3>4 DEF Calendar
      <4> QED BY <1>1, <1>5, <1>7, <3>1, <3>2, <3>4, <4>1 DEF EventAgrees
    <3> QED BY <3>3, <3>4
  <2> QED BY <1>4, <2>2, <2>5, <2>6 DEF EventsInv
<1>8. ASSUME eventCalls[1].op # "create",
             storedEvents' = [storedEvents EXCEPT ![eventCalls[1].id] =
                                IF @ = Gone THEN Gone ELSE eventCalls[1].detail],
             eventOutcome' = eventCalls[1].id
      PROVE  EventsInv'
  <2> DEFINE e == eventCalls[1].id
  <2>1. e \in Event
        BY <1>0, <1>2, <1>3, <1>8 DEF CallsFit
  <2>2. /\ storedEvents' \in Calendar
        /\ storedEvents[e] # Gone => storedEvents'[e] = eventCalls[1].detail
        /\ \A x \in Event : x # e => storedEvents'[x] = storedEvents[x]
        BY <1>0, <1>3, <1>8, <2>1 DEF Calendar
  <2> HIDE DEF e
  <2>3. eventOutcome' = e /\ eventCalls[1].id = e
        BY <1>8 DEF e
  <2>4. EventsTypes'
        BY <1>0, <1>1, <2>1, <2>2, <2>3 DEF EventsTypes, EventsTypeOK
  <2>5. ~Created'
        BY <1>1, <1>8 DEF Created
  <2>6. OutcomeFits' /\ PropsAreStored'
        BY <1>1, <2>1, <2>3, <2>5 DEF OutcomeFits, PropsAreStored
  <2>7. ASSUME Healthy', NEW x \in Event PROVE EventAgrees(x)'
    <3>1. EventAgrees(x)
          BY <1>0, <1>1, <2>7 DEF Healthy, EventsInv
    <3>2. On(x)' = On(x) \ {1}
      <4>1. \A i \in DOMAIN eventCalls : i > 1 <=> i # 1
            BY <1>2
      <4> QED BY <1>1, <1>5, <2>1, <2>3, <4>1 DEF On, Standing
    <3>3. \A i \in On(x) : i \in DOMAIN eventCalls /\ i \in Nat /\ i >= 1
          BY <1>2 DEF On, Standing
    <3>4. CASE x = e
      <4>1. 1 \in On(x)
            BY <1>2, <1>5, <2>3, <3>4 DEF On
      <4>2. storedEvents'[x] = eventCalls[1].detail
            BY <2>2, <3>1, <3>4, <4>1 DEF EventAgrees
      <4>3. ASSUME NEW i \in On(x) \ {1} PROVE storedEvents'[x] # Gone
        <5>1. eventCalls[i].id = eventCalls[1].id /\ i > 1 /\ i \in DOMAIN eventCalls
              BY <2>3, <3>3, <3>4, <4>3 DEF On
        <5>2. eventCalls[1].op # "delete"
              BY <1>0, <1>2, <5>1 DEF CallsFit
        <5> QED BY <1>0, <1>2, <4>2, <5>2 DEF CallsFit
      <4>4. ASSUME NEW i \in On(x) \ {1}, \A j \in On(x) \ {1} : j <= i
            PROVE  shownEvents[x] = eventCalls[i].detail
        <5>1. \A j \in On(x) : j <= i
              BY <3>3, <4>4
        <5> QED BY <3>1, <5>1 DEF EventAgrees
      <4>5. ASSUME On(x) \ {1} = {} PROVE shownEvents[x] = storedEvents'[x]
        <5>1. \A j \in On(x) : j <= 1
              BY <4>5
        <5> QED BY <3>1, <4>1, <4>2, <5>1 DEF EventAgrees
      <4> QED BY <1>1, <2>5, <3>2, <4>3, <4>4, <4>5 DEF EventAgrees
    <3>5. CASE x # e
      <4>1. On(x) \ {1} = On(x)
            BY <2>3, <3>5 DEF On
      <4>2. storedEvents'[x] = storedEvents[x]
            BY <2>2, <3>5
      <4> QED BY <1>1, <1>5, <2>5, <3>1, <3>2, <4>1, <4>2 DEF EventAgrees
    <3> QED BY <3>4, <3>5
  <2> QED BY <1>4, <2>4, <2>6, <2>7 DEF EventsInv
<1> QED BY <1>2, <1>6, <1>7, <1>8 DEF RunEventCall

(* A call is answered: the next one is under way.                          *)
LEMMA EventAnsweredKeeps ==
  ASSUME EventsInv, EventAnswered
  PROVE  EventsInv'
<1> DEFINE n == Len(eventCalls)
<1>0. /\ EventsTypes /\ EventsTypeOK /\ CallsFit /\ OutcomeFits /\ PropsAreStored
      /\ shownEvents \in Calendar /\ Gone \notin Event
      /\ "none" \notin Event /\ "failed" \notin Event
      BY EventsAssumption DEF EventsInv, EventsTypes, EventsTypeOK
<1>1. /\ eventOutcome # "none" /\ eventOutcome' = "none" /\ eventCalls # <<>>
      /\ eventCalls' = Tail(eventCalls)
      /\ UNCHANGED <<storedEvents, initialEvents, eventsElsewhere>>
      BY <1>0 DEF EventAnswered, EventsTypes
<1>2. /\ eventCalls' \in Seq(EventCall) /\ Len(eventCalls') = n - 1
      /\ DOMAIN eventCalls' = 1..(n - 1)
      /\ \A i \in DOMAIN eventCalls' :
           i + 1 \in DOMAIN eventCalls /\ eventCalls'[i] = eventCalls[i + 1]
      /\ Head(eventCalls) = eventCalls[1] /\ 1 \in DOMAIN eventCalls
      /\ eventCalls[1] \in EventCall
      /\ n \in Nat \ {0} /\ DOMAIN eventCalls = 1..n
      BY <1>0, <1>1, Tailed DEF EventsTypes
<1>3. Len(eventCalls') <= MaxEventCalls
      BY <1>0, <1>2, EventsAssumption DEF EventsTypeOK
<1> HIDE DEF n
<1>4. eventCalls[1].detail \in Detail \cup {Gone}
      BY <1>2 DEF EventCall
<1>5. /\ shownEvents' \in Calendar
      /\ \A e \in Event : ~(Created /\ e = eventOutcome) => shownEvents'[e] = shownEvents[e]
      /\ Created => shownEvents'[eventOutcome] = eventCalls[1].detail
  <2>1. CASE eventOutcome = "failed"
        BY <1>0, <2>1 DEF EventAnswered, Created
  <2>2. CASE eventOutcome # "failed"
    <3>1. eventOutcome \in Event
          BY <1>0, <1>1, <2>2 DEF EventsTypeOK
    <3>2. Created <=> eventCalls[1].op = "create"
          BY <3>1 DEF Created
    <3>3. shownEvents' = IF Created THEN [shownEvents EXCEPT ![eventOutcome] = eventCalls[1].detail]
                         ELSE shownEvents
          BY <1>2, <2>2, <3>2 DEF EventAnswered
    <3> QED BY <1>0, <1>4, <3>1, <3>3 DEF Calendar
  <2> QED BY <2>1, <2>2
<1>6. /\ eventOutcome = "failed" => unmended' = TRUE /\ UNCHANGED freshEvents
      /\ eventOutcome # "failed" => freshEvents' = {storedEvents} /\ UNCHANGED unmended
      BY DEF EventAnswered
<1>7. EventsTypes'
  <2>1. freshEvents' \subseteq Calendar /\ unmended' \in BOOLEAN
        BY <1>0, <1>6 DEF EventsTypeOK
  <2> QED BY <1>0, <1>1, <1>2, <1>3, <1>5, <2>1 DEF EventsTypes, EventsTypeOK
<1>8. \A i \in DOMAIN eventCalls' : i \in Nat /\ i + 1 \in Nat /\ i + 1 > 1
      BY <1>2
<1>9. CallsFit'
  <2>1. ASSUME NEW i \in DOMAIN eventCalls'
        PROVE  /\ eventCalls'[i].op = "create" <=> eventCalls'[i].id = Gone
               /\ eventCalls'[i].op = "delete" <=> eventCalls'[i].detail = Gone
               /\ eventCalls'[i].op = "delete" => shownEvents'[eventCalls'[i].id] = Gone
    <3>1. /\ i + 1 \in DOMAIN eventCalls /\ eventCalls'[i] = eventCalls[i + 1]
          /\ eventCalls[i + 1] \in EventCall
          BY <1>0, <1>2 DEF EventsTypes
    <3>2. ASSUME eventCalls[i + 1].op = "delete" PROVE shownEvents'[eventCalls[i + 1].id] = Gone
      <4>1. eventCalls[i + 1].id \in Event /\ shownEvents[eventCalls[i + 1].id] = Gone
            BY <1>0, <3>1, <3>2 DEF CallsFit, EventCall
      <4>2. Created => eventCalls[i + 1].id # eventOutcome
            BY <1>0, <3>1 DEF OutcomeFits
      <4> QED BY <1>5, <4>1, <4>2
    <3> QED BY <1>0, <3>1, <3>2 DEF CallsFit
  <2>2. ASSUME NEW i \in DOMAIN eventCalls', NEW j \in DOMAIN eventCalls',
               i < j, eventCalls'[i].op = "delete"
        PROVE  eventCalls'[i].id # eventCalls'[j].id
    <3>1. i + 1 < j + 1
          BY <1>8, <2>2
    <3> QED BY <1>0, <1>2, <2>2, <3>1 DEF CallsFit
  <2> QED BY <2>1, <2>2 DEF CallsFit
<1>10. OutcomeFits' /\ ~Created'
       BY <1>0, <1>1 DEF OutcomeFits, Created
<1>11. PropsAreStored'
       BY <1>0, <1>1, <1>6 DEF PropsAreStored
<1>12. ASSUME Healthy', NEW e \in Event PROVE EventAgrees(e)'
  <2>1. eventOutcome # "failed" /\ Healthy /\ eventOutcome \in Event
        BY <1>0, <1>1, <1>6, <1>12 DEF Healthy, EventsTypeOK
  <2>2. EventAgrees(e)
        BY <2>1 DEF EventsInv
  <2>3. \A i \in On(e)' : i \in Nat /\ i + 1 \in On(e) /\ eventCalls'[i] = eventCalls[i + 1]
        BY <1>2, <1>8, <2>1 DEF On, Standing
  <2>4. ASSUME NEW k \in On(e) PROVE k \in Nat /\ k - 1 \in On(e)'
    <3>1. k \in DOMAIN eventCalls /\ k > 1 /\ eventCalls[k].id = e
          BY <2>1 DEF On, Standing
    <3>2. k - 1 \in DOMAIN eventCalls' /\ (k - 1) + 1 = k /\ k \in Nat
          BY <1>2, <3>1
    <3>3. eventCalls'[k - 1] = eventCalls[k]
          BY <1>2, <3>2
    <3> QED BY <1>0, <1>1, <3>1, <3>2, <3>3 DEF On, Standing
  <2>5. ASSUME NEW i \in On(e)'
        PROVE  /\ storedEvents'[e] # Gone
               /\ (\A j \in On(e)' : j <= i) => shownEvents'[e] = eventCalls'[i].detail
    <3>1. storedEvents[e] # Gone
          BY <2>2, <2>3 DEF EventAgrees
    <3>2. ~(Created /\ e = eventOutcome)
      <4>1. i + 1 \in DOMAIN eventCalls /\ eventCalls[i + 1].id = e
            BY <2>3 DEF On, Standing
      <4> QED BY <1>0, <4>1 DEF OutcomeFits
    <3>3. ASSUME \A j \in On(e)' : j <= i PROVE shownEvents[e] = eventCalls[i + 1].detail
      <4>1. \A k \in On(e) : k <= i + 1
            BY <2>3, <2>4, <3>3
      <4> QED BY <2>2, <2>3, <4>1 DEF EventAgrees
    <3> QED BY <1>1, <1>5, <2>3, <3>1, <3>2, <3>3
  <2>6. ASSUME On(e)' = {} PROVE shownEvents'[e] = storedEvents'[e]
    <3>1. On(e) = {}
          BY <2>4, <2>6
    <3> QED BY <1>1, <1>5, <2>2, <3>1 DEF EventAgrees
  <2> QED BY <1>10, <2>5, <2>6 DEF EventAgrees
<1> QED BY <1>7, <1>9, <1>10, <1>11, <1>12 DEF EventsInv

LEMMA StepEvents == EventsInv /\ [EventsNext]_eventVars => EventsInv'
<1> SUFFICES ASSUME EventsInv, [EventsNext]_eventVars PROVE EventsInv'
    OBVIOUS
<1>0. /\ EventsTypes /\ EventsTypeOK /\ CallsFit /\ OutcomeFits /\ PropsAreStored
      /\ shownEvents \in Calendar /\ storedEvents \in Calendar
      /\ Gone \notin Event /\ Gone \notin Detail /\ "none" \notin Event
      BY EventsAssumption DEF EventsInv, EventsTypes, EventsTypeOK
<1>1. CASE UNCHANGED eventVars
      BY <1>1 DEF EventsInv, EventsTypes, EventsTypeOK, CallsFit, OutcomeFits, PropsAreStored,
                  Created, Healthy, EventAgrees, On, Standing, eventVars
<1>2. ASSUME NEW d \in Detail, CreateEvent(d) PROVE EventsInv'
      BY <1>0, <1>2, PageCallKeeps DEF CreateEvent
<1>3. ASSUME NEW e \in Event, NEW d \in Detail, ChangeEvent(e, d) PROVE EventsInv'
      BY <1>0, <1>3, PageCallKeeps DEF ChangeEvent
<1>4. ASSUME NEW e \in Event, DeleteEvent(e) PROVE EventsInv'
      BY <1>0, <1>4, PageCallKeeps DEF DeleteEvent
<1>5. CASE RunEventCall
      BY <1>5, RunEventKeeps
<1>6. CASE EventAnswered
      BY <1>6, EventAnsweredKeeps
<1>7. CASE RenderEvents
  <2>1. /\ eventCalls = <<>> /\ freshEvents' = {} /\ UNCHANGED <<storedEvents, eventCalls, eventOutcome>>
        BY <1>7 DEF RenderEvents
  <2>2. PICK list \in freshEvents :
          /\ initialEvents' = list
          /\ shownEvents' = IF OtherList(list) THEN list ELSE shownEvents
          /\ unmended' = (unmended /\ list = initialEvents)
          /\ eventsElsewhere' = (eventsElsewhere /\ (list = initialEvents \/ list # storedEvents))
        BY <1>7 DEF RenderEvents
  <2>3. list \in Calendar /\ eventOutcome = "none" /\ DOMAIN eventCalls = {}
        BY <1>0, <2>1, <2>2 DEF EventsTypes, EventsTypeOK
  <2>4. EventsTypes'
    <3>1. unmended' \in BOOLEAN /\ eventsElsewhere' \in BOOLEAN
          BY <2>2
    <3>2. shownEvents' \in Calendar
          BY <1>0, <2>2, <2>3
    <3> QED BY <1>0, <2>1, <2>2, <2>3, <3>1, <3>2 DEF EventsTypes, EventsTypeOK
  <2>5. CallsFit' /\ OutcomeFits' /\ PropsAreStored'
        BY <1>0, <2>1, <2>3 DEF CallsFit, OutcomeFits, PropsAreStored, Created
  <2>6. ASSUME Healthy' PROVE shownEvents' = storedEvents
    <3>1. CASE list # initialEvents
      <4>1. ~eventsElsewhere \/ list = storedEvents
            BY <2>2, <2>6, <3>1 DEF Healthy
      <4>2. list = storedEvents
            BY <1>0, <2>2, <2>3, <4>1 DEF PropsAreStored
      <4> QED BY <2>2, <3>1, <4>2 DEF OtherList
    <3>2. CASE list = initialEvents
      <4>1. Healthy
            BY <2>1, <2>2, <2>6, <3>2 DEF Healthy
      <4>2. \A e \in Event : shownEvents[e] = storedEvents[e]
        <5>1. \A e \in Event : EventAgrees(e) /\ On(e) = {}
              BY <2>3, <4>1 DEF EventsInv, On, Standing
        <5>2. ~Created
              BY <1>0, <2>3 DEF Created
        <5> QED BY <5>1, <5>2 DEF EventAgrees
      <4> QED BY <1>0, <2>2, <3>2, <4>2 DEF OtherList, Calendar
    <3> QED BY <3>1, <3>2
  <2>7. ASSUME Healthy', NEW e \in Event PROVE EventAgrees(e)'
    <3>1. On(e)' = {} /\ ~Created'
          BY <1>0, <2>1, <2>3 DEF On, Standing, Created
    <3> QED BY <2>1, <2>6, <2>7, <3>1 DEF EventAgrees
  <2> QED BY <2>4, <2>5, <2>7 DEF EventsInv
<1>8. ASSUME NEW e \in Event, NEW d \in Detail \cup {Gone}, OtherPageEdits(e, d) PROVE EventsInv'
  <2>1. /\ storedEvents' = [storedEvents EXCEPT ![e] = d] /\ eventsElsewhere' = TRUE
        /\ UNCHANGED <<shownEvents, initialEvents, freshEvents, eventCalls, eventOutcome, unmended>>
        BY <1>8 DEF OtherPageEdits
  <2>2. storedEvents' \in Calendar
        BY <1>0, <2>1 DEF Calendar
  <2>3. EventsTypes'
        BY <1>0, <2>1, <2>2 DEF EventsTypes, EventsTypeOK
  <2>4. CallsFit' /\ OutcomeFits' /\ PropsAreStored' /\ ~Healthy'
        BY <1>0, <2>1 DEF CallsFit, OutcomeFits, PropsAreStored, Created, Healthy
  <2> QED BY <2>3, <2>4 DEF EventsInv
<1> QED BY <1>1, <1>2, <1>3, <1>4, <1>5, <1>6, <1>7, <1>8 DEF EventsNext

(* With nothing pending the events shown are the stored ones, whatever the *)
(* order of what is shown at once and what is shown late: unless a call    *)
(* failed or another page wrote since (EventsEditor.tsx, skus/actions.ts). *)
THEOREM EventsStored == EventsSpec => []ShownEventsAreStored
<1>1. EventsInv => ShownEventsAreStored
  <2> SUFFICES ASSUME EventsInv, eventCalls = <<>>, ~unmended, ~eventsElsewhere
               PROVE  shownEvents = storedEvents
      BY DEF ShownEventsAreStored
  <2>1. eventOutcome = "none" /\ DOMAIN eventCalls = {} /\ "none" \notin Event
        BY EventsAssumption DEF EventsInv, EventsTypes
  <2>2. \A e \in Event : EventAgrees(e) /\ On(e) = {} /\ ~Created
        BY <2>1 DEF EventsInv, Healthy, On, Standing, Created
  <2>3. \A e \in Event : shownEvents[e] = storedEvents[e]
        BY <2>2 DEF EventAgrees
  <2> QED BY <2>3 DEF EventsInv, EventsTypes, EventsTypeOK, Calendar
<1> QED BY <1>1, InitEvents, StepEvents, PTL DEF EventsSpec

-----------------------------------------------------------------------------
(* Manual entry.  An article that has not lapsed has one request at most;  *)
(* if it has a row, the request is the row's, it stores what it says once  *)
(* accepted, and the row shows the stored stock until it is.               *)

Entry == [by : {"none", "row", "form", "bulk"}, amounts : Amounts \cup {NoAmounts},
          at : {"free", "sent", "late", "accepted", "error"}]

Holds(a) == {s \in Submission : a \in DOMAIN sent[s].amounts}

ArticleFits(a) ==
  /\ \A s, t \in Holds(a) : s = t
  /\ a \in DOMAIN listedItems =>
       /\ \A s \in Holds(a) :
            /\ sent[s].by = "row" /\ sent[s].at # "late"
            /\ sent[s].at = "accepted" => keptStock[a] = sent[s].amounts[a]
       /\ (\A s \in Holds(a) : sent[s].at # "accepted") => listedItems[a] = keptStock[a]

ManualTypes ==
  /\ keptStock \in Amounts /\ listedItems \in Amounts
  /\ DOMAIN listedItems \subseteq DOMAIN keptStock
  /\ sent \in [Submission -> Entry]
  /\ \A s \in Submission : sent[s].at = "free" => sent[s].amounts = NoAmounts

ManualInv == ManualTypes /\ \A a \in Article \ lapsed : ArticleFits(a)

(* Amounts are given of some articles, and may be changed and added to.    *)
LEMMA AmountsAre ==
  /\ \A f \in Amounts : f \in [DOMAIN f -> Stock] /\ DOMAIN f \subseteq Article /\ DOMAIN f # {}
  /\ \A S \in SUBSET Article : S # {} => [S -> Stock] \subseteq Amounts
  /\ DOMAIN NoAmounts = {}
<1>1. DOMAIN NoAmounts = {}
      BY DEF NoAmounts
<1>2. ASSUME NEW f \in Amounts
      PROVE  f \in [DOMAIN f -> Stock] /\ DOMAIN f \subseteq Article /\ DOMAIN f # {}
  <2>1. PICK S \in (SUBSET Article) \ {{}} : f \in [S -> Stock]
        BY <1>2 DEF Amounts
  <2>2. DOMAIN f = S
        BY <2>1
  <2> QED BY <2>1, <2>2
<1>3. ASSUME NEW S \in SUBSET Article, S # {} PROVE [S -> Stock] \subseteq Amounts
      BY <1>3 DEF Amounts
<1> QED BY <1>1, <1>2, <1>3

LEMMA Stored ==
  ASSUME NEW f \in Amounts, NEW g, NEW D \in SUBSET Article, g \in [D -> Stock]
  PROVE  LET h == [a \in DOMAIN f \cup DOMAIN g |-> IF a \in DOMAIN g THEN g[a] ELSE f[a]]
         IN  h \in Amounts /\ DOMAIN f \subseteq DOMAIN h
<1> DEFINE h == [a \in DOMAIN f \cup DOMAIN g |-> IF a \in DOMAIN g THEN g[a] ELSE f[a]]
<1>1. f \in [DOMAIN f -> Stock] /\ DOMAIN f \subseteq Article /\ DOMAIN f # {}
      BY AmountsAre
<1>2. DOMAIN g = D /\ DOMAIN h = DOMAIN f \cup D
      OBVIOUS
<1>3. h \in [DOMAIN f \cup D -> Stock]
      BY <1>1, <1>2
<1>4. DOMAIN f \cup D \in SUBSET Article /\ DOMAIN f \cup D # {}
      BY <1>1
<1>5. [DOMAIN f \cup D -> Stock] \subseteq Amounts
      BY <1>4, AmountsAre
<1> QED BY <1>2, <1>3, <1>5

LEMMA InitManual == ManualInit => ManualInv
<1> SUFFICES ASSUME ManualInit PROVE ManualInv
    OBVIOUS
<1>1. \A s \in Submission : sent[s] = NoSubmission
      BY DEF ManualInit
<1>2. NoSubmission \in Entry /\ NoSubmission.amounts = NoAmounts
      BY DEF NoSubmission, Entry
<1>3. ManualTypes
      BY <1>1, <1>2 DEF ManualInit, ManualTypes
<1>4. \A a \in Article : Holds(a) = {}
      BY <1>1, <1>2, AmountsAre DEF Holds
<1>5. \A a \in Article : ArticleFits(a)
      BY <1>4 DEF ManualInit, ArticleFits
<1> QED BY <1>3, <1>5 DEF ManualInv

(* One request changes: what it does to the articles' requests.            *)
LEMMA RequestChanges ==
  ASSUME sent \in [Submission -> Entry], NEW s \in Submission, NEW r \in Entry,
         sent' = [sent EXCEPT ![s] = r], NEW a \in Article
  PROVE  /\ sent' \in [Submission -> Entry] /\ sent'[s] = r
         /\ \A t \in Submission : t # s => sent'[t] = sent[t]
         /\ s \in Holds(a) <=> a \in DOMAIN sent[s].amounts
         /\ s \in Holds(a)' <=> a \in DOMAIN r.amounts
         /\ \A t \in Submission : t # s => (t \in Holds(a)' <=> t \in Holds(a))
<1>1. /\ sent' \in [Submission -> Entry] /\ sent'[s] = r
      /\ \A t \in Submission : t # s => sent'[t] = sent[t]
      OBVIOUS
<1> QED BY <1>1 DEF Holds

(* An article the request is not on keeps fitting.                         *)
LEMMA OthersFit ==
  ASSUME sent \in [Submission -> Entry], NEW s \in Submission, NEW r \in Entry,
         sent' = [sent EXCEPT ![s] = r], NEW a \in Article,
         a \notin DOMAIN sent[s].amounts, a \notin DOMAIN r.amounts,
         DOMAIN listedItems' = DOMAIN listedItems,
         a \in DOMAIN listedItems => listedItems'[a] = listedItems[a] /\ keptStock'[a] = keptStock[a],
         ArticleFits(a)
  PROVE  ArticleFits(a)'
<1>1. /\ \A t \in Submission : t # s => sent'[t] = sent[t]
      /\ s \notin Holds(a) /\ s \notin Holds(a)'
      /\ \A t \in Submission : t # s => (t \in Holds(a)' <=> t \in Holds(a))
      BY RequestChanges
<1>2. Holds(a) \subseteq Submission /\ Holds(a)' \subseteq Submission
      BY DEF Holds
<1>3. Holds(a)' = Holds(a)
      BY <1>1, <1>2
<1>4. \A t \in Holds(a) : sent'[t] = sent[t]
      BY <1>1, <1>2
<1> QED BY <1>3, <1>4 DEF ArticleFits

(* The page sends a request: whatever overlaps has lapsed.                 *)
LEMMA SendingKeeps ==
  ASSUME ManualInv, NEW s \in Submission, NEW by \in {"row", "form", "bulk"},
         NEW amounts \in Amounts, SendAmounts(s, by, amounts),
         UNCHANGED <<keptStock, listedItems>>
  PROVE  ManualInv'
<1> DEFINE r == [by |-> by, amounts |-> amounts, at |-> "sent"]
<1>1. r \in Entry /\ r.by = by /\ r.amounts = amounts /\ r.at = "sent"
      BY DEF Entry
<1> HIDE DEF r
<1>2. /\ sent[s].at = "free" /\ sent' = [sent EXCEPT ![s] = r]
      /\ lapsed \subseteq lapsed'
      /\ DOMAIN amounts \cap PendingArticles \subseteq lapsed'
      /\ by # "row" => DOMAIN amounts \cap DOMAIN listedItems \subseteq lapsed'
      BY DEF SendAmounts, r
<1>3. ManualTypes /\ sent \in [Submission -> Entry] /\ DOMAIN sent[s].amounts = {}
      BY <1>2, AmountsAre DEF ManualInv, ManualTypes
<1>4. ManualTypes'
      BY <1>1, <1>2, <1>3 DEF ManualTypes
<1>5. ASSUME NEW a \in Article \ lapsed' PROVE ArticleFits(a)'
  <2>1. ArticleFits(a)
        BY <1>2 DEF ManualInv
  <2>2. CASE a \notin DOMAIN amounts
        BY <1>1, <1>2, <1>3, <2>1, <2>2, OthersFit
  <2>3. CASE a \in DOMAIN amounts
    <3>1. Holds(a) = {}
          BY <1>2, <2>3 DEF Holds, PendingArticles
    <3>2. /\ sent'[s] = r
          /\ \A t \in Submission : t # s => (t \in Holds(a)' <=> t \in Holds(a))
          BY <1>1, <1>2, <1>3, RequestChanges
    <3>3. Holds(a)' \subseteq Submission
          BY DEF Holds
    <3>4. Holds(a)' \subseteq {s}
          BY <3>1, <3>2, <3>3
    <3>5. a \in DOMAIN listedItems => by = "row" /\ listedItems[a] = keptStock[a]
          BY <1>2, <2>1, <2>3, <3>1 DEF ArticleFits
    <3> QED BY <1>1, <3>2, <3>4, <3>5 DEF ArticleFits
  <2> QED BY <2>2, <2>3
<1> QED BY <1>4, <1>5 DEF ManualInv

(* A request is answered.                                                  *)
LEMMA ManualAnsweredKeeps ==
  ASSUME ManualInv, NEW s \in Submission, ManualAnswered(s)
  PROVE  ManualInv'
<1>1. /\ sent[s].at \in {"accepted", "error"}
      /\ listedItems' = ListAfter(sent[s])
      /\ sent' = [sent EXCEPT ![s] = NoSubmission]
      /\ UNCHANGED <<keptStock, lapsed>>
      BY DEF ManualAnswered
<1>2. ManualTypes /\ sent \in [Submission -> Entry] /\ sent[s] \in Entry
      BY DEF ManualInv, ManualTypes
<1>3. NoSubmission \in Entry /\ NoSubmission.amounts = NoAmounts /\ DOMAIN NoAmounts = {}
      BY AmountsAre DEF NoSubmission, Entry
<1>4. sent[s].amounts \in Amounts \cup {NoAmounts}
      BY <1>2 DEF Entry
<1>5. /\ listedItems \in [DOMAIN listedItems -> Stock] /\ DOMAIN listedItems \subseteq Article
      /\ DOMAIN listedItems # {}
      BY <1>2, AmountsAre DEF ManualTypes
<1>6. \A a \in DOMAIN sent[s].amounts : sent[s].amounts[a] \in Stock
      BY <1>3, <1>4, AmountsAre
<1>7. /\ listedItems' \in [DOMAIN listedItems -> Stock]
      /\ \A a \in DOMAIN listedItems :
           listedItems'[a] = IF /\ a \in DOMAIN sent[s].amounts
                                /\ sent[s].by = "row" /\ sent[s].at = "accepted"
                             THEN sent[s].amounts[a] ELSE listedItems[a]
      BY <1>1, <1>5, <1>6 DEF ListAfter, RowsWith
<1>8. listedItems' \in Amounts /\ DOMAIN listedItems' = DOMAIN listedItems
  <2>1. [DOMAIN listedItems -> Stock] \subseteq Amounts
        BY <1>5, AmountsAre
  <2> QED BY <1>7, <2>1
<1>9. ManualTypes'
      BY <1>1, <1>2, <1>3, <1>8 DEF ManualTypes
<1>10. ASSUME NEW a \in Article \ lapsed' PROVE ArticleFits(a)'
  <2>1. ArticleFits(a)
        BY <1>1 DEF ManualInv
  <2>2. CASE a \notin DOMAIN sent[s].amounts
        BY <1>1, <1>2, <1>3, <1>7, <1>8, <2>1, <2>2, OthersFit
  <2>3. CASE a \in DOMAIN sent[s].amounts
    <3>1. s \in Holds(a) /\ Holds(a)' = {}
      <4>1. /\ s \in Holds(a) /\ s \notin Holds(a)'
            /\ \A t \in Submission : t # s => (t \in Holds(a)' <=> t \in Holds(a))
            BY <1>1, <1>2, <1>3, <2>3, RequestChanges
      <4>2. Holds(a) \subseteq Submission /\ Holds(a)' \subseteq Submission
            BY DEF Holds
      <4> QED BY <2>1, <4>1, <4>2 DEF ArticleFits
    <3>2. ASSUME a \in DOMAIN listedItems PROVE listedItems'[a] = keptStock[a]
      <4>1. sent[s].by = "row" /\ (sent[s].at = "accepted" => keptStock[a] = sent[s].amounts[a])
            BY <2>1, <3>1, <3>2 DEF ArticleFits
      <4>2. CASE sent[s].at = "accepted"
            BY <1>7, <2>3, <3>2, <4>1, <4>2
      <4>3. CASE sent[s].at # "accepted"
        <5>1. \A t \in Holds(a) : sent[t].at # "accepted"
              BY <2>1, <3>1, <4>3 DEF ArticleFits
        <5> QED BY <1>7, <2>1, <3>2, <4>3, <5>1 DEF ArticleFits
      <4> QED BY <4>2, <4>3
    <3> QED BY <1>1, <1>8, <3>1, <3>2 DEF ArticleFits
  <2> QED BY <2>2, <2>3
<1> QED BY <1>9, <1>10 DEF ManualInv

(* The worker has stored what it stored of a request: all of it, or a      *)
(* part, whose articles have lapsed.                                       *)
LEMMA RepliesKeep ==
  ASSUME ManualInv, NEW s \in Submission, NEW result \in {"accepted", "error"},
         NEW done \in SUBSET DOMAIN sent[s].amounts,
         AtWorker(s), WorkerReplies(s, result),
         keptStock' \in Amounts, DOMAIN keptStock \subseteq DOMAIN keptStock',
         \A a \in DOMAIN keptStock' \ done : a \in DOMAIN keptStock => keptStock'[a] = keptStock[a],
         \A a \in done : keptStock'[a] = sent[s].amounts[a],
         UNCHANGED listedItems, lapsed \subseteq lapsed',
         \/ result = "accepted" /\ done = DOMAIN sent[s].amounts
         \/ result = "error" /\ done \subseteq lapsed'
         \/ DOMAIN sent[s].amounts \subseteq lapsed' /\ done = {}
  PROVE  ManualInv'
<1> DEFINE r == IF sent[s].at = "late" THEN NoSubmission ELSE [sent[s] EXCEPT !.at = result]
<1>1. ManualTypes /\ sent \in [Submission -> Entry] /\ sent[s] \in Entry
      BY DEF ManualInv, ManualTypes
<1>2. sent[s].at \in {"sent", "late"} /\ sent' = [sent EXCEPT ![s] = r]
      BY DEF AtWorker, WorkerReplies
<1>3. NoSubmission \in Entry /\ NoSubmission.amounts = NoAmounts /\ DOMAIN NoAmounts = {}
      BY AmountsAre DEF NoSubmission, Entry
<1>4. /\ r \in Entry
      /\ sent[s].at = "late" => DOMAIN r.amounts = {} /\ r.amounts = NoAmounts
      /\ sent[s].at # "late" => r.amounts = sent[s].amounts /\ r.by = sent[s].by /\ r.at = result
  <2>1. CASE sent[s].at = "late"
        BY <1>3, <2>1
  <2>2. CASE sent[s].at # "late"
        BY <1>1, <2>2 DEF Entry
  <2> QED BY <2>1, <2>2
<1> HIDE DEF r
<1>5. ManualTypes'
  <2>1. \A t \in Submission : sent'[t].at = "free" => sent'[t].amounts = NoAmounts
    <3>1. \A t \in Submission : t # s => sent'[t] = sent[t]
          BY <1>1, <1>2
    <3>2. sent'[s] = r
          BY <1>1, <1>2
    <3> QED BY <1>1, <1>4, <3>1, <3>2 DEF ManualTypes
  <2> QED BY <1>1, <1>2, <1>4, <2>1 DEF ManualTypes
<1>6. ASSUME NEW a \in Article \ lapsed' PROVE ArticleFits(a)'
  <2>1. ArticleFits(a) /\ a \notin lapsed
        BY DEF ManualInv
  <2>2. CASE a \notin DOMAIN sent[s].amounts
    <3>1. a \in DOMAIN listedItems => a \in DOMAIN keptStock' \ done /\ a \in DOMAIN keptStock
          BY <1>1, <2>2 DEF ManualTypes
    <3>2. a \notin DOMAIN r.amounts
          BY <1>4, <2>2
    <3>3. a \in DOMAIN listedItems => listedItems'[a] = listedItems[a] /\ keptStock'[a] = keptStock[a]
          BY <3>1
    <3> QED BY <1>1, <1>2, <1>4, <2>1, <2>2, <3>2, <3>3, OthersFit
  <2>3. CASE a \in DOMAIN sent[s].amounts
    <3>1. /\ sent'[s] = r /\ s \in Holds(a)
          /\ s \in Holds(a)' <=> a \in DOMAIN r.amounts
          /\ \A t \in Submission : t # s => (t \in Holds(a)' <=> t \in Holds(a))
          BY <1>1, <1>2, <1>4, <2>3, RequestChanges
    <3>2. Holds(a) \subseteq Submission /\ Holds(a)' \subseteq Submission
          BY DEF Holds
    <3>3. Holds(a)' \subseteq {s} /\ Holds(a) = {s}
          BY <2>1, <3>1, <3>2 DEF ArticleFits
    <3>4. ASSUME a \in DOMAIN listedItems
          PROVE  /\ sent[s].at = "sent" /\ sent[s].by = "row"
                 /\ Holds(a)' = {s} /\ sent'[s].by = "row" /\ sent'[s].at = result
                 /\ sent'[s].amounts = sent[s].amounts
                 /\ result = "accepted" => keptStock'[a] = sent[s].amounts[a]
                 /\ result # "accepted" => listedItems[a] = keptStock'[a]
      <4>1. sent[s].at = "sent" /\ sent[s].by = "row"
            BY <1>2, <2>1, <3>1, <3>4 DEF ArticleFits
      <4>2. r.amounts = sent[s].amounts /\ r.by = "row" /\ r.at = result
            BY <1>4, <4>1
      <4>3. Holds(a)' = {s}
            BY <2>3, <3>1, <3>3, <4>2
      <4>4. listedItems[a] = keptStock[a]
            BY <2>1, <3>3, <3>4, <4>1 DEF ArticleFits
      <4>5. a \in DOMAIN keptStock /\ a \in DOMAIN keptStock'
            BY <1>1, <3>4 DEF ManualTypes
      <4>6. result = "accepted" => a \in done
            BY <2>3
      <4>7. result # "accepted" => a \notin done
            OBVIOUS
      <4> QED BY <3>1, <4>1, <4>2, <4>3, <4>4, <4>5, <4>6, <4>7
    <3> QED BY <3>3, <3>4 DEF ArticleFits
  <2> QED BY <2>2, <2>3
<1> QED BY <1>5, <1>6 DEF ManualInv

LEMMA IngestsKeep ==
  ASSUME ManualInv, NEW s \in Submission, AtWorker(s)
  PROVE  /\ Ingest(s) => ManualInv'
         /\ IngestRefused(s) => ManualInv'
         /\ \A done \in SUBSET DOMAIN sent[s].amounts : IngestFails(s, done) => ManualInv'
<1>1. /\ keptStock \in Amounts /\ sent[s].amounts \in Amounts \cup {NoAmounts}
      BY DEF ManualInv, ManualTypes, Entry
<1>2. /\ DOMAIN sent[s].amounts \subseteq Article
      /\ sent[s].amounts \in [DOMAIN sent[s].amounts -> Stock]
  <2>1. CASE sent[s].amounts = NoAmounts
    <3>1. NoAmounts \in [{} -> Stock]
          BY DEF NoAmounts
    <3> QED BY <2>1, <3>1, AmountsAre
  <2>2. CASE sent[s].amounts \in Amounts
        BY <2>2, AmountsAre
  <2> QED BY <1>1, <2>1, <2>2
<1>3. ASSUME NEW g, NEW D \in SUBSET DOMAIN sent[s].amounts, g \in [D -> Stock],
             \A a \in D : g[a] = sent[s].amounts[a], StoreAmounts(g)
      PROVE  /\ keptStock' \in Amounts /\ DOMAIN keptStock \subseteq DOMAIN keptStock'
             /\ \A a \in DOMAIN keptStock' \ D : a \in DOMAIN keptStock => keptStock'[a] = keptStock[a]
             /\ \A a \in D : keptStock'[a] = sent[s].amounts[a]
  <2>1. keptStock' = [a \in DOMAIN keptStock \cup DOMAIN g |->
                        IF a \in DOMAIN g THEN g[a] ELSE keptStock[a]]
        BY <1>3 DEF StoreAmounts
  <2>2. D \in SUBSET Article /\ DOMAIN g = D
        BY <1>2, <1>3
  <2>3. keptStock' \in Amounts /\ DOMAIN keptStock \subseteq DOMAIN keptStock'
        BY <1>1, <1>3, <2>1, <2>2, Stored
  <2> QED BY <1>3, <2>1, <2>2, <2>3
<1>4. ASSUME Ingest(s) PROVE ManualInv'
  <2>1. /\ StoreAmounts(sent[s].amounts) /\ WorkerReplies(s, "accepted")
        /\ UNCHANGED <<listedItems, lapsed>>
        BY <1>4 DEF Ingest
  <2>2. /\ keptStock' \in Amounts /\ DOMAIN keptStock \subseteq DOMAIN keptStock'
        /\ \A a \in DOMAIN keptStock' \ DOMAIN sent[s].amounts :
             a \in DOMAIN keptStock => keptStock'[a] = keptStock[a]
        /\ \A a \in DOMAIN sent[s].amounts : keptStock'[a] = sent[s].amounts[a]
        BY <1>2, <1>3, <2>1
  <2> QED BY <2>1, <2>2, RepliesKeep
<1>5. ASSUME IngestRefused(s) PROVE ManualInv'
  <2>1. /\ WorkerReplies(s, "accepted") /\ lapsed' = lapsed \cup DOMAIN sent[s].amounts
        /\ UNCHANGED <<keptStock, listedItems>>
        BY <1>5 DEF IngestRefused
  <2>2. {} \in SUBSET DOMAIN sent[s].amounts
        OBVIOUS
  <2> QED BY <1>1, <2>1, <2>2, RepliesKeep
<1>6. ASSUME NEW done \in SUBSET DOMAIN sent[s].amounts, IngestFails(s, done) PROVE ManualInv'
  <2> DEFINE g == [a \in done |-> sent[s].amounts[a]]
  <2>1. /\ StoreAmounts(g) /\ WorkerReplies(s, "error") /\ lapsed' = lapsed \cup done
        /\ UNCHANGED listedItems
        BY <1>6 DEF IngestFails
  <2>2. g \in [done -> Stock] /\ \A a \in done : g[a] = sent[s].amounts[a]
        BY <1>2
  <2> HIDE DEF g
  <2>3. /\ keptStock' \in Amounts /\ DOMAIN keptStock \subseteq DOMAIN keptStock'
        /\ \A a \in DOMAIN keptStock' \ done : a \in DOMAIN keptStock => keptStock'[a] = keptStock[a]
        /\ \A a \in done : keptStock'[a] = sent[s].amounts[a]
        BY <1>3, <2>1, <2>2
  <2> QED BY <2>1, <2>3, RepliesKeep
<1> QED BY <1>4, <1>5, <1>6

(* The route gives up, or the page is loaded anew.                         *)
LEMMA LeavingKeeps ==
  ASSUME ManualInv, (\E s \in Submission : GivesUp(s)) \/ ReloadList
  PROVE  ManualInv'
<1>0. ManualTypes /\ sent \in [Submission -> Entry]
      BY DEF ManualInv, ManualTypes
<1>1. ASSUME NEW s \in Submission, GivesUp(s) PROVE ManualInv'
  <2> DEFINE r == [sent[s] EXCEPT !.at = "late"]
  <2>1. /\ sent' = [sent EXCEPT ![s] = r]
        /\ lapsed' = lapsed \cup DOMAIN sent[s].amounts /\ UNCHANGED <<keptStock, listedItems>>
        BY <1>1 DEF GivesUp
  <2>2. r \in Entry /\ r.amounts = sent[s].amounts /\ r.at = "late"
        BY <1>0 DEF Entry
  <2> HIDE DEF r
  <2>3. ManualTypes'
        BY <1>0, <2>1, <2>2 DEF ManualTypes
  <2>4. ASSUME NEW a \in Article \ lapsed' PROVE ArticleFits(a)'
    <3>1. ArticleFits(a) /\ a \notin DOMAIN sent[s].amounts /\ a \notin DOMAIN r.amounts
          BY <2>1, <2>2 DEF ManualInv
    <3> QED BY <1>0, <2>1, <2>2, <3>1, OthersFit
  <2> QED BY <2>3, <2>4 DEF ManualInv
<1>2. CASE ReloadList
  <2>1. /\ listedItems' = keptStock /\ UNCHANGED keptStock
        /\ sent' = [s \in Submission |->
                      IF AtWorker(s) THEN [sent[s] EXCEPT !.at = "late"] ELSE NoSubmission]
        /\ lapsed' = UNION {DOMAIN sent'[s].amounts : s \in Submission}
        BY <1>2 DEF ReloadList
  <2>2. \A s \in Submission : [sent[s] EXCEPT !.at = "late"] \in Entry
        BY <1>0 DEF Entry
  <2>3. NoSubmission \in Entry /\ NoSubmission.amounts = NoAmounts
        BY DEF NoSubmission, Entry
  <2>4. \A s \in Submission : [sent[s] EXCEPT !.at = "late"].at = "late"
        BY <1>0 DEF Entry
  <2>5. sent' \in [Submission -> Entry]
        BY <2>1, <2>2, <2>3
  <2>6. \A s \in Submission : sent'[s].at = "free" => sent'[s].amounts = NoAmounts
        BY <2>1, <2>3, <2>4
  <2>7. ManualTypes'
        BY <1>0, <2>1, <2>5, <2>6 DEF ManualTypes
  <2>8. ASSUME NEW a \in Article \ lapsed' PROVE ArticleFits(a)'
    <3>1. Holds(a)' = {}
          BY <2>1, <2>8 DEF Holds
    <3> QED BY <2>1, <3>1 DEF ArticleFits
  <2> QED BY <2>7, <2>8 DEF ManualInv
<1> QED BY <1>1, <1>2

LEMMA StepManual == ManualInv /\ [ManualNext]_manualVars => ManualInv'
<1> SUFFICES ASSUME ManualInv, [ManualNext]_manualVars PROVE ManualInv'
    OBVIOUS
<1>1. CASE UNCHANGED manualVars
      BY <1>1 DEF ManualInv, ManualTypes, ArticleFits, Holds, manualVars
<1>2. ASSUME NEW s \in Submission, NEW a \in Article, NEW delta \in {-1, 1}, Adjust(s, a, delta)
      PROVE  ManualInv'
  <2> DEFINE stock == Clip(listedItems[a] + delta)
             amounts == [b \in {a} |-> stock]
  <2>1. /\ a \in DOMAIN listedItems /\ stock <= MostStock /\ SendAmounts(s, "row", amounts)
        /\ UNCHANGED <<keptStock, listedItems>>
        BY <1>2 DEF Adjust
  <2>2. listedItems[a] \in Stock
        BY <2>1, AmountsAre DEF ManualInv, ManualTypes
  <2>3. stock \in Stock
        BY <2>1, <2>2, ManualAssumption DEF Stock, Clip
  <2> HIDE DEF stock
  <2>4. amounts \in [{a} -> Stock] /\ {a} \in SUBSET Article /\ {a} # {}
        BY <2>3
  <2>5. amounts \in Amounts
        BY <2>4, AmountsAre
  <2> HIDE DEF amounts
  <2> QED BY <2>1, <2>5, SendingKeeps
<1>3. ASSUME NEW s \in Submission, NEW a \in Article, NEW amount \in Stock, AddArticle(s, a, amount)
      PROVE  ManualInv'
  <2> DEFINE amounts == [b \in {a} |-> amount]
  <2>1. amounts \in [{a} -> Stock] /\ {a} \in SUBSET Article /\ {a} # {}
        OBVIOUS
  <2>2. amounts \in Amounts
        BY <2>1, AmountsAre
  <2>3. SendAmounts(s, "form", amounts) /\ UNCHANGED <<keptStock, listedItems>>
        BY <1>3 DEF AddArticle
  <2> HIDE DEF amounts
  <2> QED BY <2>2, <2>3, SendingKeeps
<1>4. ASSUME NEW s \in Submission, NEW amounts \in Amounts, AddBulk(s, amounts) PROVE ManualInv'
      BY <1>4, SendingKeeps DEF AddBulk
<1>5. ASSUME NEW s \in Submission, ManualAnswered(s) PROVE ManualInv'
      BY <1>5, ManualAnsweredKeeps
<1>6. ASSUME NEW s \in Submission, Ingest(s) \/ IngestRefused(s) PROVE ManualInv'
      BY <1>6, IngestsKeep DEF Ingest, IngestRefused
<1>7. ASSUME NEW s \in Submission, NEW done \in SUBSET DOMAIN sent[s].amounts, IngestFails(s, done)
      PROVE  ManualInv'
      BY <1>7, IngestsKeep DEF IngestFails
<1>8. ASSUME (\E s \in Submission : GivesUp(s)) \/ ReloadList PROVE ManualInv'
      BY <1>8, LeavingKeeps
<1> QED BY <1>1, <1>2, <1>3, <1>4, <1>5, <1>6, <1>7, <1>8 DEF ManualNext

(* The stock a row shows is the stored one once nothing on its article is  *)
(* pending, except where the code loses track, as told beside the property *)
(* (ManualEntry.tsx, manual/route.ts, ingest.py).                          *)
THEOREM RowsStored == ManualSpec => []RowsShowStoredStock
<1>1. ManualInv => RowsShowStoredStock
  <2> SUFFICES ASSUME ManualInv, NEW a \in DOMAIN listedItems \ (PendingArticles \cup lapsed)
               PROVE  listedItems[a] = keptStock[a]
      BY DEF RowsShowStoredStock
  <2>1. a \in Article
        BY AmountsAre DEF ManualInv, ManualTypes
  <2>2. Holds(a) = {}
        BY DEF Holds, PendingArticles
  <2> QED BY <2>1, <2>2 DEF ManualInv, ArticleFits
<1> QED BY <1>1, InitManual, StepManual, PTL DEF ManualSpec

-----------------------------------------------------------------------------
(* All editors side by side: one at rest shows what is stored, and what is *)
(* stored is what was chosen.                                              *)
THEOREM AllShowTheStored == EditorsSpec => []EditorsShowTheStored
<1>1. /\ EditorsSpec => []ShownNoteIsStored /\ []ShownTagsAreStored
      /\ EditorsSpec => []ShownEventsAreStored /\ []CleanFieldIsStored
      /\ EditorsSpec => []RowsShowStoredStock /\ []SwitchIsKept
      /\ EditorsSpec => []SettingsAreTrue
      BY NoteStored, TagsStored, EventsStored, CostIsStored, RowsStored, SwitchKept, SettingsTrue
         DEF EditorsSpec
<1>2. /\ ShownNoteIsStored /\ ShownTagsAreStored /\ ShownEventsAreStored
      /\ CleanFieldIsStored /\ RowsShowStoredStock /\ SwitchIsKept /\ SettingsAreTrue
      => EditorsShowTheStored
      BY DEF EditorsShowTheStored
<1> QED BY <1>1, <1>2, PTL
=============================================================================
