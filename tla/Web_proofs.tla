----------------------------- MODULE Web_proofs -----------------------------
(***************************************************************************)
(* Proofs about parts of the web application, for any tabs, requests,      *)
(* files and bounds.                                                       *)
(***************************************************************************)
EXTENDS SyncButton, RadarQueries, AccountDelete, SkuList, CostImport,
        FiniteSetTheorems, WellFoundedInduction, TLAPS

-----------------------------------------------------------------------------
(* SyncButton: the timers.                                                 *)

(* The refs hold both timers or none, and the label tells which; a click   *)
(* goes through only when they hold none.                                  *)
RefsAgree ==
  /\ pollTimer = pollTimeout
  /\ polling <=> pollTimer # NoWatch
  /\ loading => ~polling

ButtonInv == ButtonTypeOK /\ RefsAgree /\ TimersAreHeld

(* The timers a ref stands for: none, or the one it holds.                 *)
LEMMA Held ==
  /\ {NoWatch} \ {NoWatch} = {}
  /\ \A w : w # NoWatch => {w} \ {NoWatch} = {w}
OBVIOUS

LEMMA InitButton == ButtonInit => ButtonInv
<1> SUFFICES ASSUME ButtonInit PROVE ButtonInv
    OBVIOUS
<1>1. ButtonTypeOK
  <2>1. watches \in 0..MaxWatches /\ inFlight \in [Watch -> 0..MaxAsked]
        BY ButtonAssumption DEF ButtonInit
  <2> QED BY <2>1 DEF ButtonInit, ButtonTypeOK
<1>2. RefsAgree
      BY DEF ButtonInit, RefsAgree
<1>3. TimersAreHeld
      BY Held DEF ButtonInit, TimersAreHeld
<1> QED BY <1>1, <1>2, <1>3 DEF ButtonInv

(* Whatever stops the timers that are held leaves none.                    *)
LEMMA NoneIsHeld ==
  ASSUME polling' = FALSE, pollTimer' = NoWatch, pollTimeout' = NoWatch,
         intervals' = {}, timeouts' = {}
  PROVE  RefsAgree' /\ TimersAreHeld'
<1>1. RefsAgree'
      BY DEF RefsAgree
<1>2. intervals' = {pollTimer'} \ {NoWatch} /\ timeouts' = {pollTimeout'} \ {NoWatch}
      BY Held
<1> QED BY <1>1, <1>2 DEF TimersAreHeld

LEMMA StopPollingKeeps ==
  ASSUME ButtonInv, StopPolling
  PROVE  /\ polling' = FALSE /\ pollTimer' = NoWatch /\ pollTimeout' = NoWatch
         /\ intervals' = {} /\ timeouts' = {}
         /\ RefsAgree' /\ TimersAreHeld'
<1>1. /\ polling' = FALSE /\ pollTimer' = NoWatch /\ pollTimeout' = NoWatch
      /\ intervals' = {} /\ timeouts' = {}
      BY DEF ButtonInv, TimersAreHeld, StopPolling
<1> QED BY <1>1, NoneIsHeld

LEMMA StepButton == ButtonInv /\ [ButtonNext]_buttonVars => ButtonInv'
<1> USE ButtonAssumption DEF NoWatch, Watch
<1> SUFFICES ASSUME ButtonInv, [ButtonNext]_buttonVars PROVE ButtonInv'
    OBVIOUS
<1> USE DEF ButtonInv, ButtonTypeOK, RefsAgree, TimersAreHeld
<1>1. CASE Click
      BY <1>1 DEF Click, timers
<1>2. CASE Started
  <2>1. intervals = {} /\ timeouts = {}
        BY <1>2 DEF Started
  <2>2. watches' \in Watch /\ watches' # NoWatch
        BY <1>2 DEF Started
  <2>3. {watches'} \ {NoWatch} = {watches'}
        BY <2>2, Held
  <2>4. /\ intervals' = {watches'} /\ timeouts' = {watches'} /\ polling'
        /\ pollTimer' = watches' /\ pollTimeout' = watches' /\ ~loading'
        BY <1>2, <2>1 DEF Started
  <2>5. TimersAreHeld'
        BY <2>2, <2>3, <2>4 DEF TimersAreHeld
  <2>6. RefsAgree'
        BY <2>2, <2>4 DEF RefsAgree
  <2>7. ButtonTypeOK'
    <3>1. watches' \in 0..MaxWatches /\ {watches'} \subseteq Watch
          BY <1>2, <2>2 DEF Started
    <3>2. mounted' \in BOOLEAN /\ cooling' \in BOOLEAN /\ inFlight' \in [Watch -> 0..MaxAsked]
          BY <1>2 DEF Started
    <3> QED BY <2>2, <2>4, <3>1, <3>2, <1>2 DEF Started
  <2> QED BY <2>5, <2>6, <2>7
<1>3. CASE NotStarted
      BY <1>3 DEF NotStarted, timers
<1>4. CASE CooldownEnds
      BY <1>4 DEF CooldownEnds, timers
<1>5. CASE LeavePage
  <2>1. /\ polling' = FALSE /\ pollTimer' = NoWatch /\ pollTimeout' = NoWatch
        /\ intervals' = {} /\ timeouts' = {}
        /\ RefsAgree' /\ TimersAreHeld'
        BY <1>5, StopPollingKeeps DEF LeavePage
  <2>2. ButtonTypeOK'
        BY <1>5, <2>1 DEF LeavePage
  <2> QED BY <2>1, <2>2
<1>6. CASE Return
  <2>1. intervals = {} /\ ~polling
        BY <1>6 DEF Return
  <2> QED BY <1>6, <2>1 DEF Return, timers
<1>7. ASSUME NEW w \in Watch, IntervalFires(w) PROVE ButtonInv'
      BY <1>7 DEF IntervalFires, timers
<1>8. ASSUME NEW w \in Watch, StillSyncing(w) PROVE ButtonInv'
      BY <1>8 DEF StillSyncing, Answered, timers
<1>9. ASSUME NEW w \in Watch, NoLongerSyncing(w) PROVE ButtonInv'
  <2>1. inFlight' \in [Watch -> 0..MaxAsked]
        BY <1>9 DEF NoLongerSyncing, Answered
  <2>2. /\ polling' = FALSE /\ pollTimer' = NoWatch /\ pollTimeout' = NoWatch
        /\ intervals' = {} /\ timeouts' = {}
        /\ RefsAgree' /\ TimersAreHeld'
        BY <1>9, StopPollingKeeps DEF NoLongerSyncing
  <2>3. ButtonTypeOK'
        BY <1>9, <2>1, <2>2 DEF NoLongerSyncing
  <2> QED BY <2>2, <2>3
<1>10. ASSUME NEW w \in Watch, TimeoutFires(w) PROVE ButtonInv'
  <2>1. w = pollTimeout /\ intervals' = {} /\ timeouts' = {}
        BY <1>10, Held DEF TimeoutFires
  <2>2. RefsAgree' /\ TimersAreHeld'
        BY <1>10, <2>1, NoneIsHeld DEF TimeoutFires
  <2> QED BY <1>10, <2>1, <2>2 DEF TimeoutFires
<1>11. CASE UNCHANGED buttonVars
      BY <1>11 DEF buttonVars
<1> QED BY <1>1, <1>2, <1>3, <1>4, <1>5, <1>6, <1>7, <1>8, <1>9, <1>10, <1>11 DEF ButtonNext

(* The timers that run are the ones the refs hold, whichever answers come  *)
(* late and whenever the page is left.                                     *)
THEOREM TimersHeld == ButtonSpec => []TimersAreHeld
<1>1. ButtonInv => TimersAreHeld
      BY DEF ButtonInv
<1> QED BY InitButton, StepButton, <1>1, PTL DEF ButtonSpec

-----------------------------------------------------------------------------
(* RadarQueries: the seller's word.                                        *)

(* A row is as the seller has decided.                                     *)
Obeys(row) ==
  /\ decision # "none" => row # NoQuery
  /\ decision = "archived" => row.status = "archived"
  /\ decision = "watched" => row.status = "watching" /\ row.favorite

(* Updates are of a row, and who watches a query lights its star.          *)
UpdatesFit ==
  \A s \in Slot :
    /\ updates[s] # Nothing => query # NoQuery
    /\ updates[s].status = "watching" => updates[s].favorite = TRUE

(* The row that a poll has read obeys too, if nothing was written since.   *)
PolledFits ==
  /\ poll = "asking" /\ polled # NoQuery => query # NoQuery
  /\ poll = "asking" /\ ~overtaken /\ ~raced => Obeys(polled)

QueriesInv ==
  /\ QueriesTypeOK
  /\ UpdatesFit
  /\ PolledFits
  /\ ~raced => Obeys(query)

LEMMA InitQueries == QueriesInit => QueriesInv
<1> SUFFICES ASSUME QueriesInit PROVE QueriesInv
    OBVIOUS
<1>1. Nothing \in [favorite : BOOLEAN \cup {Same}, status : Status \cup {Same}, touch : BOOLEAN]
      BY DEF Nothing
<1>2. QueriesTypeOK
      BY <1>1 DEF QueriesInit, QueriesTypeOK
<1>3. UpdatesFit
      BY QueriesAssumption DEF QueriesInit, UpdatesFit, Nothing, Status
<1> QED BY <1>2, <1>3 DEF QueriesInit, QueriesInv, PolledFits, Obeys

(* What an operation is about to write.                                    *)
Update ==
  [favorite : BOOLEAN \cup {Same}, status : Status \cup {Same}, touch : BOOLEAN]

LEMMA UpdateType ==
  ASSUME QueriesTypeOK,
         NEW op \in ApiOps \cup {"star", "unstar", "archive", "unarchive"},
         NEW row \in Row \cup {NoQuery}
  PROVE  /\ Updates(op, row) \in Update
         /\ Updates(op, row).status = "watching" => Updates(op, row).favorite = TRUE
<1>1. Natural(row) \in {"new", "early"}
      BY DEF Natural
<1>2. CASE op = "star"
      BY <1>2, QueriesAssumption DEF Updates, Update, Set, Status
<1>3. CASE op \in {"unstar", "apiUnwatch"}
      BY <1>1, <1>3, QueriesAssumption DEF Updates, Update, Set, Status
<1>4. CASE op = "archive"
      BY <1>4, QueriesAssumption DEF Updates, Update, Set, Status
<1>5. CASE op = "apiArchive"
      BY <1>5, QueriesAssumption DEF Updates, Update, Set, Status
<1>6. CASE op \in {"unarchive", "apiUnarchive"}
      BY <1>1, <1>6, QueriesAssumption DEF Updates, Update, Set, Status
<1>7. CASE op \in {"apiFavorite", "apiWatch"}
      BY <1>7, QueriesAssumption DEF Updates, Update, Set, Status
<1> QED BY <1>2, <1>3, <1>4, <1>5, <1>6, <1>7 DEF ApiOps

LEMMA AskKeeps ==
  ASSUME QueriesInv, NEW s \in Slot,
         NEW op \in ApiOps \cup UNION {Offered(look) : look \in looks}, Ask(s, op)
  PROVE  QueriesInv'
<1>1. op \in ApiOps \cup {"star", "unstar", "archive", "unarchive"}
      BY DEF Offered
<1>2. PICK row \in Seen(op) : updates' = [updates EXCEPT ![s] = Updates(op, row)]
      BY DEF Ask
<1>3. row \in Row \cup {NoQuery}
      BY DEF Seen, QueriesInv, QueriesTypeOK
<1>4. /\ Updates(op, row) \in Update
      /\ Updates(op, row).status = "watching" => Updates(op, row).favorite = TRUE
      BY <1>1, <1>3, UpdateType DEF QueriesInv
<1> QED BY <1>2, <1>4 DEF Ask, QueriesInv, QueriesTypeOK, Update, UpdatesFit, PolledFits, Obeys, pollVars

LEMMA WriteKeeps ==
  ASSUME QueriesInv, NEW s \in Slot, WriteUpdate(s)
  PROVE  QueriesInv'
<1> DEFINE set == updates[s]
<1>1. set \in Update /\ query \in Row
      BY DEF WriteUpdate, QueriesInv, QueriesTypeOK, UpdatesFit, Update
<1>2. query' \in Row
      BY <1>1, QueriesAssumption DEF WriteUpdate, Apply, Row, Update
<1>3. /\ query'.status = IF set.status = Same THEN query.status ELSE set.status
      /\ query'.favorite = IF set.favorite = Same THEN query.favorite ELSE set.favorite
      BY <1>1 DEF WriteUpdate, Apply, Row
<1>4. Known(set) \in {"none", "archived", "watched"}
      BY DEF Known, QueriesInv, QueriesTypeOK
<1>5. QueriesTypeOK'
  <2>1. Look(query') \in [archived : BOOLEAN, favorite : BOOLEAN]
        BY <1>2 DEF Look, Row
  <2>2. Nothing \in Update
        BY DEF Nothing, Update
  <2> QED BY <1>2, <1>4, <2>1, <2>2 DEF WriteUpdate, QueriesInv, QueriesTypeOK, Update
<1>6. UpdatesFit'
      BY <1>2, QueriesAssumption
         DEF WriteUpdate, QueriesInv, QueriesTypeOK, UpdatesFit, Nothing, Status
<1>7. PolledFits'
      BY <1>2, QueriesAssumption DEF WriteUpdate, PolledFits
<1>8. ASSUME ~raced' PROVE Obeys(query)'
  <2>1. decision' = Known(set) /\ query' # NoQuery
        BY <1>2, QueriesAssumption DEF WriteUpdate
  <2>2. CASE set.status = "archived"
        BY <1>3, <2>1, <2>2, QueriesAssumption DEF Known, Obeys, Status
  <2>3. CASE set.status = "watching"
    <3>1. set.favorite = TRUE
          BY <2>3 DEF QueriesInv, UpdatesFit
    <3> QED BY <1>3, <2>1, <2>3, <3>1, QueriesAssumption DEF Known, Obeys, Status
  <2>4. CASE set.status = Same
    <3>1. ~raced
          BY <1>8, <2>4 DEF WriteUpdate
    <3>2. Obeys(query)
          BY <3>1 DEF QueriesInv
    <3>3. set.favorite = TRUE => query'.favorite
          BY <1>3, QueriesAssumption
    <3> QED BY <1>3, <2>1, <2>4, <3>2, <3>3, QueriesAssumption DEF Known, Obeys, Status
  <2>5. CASE set.status \in {"new", "early"}
    <3>1. Known(set) = "none"
          BY <2>5, QueriesAssumption DEF Known, Status
    <3> QED BY <2>1, <3>1 DEF Obeys
  <2> QED BY <1>1, <2>2, <2>3, <2>4, <2>5 DEF Update, Status
<1> QED BY <1>5, <1>6, <1>7, <1>8 DEF QueriesInv

LEMMA PollKeeps ==
  ASSUME QueriesInv, NEW found \in {"new", "archived"}, NEW present \in BOOLEAN,
         PollWrites(found, present)
  PROVE  QueriesInv'
<1>1. polled = NoQuery \/ polled \in Row
      BY DEF QueriesInv, QueriesTypeOK
<1>2. PollStatus(found) \in Status
      BY <1>1 DEF PollStatus, Status
<1>3. query' \in Row
      BY <1>1, <1>2 DEF PollWrites, QueriesInv, QueriesTypeOK, PolledFits, Row
<1>4. QueriesTypeOK'
  <2>1. Look(query') \in [archived : BOOLEAN, favorite : BOOLEAN]
        BY <1>3 DEF Look, Row
  <2> QED BY <1>3, <2>1 DEF PollWrites, QueriesInv, QueriesTypeOK
<1>5. UpdatesFit' /\ PolledFits'
      BY <1>3, QueriesAssumption DEF PollWrites, QueriesInv, UpdatesFit, PolledFits
<1>6. ASSUME ~raced' PROVE Obeys(query)'
  <2>1. Obeys(polled) /\ Obeys(query)
        BY <1>6 DEF PollWrites, QueriesInv, PolledFits
  <2>2. CASE polled = NoQuery
        BY <1>3, <2>1, <2>2 DEF Obeys, PollWrites, QueriesInv, QueriesTypeOK
  <2>3. CASE polled \in Row
    <3>1. query'.status = PollStatus(found) /\ query'.favorite = query.favorite
          BY <2>3, QueriesAssumption DEF PollWrites, QueriesInv, QueriesTypeOK, PolledFits, Row
    <3>2. decision = "archived" => PollStatus(found) = "archived"
          BY <2>1, <2>3, QueriesAssumption DEF Obeys, PollStatus
    <3>3. decision = "watched" => PollStatus(found) = "watching"
          BY <2>1, <2>3, QueriesAssumption DEF Obeys, PollStatus
    <3> QED BY <1>3, <2>1, <3>1, <3>2, <3>3, QueriesAssumption DEF Obeys, PollWrites
  <2> QED BY <1>1, <2>2, <2>3
<1> QED BY <1>4, <1>5, <1>6 DEF QueriesInv

LEMMA StepQueries == QueriesInv /\ [QueriesNext]_queryVars => QueriesInv'
<1> SUFFICES ASSUME QueriesInv, [QueriesNext]_queryVars PROVE QueriesInv'
    OBVIOUS
<1> USE DEF QueriesInv, QueriesTypeOK, UpdatesFit, PolledFits, Obeys, pollVars
<1>1. ASSUME NEW s \in Slot,
             NEW op \in ApiOps \cup UNION {Offered(look) : look \in looks}, Ask(s, op)
      PROVE  QueriesInv'
      BY <1>1, AskKeeps
<1>2. ASSUME NEW s \in Slot, WriteUpdate(s) PROVE QueriesInv'
      BY <1>2, WriteKeeps
<1>3. ASSUME NEW s \in Slot, UpdateFails(s) PROVE QueriesInv'
      BY <1>3, QueriesAssumption DEF UpdateFails, Nothing, Status
<1>4. CASE PollReads
      BY <1>4 DEF PollReads
<1>5. ASSUME NEW found \in {"new", "archived"}, NEW present \in BOOLEAN,
             PollWrites(found, present)
      PROVE  QueriesInv'
      BY <1>5, PollKeeps
<1>6. CASE PollFails
      BY <1>6 DEF PollFails
<1>7. CASE GrowsOld
      BY <1>7 DEF GrowsOld
<1>8. CASE AutoArchive
  <2>1. query \in Row /\ query' \in Row
        BY <1>8 DEF AutoArchive, Row, Status
  <2>2. Look(query') \in [archived : BOOLEAN, favorite : BOOLEAN]
        BY <2>1 DEF Look, Row
  <2>3. query'.status = "archived" /\ query' # NoQuery /\ ~query.favorite
        BY <1>8, <2>1, QueriesAssumption DEF AutoArchive, Row
  <2> QED BY <1>8, <2>1, <2>2, <2>3 DEF AutoArchive
<1>9. CASE UNCHANGED queryVars
      BY <1>9 DEF queryVars
<1> QED BY <1>1, <1>2, <1>3, <1>4, <1>5, <1>6, <1>7, <1>8, <1>9 DEF QueriesNext

(* What the seller archived or watches stays so, for any number of         *)
(* operations at once, unless a poll writes over what it has not read.     *)
THEOREM WordHolds == QueriesSpec => []SellersWordHolds
<1>1. QueriesInv => SellersWordHolds
      BY DEF QueriesInv, SellersWordHolds, Obeys
<1> QED BY InitQueries, StepQueries, <1>1, PTL DEF QueriesSpec

-----------------------------------------------------------------------------
(* AccountDelete: nothing is left.                                         *)

(* Up to its answer the route has none.                                    *)
AnswerIsLast == route > 0 => answer = "none"

(* Below the seller nothing is left or comes again once his row is gone.   *)
SellerGone ==
  "seller" \notin missed /\ (route = 8 \/ answer = "success") => left \subseteq {"user"}

UserGone == answer = "success" /\ "user" \notin missed => left = {}

(* Without a trouble no report is under way, and the files the storage has *)
(* are known to report_history, then to the route, then gone.              *)
Untroubled == missed \cap FileTrouble = {}

FilesGo ==
  route > 0 /\ Untroubled =>
    /\ report = None
    /\ route = 1 => files \subseteq paths
    /\ route = 2 => files \subseteq known
    /\ route > 2 => files = {}

FilesGone ==
  answer = "success" /\ "seller" \notin left /\ Untroubled =>
    files = {} /\ report = None

DeleteInv ==
  /\ DeleteTypeOK
  /\ AnswerIsLast
  /\ SellerGone
  /\ UserGone
  /\ FilesGo
  /\ FilesGone

(* The calls in their order.                                               *)
LEMMA CallCount == Len(Calls) = 8
BY DEF Calls

LEMMA CallOrder ==
  ASSUME NEW call, route \in 1..8, At(call)
  PROVE  /\ call = "list" <=> route = 1
         /\ call = "files" <=> route = 2
         /\ call = "ids" <=> route = 3
         /\ call = "facts" <=> route = 4
         /\ call = "notes" <=> route = 5
         /\ call = "products" <=> route = 6
         /\ call = "seller" <=> route = 7
         /\ call = "user" <=> route = 8
BY DEF Calls, At

LEMMA InitDelete == DeleteInit => DeleteInv
<1> SUFFICES ASSUME DeleteInit PROVE DeleteInv
    OBVIOUS
<1>1. route = 0 /\ answer = "none"
      BY DEF DeleteInit
<1>2. DeleteTypeOK
  <2>1. route \in 0..8 /\ troubles \in 0..MaxTroubles
        BY DeleteAssumption DEF DeleteInit
  <2> QED BY <2>1, CallCount DEF DeleteInit, DeleteTypeOK
<1>3. AnswerIsLast /\ SellerGone /\ UserGone /\ FilesGo /\ FilesGone
      BY <1>1 DEF AnswerIsLast, SellerGone, UserGone, FilesGo, FilesGone
<1> QED BY <1>2, <1>3 DEF DeleteInv

(* The worker writes only below the user and the seller.                   *)
LEMMA WorkerKeeps ==
  ASSUME DeleteInv, NEW t \in Table, WriteRows(t)
  PROVE  DeleteInv'
<1>1. {"user", "seller"} \subseteq left
      BY DEF WriteRows, Above
<1> QED BY <1>1 DEF WriteRows, routeVars, DeleteInv, DeleteTypeOK, AnswerIsLast, SellerGone,
           UserGone, FilesGo, FilesGone, Untroubled

LEMMA ReportKeeps ==
  ASSUME DeleteInv, StartReport \/ RecordPath \/ ReportLost \/ \E f \in File : Upload(f)
  PROVE  DeleteInv'
<1> USE DeleteAssumption DEF DeleteInv, DeleteTypeOK, AnswerIsLast, SellerGone, UserGone,
        FilesGo, FilesGone, Untroubled, routeVars, Building, None
<1>1. CASE StartReport
      BY <1>1 DEF StartReport, FileTrouble
<1>2. CASE RecordPath
  <2>1. {"user", "seller"} \subseteq left /\ report # None
        BY <1>2 DEF RecordPath, Above
  <2> QED BY <1>2, <2>1 DEF RecordPath, Table
<1>3. CASE ReportLost
      BY <1>3 DEF ReportLost
<1>4. ASSUME NEW f \in File, Upload(f) PROVE DeleteInv'
      BY <1>4 DEF Upload
<1> QED BY <1>1, <1>2, <1>3, <1>4

(* What a call on a table that goes through takes along.                   *)
LEMMA CascadeEmpties ==
  /\ left \subseteq Table => left \ ({"user"} \cup Below("user")) = {}
  /\ left \subseteq Table => left \ ({"seller"} \cup Below("seller")) \subseteq {"user"}
BY DEF Below, Above, Table

LEMMA TableKeeps ==
  ASSUME DeleteInv, NEW t \in Table, DeleteTable(t)
  PROVE  DeleteInv'
<1>1. /\ route \in 5..8
      /\ t = "seller" <=> route = 7
      /\ t = "user" <=> route = 8
      BY CallOrder, CallCount DEF DeleteTable, At, Table, DeleteInv, DeleteTypeOK
<1>2. left' \subseteq left /\ missed \subseteq missed'
      BY DEF DeleteTable, Fail, Done
<1>3. IF route < 8 THEN route' = route + 1 /\ UNCHANGED <<known, hasIds, answer>>
      ELSE route' = 0 /\ known' = {} /\ hasIds' = FALSE /\ answer' = "success"
      BY CallCount DEF DeleteTable, NextCall, Reply
<1>4. /\ files' = files /\ report' = report
      /\ paths' \in {paths, {}} /\ troubles' \in 0..MaxTroubles
      BY DeleteAssumption DEF DeleteTable, Fail, Done, DeleteInv, DeleteTypeOK
<1>5. DeleteTypeOK'
  <2>1. route' \in 0..8 /\ answer' \in {"none", "error", "success"}
        BY <1>1, <1>3 DEF DeleteInv, DeleteTypeOK
  <2>2. known' \subseteq File
        BY <1>3 DEF DeleteInv, DeleteTypeOK
  <2>3. hasIds' \in BOOLEAN
        BY <1>3 DEF DeleteInv, DeleteTypeOK
  <2> QED BY <1>2, <1>4, <2>1, <2>2, <2>3, CallCount DEF DeleteInv, DeleteTypeOK
<1>6. t \notin missed' => left' = left \ ({t} \cup Below(t))
      BY DEF DeleteTable, Fail, Done
<1>7. AnswerIsLast'
      BY <1>1, <1>3 DEF DeleteInv, AnswerIsLast
<1>8. SellerGone'
      BY <1>1, <1>2, <1>3, <1>6, <1>7, CascadeEmpties
         DEF DeleteInv, DeleteTypeOK, SellerGone, AnswerIsLast
<1>9. UserGone'
      BY <1>1, <1>2, <1>3, <1>6, <1>7, CascadeEmpties
         DEF DeleteInv, DeleteTypeOK, UserGone, AnswerIsLast
<1>10. FilesGo' /\ FilesGone'
      BY <1>1, <1>2, <1>3, <1>4, <1>7 DEF DeleteInv, FilesGo, FilesGone, AnswerIsLast, Untroubled
<1> QED BY <1>5, <1>7, <1>8, <1>9, <1>10 DEF DeleteInv

(* The other calls change no table but the facts.                          *)
LEMMA CallKeeps ==
  ASSUME DeleteInv, DeleteTypeOK', route \in 1..6, left' \subseteq left,
         route' = route + 1, answer' = answer, FilesGo'
  PROVE  DeleteInv'
<1>1. AnswerIsLast' /\ answer' = "none" /\ route' # 8
      BY DEF DeleteInv, AnswerIsLast
<1> QED BY <1>1 DEF DeleteInv, SellerGone, UserGone, FilesGone

LEMMA RouteKeeps ==
  ASSUME DeleteInv,
         AskDelete \/ ListPaths \/ RemoveFiles \/ ListProducts \/ DeleteFacts \/ DeleteFactsFails
  PROVE  DeleteInv'
<1> USE DeleteAssumption, CallCount
<1>0. DeleteTypeOK /\ route \in 0..8
      BY DEF DeleteInv, DeleteTypeOK
<1>1. CASE AskDelete
  <2>1. answer' = "none" /\ route' = 1
        BY <1>1 DEF AskDelete
  <2>2. DeleteTypeOK'
    <3>1. route' \in 0..8
          BY <2>1
    <3> QED BY <1>0, <1>1, <3>1 DEF AskDelete, DeleteTypeOK
  <2>3. FilesGo'
    <3>1. CASE report = None /\ files \subseteq paths
          BY <1>1, <2>1, <3>1 DEF AskDelete, FilesGo
    <3>2. CASE ~(report = None /\ files \subseteq paths)
      <4>1. missed' = {"unknown file"}
            BY <1>1, <3>2 DEF AskDelete
      <4> QED BY <4>1 DEF FilesGo, Untroubled, FileTrouble
    <3> QED BY <3>1, <3>2
  <2> QED BY <2>1, <2>2, <2>3 DEF DeleteInv, AnswerIsLast, SellerGone, UserGone, FilesGone
<1>2. CASE ListPaths
  <2>1. route = 1
        BY <1>0, <1>2, CallOrder DEF ListPaths, At
  <2>2. DeleteTypeOK'
        BY <1>0, <1>2, <2>1 DEF ListPaths, Done, Fail, DeleteTypeOK
  <2>3. FilesGo'
    <3> SUFFICES ASSUME Untroubled' PROVE report' = None /\ files' \subseteq known'
        BY <1>2, <2>1 DEF FilesGo, ListPaths
    <3>1. ~Fail("list")
          BY DEF Fail, Untroubled, FileTrouble
    <3>2. known' = paths /\ missed' = missed
          BY <1>2, <3>1 DEF ListPaths, Done
    <3> QED BY <1>2, <2>1, <3>2 DEF DeleteInv, FilesGo, Untroubled, ListPaths
  <2> QED BY <1>2, <2>1, <2>2, <2>3, CallKeeps DEF ListPaths
<1>3. CASE RemoveFiles
  <2>1. route = 2
        BY <1>0, <1>3, CallOrder DEF RemoveFiles, At
  <2>2. route' = 3 /\ UNCHANGED <<known, hasIds, answer>>
        BY <1>3, <2>1 DEF RemoveFiles, NextCall
  <2>3. DeleteTypeOK'
        BY <1>0, <1>3, <2>2 DEF RemoveFiles, Done, Fail, DeleteTypeOK
  <2>4. FilesGo'
    <3> SUFFICES ASSUME Untroubled' PROVE report' = None /\ files' = {}
        BY <2>2 DEF FilesGo
    <3>1. ~Fail("files")
          BY DEF Fail, Untroubled, FileTrouble
    <3>2. files' = files \ known /\ missed' = missed
          BY <1>3, <3>1 DEF RemoveFiles, Done
    <3> QED BY <1>3, <2>1, <3>2 DEF DeleteInv, FilesGo, Untroubled, RemoveFiles
  <2> QED BY <1>3, <2>1, <2>2, <2>3, <2>4, CallKeeps DEF RemoveFiles
<1>4. CASE ListProducts
  <2>1. route = 3
        BY <1>0, <1>4, CallOrder DEF ListProducts, At
  <2>2. DeleteTypeOK'
    <3>1. route' = 4
          BY <1>4, <2>1 DEF ListProducts
    <3>2. hasIds' \in BOOLEAN
      <4>1. ASSUME hasIds' = ("products" \in left) PROVE hasIds' \in BOOLEAN
            BY <4>1
      <4>2. ASSUME hasIds' = FALSE PROVE hasIds' \in BOOLEAN
            BY <4>2
      <4> QED BY <1>4, <4>1, <4>2 DEF ListProducts
    <3>3. troubles' \in 0..MaxTroubles
          BY <1>0, <1>4 DEF ListProducts, Done, Fail, DeleteTypeOK
    <3> QED BY <1>0, <1>4, <3>1, <3>2, <3>3 DEF ListProducts, DeleteTypeOK
  <2>3. missed \subseteq missed'
        BY <1>4 DEF ListProducts, Done, Fail
  <2>4. FilesGo'
        BY <1>4, <2>1, <2>3 DEF DeleteInv, FilesGo, Untroubled, ListProducts
  <2> QED BY <1>4, <2>1, <2>2, <2>4, CallKeeps DEF ListProducts
<1>5. CASE DeleteFacts
  <2>1. route = 4
        BY <1>0, <1>5, CallOrder DEF DeleteFacts, At
  <2>2. route' = 5 /\ UNCHANGED <<known, hasIds, answer>>
        BY <1>5, <2>1 DEF DeleteFacts, NextCall
  <2>3. DeleteTypeOK' /\ left' \subseteq left
        BY <1>0, <1>5, <2>2 DEF DeleteFacts, Done, DeleteTypeOK
  <2>4. FilesGo'
        BY <1>5, <2>1, <2>2 DEF DeleteInv, FilesGo, Untroubled, DeleteFacts, Done
  <2> QED BY <2>1, <2>2, <2>3, <2>4, CallKeeps
<1>6. CASE DeleteFactsFails
  <2>1. route' = 0 /\ answer' = "error"
        BY <1>6 DEF DeleteFactsFails, Reply
  <2>2. DeleteTypeOK'
    <3>1. route' \in 0..8 /\ troubles' \in 0..MaxTroubles
          BY <1>0, <1>6, <2>1 DEF DeleteFactsFails, DeleteTypeOK
    <3>2. known' = {} /\ hasIds' \in BOOLEAN
          BY <1>6 DEF DeleteFactsFails, Reply
    <3> QED BY <1>0, <1>6, <2>1, <3>1, <3>2 DEF DeleteFactsFails, DeleteTypeOK
  <2> QED BY <2>1, <2>2 DEF DeleteInv, AnswerIsLast, SellerGone, UserGone, FilesGo, FilesGone
<1> QED BY <1>1, <1>2, <1>3, <1>4, <1>5, <1>6

LEMMA StepDelete == DeleteInv /\ [DeleteNext]_deleteVars => DeleteInv'
<1> SUFFICES ASSUME DeleteInv, [DeleteNext]_deleteVars PROVE DeleteInv'
    OBVIOUS
<1>1. CASE SignUp
      BY <1>1 DEF SignUp, DeleteInv, DeleteTypeOK, AnswerIsLast, SellerGone, UserGone, FilesGo,
         FilesGone
<1>2. CASE UNCHANGED deleteVars
      BY <1>2 DEF deleteVars, routeVars, DeleteInv, DeleteTypeOK, AnswerIsLast, SellerGone,
         UserGone, FilesGo, FilesGone, Untroubled
<1> QED BY <1>1, <1>2, WorkerKeeps, ReportKeeps, TableKeeps, RouteKeeps DEF DeleteNext

(* An account that is reported deleted is gone with all its rows and       *)
(* files, for any files and any number of failed calls, but for what a     *)
(* call left that failed unnoticed.                                        *)
THEOREM Erased == DeleteSpec => []ErasureIsComplete
<1>1. DeleteInv => ErasureIsComplete
      BY DEF DeleteInv, SellerGone, UserGone, FilesGone, Untroubled, ErasureIsComplete
<1> QED BY InitDelete, StepDelete, <1>1, PTL DEF DeleteSpec

-----------------------------------------------------------------------------
(* SkuList: the tiles, the list and the file.                              *)

(* The figures of a run, and what it says of a window in the tiles.        *)
TileOf(w) ==
  {t \in [window : MetricWindow, day : MetricDays, figures : Figures] : t.window = w}

ListInv ==
  /\ metricDay \in MetricDays
  /\ DOMAIN metricRows = MetricDays \X MetricWindow
  /\ \A r \in MetricDays \X MetricWindow : metricRows[r] \in Figures \cup {NoFigures}
  /\ \A w \in MetricWindow : tileOf[w] \in TileOf(w) \cup {Untold}
  /\ DOMAIN tileOf = MetricWindow
  /\ toDo \subseteq MetricWindow
  /\ pending # Untold => pending.window \in MetricWindow /\ pending \in TileOf(pending.window)

(* No run has computed anything.                                           *)
LEMMA InitList == SkuListInit => ListInv
<1> SUFFICES ASSUME SkuListInit PROVE ListInv
    OBVIOUS
<1>1. metricDay \in MetricDays
      BY SkuListAssumption DEF SkuListInit, MetricDays
<1> QED BY <1>1 DEF SkuListInit, ListInv

(* A run writes rows and tiles of its own windows only.                    *)
LEMMA StepList == ListInv /\ [SkuListNext]_listVars => ListInv'
<1> SUFFICES ASSUME ListInv, [SkuListNext]_listVars PROVE ListInv'
    OBVIOUS
<1>1. CASE UNCHANGED listVars
      BY <1>1 DEF listVars, ListInv
<1>2. CASE StartListRun \/ RunStops
      BY <1>2 DEF StartListRun, RunStops, ListInv
<1>3. ASSUME NEW w \in toDo, UpsertRow(w)
      PROVE  ListInv'
  <2>1. PICK f \in Figures :
          /\ metricRows' \in {metricRows, [metricRows EXCEPT ![<<metricDay, w>>] = f]}
          /\ pending' = [window |-> w, day |-> metricDay, figures |-> f]
        BY <1>3 DEF UpsertRow
  <2>2. w \in MetricWindow /\ <<metricDay, w>> \in MetricDays \X MetricWindow
        BY DEF ListInv
  <2>3. /\ DOMAIN metricRows' = MetricDays \X MetricWindow
        /\ \A r \in MetricDays \X MetricWindow : metricRows'[r] \in Figures \cup {NoFigures}
        BY <2>1, <2>2 DEF ListInv
  <2>4. pending' \in TileOf(w) /\ pending'.window = w
        BY <2>1, <2>2 DEF ListInv, TileOf
  <2>5. toDo' \subseteq MetricWindow /\ UNCHANGED <<metricDay, tileOf>>
        BY <1>3 DEF UpsertRow, ListInv
  <2> QED BY <2>2, <2>3, <2>4, <2>5 DEF ListInv
<1>4. CASE WriteTiles
  <2>1. /\ pending # Untold
        /\ tileOf' = [tileOf EXCEPT ![pending.window] = pending] \/ UNCHANGED tileOf
        /\ pending' = Untold /\ UNCHANGED <<metricDay, metricRows, toDo>>
        BY <1>4 DEF WriteTiles
  <2>2. /\ DOMAIN tileOf' = MetricWindow
        /\ \A w \in MetricWindow : tileOf'[w] \in TileOf(w) \cup {Untold}
        BY <2>1 DEF ListInv
  <2> QED BY <2>1, <2>2 DEF ListInv
<1>5. CASE MetricMidnight
  <2>1. metricDay' \in MetricDays
        BY <1>5, SkuListAssumption DEF MetricMidnight, ListInv, MetricDays
  <2> QED BY <1>5, <2>1 DEF MetricMidnight, ListInv
<1>6. CASE OldMetricsGo
  <2>1. metricRows' = [r \in MetricDays \X MetricWindow |->
                         IF r[1] < metricDay - KeptRows THEN NoFigures ELSE metricRows[r]]
        BY <1>6 DEF OldMetricsGo
  <2>2. /\ DOMAIN metricRows' = MetricDays \X MetricWindow
        /\ \A r \in MetricDays \X MetricWindow : metricRows'[r] \in Figures \cup {NoFigures}
        BY <2>1 DEF ListInv
  <2> QED BY <1>6, <2>2 DEF OldMetricsGo, ListInv
<1> QED BY <1>1, <1>2, <1>3, <1>4, <1>5, <1>6 DEF SkuListNext

(* A product that a tile counts fits the filter behind the tile.           *)
LEMMA CountedFits ==
  ASSUME NEW filter \in TileFilters, NEW f \in Figures, Counts(filter, f),
         filter = "low_stock" => f.stock > 0,
         filter \in {"oos", "inactive", "active"} /\ f.stock = 0 => (f.moved <=> f.velocity > 0)
  PROVE  FitsQuery(Shows(filter), f)
<1>1. /\ Shows(filter).filter = filter /\ Threshold(Shows(filter)) = DefaultFor(filter)
      BY DEF Shows, Threshold
<1>2. /\ f.stock \in {0, 1} /\ f.velocity \in {0, 1} /\ f.coverage \in {0, 7, 200, 99}
      /\ f.stockout \in {0, 20} /\ f.longSeen \in BOOLEAN /\ f.moved \in BOOLEAN
      BY DEF Figures, NoCover
<1>3. CASE filter = "low_stock"
      BY <1>1, <1>2, <1>3 DEF FitsQuery, Counts, DefaultFor, NoCover
<1>4. CASE filter = "lost_revenue"
      BY <1>1, <1>4 DEF FitsQuery, Counts
<1>5. CASE filter = "dead_inventory"
      BY <1>1, <1>2, <1>5 DEF FitsQuery, Counts, DefaultFor, IsDead, NoCover
<1>6. CASE filter = "oos"
      BY <1>1, <1>2, <1>6 DEF FitsQuery, Counts
<1>7. CASE filter = "inactive"
      BY <1>1, <1>2, <1>7 DEF FitsQuery, Counts
<1>8. CASE filter = "active"
      BY <1>1, <1>2, <1>8 DEF FitsQuery, Counts, IsActive
<1>9. CASE filter = "frequently_oos"
      BY <1>1, <1>2, <1>9 DEF FitsQuery, Counts, DefaultFor
<1> QED BY <1>3, <1>4, <1>5, <1>6, <1>7, <1>8, <1>9 DEF TileFilters

(* The route, which takes "active" for no filter, still asks the same of   *)
(* what it is told, and leaves out nothing the list has.                   *)
LEMMA SameRows ==
  ASSUME NEW q \in Queries
  PROVE  /\ ListRows(q) \subseteq FileRows(q)
         /\ q \in AskedAlike => FileRows(q) = ListRows(q)
<1>1. ASSUME NEW f PROVE FitsQuery(FileFilter(q), f) <=> FitsQuery(q, f)
  <2>1. CASE q.filter = "active"
    <3>1. FileFilter(q).filter = "none" /\ ~FileFilter(q).inactive
          BY <2>1 DEF FileFilter, Queries
    <3> QED BY <2>1, <3>1 DEF FitsQuery
  <2>2. CASE q.filter # "active"
        BY <2>2 DEF FileFilter
  <2> QED BY <2>1, <2>2
<1> QED BY <1>1 DEF FileRows, ListRows, AskedAlike

(* The three follow from what rows and tiles are.                          *)
LEMMA ListAgrees == ListInv => ListedIfCounted /\ FileIsTheList /\ FileMissesNothing
<1> SUFFICES ASSUME ListInv PROVE ListedIfCounted /\ FileIsTheList /\ FileMissesNothing
    OBVIOUS
<1>1. ListedIfCounted
  <2> SUFFICES ASSUME NEW filter \in TileFilters, NEW window \in MetricWindow,
                      NEW tile \in TileRows(window), tile.figures # NoFigures,
                      metricRows[<<tile.day, tile.window>>] = tile.figures,
                      Counts(filter, tile.figures),
                      filter = "low_stock" => tile.figures.stock > 0,
                      filter \in {"oos", "inactive", "active"} /\ tile.figures.stock = 0 =>
                        (tile.figures.moved <=> tile.figures.velocity > 0)
               PROVE  NoFigures \notin ListShows(Shows(filter))[window][NoFigures]
      BY DEF ListedIfCounted
  <2> DEFINE q == Shows(filter)
             r == <<tile.day, tile.window>>
  <2>1. PICK w \in MetricWindow : tile = tileOf[w]
        BY DEF TileRows
  <2>2. tile \in TileOf(w)
    <3>1. tile # Untold
          BY DEF Untold
    <3> QED BY <2>1, <3>1 DEF ListInv
  <2>3. r \in DOMAIN metricRows /\ tile.figures \in Figures
        BY <2>2 DEF TileOf, ListInv
  <2>4. FitsQuery(q, tile.figures)
        BY <2>3, CountedFits
  <2>5. ~q.stocked /\ ~q.soon /\ ~q.losing /\ ~q.unlike
        BY DEF Shows
  <2>6. r \in ListRows(q)
        BY <2>3, <2>4, <2>5 DEF ListRows, Stocked
  <2>7. \A s \in ListRows(q) : metricRows[s] # NoFigures
        BY DEF ListRows
  <2> HIDE DEF q, r
  <2> DEFINE rows == ListRows(q)
             own == {s \in rows : s[2] = window}
             shown == IF own # {} THEN own ELSE rows
  <2>8. /\ rows # {} /\ \A s \in shown : s \in rows
        /\ \A s \in rows : metricRows[s] # NoFigures
        BY <2>6, <2>7
  <2>9. \A line : Kept(q, line) = line
        BY <2>5 DEF Kept
  <2>10. Outcomes(q, rows)[window][NoFigures] = {Kept(q, metricRows[s]) : s \in shown}
    <3> HIDE DEF rows
    <3> QED BY <2>8 DEF Outcomes
  <2>11. NoFigures \notin {Kept(q, metricRows[s]) : s \in shown}
    <3> HIDE DEF rows, shown
    <3> QED BY <2>8, <2>9
  <2> QED BY <2>10, <2>11 DEF ListShows, q
<1>2. FileIsTheList
  <2> SUFFICES ASSUME ~NeverComputed, NEW q \in AskedAlike, NEW window \in MetricWindow,
                      NEW period \in Periods \ {"holiday"},
                      NEW anew \in ListAnew(period), NEW told \in FileAnew(period, anew)
               PROVE  FileShows(q)[window][told] = ListShows(q)[window][anew]
      BY DEF FileIsTheList
  <2>1. told = anew
        BY DEF Periods, ListAnew, FileAnew
  <2>2. FileRows(q) = ListRows(q)
        BY SameRows DEF AskedAlike
  <2>3. FileShows(q) = ListShows(q)
        BY <2>2 DEF FileShows, ListShows
  <2> QED BY <2>1, <2>3
<1>3. FileMissesNothing
      BY SameRows DEF FileMissesNothing
<1> QED BY <1>1, <1>2, <1>3

(* Between runs the list holds what its tiles count; of what both are told *)
(* the file shows the same, and of everything else it leaves out no row of *)
(* the list: whichever upserts and tiles a run has left out, on any day and*)
(* after any deletion of old rows (skus/page.tsx, api/export/metrics).     *)
THEOREM ListAndFile ==
  SkuListSpec => [](ListedIfCounted /\ FileIsTheList /\ FileMissesNothing)
<1>1. SkuListInit => ListInv
      BY InitList
<1>2. ListInv /\ [SkuListNext]_listVars => ListInv'
      BY StepList
<1>3. ListInv => ListedIfCounted /\ FileIsTheList /\ FileMissesNothing
      BY ListAgrees
<1> QED BY <1>1, <1>2, <1>3, PTL DEF SkuListSpec

-----------------------------------------------------------------------------
(* SkuFilters: the address, the fields and what the user has asked for.    *)

FilterSets == [Param -> BOOLEAN]
Addresses == [params : FilterSets, page : SUBSET FilterSets]

(* A page of the address is one of its own list.                           *)
OwnPage(a) == \A p \in a.page : p = a.params

Sound(a) == a \in Addresses /\ OwnPage(a)

FilterTypes ==
  /\ Sound(address)
  /\ \A g \in goingTo : Sound(g.to)
  /\ \A b \in backTo : Sound(b)
  /\ \A a \in searchBox.timer : Sound(a)
  /\ \A e \in erasing : Sound(e.to) /\ e.range \in BOOLEAN
  /\ searchBox = [text |-> searchBox.text, focus |-> searchBox.focus, timer |-> searchBox.timer]
  /\ searchBox.text \in BOOLEAN /\ searchBox.focus \in BOOLEAN
  /\ rangeBox \in BOOLEAN /\ typedIn \in BOOLEAN
  /\ hurried \in BOOLEAN /\ setAside \in BOOLEAN
  /\ wanted \in FilterSets

(* Without hurry one thing is at work, and it ends in what was asked for.  *)
OneUnderWay ==
  ~hurried =>
    /\ goingTo # Nowhere => searchBox.timer = Nowhere /\ erasing = Nowhere
    /\ searchBox.timer # Nowhere => erasing = Nowhere

EndsAsWanted ==
  ~hurried =>
    /\ AtRest => address.params = wanted
    /\ \A g \in goingTo : g.to.params = wanted
    /\ \A a \in searchBox.timer :
         a = address /\ wanted = [a.params EXCEPT !["q"] = searchBox.text]
    /\ \A e \in erasing : wanted = [e.to.params EXCEPT !["range"] = e.range]

(* The text of the search is that of the address, or of where it is going. *)
BoxesFollow ==
  /\ ~typedIn => rangeBox = address.params["range"]
  /\ ~hurried /\ ~setAside /\ searchBox.timer = Nowhere =>
       \/ searchBox.text = address.params["q"]
       \/ \E g \in goingTo : searchBox.text = g.to.params["q"]

FiltersInv == FilterTypes /\ OneUnderWay /\ EndsAsWanted /\ BoxesFollow

(* The page is opened.                                                     *)
LEMMA InitFilters == FiltersInit => FiltersInv
<1> SUFFICES ASSUME FiltersInit PROVE FiltersInv
    OBVIOUS
<1>1. PICK chip \in BOOLEAN : address = Start(chip)
      BY DEF FiltersInit
<1>2. Start(chip).params \in FilterSets
      BY DEF Start, Plain, FilterSets
<1>3. Sound(address) /\ wanted \in FilterSets
      BY <1>1, <1>2 DEF FiltersInit, Sound, OwnPage, Start, FirstPage, Addresses
<1>4. FilterTypes
      BY <1>3 DEF FiltersInit, FilterTypes, Nowhere
<1>5. OneUnderWay /\ EndsAsWanted
      BY DEF FiltersInit, OneUnderWay, EndsAsWanted, Nowhere
<1>6. BoxesFollow
      BY <1>1 DEF FiltersInit, BoxesFollow, Start, Plain, Param
<1> QED BY <1>4, <1>5, <1>6 DEF FiltersInv

(* A filter that is set leads to the first page.                           *)
LEMMA WithIsSound ==
  ASSUME NEW a, Sound(a), NEW p \in Param, NEW v \in BOOLEAN
  PROVE  Sound(With(a, p, v)) /\ With(a, p, v).params = [a.params EXCEPT ![p] = v]
BY DEF Sound, OwnPage, With, FirstPage, Addresses, FilterSets

(* A control that is used without hurry is used at rest.                   *)
LEMMA UsedAtRest ==
  ASSUME FiltersInv, UseControl
  PROVE  /\ hurried' \in BOOLEAN
         /\ ~hurried' => ~hurried /\ AtRest /\ address.params = wanted
BY DEF FiltersInv, FilterTypes, UseControl, Use, EndsAsWanted

(* A control that sends the router somewhere.                              *)
LEMMA ControlSends ==
  ASSUME FiltersInv, UseControl, NEW to, NEW leaves \in BOOLEAN, Sound(to),
         SendTo(to, leaves), wanted' \in FilterSets,
         ~hurried' => wanted' = to.params,
         UNCHANGED <<address, backTo, boxVars, erasing>>
  PROVE  FiltersInv'
<1>1. goingTo' = {[to |-> to, leaves |-> leaves]}
      BY DEF SendTo
<1>2. /\ UNCHANGED <<searchBox, rangeBox, typedIn, setAside>>
      /\ hurried' \in BOOLEAN
      /\ ~hurried' => ~hurried /\ AtRest
      BY UsedAtRest DEF boxVars
<1>3. FilterTypes'
      BY <1>1, <1>2 DEF FiltersInv, FilterTypes
<1>4. OneUnderWay'
      BY <1>1, <1>2 DEF OneUnderWay, AtRest
<1>5. EndsAsWanted'
  <2>1. goingTo' # Nowhere /\ \A g \in goingTo' : g.to = to
        BY <1>1 DEF Nowhere
  <2> QED BY <1>2, <2>1 DEF EndsAsWanted, AtRest, Nowhere
<1>6. BoxesFollow'
      BY <1>1, <1>2 DEF FiltersInv, BoxesFollow, AtRest, Nowhere
<1> QED BY <1>3, <1>4, <1>5, <1>6 DEF FiltersInv

(* One that changes a single filter.                                       *)
LEMMA ControlOfOne ==
  ASSUME FiltersInv, UseControl, NEW p \in Param, NEW v \in BOOLEAN, NEW leaves \in BOOLEAN,
         SendTo(With(address, p, v), leaves), Want(p, v),
         UNCHANGED <<address, backTo, boxVars, erasing>>
  PROVE  FiltersInv'
<1>1. Sound(address) /\ wanted \in FilterSets
      BY DEF FiltersInv, FilterTypes
<1>2. Sound(With(address, p, v))
      /\ With(address, p, v).params = [address.params EXCEPT ![p] = v]
      BY <1>1, WithIsSound
<1>3. wanted' \in FilterSets
      BY <1>1 DEF Want, FilterSets
<1>4. ~hurried' => wanted' = With(address, p, v).params
      BY <1>2, UsedAtRest DEF Want
<1> QED BY <1>2, <1>3, <1>4, ControlSends

(* Every control that leads elsewhere, or back to the same list.           *)
LEMMA ControlStep ==
  ASSUME FiltersInv, NEW v \in BOOLEAN,
         \/ Choose("brand", v) \/ Choose("switch", v) \/ SegmentLink(v)
         \/ CrossOut \/ Calculate \/ ResetChip \/ PageLink
  PROVE  FiltersInv'
<1>1. Sound(address) /\ address.params \in FilterSets /\ rangeBox \in BOOLEAN
      /\ wanted \in FilterSets
      BY DEF FiltersInv, FilterTypes, Sound, Addresses
<1>2. CASE Choose("brand", v)
      BY <1>2, ControlOfOne DEF Choose, Param
<1>3. CASE Choose("switch", v)
      BY <1>3, ControlOfOne DEF Choose, Param
<1>4. CASE CrossOut
      BY <1>4, ControlOfOne DEF CrossOut, Param
<1>5. CASE Calculate
      BY <1>1, <1>5, ControlOfOne DEF Calculate, Param
<1>6. CASE SegmentLink(v)
  <2> DEFINE kept == [address.params EXCEPT !["segment"] = v, !["range"] = FALSE,
                                            !["brand"] = FALSE]
             to == [params |-> kept, page |-> FirstPage]
  <2>1. kept \in FilterSets
        BY <1>1 DEF FilterSets
  <2>2. Sound(to)
        BY <2>1 DEF Sound, OwnPage, Addresses, FirstPage
  <2>3. UseControl /\ SendTo(to, TRUE) /\ UNCHANGED <<address, backTo, boxVars, erasing>>
        /\ wanted' = [wanted EXCEPT !["segment"] = v, !["range"] = FALSE, !["brand"] = FALSE]
        BY <1>6 DEF SegmentLink
  <2>4. wanted' \in FilterSets
        BY <1>1, <2>3 DEF FilterSets
  <2>5. ~hurried' => wanted' = to.params
        BY <2>3, UsedAtRest
  <2> QED BY <2>2, <2>3, <2>4, <2>5, ControlSends
<1>7. CASE ResetChip
  <2> DEFINE kept == [Plain EXCEPT !["segment"] = address.params["segment"]]
             to == [params |-> kept, page |-> FirstPage]
  <2>1. kept \in FilterSets
        BY <1>1 DEF FilterSets, Plain, Param
  <2>2. Sound(to)
        BY <2>1 DEF Sound, OwnPage, Addresses, FirstPage
  <2>3. UseControl /\ SendTo(to, FALSE) /\ UNCHANGED <<address, backTo, boxVars, erasing>>
        /\ wanted' = kept
        BY <1>7 DEF ResetChip
  <2> QED BY <2>1, <2>2, <2>3, ControlSends
<1>8. CASE PageLink
  <2> DEFINE to == [address EXCEPT !.page = {address.params}]
  <2>1. Sound(to) /\ to.params = address.params
        BY <1>1 DEF Sound, OwnPage, Addresses
  <2>2. UseControl /\ SendTo(to, TRUE) /\ UNCHANGED <<address, backTo, boxVars, erasing, wanted>>
        BY <1>8 DEF PageLink
  <2>3. ~hurried' => wanted' = to.params
        BY <2>1, <2>2, UsedAtRest
  <2> HIDE DEF to
  <2> QED BY <1>1, <2>1, <2>2, <2>3, ControlSends
<1> QED BY <1>2, <1>3, <1>4, <1>5, <1>6, <1>7, <1>8

-----------------------------------------------------------------------------
(* The fields and what goes on by itself.                                  *)

(* Typing a range and moving the focus leave the address alone.            *)
LEMMA FieldStep ==
  ASSUME FiltersInv, TypeRange \/ FocusOrBlur
  PROVE  FiltersInv'
<1>1. UNCHANGED <<address, goingTo, backTo, setAside, erasing, wanted, hurried>>
      /\ searchBox'.timer = searchBox.timer /\ searchBox'.text = searchBox.text
      /\ searchBox'.focus \in BOOLEAN
      /\ searchBox' = [text |-> searchBox'.text, focus |-> searchBox'.focus,
                       timer |-> searchBox'.timer]
      BY DEF TypeRange, FocusOrBlur, FiltersInv, FilterTypes
<1>2. /\ rangeBox' \in BOOLEAN /\ typedIn' \in BOOLEAN
      /\ ~typedIn' => rangeBox' = rangeBox /\ ~typedIn
      BY DEF TypeRange, FocusOrBlur, FiltersInv, FilterTypes
<1>3. FilterTypes'
      BY <1>1, <1>2 DEF FiltersInv, FilterTypes
<1>4. OneUnderWay' /\ EndsAsWanted'
      BY <1>1 DEF FiltersInv, OneUnderWay, EndsAsWanted, AtRest
<1>5. BoxesFollow'
      BY <1>1, <1>2 DEF FiltersInv, BoxesFollow
<1> QED BY <1>3, <1>4, <1>5 DEF FiltersInv

(* A letter typed in the search starts its pause anew.                     *)
LEMMA SearchStep ==
  ASSUME FiltersInv, TypeSearch
  PROVE  FiltersInv'
<1>1. UNCHANGED <<address, goingTo, backTo, rangeBox, typedIn, erasing>>
      /\ searchBox' = [searchBox EXCEPT !.text = ~@, !.timer = {address}]
      /\ setAside' = FALSE
      /\ wanted' = [wanted EXCEPT !["q"] = ~searchBox.text]
      /\ hurried' = (hurried \/ goingTo # Nowhere \/ erasing # Nowhere)
      BY DEF TypeSearch, Use, Want
<1>2. /\ searchBox'.text = ~searchBox.text /\ searchBox'.timer = {address}
      /\ searchBox'.focus = searchBox.focus
      /\ searchBox' = [text |-> searchBox'.text, focus |-> searchBox'.focus,
                       timer |-> searchBox'.timer]
      BY <1>1 DEF FiltersInv, FilterTypes
<1>3. wanted' \in FilterSets /\ Sound(address) /\ address.params \in FilterSets
      /\ wanted \in FilterSets
      BY <1>1 DEF FiltersInv, FilterTypes, FilterSets, Sound, Addresses
<1>4. FilterTypes'
      BY <1>1, <1>2, <1>3 DEF FiltersInv, FilterTypes
<1>5. OneUnderWay'
      BY <1>1 DEF OneUnderWay
<1>6. ASSUME ~hurried' PROVE wanted' = [address.params EXCEPT !["q"] = searchBox'.text]
  <2>1. ~hurried /\ goingTo = Nowhere /\ erasing = Nowhere
        BY <1>1, <1>6
  <2>2. CASE searchBox.timer = Nowhere
    <3>1. wanted = address.params
          BY <2>1, <2>2 DEF FiltersInv, EndsAsWanted, AtRest
    <3> QED BY <1>1, <1>2, <3>1
  <2>3. CASE searchBox.timer # Nowhere
    <3>1. PICK a \in searchBox.timer : TRUE
          BY <2>3 DEF Nowhere
    <3>2. wanted = [address.params EXCEPT !["q"] = searchBox.text]
          BY <2>1, <3>1 DEF FiltersInv, EndsAsWanted
    <3>3. [[address.params EXCEPT !["q"] = searchBox.text] EXCEPT !["q"] = ~searchBox.text]
            = [address.params EXCEPT !["q"] = ~searchBox.text]
          BY <1>3 DEF FilterSets, Param
    <3> QED BY <1>1, <1>2, <3>2, <3>3
  <2> QED BY <2>2, <2>3
<1>7. EndsAsWanted'
      BY <1>1, <1>2, <1>6 DEF EndsAsWanted, AtRest, Nowhere
<1>8. BoxesFollow'
      BY <1>1, <1>2 DEF FiltersInv, BoxesFollow, Nowhere
<1> QED BY <1>4, <1>5, <1>7, <1>8 DEF FiltersInv

(* The pause ends: the search goes where it was typed.                     *)
LEMMA SearchFiresStep ==
  ASSUME FiltersInv, SearchFires
  PROVE  FiltersInv'
<1>1. PICK a \in searchBox.timer : SendTo(With(a, "q", searchBox.text), FALSE)
      BY DEF SearchFires
<1> DEFINE to == With(a, "q", searchBox.text)
<1>2. goingTo' = {[to |-> to, leaves |-> FALSE]}
      BY <1>1 DEF SendTo
<1>3. Sound(to) /\ to.params = [a.params EXCEPT !["q"] = searchBox.text]
      /\ to.params["q"] = searchBox.text
  <2>1. Sound(a) /\ searchBox.text \in BOOLEAN /\ "q" \in Param
        BY DEF FiltersInv, FilterTypes, Param
  <2> QED BY <2>1, WithIsSound DEF Sound, Addresses, FilterSets
<1>4. /\ UNCHANGED <<address, backTo, rangeBox, typedIn, setAside, erasing, wanted, hurried>>
      /\ searchBox'.text = searchBox.text /\ searchBox'.focus = searchBox.focus
      /\ searchBox'.timer = Nowhere
      /\ searchBox' = [text |-> searchBox'.text, focus |-> searchBox'.focus,
                       timer |-> searchBox'.timer]
      BY DEF SearchFires, FiltersInv, FilterTypes
<1> HIDE DEF to
<1>5. FilterTypes'
      BY <1>2, <1>3, <1>4 DEF FiltersInv, FilterTypes, Nowhere
<1>6. ~hurried => goingTo = Nowhere /\ erasing = Nowhere /\ wanted = to.params
      BY <1>1, <1>3 DEF FiltersInv, OneUnderWay, EndsAsWanted, Nowhere
<1>7. OneUnderWay' /\ EndsAsWanted'
  <2>1. goingTo' # Nowhere /\ \A g \in goingTo' : g.to = to
        BY <1>2 DEF Nowhere
  <2> QED BY <1>4, <1>6, <2>1 DEF OneUnderWay, EndsAsWanted, AtRest, Nowhere
<1>8. BoxesFollow'
      BY <1>2, <1>3, <1>4 DEF FiltersInv, BoxesFollow
<1> QED BY <1>5, <1>7, <1>8 DEF FiltersInv

(* Calculate with a range of nothing, and the request that precedes it.    *)
LEMMA ErasingStep ==
  ASSUME FiltersInv, CalculateErasing \/ NotesErased
  PROVE  FiltersInv'
<1>1. CASE CalculateErasing
  <2>1. /\ erasing' = {[to |-> address, range |-> rangeBox]}
        /\ wanted' = [wanted EXCEPT !["range"] = rangeBox]
        /\ UNCHANGED <<address, goingTo, backTo, searchBox, rangeBox, typedIn, setAside>>
        /\ hurried' \in BOOLEAN
        /\ ~hurried' => ~hurried /\ AtRest /\ address.params = wanted
        BY <1>1, UsedAtRest DEF CalculateErasing, Want, boxVars
  <2>2. wanted' \in FilterSets
        BY <2>1 DEF FiltersInv, FilterTypes, FilterSets
  <2>3. FilterTypes'
        BY <2>1, <2>2 DEF FiltersInv, FilterTypes
  <2>4. erasing' # Nowhere /\ \A e \in erasing' : e.to = address /\ e.range = rangeBox
        BY <2>1 DEF Nowhere
  <2>6. OneUnderWay' /\ EndsAsWanted'
        BY <2>1, <2>4 DEF OneUnderWay, EndsAsWanted, AtRest, Nowhere
  <2>5. BoxesFollow'
        BY <2>1 DEF FiltersInv, BoxesFollow
  <2> QED BY <2>3, <2>5, <2>6 DEF FiltersInv
<1>2. CASE NotesErased
  <2>1. PICK e \in erasing : SendTo(With(e.to, "range", e.range), FALSE)
        BY <1>2 DEF NotesErased
  <2> DEFINE to == With(e.to, "range", e.range)
  <2>2. goingTo' = {[to |-> to, leaves |-> FALSE]}
        BY <2>1 DEF SendTo
  <2>3. Sound(to) /\ to.params = [e.to.params EXCEPT !["range"] = e.range]
    <3>1. Sound(e.to) /\ e.range \in BOOLEAN /\ "range" \in Param
          BY DEF FiltersInv, FilterTypes, Param
    <3> QED BY <3>1, WithIsSound
  <2>4. /\ erasing' = Nowhere
        /\ UNCHANGED <<address, backTo, searchBox, rangeBox, typedIn, setAside, wanted, hurried>>
        BY <1>2 DEF NotesErased, boxVars
  <2> HIDE DEF to
  <2>5. FilterTypes'
        BY <2>2, <2>3, <2>4 DEF FiltersInv, FilterTypes, Nowhere
  <2>6. ~hurried => goingTo = Nowhere /\ searchBox.timer = Nowhere /\ wanted = to.params
        BY <2>1, <2>3 DEF FiltersInv, OneUnderWay, EndsAsWanted, Nowhere
  <2>7. OneUnderWay' /\ EndsAsWanted'
    <3>1. goingTo' # Nowhere /\ \A g \in goingTo' : g.to = to
          BY <2>2 DEF Nowhere
    <3> QED BY <2>4, <2>6, <3>1 DEF OneUnderWay, EndsAsWanted, AtRest, Nowhere
  <2>8. BoxesFollow'
        BY <2>2, <2>4, <2>6 DEF FiltersInv, BoxesFollow, Nowhere
  <2> QED BY <2>5, <2>7, <2>8 DEF FiltersInv
<1> QED BY <1>1, <1>2

(* What an address that comes leaves the fields with.                      *)
LEMMA ArriveFills ==
  ASSUME FiltersInv, NEW a, Sound(a), Arrive(a)
  PROVE  /\ address' = a
         /\ searchBox'.timer = searchBox.timer /\ searchBox'.focus = searchBox.focus
         /\ searchBox' = [text |-> searchBox'.text, focus |-> searchBox'.focus,
                          timer |-> searchBox'.timer]
         /\ searchBox'.text \in BOOLEAN /\ setAside' \in BOOLEAN
         /\ rangeBox' \in BOOLEAN /\ typedIn' \in BOOLEAN
         /\ ~typedIn' => rangeBox' = a.params["range"]
         /\ a # address => setAside' \/ searchBox'.text = a.params["q"]
         /\ a = address => UNCHANGED <<searchBox, setAside>>
<1>1. a.params["q"] \in BOOLEAN /\ a.params["range"] \in BOOLEAN
      BY DEF Sound, Addresses, FilterSets, Param
<1>2. CASE a = address
      BY <1>2 DEF Arrive, boxVars, FiltersInv, FilterTypes, BoxesFollow
<1>3. CASE a # address
      BY <1>1, <1>3 DEF Arrive, Filled, FiltersInv, FilterTypes
<1> QED BY <1>2, <1>3

(* A navigation ends.                                                      *)
LEMMA PageComesStep ==
  ASSUME FiltersInv, PageComes
  PROVE  FiltersInv'
<1>1. PICK g \in goingTo : Arrive(g.to) /\ backTo' = IF g.leaves THEN {address} ELSE backTo
      BY DEF PageComes
<1>2. goingTo' = Nowhere /\ UNCHANGED <<erasing, wanted, hurried>>
      BY DEF PageComes
<1>3. Sound(g.to) /\ Sound(address)
      BY DEF FiltersInv, FilterTypes
<1>4. FilterTypes'
      BY <1>1, <1>2, <1>3, ArriveFills DEF FiltersInv, FilterTypes, Nowhere
<1>5. ~hurried => searchBox.timer = Nowhere /\ erasing = Nowhere /\ g.to.params = wanted
      BY <1>1 DEF FiltersInv, OneUnderWay, EndsAsWanted, Nowhere
<1>6. OneUnderWay' /\ EndsAsWanted'
      BY <1>1, <1>2, <1>3, <1>5, ArriveFills DEF OneUnderWay, EndsAsWanted, Nowhere
<1>7. ASSUME ~hurried, ~setAside', g.to = address, searchBox'.timer = Nowhere
      PROVE  searchBox'.text = address'.params["q"]
  <2>1. UNCHANGED <<searchBox, setAside>> /\ address' = address
        BY <1>1, <1>3, <1>7, ArriveFills
  <2>2. \/ searchBox.text = address.params["q"]
        \/ \E h \in goingTo : searchBox.text = h.to.params["q"]
        BY <1>7, <2>1 DEF FiltersInv, BoxesFollow
  <2>3. \A h \in goingTo : h.to.params = g.to.params
        BY <1>7 DEF FiltersInv, EndsAsWanted
  <2> QED BY <1>7, <2>1, <2>2, <2>3
<1>8. BoxesFollow'
      BY <1>1, <1>2, <1>3, <1>7, ArriveFills DEF BoxesFollow
<1> QED BY <1>4, <1>6, <1>8 DEF FiltersInv

(* The browser goes back, to an address the user has left.                 *)
LEMMA GoBackStep ==
  ASSUME FiltersInv, GoBack
  PROVE  FiltersInv'
<1>1. PICK b \in backTo : Arrive(b) /\ wanted' = b.params
      BY DEF GoBack
<1>2. /\ backTo' = Nowhere /\ goingTo' = Nowhere /\ UNCHANGED erasing
      /\ hurried' \in BOOLEAN
      /\ ~hurried' => ~hurried /\ AtRest
      BY UsedAtRest DEF GoBack
<1>3. Sound(b) /\ b.params \in FilterSets
      BY DEF FiltersInv, FilterTypes, Sound, Addresses
<1>4. FilterTypes'
      BY <1>1, <1>2, <1>3, ArriveFills DEF FiltersInv, FilterTypes, Nowhere
<1>5. OneUnderWay' /\ EndsAsWanted'
      BY <1>1, <1>2, <1>3, ArriveFills DEF OneUnderWay, EndsAsWanted, AtRest, Nowhere
<1>6. BoxesFollow'
      BY <1>1, <1>2, <1>3, ArriveFills DEF FiltersInv, BoxesFollow, AtRest, Nowhere
<1> QED BY <1>4, <1>5, <1>6 DEF FiltersInv

(* Every step of the page preserves the invariant.                         *)
LEMMA StepFilters == FiltersInv /\ [FiltersNext]_filterVars => FiltersInv'
<1> SUFFICES ASSUME FiltersInv, [FiltersNext]_filterVars PROVE FiltersInv'
    OBVIOUS
<1>1. CASE UNCHANGED filterVars
      BY <1>1 DEF filterVars, boxVars, FiltersInv, FilterTypes, OneUnderWay, EndsAsWanted,
                  BoxesFollow, AtRest
<1>2. CASE FiltersNext
      BY <1>2, ControlStep, FieldStep, SearchStep, SearchFiresStep, ErasingStep,
         PageComesStep, GoBackStep DEF FiltersNext
<1> QED BY <1>1, <1>2

(* The invariant says what is wanted of the address and the fields.        *)
LEMMA FiltersHold == FiltersInv => ChoicesStand /\ FieldsShowTheFilters /\ PageIsOfThisList
<1> SUFFICES ASSUME FiltersInv PROVE ChoicesStand /\ FieldsShowTheFilters /\ PageIsOfThisList
    OBVIOUS
<1>1. ChoicesStand
      BY DEF FiltersInv, EndsAsWanted, ChoicesStand
<1>2. FieldsShowTheFilters
      BY DEF FiltersInv, BoxesFollow, FieldsShowTheFilters, AtRest, Nowhere
<1>3. PageIsOfThisList
      BY DEF FiltersInv, FilterTypes, Sound, OwnPage, PageIsOfThisList
<1> QED BY <1>1, <1>2, <1>3

(* The address ends as the user wanted it and never keeps a page of another*)
(* list, for every order in which the pause of the search, a navigation    *)
(* and the erasing of notes end (SearchInput, SkuFilters, page links).     *)
THEOREM FiltersStay == FiltersSpec => [](ChoicesStand /\ FieldsShowTheFilters /\ PageIsOfThisList)
<1>1. FiltersInit => FiltersInv
      BY InitFilters
<1>2. FiltersInv /\ [FiltersNext]_filterVars => FiltersInv'
      BY StepFilters
<1>3. FiltersInv => ChoicesStand /\ FieldsShowTheFilters /\ PageIsOfThisList
      BY FiltersHold
<1> QED BY <1>1, <1>2, <1>3, PTL DEF FiltersSpec

(* What is asked of the page of products as a whole: both of the above,    *)
(* since its rows and its address are written by different code.           *)
THEOREM ListAsAsked == ListSpec => []ListIsAsAsked
<1>1. SkuListSpec => [](ListedIfCounted /\ FileIsTheList /\ FileMissesNothing)
      BY ListAndFile
<1>2. FiltersSpec => [](ChoicesStand /\ FieldsShowTheFilters /\ PageIsOfThisList)
      BY FiltersStay
<1>3. (ListedIfCounted /\ FileIsTheList /\ FileMissesNothing)
        /\ (ChoicesStand /\ FieldsShowTheFilters /\ PageIsOfThisList) => ListIsAsAsked
      BY DEF ListIsAsAsked
<1> QED BY <1>1, <1>2, <1>3, PTL DEF ListSpec

-----------------------------------------------------------------------------
(* PriceUpload: the form, the route and the worker.                        *)

UploadStates ==
  [list : PriceList \cup {NoList},
   row : {"none", "processing", "failed", "completed"},
   route : {"none", "insert", "waiting", "over"},
   worker : {"none", "queued", "brands", "row", "over", "dead"},
   left : SUBSET Word]

UploadTypes ==
  /\ uploading \in BOOLEAN /\ overdue \in BOOLEAN
  /\ chosenList \in PriceList \cup {NoList}
  /\ upload \in [UploadId -> UploadStates]
  /\ review \in [Word -> {"absent", "approved", "excluded"}]
  /\ verdict \in [Word -> {"none", "absent", "approved", "excluded"}]
  /\ unwritten \in [UploadId -> SUBSET Word]
  /\ verdicts \in Nat

Live(u) == upload[u].route \in {"insert", "waiting"}

(* One upload is on its way at a time, and the form waits for it.          *)
OneIsLive ==
  \A u \in UploadId : Live(u) => uploading /\ \A v \in UploadId : Live(v) => v = u

(* The worker is at work only for a route that waits, or was given up.     *)
WorkIsAwaited ==
  \A u \in UploadId :
    /\ upload[u].worker \in {"queued", "brands", "row"} => overdue \/ upload[u].route = "waiting"
    /\ upload[u].route \in {"none", "insert"} => upload[u].worker = "none"

(* While the form waits there is no decision to be kept.                   *)
NothingDecided == uploading => \A w \in Word : verdict[w] = "none"

(* What the worker has been through is put up, as long as the seller has   *)
(* deleted nothing.                                                        *)
PutUpSoFar ==
  verdicts = 0 =>
    \A u \in UploadId :
      /\ upload[u].worker \in {"brands", "row"} =>
           \A w \in FoundIn(upload[u].list) \ (upload[u].left \cup unwritten[u]) :
             review[w] # "absent"
      /\ upload[u].row = "completed" =>
           \A w \in FoundIn(upload[u].list) \ unwritten[u] : review[w] # "absent"

(* The row comes after the last word, and not before the route's insert.   *)
LastIsNone ==
  \A u \in UploadId :
    /\ upload[u].worker = "row" => upload[u].left = {}
    /\ upload[u].route \in {"none", "insert"} => upload[u].row = "none"

UploadsInv ==
  UploadTypes /\ OneIsLive /\ WorkIsAwaited /\ NothingDecided /\ VerdictStands
    /\ LastIsNone /\ PutUpSoFar

(* Nothing was sent.                                                       *)
LEMMA InitUploads == UploadsInit => UploadsInv
<1> SUFFICES ASSUME UploadsInit PROVE UploadsInv
    OBVIOUS
<1>1. Unsent \in UploadStates
      BY DEF Unsent, UploadStates
<1>2. UploadTypes
      BY <1>1 DEF UploadsInit, UploadTypes
<1>3. \A u \in UploadId : upload[u] = Unsent
      BY DEF UploadsInit
<1>4. OneIsLive /\ WorkIsAwaited /\ LastIsNone /\ PutUpSoFar
      BY <1>3 DEF Unsent, OneIsLive, Live, WorkIsAwaited, LastIsNone, PutUpSoFar
<1>5. NothingDecided /\ VerdictStands
      BY DEF UploadsInit, NothingDecided, VerdictStands
<1> QED BY <1>2, <1>4, <1>5 DEF UploadsInv

(* The form and the seller.                                                *)
LEMMA PickKeeps ==
  ASSUME UploadsInv, NEW l \in PriceList, PickList(l)
  PROVE  UploadsInv'
BY DEF UploadsInv, PickList, UploadTypes, OneIsLive, Live, WorkIsAwaited, NothingDecided,
       VerdictStands, LastIsNone, PutUpSoFar, FoundIn

(* The seller decides of a brand.                                          *)
LEMMA DecideKeeps ==
  ASSUME UploadsInv, NEW w \in Word, NEW status \in {"approved", "excluded", "absent"},
         Decide(w, status)
  PROVE  UploadsInv'
<1>1. /\ UNCHANGED <<chosenList, uploading, upload, overdue, unwritten>>
      /\ review' = [review EXCEPT ![w] = status]
      /\ verdict' = [verdict EXCEPT ![w] = IF uploading \/ overdue THEN "none" ELSE status]
      /\ verdicts' = verdicts + 1
      BY DEF Decide
<1>2. UploadTypes' /\ verdicts' # 0
      BY <1>1 DEF UploadsInv, UploadTypes
<1>3. OneIsLive' /\ WorkIsAwaited' /\ LastIsNone'
      BY <1>1 DEF UploadsInv, OneIsLive, Live, WorkIsAwaited, LastIsNone
<1>4. NothingDecided' /\ VerdictStands'
      BY <1>1 DEF UploadsInv, UploadTypes, NothingDecided, VerdictStands
<1> QED BY <1>2, <1>3, <1>4 DEF UploadsInv, PutUpSoFar

(* A list is sent.                                                         *)
LEMMA SendKeeps ==
  ASSUME UploadsInv, NEW u \in UploadId, SendList(u)
  PROVE  UploadsInv'
<1> DEFINE new == [list |-> chosenList, row |-> "none", route |-> "insert", worker |-> "none",
                   left |-> {}]
<1>1. /\ uploading' /\ ~uploading /\ UNCHANGED <<chosenList, review, overdue, unwritten, verdicts>>
      /\ verdict' = [w \in Word |-> "none"]
      BY DEF SendList, Sendable
<1>2. upload' = [upload EXCEPT ![u] = new]
      BY DEF SendList, Unsent, UploadsInv, UploadTypes
<1>3. \A v \in UploadId : v # u => upload'[v] = upload[v]
      BY <1>2 DEF UploadsInv, UploadTypes
<1>4. upload'[u] = new
      BY <1>2 DEF UploadsInv, UploadTypes
<1>5. new \in UploadStates
      BY DEF UploadsInv, UploadTypes, UploadStates
<1>6. UploadTypes'
      BY <1>1, <1>2, <1>5 DEF UploadsInv, UploadTypes
<1>7. OneIsLive'
      BY <1>1, <1>3, <1>4 DEF UploadsInv, OneIsLive, Live
<1>8. WorkIsAwaited' /\ LastIsNone'
      BY <1>1, <1>3, <1>4 DEF UploadsInv, WorkIsAwaited, LastIsNone
<1>9. NothingDecided' /\ VerdictStands'
      BY <1>1 DEF NothingDecided, VerdictStands
<1>10. PutUpSoFar'
      BY <1>1, <1>3, <1>4 DEF UploadsInv, PutUpSoFar, FoundIn
<1> QED BY <1>6, <1>7, <1>8, <1>9, <1>10 DEF UploadsInv

(* A step of the route, or one of the worker that writes no brand.         *)
LEMMA UploadAlone ==
  ASSUME UploadsInv, NEW u \in UploadId, NEW new \in UploadStates,
         upload' = [upload EXCEPT ![u] = new], new.list = upload[u].list,
         uploading' \in BOOLEAN, overdue' \in BOOLEAN, overdue => overdue',
         uploading' => uploading, Live(u)' => Live(u) /\ uploading',
         ~uploading' => ~uploading \/ Live(u),
         UNCHANGED <<chosenList, review, verdict, unwritten, verdicts>>,
         /\ new.worker \in {"queued", "brands", "row"} => overdue' \/ new.route = "waiting"
         /\ new.route \in {"none", "insert"} => new.worker = "none" /\ new.row = "none"
         /\ new.worker = "row" => new.left = {},
         verdicts = 0 /\ new.worker \in {"brands", "row"} =>
           \A w \in FoundIn(new.list) \ (new.left \cup unwritten[u]) : review[w] # "absent",
         verdicts = 0 /\ new.row = "completed" =>
           \A w \in FoundIn(new.list) \ unwritten[u] : review[w] # "absent"
  PROVE  UploadsInv'
<1>1. upload'[u] = new /\ \A v \in UploadId : v # u => upload'[v] = upload[v]
      BY DEF UploadsInv, UploadTypes
<1>2. UploadTypes'
      BY DEF UploadsInv, UploadTypes
<1>3. OneIsLive'
  <2>1. \A v \in UploadId : Live(v)' => Live(v)
        BY <1>1 DEF Live
  <2>2. ASSUME NEW v \in UploadId, Live(v)' PROVE uploading'
    <3>1. CASE v = u
          BY <2>2, <3>1
    <3>2. CASE v # u
          BY <2>1, <2>2, <3>2 DEF UploadsInv, OneIsLive
    <3> QED BY <3>1, <3>2
  <2> QED BY <2>1, <2>2 DEF UploadsInv, OneIsLive
<1>4. WorkIsAwaited' /\ LastIsNone'
      BY <1>1 DEF UploadsInv, WorkIsAwaited, LastIsNone
<1>5. NothingDecided' /\ VerdictStands'
      BY DEF UploadsInv, NothingDecided, VerdictStands
<1>6. PutUpSoFar'
      BY <1>1 DEF UploadsInv, PutUpSoFar, FoundIn
<1> QED BY <1>2, <1>3, <1>4, <1>5, <1>6 DEF UploadsInv

(* The route: it inserts, refuses, answers, gives up or is stopped.        *)
LEMMA UploadRouteKeeps ==
  ASSUME UploadsInv, NEW u \in UploadId,
         InsertRow(u) \/ RouteRefuses(u) \/ RouteAnswers(u) \/ RouteGivesUp(u) \/ RouteStops(u)
  PROVE  UploadsInv'
<1> DEFINE up == upload[u]
<1>1. /\ up \in UploadStates /\ Live(u) /\ uploading
      /\ UNCHANGED <<chosenList, review, verdict, unwritten, verdicts>>
      BY DEF UploadsInv, UploadTypes, OneIsLive, Live, InsertRow, RouteRefuses, RouteAnswers,
             RouteGivesUp, RouteStops, SellerRests
<1>2. /\ up.worker \in {"queued", "brands", "row"} => overdue \/ up.route = "waiting"
      /\ up.route \in {"none", "insert"} => up.worker = "none" /\ up.row = "none"
      /\ up.worker = "row" => up.left = {}
      /\ verdicts = 0 /\ up.worker \in {"brands", "row"} =>
           \A w \in FoundIn(up.list) \ (up.left \cup unwritten[u]) : review[w] # "absent"
      /\ verdicts = 0 /\ up.row = "completed" =>
           \A w \in FoundIn(up.list) \ unwritten[u] : review[w] # "absent"
      BY DEF UploadsInv, WorkIsAwaited, LastIsNone, PutUpSoFar
<1>3. CASE InsertRow(u)
  <2> DEFINE new == [up EXCEPT !.row = "processing", !.route = "waiting", !.worker = "queued"]
  <2>1. upload' = [upload EXCEPT ![u] = new] /\ UNCHANGED <<uploading, overdue>>
        BY <1>3 DEF InsertRow, UploadsInv, UploadTypes
  <2>2. /\ new \in UploadStates /\ new.list = up.list /\ new.route = "waiting"
        /\ new.worker = "queued" /\ new.row = "processing"
        BY <1>1 DEF UploadStates
  <2> HIDE DEF new
  <2> QED BY <1>1, <2>1, <2>2, UploadAlone DEF UploadsInv, UploadTypes
<1>4. CASE RouteRefuses(u) \/ RouteAnswers(u)
  <2> DEFINE new == [up EXCEPT !.route = "over"]
  <2>1. /\ upload' = [upload EXCEPT ![u] = new] /\ uploading' = FALSE /\ UNCHANGED overdue
        /\ up.route = "insert" \/ up.worker = "over"
        BY <1>4 DEF RouteRefuses, RouteAnswers, FormRests, UploadsInv, UploadTypes
  <2>2. /\ new \in UploadStates /\ new.list = up.list /\ new.route = "over"
        /\ new.worker = up.worker /\ new.row = up.row /\ new.left = up.left
        BY <1>1 DEF UploadStates
  <2>3. ~Live(u)'
        BY <2>1, <2>2 DEF Live, UploadsInv, UploadTypes
  <2> HIDE DEF new
  <2> QED BY <1>1, <1>2, <2>1, <2>2, <2>3, UploadAlone DEF UploadsInv, UploadTypes
<1>5. CASE RouteGivesUp(u) \/ RouteStops(u)
  <2>1. PICK row \in {up.row, MarkFailed(up.row)} :
          upload' = [upload EXCEPT ![u].route = "over", ![u].row = row]
    <3>1. CASE RouteGivesUp(u)
          BY <3>1 DEF RouteGivesUp
    <3>2. CASE RouteStops(u)
          BY <3>2 DEF RouteStops, UploadsInv, UploadTypes, UploadStates
    <3> QED BY <1>5, <3>1, <3>2
  <2> DEFINE new == [up EXCEPT !.route = "over", !.row = row]
  <2>2. upload' = [upload EXCEPT ![u] = new]
        BY <2>1 DEF UploadsInv, UploadTypes
  <2>3. /\ new \in UploadStates /\ new.list = up.list /\ new.route = "over"
        /\ new.worker = up.worker /\ new.left = up.left
        /\ new.row = "completed" => up.row = "completed"
        BY <1>1, <2>1 DEF UploadStates, MarkFailed
  <2>4. /\ uploading' = FALSE /\ overdue' \in BOOLEAN
        /\ overdue => overdue'
        /\ up.worker \in {"queued", "brands", "row"} => overdue'
        BY <1>5 DEF RouteGivesUp, RouteStops, FormRests, UploadsInv, UploadTypes
  <2>5. ~Live(u)'
        BY <2>2, <2>3 DEF Live, UploadsInv, UploadTypes
  <2>6. verdicts = 0 /\ new.row = "completed" =>
          \A w \in FoundIn(new.list) \ unwritten[u] : review[w] # "absent"
        BY <1>2, <2>3
  <2>7. /\ new.worker \in {"queued", "brands", "row"} => overdue'
        /\ new.route \notin {"none", "insert"}
        /\ new.worker = "row" => new.left = {}
        BY <1>2, <2>3, <2>4
  <2>8. verdicts = 0 /\ new.worker \in {"brands", "row"} =>
          \A w \in FoundIn(new.list) \ (new.left \cup unwritten[u]) : review[w] # "absent"
        BY <1>2, <2>3
  <2>9. /\ uploading' \in BOOLEAN
        /\ uploading' => uploading
        /\ Live(u)' => Live(u) /\ uploading'
        /\ ~uploading' => ~uploading \/ Live(u)
        BY <1>1, <2>4, <2>5
  <2>10. new.list = upload[u].list /\ new \in UploadStates
        BY <2>3
  <2> HIDE DEF new, up
  <2> QED BY <1>1, <2>2, <2>4, <2>6, <2>7, <2>8, <2>9, <2>10, UploadAlone
<1> QED BY <1>3, <1>4, <1>5

(* The worker takes a list, refuses it, or completes its row.              *)
LEMMA UploadWorkerKeeps ==
  ASSUME UploadsInv, NEW u \in UploadId,
         TakeList(u) \/ NothingFound(u) \/ WorkerRefuses(u) \/ CompleteRow(u)
  PROVE  UploadsInv'
<1> DEFINE up == upload[u]
<1>1. /\ up \in UploadStates /\ uploading \in BOOLEAN /\ overdue \in BOOLEAN
      /\ up.worker \in {"queued", "row"}
      /\ UNCHANGED <<uploading, overdue, chosenList, review, verdict, unwritten, verdicts>>
      BY DEF UploadsInv, UploadTypes, TakeList, NothingFound, WorkerRefuses, CompleteRow,
             SellerRests
<1>2. /\ overdue \/ up.route = "waiting"
      /\ up.route \notin {"none", "insert"}
      /\ up.worker = "row" => up.left = {}
      /\ verdicts = 0 /\ up.worker = "row" =>
           \A w \in FoundIn(up.list) \ (up.left \cup unwritten[u]) : review[w] # "absent"
      /\ verdicts = 0 /\ up.row = "completed" =>
           \A w \in FoundIn(up.list) \ unwritten[u] : review[w] # "absent"
      BY <1>1 DEF UploadsInv, WorkIsAwaited, LastIsNone, PutUpSoFar
<1>3. Live(u) => uploading
      BY DEF UploadsInv, OneIsLive
<1>4. CASE TakeList(u)
  <2> DEFINE new == [up EXCEPT !.worker = "brands", !.left = FoundIn(up.list)]
  <2>1. upload' = [upload EXCEPT ![u] = new]
        BY <1>4 DEF TakeList, UploadsInv, UploadTypes
  <2>2. /\ new \in UploadStates /\ new.list = up.list /\ new.route = up.route
        /\ new.worker = "brands" /\ new.row = up.row /\ new.left = FoundIn(up.list)
        BY <1>1 DEF UploadStates, FoundIn
  <2>3. Live(u)' => Live(u)
        BY <2>1, <2>2 DEF Live, UploadsInv, UploadTypes
  <2> HIDE DEF new
  <2> QED BY <1>1, <1>2, <1>3, <2>1, <2>2, <2>3, UploadAlone
<1>5. CASE NothingFound(u) \/ WorkerRefuses(u) \/ CompleteRow(u)
  <2>1. PICK row \in {up.row, "failed", "completed"} :
          /\ upload' = [upload EXCEPT ![u].worker = "over", ![u].row = row]
          /\ row = "completed" => up.row = "completed" \/ up.worker = "row"
    <3>1. CASE NothingFound(u)
          BY <3>1 DEF NothingFound
    <3>2. CASE WorkerRefuses(u)
          BY <3>2 DEF WorkerRefuses, UploadsInv, UploadTypes, UploadStates
    <3>3. CASE CompleteRow(u)
          BY <3>3 DEF CompleteRow
    <3> QED BY <1>5, <3>1, <3>2, <3>3
  <2> DEFINE new == [up EXCEPT !.worker = "over", !.row = row]
  <2>2. upload' = [upload EXCEPT ![u] = new]
        BY <2>1 DEF UploadsInv, UploadTypes
  <2>3. /\ new \in UploadStates /\ new.list = up.list /\ new.route = up.route
        /\ new.worker = "over" /\ new.left = up.left /\ new.row = row
        BY <1>1, <2>1 DEF UploadStates
  <2>4. Live(u)' => Live(u)
        BY <2>2, <2>3 DEF Live, UploadsInv, UploadTypes
  <2>5. verdicts = 0 /\ row = "completed" =>
          \A w \in FoundIn(up.list) \ unwritten[u] : review[w] # "absent"
        BY <1>2, <2>1
  <2>6. ~Live(u) \/ uploading
        BY <1>3
  <2>7. new.route \notin {"none", "insert"}
        BY <1>2, <2>3
  <2> HIDE DEF new
  <2>8. verdicts = 0 /\ new.row = "completed" =>
          \A w \in FoundIn(new.list) \ unwritten[u] : review[w] # "absent"
        BY <2>3, <2>5
  <2>9. /\ uploading' \in BOOLEAN /\ overdue' \in BOOLEAN
        /\ overdue => overdue'
        /\ uploading' => uploading
        /\ ~uploading' => ~uploading
        /\ Live(u)' => Live(u) /\ uploading'
        /\ UNCHANGED <<chosenList, review, verdict, unwritten, verdicts>>
        BY <1>1, <2>4, <2>6
  <2>10. new.worker = "over" /\ new.list = upload[u].list /\ new \in UploadStates
        BY <2>3
  <2> HIDE DEF up
  <2> QED BY <2>2, <2>7, <2>8, <2>9, <2>10, UploadAlone
<1> QED BY <1>4, <1>5

(* A brand is put up, or cannot be.                                        *)
LEMMA BrandKeeps ==
  ASSUME UploadsInv, NEW u \in UploadId, NEW w \in Word, PutUp(u, w) \/ PutUpFails(u, w)
  PROVE  UploadsInv'
<1> DEFINE up == upload[u]
           rest == up.left \ {w}
           new == [up EXCEPT !.left = rest, !.worker = IF rest = {} THEN "row" ELSE "brands"]
<1>1. /\ up.worker = "brands"
      /\ UNCHANGED <<uploading, overdue, chosenList, verdict, verdicts>>
      /\ upload' = [upload EXCEPT ![u].left = rest,
                                  ![u].worker = IF rest = {} THEN "row" ELSE "brands"]
      BY DEF PutUp, PutUpFails, LeftOver, AfterFailure, SellerRests
<1>2. upload' = [upload EXCEPT ![u] = new]
      BY <1>1 DEF UploadsInv, UploadTypes
<1>3. /\ new \in UploadStates /\ new.list = up.list /\ new.route = up.route
      /\ new.worker \in {"brands", "row"} /\ new.row = up.row /\ new.left = rest
      /\ new.worker = "row" => rest = {}
  <2>1. up \in UploadStates
        BY DEF UploadsInv, UploadTypes
  <2> QED BY <2>1 DEF UploadStates
<1>4. \/ UNCHANGED unwritten /\ review' = [review EXCEPT ![w] = "excluded"]
      \/ UNCHANGED review /\ unwritten' = [unwritten EXCEPT ![u] = @ \cup {w}]
      BY DEF PutUp, PutUpFails
<1>5. /\ \A x \in Word : review'[x] = "absent" => review[x] = "absent"
      /\ \A v \in UploadId : unwritten[v] \subseteq unwritten'[v]
      /\ review'[w] # "absent" \/ w \in unwritten'[u]
      /\ review' \in [Word -> {"absent", "approved", "excluded"}]
      /\ unwritten' \in [UploadId -> SUBSET Word]
      BY <1>4 DEF UploadsInv, UploadTypes
<1> HIDE DEF new
<1>6. upload'[u] = new /\ \A v \in UploadId : v # u => upload'[v] = upload[v]
      BY <1>2 DEF UploadsInv, UploadTypes
<1>7. UploadTypes'
  <2>1. upload' \in [UploadId -> UploadStates]
        BY <1>2, <1>3 DEF UploadsInv, UploadTypes
  <2> QED BY <1>1, <1>5, <2>1 DEF UploadsInv, UploadTypes
<1>8. OneIsLive' /\ WorkIsAwaited' /\ LastIsNone'
  <2>1. \A v \in UploadId : upload'[v].route = upload[v].route
        BY <1>3, <1>6
  <2>2. OneIsLive'
        BY <1>1, <2>1 DEF UploadsInv, OneIsLive, Live
  <2>3. WorkIsAwaited' /\ LastIsNone'
        BY ZenonT(60), <1>1, <1>3, <1>6 DEF UploadsInv, WorkIsAwaited, LastIsNone
  <2> QED BY <2>2, <2>3
<1>9. NothingDecided' /\ VerdictStands'
  <2>1. overdue \/ \A x \in Word : verdict[x] = "none"
        BY <1>1 DEF UploadsInv, WorkIsAwaited, OneIsLive, Live, NothingDecided
  <2> QED BY <1>1, <2>1 DEF UploadsInv, NothingDecided, VerdictStands
<1>10. PutUpSoFar'
  <2> SUFFICES ASSUME verdicts = 0, NEW v \in UploadId
               PROVE  /\ upload'[v].worker \in {"brands", "row"} =>
                           \A x \in FoundIn(upload'[v].list) \ (upload'[v].left \cup unwritten'[v]) :
                             review'[x] # "absent"
                      /\ upload'[v].row = "completed" =>
                           \A x \in FoundIn(upload'[v].list) \ unwritten'[v] : review'[x] # "absent"
      BY <1>1 DEF PutUpSoFar, FoundIn
  <2>1. /\ upload[v].worker \in {"brands", "row"} =>
             \A x \in FoundIn(upload[v].list) \ (upload[v].left \cup unwritten[v]) :
               review[x] # "absent"
        /\ upload[v].row = "completed" =>
             \A x \in FoundIn(upload[v].list) \ unwritten[v] : review[x] # "absent"
        BY DEF UploadsInv, PutUpSoFar
  <2>2. FoundIn(upload[v].list) \subseteq Word
        BY DEF FoundIn
  <2>3. CASE v # u
        BY <1>5, <1>6, <2>1, <2>2, <2>3
  <2>4. CASE v = u
    <3>1. /\ upload'[v].list = up.list /\ upload'[v].left = up.left \ {w}
          /\ upload'[v].row = up.row /\ up.worker = "brands"
          BY <1>1, <1>3, <1>6, <2>4
    <3>2. ASSUME NEW x \in FoundIn(up.list) \ (up.left \ {w}), x \notin unwritten'[u]
          PROVE  review'[x] # "absent"
      <4>1. CASE x = w
            BY <1>5, <3>2, <4>1
      <4>2. CASE x # w
        <5>1. x \in Word /\ x \in FoundIn(up.list) \ (up.left \cup unwritten[u])
              BY <1>5, <2>2, <2>4, <3>2, <4>2
        <5>2. review[x] # "absent"
              BY <2>1, <2>4, <3>1, <5>1
        <5> QED BY <1>5, <5>1, <5>2
      <4> QED BY <4>1, <4>2
    <3>3. ASSUME up.row = "completed", NEW x \in FoundIn(up.list) \ unwritten'[u]
          PROVE  review'[x] # "absent"
      <4>1. x \in Word /\ x \in FoundIn(up.list) \ unwritten[u]
            BY <1>5, <2>2, <2>4, <3>3
      <4>2. review[x] # "absent"
            BY <2>1, <2>4, <3>3, <4>1
      <4> QED BY <1>5, <4>1, <4>2
    <3> QED BY <2>4, <3>1, <3>2, <3>3
  <2> QED BY <2>3, <2>4
<1> QED BY <1>7, <1>8, <1>9, <1>10 DEF UploadsInv

(* A restart: what is dropped writes nothing any more.                     *)
LEMMA DropKeeps ==
  ASSUME UploadsInv, ListsAreDropped
  PROVE  UploadsInv'
<1>1. /\ UNCHANGED <<uploading, review, overdue, unwritten, chosenList, verdict, verdicts>>
      /\ upload' = [u \in UploadId |->
           IF upload[u].worker = "queued" \/ AtWork(u)
           THEN [upload[u] EXCEPT !.worker = "dead", !.left = {}] ELSE upload[u]]
      BY DEF ListsAreDropped, SellerRests
<1>2. ASSUME NEW u \in UploadId
      PROVE  /\ upload'[u] \in UploadStates
             /\ upload'[u].list = upload[u].list /\ upload'[u].row = upload[u].row
             /\ upload'[u].route = upload[u].route
             /\ \/ upload'[u] = upload[u]
                \/ upload[u].worker # "none" /\ upload'[u].worker = "dead"
  <2>1. upload[u] \in UploadStates
        BY DEF UploadsInv, UploadTypes
  <2>2. upload'[u] = IF upload[u].worker = "queued" \/ AtWork(u)
                     THEN [upload[u] EXCEPT !.worker = "dead", !.left = {}] ELSE upload[u]
        BY <1>1
  <2> QED BY <2>1, <2>2 DEF UploadStates, AtWork
<1>3. UploadTypes'
  <2>1. DOMAIN upload' = UploadId /\ upload' = [u \in UploadId |-> upload'[u]]
        BY <1>1
  <2> QED BY <1>1, <1>2, <2>1 DEF UploadsInv, UploadTypes
<1>4. OneIsLive'
      BY <1>1, <1>2 DEF UploadsInv, OneIsLive, Live
<1>5. WorkIsAwaited' /\ LastIsNone'
  <2>1. ASSUME NEW u \in UploadId
        PROVE  /\ upload'[u].worker \in {"queued", "brands", "row"} =>
                    overdue' \/ upload'[u].route = "waiting"
               /\ upload'[u].route \in {"none", "insert"} => upload'[u].worker = "none"
               /\ upload'[u].worker = "row" => upload'[u].left = {}
               /\ upload'[u].route \in {"none", "insert"} => upload'[u].row = "none"
    <3>1. /\ upload[u].worker \in {"queued", "brands", "row"} =>
               overdue \/ upload[u].route = "waiting"
          /\ upload[u].route \in {"none", "insert"} => upload[u].worker = "none"
          /\ upload[u].worker = "row" => upload[u].left = {}
          /\ upload[u].route \in {"none", "insert"} => upload[u].row = "none"
          BY DEF UploadsInv, WorkIsAwaited, LastIsNone
    <3> QED BY <1>1, <1>2, <3>1
  <2> QED BY <2>1 DEF WorkIsAwaited, LastIsNone
<1>6. NothingDecided' /\ VerdictStands'
      BY <1>1 DEF UploadsInv, NothingDecided, VerdictStands
<1>7. PutUpSoFar'
      BY ZenonT(60), <1>1, <1>2 DEF UploadsInv, PutUpSoFar, FoundIn
<1> QED BY <1>3, <1>4, <1>5, <1>6, <1>7 DEF UploadsInv

(* Every step of the uploads preserves the invariant.                      *)
LEMMA StepUploads == UploadsInv /\ [UploadsNext]_uploadVars => UploadsInv'
<1> SUFFICES ASSUME UploadsInv, [UploadsNext]_uploadVars PROVE UploadsInv'
    OBVIOUS
<1>1. CASE UNCHANGED uploadVars
      BY <1>1 DEF uploadVars, UploadsInv, UploadTypes, OneIsLive, Live, WorkIsAwaited,
                  NothingDecided, VerdictStands, LastIsNone, PutUpSoFar, FoundIn
<1>2. CASE UploadsNext
      BY <1>2, PickKeeps, DecideKeeps, SendKeeps, UploadRouteKeeps, UploadWorkerKeeps, BrandKeeps,
         DropKeeps DEF UploadsNext
<1> QED BY <1>1, <1>2

(* A list of prices on its way undoes no decision of the seller, and is    *)
(* completed only when its brands are put up, wherever the route is stopped*)
(* and the worker restarted (api/radar/upload, radar/api.py).              *)
THEOREM UploadsAreTrue == UploadsSpec => [](VerdictStands /\ CompletedIsListed)
<1>1. UploadsInit => UploadsInv
      BY InitUploads
<1>2. UploadsInv /\ [UploadsNext]_uploadVars => UploadsInv'
      BY StepUploads
<1>3. UploadsInv => VerdictStands /\ CompletedIsListed
      BY DEF UploadsInv, PutUpSoFar, CompletedIsListed
<1> QED BY <1>1, <1>2, <1>3, PTL DEF UploadsSpec

-----------------------------------------------------------------------------
(* CostImport: rows into a map.  The library's induction takes an operator,*)
(* which the provers cannot instantiate; its theorem on well-founded       *)
(* relations takes a set, and gives the least number of rows after which   *)
(* the loop and the rows that count would say different things.            *)

(* A non-empty set of numbers has a least one.                             *)
LEMMA LeastOf ==
  ASSUME NEW T \in SUBSET Nat, T # {}
  PROVE  \E x \in T : \A y \in T : x <= y
<1>1. IsWellFoundedOn(OpToRel(<, Nat), Nat)
      BY NatLessThanWellFounded, Zenon
<1>2. PICK x \in T : \A y \in T : <<y, x>> \notin OpToRel(<, Nat)
      BY <1>1, WFMin, Zenon
<1>3. \A y \in T : ~(y < x)
      BY <1>2 DEF OpToRel
<1> QED BY <1>3

CostRow == [article : Code, cost : Cost \cup {NoCost}]

(* What the first n rows of a sheet say.                                   *)
RowsTo(sheet, n, a) ==
  {r \in 1..n : sheet[r].article = a /\ sheet[r].cost # NoCost}

LastOf(rows) == CHOOSE r \in rows : \A q \in rows : q <= r

MapTo(sheet, n) ==
  [a \in {a \in Code : RowsTo(sheet, n, a) # {}} |-> sheet[LastOf(RowsTo(sheet, n, a))].cost]

(* A non-empty set of the first numbers has a last one.                    *)
LEMMA LastIsThere ==
  ASSUME NEW n \in Nat, NEW rows \in SUBSET (1..n), rows # {}
  PROVE  LastOf(rows) \in rows /\ \A q \in rows : q <= LastOf(rows)
<1> DEFINE above == {m \in Nat : \A q \in rows : q <= m}
<1>1. n \in above
      OBVIOUS
<1>2. PICK m \in above : \A k \in above : m <= k
      BY <1>1, LeastOf, above \in SUBSET Nat, above # {}
<1>3. m \in rows
  <2> SUFFICES ASSUME m \notin rows PROVE FALSE
      OBVIOUS
  <2>1. m \in Nat /\ \A q \in rows : q \in Nat /\ q >= 1 /\ q <= m /\ q # m
        BY <1>2
  <2>2. m # 0
    <3>1. PICK q \in rows : TRUE
          OBVIOUS
    <3> QED BY <2>1, <3>1
  <2>3. m - 1 \in above
        BY <2>1, <2>2
  <2> QED BY <1>2, <2>1, <2>3
<1>4. \E r \in rows : \A q \in rows : q <= r
      BY <1>2, <1>3
<1> QED BY <1>4, Zenon DEF LastOf

(* The n-th row changes the map of those before it as the worker does.     *)
LEMMA RowByRow ==
  ASSUME NEW sheet \in Seq(CostRow), NEW n \in 1..Len(sheet)
  PROVE  MapTo(sheet, n) = Taken(MapTo(sheet, n - 1), sheet[n])
<1> DEFINE row == sheet[n]
<1>1. /\ n \in Nat \ {0} /\ n - 1 \in Nat
      /\ row \in CostRow
      OBVIOUS
<1>2. ASSUME NEW a \in Code, row.cost = NoCost \/ a # row.article
      PROVE  RowsTo(sheet, n, a) = RowsTo(sheet, n - 1, a)
  <2>1. \A r : r \in 1..n <=> r \in 1..(n - 1) \/ r = n
        BY <1>1
  <2> QED BY <1>2, <2>1 DEF RowsTo
<1>3. CASE row.cost = NoCost
  <2>1. {a \in Code : RowsTo(sheet, n, a) # {}} = {a \in Code : RowsTo(sheet, n - 1, a) # {}}
        BY <1>2, <1>3
  <2>2. MapTo(sheet, n) = MapTo(sheet, n - 1)
        BY <1>2, <1>3, <2>1 DEF MapTo
  <2> QED BY <1>3, <2>2 DEF Taken
<1>4. CASE row.cost # NoCost
  <2> DEFINE b == row.article
             dom == {a \in Code : RowsTo(sheet, n, a) # {}}
             old == {a \in Code : RowsTo(sheet, n - 1, a) # {}}
  <2>1. b \in Code /\ n \in RowsTo(sheet, n, b)
        BY <1>1, <1>4 DEF CostRow, RowsTo
  <2>2. dom = old \cup {b}
        BY <1>2, <2>1
  <2>3. LastOf(RowsTo(sheet, n, b)) = n
    <3>1. RowsTo(sheet, n, b) \in SUBSET (1..n)
          BY DEF RowsTo
    <3> DEFINE l == LastOf(RowsTo(sheet, n, b))
    <3>2. l \in 1..n /\ n <= l
          BY <1>1, <2>1, <3>1, LastIsThere
    <3> QED BY <3>2
  <2>4. \A a \in dom : a # b => RowsTo(sheet, n, a) = RowsTo(sheet, n - 1, a)
        BY <1>2
  <2>5. MapTo(sheet, n) = [a \in dom |-> IF a = b THEN row.cost
                             ELSE sheet[LastOf(RowsTo(sheet, n - 1, a))].cost]
        BY <2>3, <2>4 DEF MapTo
  <2>6. MapTo(sheet, n - 1) = [a \in old |-> sheet[LastOf(RowsTo(sheet, n - 1, a))].cost]
        BY DEF MapTo
  <2>7. Taken(MapTo(sheet, n - 1), row) =
          [a \in old \cup {b} |-> IF a = b THEN row.cost ELSE MapTo(sheet, n - 1)[a]]
        BY <1>4, <2>6 DEF Taken
  <2> HIDE DEF dom, old, b, row
  <2>8. \A a \in old \cup {b} : a # b =>
          MapTo(sheet, n - 1)[a] = sheet[LastOf(RowsTo(sheet, n - 1, a))].cost
        BY <2>6
  <2>9. MapTo(sheet, n) = Taken(MapTo(sheet, n - 1), row)
        BY <2>2, <2>5, <2>7, <2>8
  <2> QED BY <2>9 DEF row
<1> QED BY <1>3, <1>4

(* The rows one by one make the map of the whole sheet: by the least number*)
(* of rows after which it would be another.                                *)
LEMMA MapOfSheet ==
  ASSUME NEW sheet \in Seq(CostRow)
  PROVE  CostMap(sheet) = MapTo(sheet, Len(sheet))
<1> DEFINE Body(f) == [n \in 0..Len(sheet) |->
             IF n = 0 THEN [a \in {} |-> NoCost] ELSE Taken(f[n - 1], sheet[n])]
           maps == [n \in 0..Len(sheet) |-> MapTo(sheet, n)]
           after == CHOOSE f : f = Body(f)
<1>1. maps = Body(maps)
  <2>1. ASSUME NEW n \in 0..Len(sheet)
        PROVE  maps[n] = Body(maps)[n]
    <3>1. CASE n = 0
      <4>1. \A a \in Code : RowsTo(sheet, 0, a) = {}
            BY DEF RowsTo
      <4>2. MapTo(sheet, 0) = [a \in {} |-> NoCost]
            BY <4>1 DEF MapTo
      <4> QED BY <3>1, <4>2
    <3>2. CASE n # 0
      <4>1. n \in 1..Len(sheet) /\ n - 1 \in 0..Len(sheet)
            BY <3>2
      <4>2. MapTo(sheet, n) = Taken(maps[n - 1], sheet[n])
            BY <4>1, RowByRow
      <4> QED BY <3>2, <4>2
    <3> QED BY <3>1, <3>2
  <2> QED BY <2>1
<1>2. after = Body(after)
  <2> HIDE DEF maps, Body
  <2> QED BY <1>1, Zenon
<1>3. CostMap(sheet) = after[Len(sheet)]
      BY DEF CostMap
<1>4. ASSUME NEW n \in 0..Len(sheet)
      PROVE  after[n] = IF n = 0 THEN [a \in {} |-> NoCost] ELSE Taken(after[n - 1], sheet[n])
  <2> HIDE DEF after
  <2> QED BY <1>2
<1>5. ASSUME NEW n \in 0..Len(sheet)
      PROVE  maps[n] = IF n = 0 THEN [a \in {} |-> NoCost] ELSE Taken(maps[n - 1], sheet[n])
  <2> HIDE DEF maps
  <2> QED BY <1>1
<1> DEFINE wrong == {n \in 0..Len(sheet) : after[n] # maps[n]}
<1> HIDE DEF after, maps
<1>6. wrong = {}
  <2> SUFFICES ASSUME wrong # {} PROVE FALSE
      OBVIOUS
  <2>1. PICK n \in wrong : \A k \in wrong : n <= k
        BY LeastOf, wrong \in SUBSET Nat
  <2>2. n # 0
        BY <1>4, <1>5, <2>1
  <2>3. n - 1 \in 0..Len(sheet) /\ n - 1 \notin wrong
        BY <2>1, <2>2
  <2>4. after[n - 1] = maps[n - 1]
        BY <2>3
  <2> QED BY <1>4, <1>5, <2>1, <2>2, <2>4
<1>7. Len(sheet) \in 0..Len(sheet)
      OBVIOUS
<1> QED BY <1>3, <1>6, <1>7 DEF maps

(* The map gives every article that has one the cost of its last row.      *)
LEMMA MapIsLastCost ==
  ASSUME NEW sheet \in Sheet
  PROVE  /\ DOMAIN CostMap(sheet) = {a \in Code : LastCost(sheet, a) # NoCost}
         /\ \A a \in DOMAIN CostMap(sheet) :
              CostMap(sheet)[a] = LastCost(sheet, a) /\ LastCost(sheet, a) \in Cost
         /\ \A a : a \notin Code => LastCost(sheet, a) = NoCost
         /\ IsFiniteSet(DOMAIN CostMap(sheet))
<1>1. sheet \in Seq(CostRow) /\ Len(sheet) \in Nat
  <2>1. sheet \in Seq(CostRow)
        BY CostAssumption, Zenon DEF CostAssumption, CostRow
  <2> QED BY <2>1
<1> DEFINE n == Len(sheet)
<1>2. ASSUME NEW a
      PROVE  /\ RowsTo(sheet, n, a) \in SUBSET (1..n)
             /\ LastCost(sheet, a) = IF RowsTo(sheet, n, a) = {} THEN NoCost
                                     ELSE sheet[LastOf(RowsTo(sheet, n, a))].cost
  <2> DEFINE rows == {r \in DOMAIN sheet : sheet[r].article = a /\ sheet[r].cost # NoCost}
  <2>1. DOMAIN sheet = 1..n
        BY <1>1
  <2>2. RowsTo(sheet, n, a) = rows
        BY <2>1, Zenon DEF RowsTo
  <2>3. LastCost(sheet, a) = IF rows = {} THEN NoCost ELSE sheet[LastOf(rows)].cost
        BY Zenon DEF LastCost, LastOf
  <2>4. RowsTo(sheet, n, a) \in SUBSET (1..n)
        BY DEF RowsTo
  <2> HIDE DEF rows
  <2> QED BY <2>2, <2>3, <2>4, Zenon
<1>3. ASSUME NEW a, RowsTo(sheet, n, a) # {}
      PROVE  LastCost(sheet, a) \in Cost /\ LastCost(sheet, a) # NoCost /\ a \in Code
  <2> DEFINE l == LastOf(RowsTo(sheet, n, a))
  <2>1. l \in RowsTo(sheet, n, a)
        BY <1>1, <1>2, <1>3, LastIsThere
  <2>2. l \in 1..n /\ sheet[l].cost # NoCost /\ sheet[l].article = a
        BY <2>1 DEF RowsTo
  <2>3. sheet[l] \in CostRow
        BY <1>1, <2>2
  <2> HIDE DEF l
  <2>4. LastCost(sheet, a) = sheet[l].cost
        BY <1>2, <1>3 DEF l
  <2> QED BY <2>2, <2>3, <2>4 DEF CostRow
<1>4. CostMap(sheet) = MapTo(sheet, n)
      BY <1>1, MapOfSheet
<1>5. DOMAIN CostMap(sheet) = {a \in Code : RowsTo(sheet, n, a) # {}}
      BY <1>4 DEF MapTo
<1>6. \A a \in DOMAIN CostMap(sheet) : CostMap(sheet)[a] = sheet[LastOf(RowsTo(sheet, n, a))].cost
      BY <1>4 DEF MapTo
<1> HIDE DEF n
<1>7. DOMAIN CostMap(sheet) = {a \in Code : LastCost(sheet, a) # NoCost}
      BY <1>2, <1>3, <1>5
<1>8. \A a \in DOMAIN CostMap(sheet) :
        CostMap(sheet)[a] = LastCost(sheet, a) /\ LastCost(sheet, a) \in Cost
      BY <1>2, <1>3, <1>5, <1>6
<1>9. IsFiniteSet(DOMAIN CostMap(sheet))
  <2>1. IsFiniteSet(1..n)
        BY <1>1, FS_Interval DEF n
  <2> DEFINE names == {sheet[r].article : r \in 1..n}
             nameOf == [r \in 1..n |-> sheet[r].article]
  <2>4. nameOf \in Surjection(1..n, names)
        BY DEF Surjection
  <2>2. IsFiniteSet(names)
        BY <2>1, <2>4, FS_Surjection
  <2>3. DOMAIN CostMap(sheet) \subseteq names
        BY <1>5 DEF RowsTo
  <2> QED BY <2>2, <2>3, FS_Subset
<1>10. \A a : a \notin Code => LastCost(sheet, a) = NoCost
      BY <1>2, <1>3
<1> QED BY <1>7, <1>8, <1>9, <1>10

-----------------------------------------------------------------------------
(* The form, the route, the worker and the products.                       *)

ImportStates ==
  [depot : Depot, sheet : Sheet \cup {NoSheet},
   route : {"none", "asked", "waiting", "over"},
   worker : {"none", "queued", "writing", "done", "failed", "dead"},
   left : SUBSET Code, matched : Nat]

CostTypes ==
  /\ DOMAIN cost = Depot /\ \A d \in Depot : DOMAIN cost[d] = InDepot[d]
  /\ depotChosen \in Depot /\ sheetChosen \in Sheet \cup {NoSheet} /\ importing \in BOOLEAN
  /\ outcome \in {NoOutcome, [is |-> "error"]} \cup [is : {"result"}, of : Import, matched : Nat]
  /\ import \in [Import -> ImportStates]

Awaited(m) == m.route \in {"asked", "waiting"}

(* One import is awaited at a time, and the form waits for it.             *)
OneIsAwaited ==
  \A i \in Import : Awaited(import[i]) =>
    importing /\ \A k \in Import : Awaited(import[k]) => k = i

(* The products an import is to write, and has written.                    *)
GivenBy(m) == {a \in InDepot[m.depot] : LastCost(m.sheet, a) # NoCost}

Written(m) ==
  \A a \in GivenBy(m) \ m.left :
    cost[m.depot][a] = LastCost(m.sheet, a) \/ <<m.depot, a>> \in meddled

(* The same of the costs after a step.                                     *)
WrittenNext(m) ==
  \A a \in GivenBy(m) \ m.left :
    cost'[m.depot][a] = LastCost(m.sheet, a) \/ <<m.depot, a>> \in meddled'

(* How far an import is, and how many products it says to match.           *)
Counted(m) ==
  /\ m.route # "none" => m.sheet \in Sheet
  /\ m.worker # "none" => m.route \in {"waiting", "over"}
  /\ m.worker \in {"none", "queued"} => m.matched = 0
  /\ m.worker \in {"writing", "done"} =>
       m.left \subseteq DOMAIN CostMap(m.sheet)
         /\ m.matched = Cardinality(GivenBy(m) \ m.left)
  /\ m.worker = "done" => m.left = {}

ImportsFit ==
  \A i \in Import :
    /\ Counted(import[i])
    /\ import[i].worker \in {"writing", "done"} /\ import[i].route = "waiting" =>
         Written(import[i])

(* The result that is shown is one of an import that is done.              *)
OutcomeFits ==
  outcome.is = "result" =>
    /\ ~importing
    /\ import[outcome.of].worker = "done"
    /\ outcome.matched = import[outcome.of].matched
    /\ Written(import[outcome.of])

CostInv ==
  CostTypes /\ OneIsAwaited /\ ImportsFit /\ OutcomeFits /\ CostsStayInTheirDepot

(* Nothing has been sent and no product has a cost.                        *)
LEMMA InitCost == CostInit => CostInv
<1> SUFFICES ASSUME CostInit PROVE CostInv
    OBVIOUS
<1>1. NotSent \in ImportStates /\ NotSent.route = "none" /\ NotSent.worker = "none"
      /\ NotSent.matched = 0
      BY CostAssumption DEF CostAssumption, NotSent, ImportStates
<1>2. \A i \in Import : import[i] = NotSent
      BY DEF CostInit
<1>3. CostTypes
  <2>1. depotChosen \in Depot
        BY <1>1 DEF CostInit, ImportStates
  <2> QED BY <1>1, <2>1 DEF CostInit, CostTypes
<1>4. OneIsAwaited /\ ImportsFit
      BY <1>1, <1>2 DEF OneIsAwaited, Awaited, ImportsFit, Counted
<1>5. OutcomeFits
      BY DEF CostInit, NoOutcome, OutcomeFits
<1>6. CostsStayInTheirDepot
      BY DEF CostInit, CostsStayInTheirDepot
<1> QED BY <1>3, <1>4, <1>5, <1>6 DEF CostInv

(* One import goes on and writes nothing.                                  *)
LEMMA ImportAlone ==
  ASSUME CostInv, NEW i \in Import, NEW new \in ImportStates,
         import' = [import EXCEPT ![i] = new],
         new.depot = import[i].depot, new.sheet = import[i].sheet,
         UNCHANGED <<cost, meddled, depotChosen, sheetChosen>>,
         Counted(new), new.worker \in {"writing", "done"} /\ new.route = "waiting" => Written(new),
         importing' \in BOOLEAN, importing' = importing \/ Awaited(import[i]),
         Awaited(new) => Awaited(import[i]) /\ importing',
         outcome' \in {NoOutcome, [is |-> "error"]} \cup [is : {"result"}, of : Import, matched : Nat],
         \/ UNCHANGED <<outcome, importing>> /\ import[i].worker # "done"
         \/ outcome'.is # "result"
         \/ /\ outcome'.is = "result" /\ outcome'.of = i /\ outcome'.matched = new.matched
            /\ ~importing' /\ new.worker = "done" /\ Written(new)
  PROVE  CostInv'
<1>1. import'[i] = new /\ \A k \in Import : k # i => import'[k] = import[k]
      BY DEF CostInv, CostTypes
<1>2. CostTypes'
      BY DEF CostInv, CostTypes
<1>3. OneIsAwaited'
      BY <1>1 DEF CostInv, OneIsAwaited
<1>4. \A m : Written(m)' <=> Written(m)
      BY DEF Written
<1>5. \A m : Counted(m)' <=> Counted(m)
      BY DEF Counted
<1>6. ImportsFit'
      BY <1>1, <1>4, <1>5 DEF CostInv, ImportsFit
<1>7. OutcomeFits'
  <2> SUFFICES ASSUME outcome'.is = "result"
               PROVE  /\ ~importing' /\ import'[outcome'.of].worker = "done"
                      /\ outcome'.matched = import'[outcome'.of].matched
                      /\ Written(import'[outcome'.of])
      BY <1>4 DEF OutcomeFits
  <2>1. CASE UNCHANGED <<outcome, importing>> /\ import[i].worker # "done"
    <3>1. outcome.of \in Import /\ outcome.of # i
      <4>1. outcome \in [is : {"result"}, of : Import, matched : Nat]
            BY <2>1 DEF CostInv, CostTypes, NoOutcome
      <4> QED BY <2>1, <4>1 DEF CostInv, OutcomeFits
    <3> QED BY <1>1, <2>1, <3>1 DEF CostInv, OutcomeFits
  <2>2. CASE /\ outcome'.of = i /\ outcome'.matched = new.matched
             /\ ~importing' /\ new.worker = "done" /\ Written(new)
        BY <1>1, <2>2
  <2> QED BY <2>1, <2>2
<1>8. CostsStayInTheirDepot'
  <2>1. \A k \in Import : import'[k].depot = import[k].depot /\ import'[k].sheet = import[k].sheet
        BY <1>1
  <2> QED BY <2>1 DEF CostInv, CostsStayInTheirDepot
<1> QED BY <1>2, <1>3, <1>6, <1>7, <1>8 DEF CostInv

(* Another warehouse or file is chosen.                                    *)
LEMMA FormKeeps ==
  ASSUME CostInv,
         \/ \E d \in Depot : PickDepot(d)
         \/ \E s \in Sheet : PickSheet(s)
  PROVE  CostInv'
<1>1. /\ UNCHANGED <<cost, importing, import, meddled>>
      /\ depotChosen' \in Depot /\ sheetChosen' \in Sheet \cup {NoSheet}
      /\ outcome' \in {outcome, NoOutcome}
      BY DEF PickDepot, PickSheet, CostInv, CostTypes
<1>2. CostTypes'
      BY <1>1 DEF CostInv, CostTypes
<1>3. OneIsAwaited'
      BY <1>1 DEF CostInv, OneIsAwaited
<1>4. ImportsFit'
      BY <1>1 DEF CostInv, ImportsFit, Counted, Written
<1>5. OutcomeFits'
  <2>1. outcome'.is = "result" => outcome' = outcome
        BY <1>1 DEF NoOutcome
  <2> QED BY <1>1, <2>1 DEF CostInv, OutcomeFits, Written
<1>6. CostsStayInTheirDepot'
      BY <1>1 DEF CostInv, CostsStayInTheirDepot
<1> QED BY <1>2, <1>3, <1>4, <1>5, <1>6 DEF CostInv

(* A file is sent: nothing else is awaited then.                           *)
LEMMA SendImportKeeps ==
  ASSUME CostInv, NEW i \in Import, SendImport(i)
  PROVE  CostInv'
<1> DEFINE new == [NotSent EXCEPT !.depot = depotChosen, !.sheet = sheetChosen, !.route = "asked"]
<1>1. /\ ~importing /\ importing' /\ outcome' = NoOutcome /\ meddled' = {}
      /\ UNCHANGED <<cost, depotChosen, sheetChosen>>
      /\ import[i] = NotSent /\ sheetChosen \in Sheet
      BY DEF SendImport, CostInv, CostTypes
<1>2. import' = [import EXCEPT ![i] = new]
      BY <1>1 DEF SendImport, CostInv, CostTypes
<1>3. /\ NotSent \in ImportStates /\ NotSent.worker = "none" /\ NotSent.matched = 0
      /\ NotSent.sheet = NoSheet
      BY CostAssumption DEF CostAssumption, NotSent, ImportStates
<1>4. /\ new \in ImportStates /\ new.worker = "none" /\ new.matched = 0 /\ new.route = "asked"
      /\ new.sheet \in Sheet
      BY <1>1, <1>3 DEF ImportStates, CostInv, CostTypes
<1> HIDE DEF new
<1>5. import'[i] = new /\ \A k \in Import : k # i => import'[k] = import[k]
      BY <1>2 DEF CostInv, CostTypes
<1>6. \A k \in Import : ~Awaited(import[k])
      BY <1>1 DEF CostInv, OneIsAwaited
<1>7. CostTypes'
      BY <1>1, <1>2, <1>4 DEF CostInv, CostTypes
<1>8. OneIsAwaited'
      BY <1>1, <1>5, <1>6 DEF OneIsAwaited
<1>9. ImportsFit'
  <2>1. \A k \in Import : Counted(import[k])
        BY DEF CostInv, ImportsFit
  <2>2. Counted(new)
        BY <1>4 DEF Counted
  <2>3. \A m : Counted(m)' <=> Counted(m)
        BY DEF Counted
  <2> QED BY <1>4, <1>5, <1>6, <2>1, <2>2, <2>3 DEF ImportsFit, Awaited
<1>10. OutcomeFits'
      BY <1>1 DEF OutcomeFits, NoOutcome
<1>11. CostsStayInTheirDepot'
  <2>1. \A k \in Import : import[k].sheet # NoSheet => k # i
        BY <1>1, <1>3
  <2> QED BY <1>1, <1>5, <2>1 DEF CostInv, CostsStayInTheirDepot
<1> QED BY <1>7, <1>8, <1>9, <1>10, <1>11 DEF CostInv

(* The route refuses, calls the worker, answers or gives up.               *)
LEMMA ImportRouteKeeps ==
  ASSUME CostInv, NEW i \in Import,
         RefuseImport(i) \/ CallWorker(i) \/ AnswerImport(i) \/ GiveImportUp(i)
  PROVE  CostInv'
<1> DEFINE m == import[i]
<1>1. /\ m \in ImportStates /\ Awaited(m) /\ Counted(m)
      /\ m.worker \in {"writing", "done"} /\ m.route = "waiting" => Written(m)
      /\ UNCHANGED <<cost, meddled, depotChosen, sheetChosen>>
      BY DEF CostInv, CostTypes, ImportsFit, Awaited, RefuseImport, CallWorker, AnswerImport,
             GiveImportUp, Say, importForm
<1>2. importing
      BY <1>1 DEF CostInv, OneIsAwaited
<1>3. outcome \in {NoOutcome, [is |-> "error"]} \cup [is : {"result"}, of : Import, matched : Nat]
      BY DEF CostInv, CostTypes
<1>4. CASE RefuseImport(i) \/ GiveImportUp(i)
  <2> DEFINE new == [m EXCEPT !.route = "over"]
  <2>1. import' = [import EXCEPT ![i] = new]
        BY <1>4 DEF RefuseImport, GiveImportUp, CostInv, CostTypes
  <2>2. /\ new \in ImportStates /\ new.route = "over" /\ new.worker = m.worker
        /\ new.depot = m.depot /\ new.sheet = m.sheet
        /\ new.left = m.left /\ new.matched = m.matched
        BY <1>1 DEF ImportStates
  <2> HIDE DEF new
  <2>3. Counted(new) /\ ~Awaited(new)
        BY <1>1, <2>2 DEF Counted, GivenBy, Awaited
  <2>4. ~importing' /\ importing' \in BOOLEAN /\ outcome' = [is |-> "error"]
        BY <1>4 DEF RefuseImport, GiveImportUp, Say
  <2> QED BY <1>1, <2>1, <2>2, <2>3, <2>4, ImportAlone
<1>5. CASE AnswerImport(i)
  <2> DEFINE new == [m EXCEPT !.route = "over"]
  <2>1. import' = [import EXCEPT ![i] = new] /\ m.worker \in {"done", "failed"}
        /\ m.route = "waiting"
        BY <1>5 DEF AnswerImport, CostInv, CostTypes
  <2>2. /\ new \in ImportStates /\ new.route = "over" /\ new.worker = m.worker
        /\ new.depot = m.depot /\ new.sheet = m.sheet
        /\ new.left = m.left /\ new.matched = m.matched
        BY <1>1 DEF ImportStates
  <2> HIDE DEF new
  <2>3. Counted(new) /\ ~Awaited(new)
        BY <1>1, <2>2 DEF Counted, GivenBy, Awaited
  <2>4. ~importing' /\ importing' \in BOOLEAN
        /\ outcome' = IF m.worker = "failed" THEN [is |-> "error"]
                      ELSE [is |-> "result", of |-> i, matched |-> m.matched]
        BY <1>5 DEF AnswerImport, Say
  <2>5. CASE m.worker = "failed"
        BY <1>1, <2>1, <2>2, <2>3, <2>4, <2>5, ImportAlone
  <2>6. CASE m.worker = "done"
    <3>1. /\ outcome' \in [is : {"result"}, of : Import, matched : Nat]
          /\ outcome'.is = "result" /\ outcome'.of = i /\ outcome'.matched = new.matched
          BY <1>1, <2>2, <2>4, <2>6 DEF ImportStates
    <3>2. Written(new) /\ new.worker = "done"
          BY <1>1, <2>1, <2>2, <2>6 DEF Written, GivenBy
    <3> QED BY <1>1, <2>1, <2>2, <2>3, <2>4, <3>1, <3>2, ImportAlone
  <2> QED BY <2>1, <2>5, <2>6
<1>6. CASE CallWorker(i)
  <2> DEFINE new == [m EXCEPT !.route = "waiting", !.worker = "queued"]
  <2>1. import' = [import EXCEPT ![i] = new] /\ m.route = "asked"
        /\ UNCHANGED <<outcome, importing>>
        BY <1>6 DEF CallWorker, importForm, CostInv, CostTypes
  <2>2. /\ new \in ImportStates /\ new.route = "waiting" /\ new.worker = "queued"
        /\ new.depot = m.depot /\ new.sheet = m.sheet
        /\ new.left = m.left /\ new.matched = m.matched
        BY <1>1 DEF ImportStates
  <2> HIDE DEF new
  <2>3. m.worker = "none"
        BY <1>1, <2>1 DEF Counted, ImportStates
  <2>4. Counted(new)
        BY <1>1, <2>1, <2>2, <2>3 DEF Counted
  <2> QED BY <1>1, <1>2, <1>3, <2>1, <2>2, <2>3, <2>4, ImportAlone DEF CostInv, CostTypes
<1> QED BY <1>4, <1>5, <1>6

(* The worker reads a sheet, or loses a batch and with it the import.      *)
LEMMA ImportWorkerKeeps ==
  ASSUME CostInv, NEW i \in Import, TakeSheet(i) \/ BatchFails(i)
  PROVE  CostInv'
<1> DEFINE m == import[i]
<1>1. /\ m \in ImportStates /\ Counted(m)
      /\ m.worker \in {"queued", "writing"}
      /\ UNCHANGED <<cost, meddled, depotChosen, sheetChosen, outcome, importing>>
      BY DEF CostInv, CostTypes, ImportsFit, TakeSheet, BatchFails, importForm
<1>2. /\ outcome \in {NoOutcome, [is |-> "error"]} \cup [is : {"result"}, of : Import, matched : Nat]
      /\ importing \in BOOLEAN
      BY DEF CostInv, CostTypes
<1>3. Awaited(m) => importing
      BY DEF CostInv, OneIsAwaited
<1>4. m.sheet \in Sheet
      BY <1>1 DEF Counted
<1>5. PICK worker \in {"failed", "writing"}, rest \in SUBSET Code, matched \in Nat :
        /\ import' = [import EXCEPT ![i] = [m EXCEPT !.worker = worker, !.left = rest,
                                                     !.matched = matched]]
        /\ worker = "writing" =>
             rest = DOMAIN CostMap(m.sheet) /\ m.worker = "queued" /\ matched = 0
  <2>1. CASE TakeSheet(i)
    <3> DEFINE found == DOMAIN CostMap(m.sheet)
               worker == IF found = {} THEN "failed" ELSE "writing"
    <3>1. found \in SUBSET Code
          BY <1>4, MapIsLastCost
    <3>2. m.worker = "queued" /\ m.matched = 0
          BY <1>1, <2>1 DEF TakeSheet, Counted
    <3>3. import' = [import EXCEPT ![i].worker = worker, ![i].left = found]
          BY <2>1 DEF TakeSheet
    <3> HIDE DEF found
    <3>4. [m EXCEPT !.worker = worker, !.left = found]
            = [m EXCEPT !.worker = worker, !.left = found, !.matched = 0]
          BY <1>1, <3>2 DEF ImportStates
    <3>5. import' = [import EXCEPT ![i] = [m EXCEPT !.worker = worker, !.left = found,
                                                    !.matched = 0]]
          BY <3>3, <3>4 DEF CostInv, CostTypes
    <3>6. worker \in {"failed", "writing"} /\ 0 \in Nat
          OBVIOUS
    <3> QED BY <3>1, <3>2, <3>5, <3>6 DEF found
  <2>2. CASE BatchFails(i)
    <3>1. import' = [import EXCEPT ![i].worker = "failed", ![i].left = {}, ![i].matched = 0]
          BY <2>2 DEF BatchFails, AfterLoss
    <3>2. import' = [import EXCEPT ![i] = [m EXCEPT !.worker = "failed", !.left = {},
                                                    !.matched = 0]]
          BY <3>1 DEF CostInv, CostTypes
    <3> QED BY <3>2
  <2> QED BY <2>1, <2>2
<1> DEFINE new == [m EXCEPT !.worker = worker, !.left = rest, !.matched = matched]
<1>6. /\ new \in ImportStates /\ new.route = m.route /\ new.worker = worker
      /\ new.depot = m.depot /\ new.sheet = m.sheet
      /\ new.left = rest /\ new.matched = matched
      BY <1>1 DEF ImportStates
<1>7. import' = [import EXCEPT ![i] = new]
      BY <1>5
<1> HIDE DEF new
<1>8. worker = "writing" => GivenBy(new) \ rest = {} /\ rest = DOMAIN CostMap(m.sheet)
  <2>1. m.depot \in Depot /\ InDepot[m.depot] \subseteq Code
        BY <1>1, CostAssumption DEF CostAssumption, ImportStates
  <2> QED BY <1>4, <1>5, <1>6, <2>1, MapIsLastCost DEF GivenBy
<1>9. Counted(new)
  <2>1. Cardinality({}) = 0
        BY FS_EmptySet
  <2> QED BY <1>1, <1>5, <1>6, <1>8, <2>1 DEF Counted
<1>10. new.worker \in {"writing", "done"} => Written(new)
      BY <1>6, <1>8 DEF Written
<1> QED BY <1>1, <1>2, <1>3, <1>6, <1>7, <1>9, <1>10, ImportAlone DEF Awaited

(* As many products as the batch has articles of the warehouse.            *)
LEMMA TouchedIsCounted ==
  ASSUME NEW i \in Import, NEW batch, IsFiniteSet(batch)
  PROVE  /\ Cardinality(Touched(i, batch)) = Cardinality(batch \cap InDepot[import[i].depot])
         /\ \A p : p \in Touched(i, batch) <=>
              /\ p = <<import[i].depot, p[2]>>
              /\ p[2] \in batch \cap InDepot[import[i].depot]
<1> DEFINE d == import[i].depot
           own == batch \cap InDepot[d]
           pair == [a \in own |-> <<d, a>>]
<1>1. IsFiniteSet(own)
      BY FS_Subset
<1>2. \A p : p \in Touched(i, batch) <=> p = <<d, p[2]>> /\ p[2] \in own
  <2>1. Touched(i, batch) = {p \in {d} \X batch : p[2] \in InDepot[p[1]]}
        BY DEF Touched
  <2> HIDE DEF d
  <2> QED BY <2>1
<1>3. pair \in Bijection(own, Touched(i, batch))
  <2>1. \A a \in own : <<d, a>> \in Touched(i, batch)
        BY <1>2
  <2>2. \A p \in Touched(i, batch) : p[2] \in own /\ p = <<d, p[2]>>
        BY <1>2
  <2> HIDE DEF own
  <2>3. \A p \in Touched(i, batch) : \E a \in own : pair[a] = p
        BY <2>2
  <2> HIDE DEF d
  <2>4. pair \in [own -> Touched(i, batch)]
        BY <2>1
  <2>5. \A a, b \in own : pair[a] = pair[b] => a = b
        OBVIOUS
  <2> HIDE DEF pair
  <2> QED BY <2>3, <2>4, <2>5 DEF Bijection, Injection, Surjection, IsInjective
<1>4. Cardinality(Touched(i, batch)) = Cardinality(own)
      BY <1>1, <1>3, FS_Bijection DEF ExistsBijection
<1> QED BY <1>2, <1>4

(* A batch is written.                                                     *)
LEMMA WriteBatchKeeps ==
  ASSUME CostInv, NEW i \in Import, WriteBatch(i)
  PROVE  CostInv'
<1> DEFINE m == import[i]
           map == CostMap(m.sheet)
           given == GivenBy(m)
<1>1. /\ m \in ImportStates /\ m.worker = "writing" /\ m.sheet \in Sheet
      /\ m.left \subseteq DOMAIN map /\ m.matched = Cardinality(given \ m.left)
      /\ m.route \in {"waiting", "over"} /\ m.depot \in Depot
      /\ m.route = "waiting" => Written(m)
      BY DEF WriteBatch, CostInv, CostTypes, ImportsFit, Counted, ImportStates
<1>2. UNCHANGED <<depotChosen, sheetChosen, importing, outcome>>
      BY DEF WriteBatch, importForm
<1>3. PICK batch \in Batches(m.left) :
        /\ cost' = [d \in Depot |-> [a \in InDepot[d] |->
             IF <<d, a>> \in Touched(i, batch) THEN map[a] ELSE cost[d][a]]]
        /\ import' = [import EXCEPT ![i].left = m.left \ batch,
             ![i].matched = @ + Cardinality(Touched(i, batch)),
             ![i].worker = IF m.left \ batch = {} THEN "done" ELSE "writing"]
        /\ meddled' = meddled \cup (IF m.route = "over" THEN Touched(i, batch) ELSE {})
      BY DEF WriteBatch
<1> DEFINE touched == Touched(i, batch)
           rest == m.left \ batch
           new == [m EXCEPT !.left = rest, !.matched = @ + Cardinality(touched),
                            !.worker = IF rest = {} THEN "done" ELSE "writing"]
<1>4. /\ batch \subseteq m.left
      /\ DOMAIN map = {a \in Code : LastCost(m.sheet, a) # NoCost}
      /\ \A a \in DOMAIN map : map[a] = LastCost(m.sheet, a)
      /\ IsFiniteSet(DOMAIN map) /\ IsFiniteSet(batch)
  <2>1. batch \subseteq m.left
        BY <1>3 DEF Batches
  <2>2. IsFiniteSet(DOMAIN map)
        BY <1>1, MapIsLastCost
  <2>3. IsFiniteSet(batch)
        BY <1>1, <2>1, <2>2, FS_Subset
  <2> QED BY <1>1, <2>1, <2>2, <2>3, MapIsLastCost
<1>5. InDepot[m.depot] \subseteq Code
      BY <1>1, CostAssumption DEF CostAssumption
<1>6. import' = [import EXCEPT ![i] = new]
      BY <1>3 DEF CostInv, CostTypes
<1>7. \A p : p \in touched <=> p = <<m.depot, p[2]>> /\ p[2] \in batch \cap InDepot[m.depot]
      BY <1>4, TouchedIsCounted
<1>8. /\ IsFiniteSet(given) /\ Cardinality(touched) \in Nat
      /\ m.matched + Cardinality(touched) = Cardinality(given \ rest)
  <2> DEFINE own == batch \cap InDepot[m.depot]
  <2>1. given \subseteq DOMAIN map
        BY <1>4, <1>5 DEF GivenBy
  <2>2. IsFiniteSet(given)
        BY <1>4, <2>1, FS_Subset
  <2>3. IsFiniteSet(own) /\ Cardinality(own) \in Nat
        BY <1>4, FS_Subset, FS_CardinalityType
  <2>4. IsFiniteSet(given \ m.left) /\ Cardinality(given \ m.left) \in Nat
        BY <2>2, FS_Subset, FS_CardinalityType
  <2>5. given \ rest = (given \ m.left) \cup own /\ (given \ m.left) \cap own = {}
        BY <1>1, <1>4, <1>5 DEF GivenBy
  <2>6. Cardinality(given \ rest) = Cardinality(given \ m.left) + Cardinality(own)
    <3>1. Cardinality({}) = 0
          BY FS_EmptySet
    <3> HIDE DEF own, given, rest
    <3>2. Cardinality((given \ m.left) \cup own) = Cardinality(given \ m.left) + Cardinality(own)
            - Cardinality((given \ m.left) \cap own)
          BY <2>3, <2>4, FS_Union
    <3>3. /\ Cardinality(given \ rest) = Cardinality((given \ m.left) \cup own)
          /\ Cardinality((given \ m.left) \cap own) = 0
          BY <2>5, <3>1, Zenon
    <3> QED BY <2>3, <2>4, <3>2, <3>3
  <2>7. Cardinality(touched) = Cardinality(own)
        BY <1>4, TouchedIsCounted
  <2> HIDE DEF own
  <2> QED BY <1>1, <2>2, <2>3, <2>6, <2>7
<1>9. /\ new \in ImportStates /\ new.left = rest /\ new.route = m.route
      /\ new.matched = m.matched + Cardinality(touched)
      /\ new.worker \in {"done", "writing"}
      /\ new.worker = "done" => rest = {}
      /\ new.sheet = m.sheet /\ new.depot = m.depot
  <2>1. rest \in SUBSET Code /\ m.matched + Cardinality(touched) \in Nat
        BY <1>1, <1>8 DEF ImportStates
  <2> HIDE DEF rest, touched
  <2> QED BY <1>1, <2>1 DEF ImportStates
<1> HIDE DEF new
<1>10. import'[i] = new /\ \A k \in Import : k # i => import'[k] = import[k]
      BY <1>6 DEF CostInv, CostTypes
<1>11. Counted(new)
  <2>1. GivenBy(new) = given
        BY <1>9 DEF GivenBy
  <2> QED BY <1>1, <1>8, <1>9, <2>1 DEF Counted
<1>12. \A d \in Depot : \A a \in InDepot[d] :
         \/ <<d, a>> \in touched /\ cost'[d][a] = map[a]
         \/ <<d, a>> \notin touched /\ cost'[d][a] = cost[d][a]
      BY <1>3
<1>13. meddled \subseteq meddled' /\ m.route = "over" => touched \subseteq meddled'
      BY <1>3
<1>14. CostTypes'
  <2>1. DOMAIN cost' = Depot /\ \A d \in Depot : DOMAIN cost'[d] = InDepot[d]
        BY <1>3
  <2>2. import' \in [Import -> ImportStates]
        BY <1>6, <1>9 DEF CostInv, CostTypes
  <2> QED BY <1>2, <2>1, <2>2 DEF CostInv, CostTypes
<1>15. OneIsAwaited'
  <2>1. \A k \in Import : import'[k].route = import[k].route
        BY <1>9, <1>10
  <2> QED BY <1>2, <2>1 DEF CostInv, OneIsAwaited, Awaited
<1>16. ASSUME m.route = "waiting" PROVE WrittenNext(new)
  <2> SUFFICES ASSUME NEW a \in GivenBy(m) \ rest
               PROVE  cost'[m.depot][a] = LastCost(m.sheet, a) \/ <<m.depot, a>> \in meddled'
      BY <1>9 DEF WrittenNext, GivenBy
  <2>1. a \in InDepot[m.depot] /\ a \in DOMAIN map
        BY <1>4, <1>5 DEF GivenBy
  <2>2. CASE <<m.depot, a>> \in touched
        BY <1>1, <1>4, <1>12, <2>1, <2>2
  <2>3. CASE <<m.depot, a>> \notin touched
    <3>1. a \notin batch /\ a \notin m.left
          BY <1>7, <2>1, <2>3
    <3>2. cost[m.depot][a] = LastCost(m.sheet, a) \/ <<m.depot, a>> \in meddled
          BY <1>1, <1>16, <3>1 DEF Written
    <3> QED BY <1>1, <1>3, <1>12, <2>1, <2>3, <3>2
  <2> QED BY <2>2, <2>3
<1>17. ASSUME NEW k \in Import, k # i, m.route = "over", Written(import[k])
       PROVE  WrittenNext(import[k])
  <2>1. import[k] \in ImportStates /\ import'[k] = import[k]
        BY <1>10, <1>17 DEF CostInv, CostTypes
  <2>2. \A d \in Depot : \A a \in InDepot[d] : cost'[d][a] = cost[d][a] \/ <<d, a>> \in meddled'
        BY <1>3, <1>12, <1>17
  <2>3. meddled \subseteq meddled'
        BY <1>3
  <2> DEFINE n == import[k]
  <2>4. n.depot \in Depot
        BY <2>1 DEF ImportStates
  <2> QED BY <1>17, <2>1, <2>2, <2>3, <2>4 DEF Written, WrittenNext, GivenBy
<1>18. ImportsFit'
  <2>1. \A n : Counted(n)' <=> Counted(n)
        BY DEF Counted
  <2>2. ASSUME NEW k \in Import, k # i, import[k].worker \in {"writing", "done"},
               import[k].route = "waiting"
        PROVE  WrittenNext(import[k])
    <3>1. Written(import[k])
          BY <2>2 DEF CostInv, ImportsFit
    <3>2. m.route = "over"
          BY <1>1, <2>2 DEF CostInv, OneIsAwaited, Awaited
    <3> QED BY <1>17, <2>2, <3>1, <3>2
  <2>3. ASSUME NEW k \in Import
        PROVE  /\ Counted(import'[k])
               /\ import'[k].worker \in {"writing", "done"} /\ import'[k].route = "waiting" =>
                    WrittenNext(import'[k])
    <3>1. CASE k = i
      <4>1. import'[k] = new /\ Counted(new) /\ new.route = m.route
            BY <1>9, <1>10, <1>11, <3>1
      <4>2. m.route = "waiting" => WrittenNext(new)
            BY <1>16
      <4> QED BY <4>1, <4>2
    <3>2. CASE k # i
          BY <1>10, <2>2, <3>2 DEF CostInv, ImportsFit
    <3> QED BY <3>1, <3>2
  <2>4. \A n : Written(n)' <=> WrittenNext(n)
        BY DEF Written, WrittenNext, GivenBy
  <2> QED BY <2>1, <2>3, <2>4 DEF ImportsFit
<1>19. OutcomeFits'
  <2> SUFFICES ASSUME outcome.is = "result"
               PROVE  /\ ~importing' /\ import'[outcome.of].worker = "done"
                      /\ outcome.matched = import'[outcome.of].matched
                      /\ WrittenNext(import'[outcome.of])
      BY <1>2 DEF OutcomeFits, Written, WrittenNext, GivenBy
  <2> DEFINE k == outcome.of
  <2>1. /\ ~importing /\ import[k].worker = "done"
        /\ outcome.matched = import[k].matched /\ Written(import[k])
        BY DEF CostInv, OutcomeFits
  <2>2. k \in Import /\ k # i
    <3>1. outcome \in [is : {"result"}, of : Import, matched : Nat]
          BY DEF CostInv, CostTypes, NoOutcome
    <3> QED BY <1>1, <2>1, <3>1
  <2>3. m.route = "over"
        BY <1>1, <2>1 DEF CostInv, OneIsAwaited, Awaited
  <2> HIDE DEF k
  <2>4. WrittenNext(import[k])
        BY <1>17, <2>1, <2>2, <2>3
  <2> QED BY <1>2, <1>10, <2>1, <2>2, <2>4 DEF k
<1>20. CostsStayInTheirDepot'
  <2> SUFFICES ASSUME NEW d \in Depot, NEW a \in InDepot[d], cost'[d][a] # NoCost
               PROVE  \E k \in Import : /\ import'[k].depot = d /\ import'[k].sheet # NoSheet
                                        /\ LastCost(import'[k].sheet, a) = cost'[d][a]
      BY DEF CostsStayInTheirDepot
  <2>1. \A k \in Import : import'[k].depot = import[k].depot /\ import'[k].sheet = import[k].sheet
        BY <1>9, <1>10
  <2>2. CASE <<d, a>> \in touched
    <3>1. d = m.depot /\ a \in batch /\ cost'[d][a] = map[a]
          BY <1>7, <1>12, <2>2
    <3>2. map[a] = LastCost(m.sheet, a) /\ m.sheet # NoSheet
          BY <1>1, <1>4, <3>1, CostAssumption DEF CostAssumption
    <3> QED BY <2>1, <3>1, <3>2
  <2>3. CASE <<d, a>> \notin touched
        BY <1>12, <2>1, <2>3 DEF CostInv, CostsStayInTheirDepot
  <2> QED BY <2>2, <2>3
<1> QED BY <1>14, <1>15, <1>18, <1>19, <1>20 DEF CostInv

(* Something else writes a product.                                        *)
LEMMA ByHandKeeps ==
  ASSUME CostInv, NEW d \in Depot, NEW a \in Code, CostByHand(d, a, NoCost)
  PROVE  CostInv'
<1>1. /\ a \in InDepot[d] /\ meddled' = meddled \cup {<<d, a>>}
      /\ cost' = [cost EXCEPT ![d][a] = NoCost]
      /\ UNCHANGED <<depotChosen, sheetChosen, importing, outcome, import>>
      BY DEF CostByHand, importForm
<1>2. \A e \in Depot : \A b \in InDepot[e] :
        \/ <<e, b>> = <<d, a>> /\ cost'[e][b] = NoCost
        \/ cost'[e][b] = cost[e][b]
      BY <1>1 DEF CostInv, CostTypes
<1>3. DOMAIN cost' = Depot /\ \A e \in Depot : DOMAIN cost'[e] = InDepot[e]
      BY <1>1 DEF CostInv, CostTypes
<1>4. CostTypes' /\ OneIsAwaited'
      BY <1>1, <1>3 DEF CostInv, CostTypes, OneIsAwaited
<1>5. ASSUME NEW k \in Import, Written(import[k]) PROVE Written(import[k])'
  <2>1. import[k].depot \in Depot
        BY DEF CostInv, CostTypes, ImportStates
  <2> QED BY <1>1, <1>2, <1>5, <2>1 DEF Written, GivenBy
<1>6. ImportsFit'
      BY <1>1, <1>5 DEF CostInv, ImportsFit, Counted
<1>7. OutcomeFits'
  <2> SUFFICES ASSUME outcome.is = "result" PROVE OutcomeFits'
      BY <1>1 DEF OutcomeFits
  <2>1. outcome \in [is : {"result"}, of : Import, matched : Nat]
        BY DEF CostInv, CostTypes, NoOutcome
  <2> QED BY <1>1, <1>5, <2>1 DEF CostInv, OutcomeFits
<1>8. CostsStayInTheirDepot'
      BY <1>1, <1>2 DEF CostInv, CostsStayInTheirDepot
<1> QED BY <1>4, <1>6, <1>7, <1>8 DEF CostInv

(* A restart of the worker.                                                *)
LEMMA ImportsDropKeeps ==
  ASSUME CostInv, ImportsAreDropped
  PROVE  CostInv'
<1>1. /\ UNCHANGED <<cost, depotChosen, sheetChosen, importing, outcome, meddled>>
      /\ import' = [i \in Import |->
           IF import[i].worker \in {"queued", "writing"}
           THEN [import[i] EXCEPT !.worker = "dead", !.left = {}, !.matched = 0] ELSE import[i]]
      BY DEF ImportsAreDropped, importForm
<1>2. ASSUME NEW i \in Import
      PROVE  /\ import'[i] \in ImportStates
             /\ import'[i].depot = import[i].depot /\ import'[i].sheet = import[i].sheet
             /\ import'[i].route = import[i].route
             /\ \/ import'[i] = import[i] /\ import[i].worker \notin {"queued", "writing"}
                \/ import[i].worker \in {"queued", "writing"} /\ import'[i].worker = "dead"
  <2>1. import[i] \in ImportStates
        BY DEF CostInv, CostTypes
  <2>2. import'[i] = IF import[i].worker \in {"queued", "writing"}
           THEN [import[i] EXCEPT !.worker = "dead", !.left = {}, !.matched = 0] ELSE import[i]
        BY <1>1
  <2>3. CASE import[i].worker \in {"queued", "writing"}
    <3> DEFINE new == [import[i] EXCEPT !.worker = "dead", !.left = {}, !.matched = 0]
    <3>1. /\ new \in ImportStates /\ new.worker = "dead" /\ new.route = import[i].route
          /\ new.depot = import[i].depot /\ new.sheet = import[i].sheet
          BY <2>1 DEF ImportStates
    <3>2. import'[i] = new
          BY <2>2, <2>3
    <3> HIDE DEF new
    <3> QED BY <2>3, <3>1, <3>2
  <2>4. CASE import[i].worker \notin {"queued", "writing"}
        BY <2>1, <2>2, <2>4
  <2> QED BY <2>3, <2>4
<1>3. CostTypes'
  <2>1. import' = [i \in Import |-> import'[i]]
        BY <1>1
  <2>2. import' \in [Import -> ImportStates]
        BY <1>2, <2>1
  <2> QED BY <1>1, <2>2 DEF CostInv, CostTypes
<1>4. OneIsAwaited'
      BY ZenonT(60), <1>1, <1>2 DEF CostInv, OneIsAwaited, Awaited
<1>5. \A m : (Written(m)' <=> Written(m)) /\ (Counted(m)' <=> Counted(m))
      BY <1>1 DEF Written, Counted
<1>6. ImportsFit'
  <2>1. ASSUME NEW i \in Import
        PROVE  /\ Counted(import'[i])
               /\ import'[i].worker \in {"writing", "done"} /\ import'[i].route = "waiting" =>
                    Written(import'[i])
    <3>1. Counted(import[i])
          /\ (import[i].worker \in {"writing", "done"} /\ import[i].route = "waiting" =>
                Written(import[i]))
          BY DEF CostInv, ImportsFit
    <3>2. CASE import'[i] = import[i]
          BY <3>1, <3>2
    <3>3. CASE import[i].worker \in {"queued", "writing"} /\ import'[i].worker = "dead"
          BY <1>2, <3>1, <3>3 DEF Counted
    <3> QED BY <1>2, <3>2, <3>3
  <2> QED BY <1>5, <2>1 DEF ImportsFit
<1>7. OutcomeFits'
  <2> SUFFICES ASSUME outcome.is = "result" PROVE OutcomeFits'
      BY <1>1 DEF OutcomeFits
  <2>1. outcome \in [is : {"result"}, of : Import, matched : Nat]
        BY DEF CostInv, CostTypes, NoOutcome
  <2>2. import'[outcome.of] = import[outcome.of]
        BY <1>2, <2>1 DEF CostInv, OutcomeFits
  <2> QED BY <1>1, <1>5, <2>1, <2>2 DEF CostInv, OutcomeFits
<1>8. CostsStayInTheirDepot'
  <2>1. \A i \in Import : import'[i].depot = import[i].depot /\ import'[i].sheet = import[i].sheet
        BY <1>2
  <2>2. cost' = cost
        BY <1>1
  <2> QED BY <2>1, <2>2 DEF CostInv, CostsStayInTheirDepot
<1> QED BY <1>3, <1>4, <1>6, <1>7, <1>8 DEF CostInv

(* Every step of the imports preserves the invariant.                      *)
LEMMA StepCost == CostInv /\ [CostNext]_costVars => CostInv'
<1> SUFFICES ASSUME CostInv, [CostNext]_costVars PROVE CostInv'
    OBVIOUS
<1>1. CASE UNCHANGED costVars
  <2>1. UNCHANGED <<cost, depotChosen, sheetChosen, importing, outcome, import, meddled>>
        BY <1>1 DEF costVars, importForm
  <2>2. CostTypes' /\ OneIsAwaited' /\ CostsStayInTheirDepot'
        BY <2>1 DEF CostInv, CostTypes, OneIsAwaited, CostsStayInTheirDepot
  <2>3. ImportsFit' /\ OutcomeFits'
        BY <2>1 DEF CostInv, ImportsFit, Counted, Written, OutcomeFits
  <2> QED BY <2>2, <2>3 DEF CostInv
<1>2. CASE CostNext
      BY <1>2, FormKeeps, SendImportKeeps, ImportRouteKeeps, ImportWorkerKeeps,
         WriteBatchKeeps, ByHandKeeps, ImportsDropKeeps DEF CostNext
<1> QED BY <1>1, <1>2

(* The result a file of costs is answered with is stored, to the number of *)
(* products and to the last row of each, and no cost goes to another       *)
(* warehouse, for any files, batches and imports given up or cut short     *)
(* (cost-prices/import, cost_import_api.py).                               *)
THEOREM CostsAreImported == CostSpec => [](ResultIsStored /\ CostsStayInTheirDepot)
<1>1. CostInit => CostInv
      BY InitCost
<1>2. CostInv /\ [CostNext]_costVars => CostInv'
      BY StepCost
<1>3. CostInv => ResultIsStored /\ CostsStayInTheirDepot
  <2> SUFFICES ASSUME CostInv, outcome.is = "result" PROVE ResultIsStored
      BY DEF CostInv, ResultIsStored
  <2> DEFINE m == import[outcome.of]
  <2>1. outcome.of \in Import
        BY DEF CostInv, CostTypes, NoOutcome
  <2>2. Counted(m) /\ m.worker = "done" /\ outcome.matched = m.matched /\ Written(m)
        BY <2>1 DEF CostInv, ImportsFit, OutcomeFits
  <2>3. GivenBy(m) \ m.left = GivenBy(m)
        BY <2>2 DEF Counted
  <2> QED BY <2>2, <2>3 DEF Counted, Written, GivenBy, ResultIsStored
<1> QED BY <1>1, <1>2, <1>3, PTL DEF CostSpec

(* What is asked of both kinds of files; they share nothing.               *)
THEOREM ImportsTrue == ImportsSpec => []ImportsAreTrue
<1>1. UploadsSpec => [](VerdictStands /\ CompletedIsListed)
      BY UploadsAreTrue
<1>2. CostSpec => [](ResultIsStored /\ CostsStayInTheirDepot)
      BY CostsAreImported
<1>3. (VerdictStands /\ CompletedIsListed) /\ (ResultIsStored /\ CostsStayInTheirDepot)
        => ImportsAreTrue
      BY DEF ImportsAreTrue
<1> QED BY <1>1, <1>2, <1>3, PTL DEF ImportsSpec
=============================================================================
