----------------------------- MODULE RadarPoll ------------------------------
(***************************************************************************)
(* One brand watched by several sellers: the daily poll, the answers of    *)
(* Wordstat it shares through radar_cache, the phrase that appears under   *)
(* the brand, and the digest.  Time in days; on a day the poll comes       *)
(* before the digest.  The phrase is frequent enough for the digest        *)
(* (_TRENDING_FREQUENCY_THRESHOLD) and within _DIGEST_MAX_ITEMS.           *)
(***************************************************************************)
EXTENDS Integers, FiniteSets

CONSTANTS
  Watcher,     \* sellers with an active Radar plan that watch the brand
  AskEvery,    \* _WORDSTAT_POLL_INTERVAL_HOURS in days
  AnswerTerm,  \* history_cache_ttl_hours in days
  Week,        \* days of the week
  DigestDays,  \* the days the digest is sent
  LookBack,    \* _DIGEST_LOOKBACK_DAYS
  MaxLapses

ASSUME RadarPollAssumption ==
  /\ {AskEvery, AnswerTerm, Week, LookBack} \subseteq Nat \ {0}
  /\ DigestDays \subseteq 1..Week /\ DigestDays # {}
  /\ LookBack > AskEvery /\ Week <= LookBack + 1
  /\ MaxLapses \in Nat

VARIABLES
  weekday,
  toPoll,     \* sellers the poll of the day has still to come to
  toDigest,   \* sellers the digest of the day has still to come to
  cached,     \* age of the answer in radar_cache, and whether it lists the phrase
  lastAsked,  \* age of last_wordstat_at
  phraseRow,  \* status of the phrase in radar_queries and age of last_updated_at
  dataAge,    \* how old the answer is that the row shows
  inPrice,    \* sellers whose price list has the model
  announced,  \* sellers whose digest has named the phrase as new
  missed,     \* sellers to whom a digest of the phrase could not be sent
  radarLapses \* calls that have failed

radarVars == <<weekday, toPoll, toDigest, cached, lastAsked, phraseRow, dataAge,
              inPrice, announced, missed, radarLapses>>

NotAsked == -1
(* A day older; no older than what it is compared with.                    *)
NextAge(age, compared) == IF age = NotAsked \/ age > compared THEN age ELSE age + 1
NoPhrase == [status |-> "none", updated |-> NotAsked]

PollInit ==
  /\ weekday = 1 /\ toPoll = Watcher
  /\ toDigest = IF 1 \in DigestDays THEN Watcher ELSE {}
  /\ cached = [age |-> NotAsked, lists |-> FALSE]
  /\ lastAsked = [s \in Watcher |-> NotAsked]
  /\ phraseRow = [s \in Watcher |-> NoPhrase]
  /\ dataAge = [s \in Watcher |-> NotAsked]
  /\ inPrice \in SUBSET Watcher
  /\ announced = {} /\ missed = {} /\ radarLapses = 0

MayLapse == radarLapses < MaxLapses

(* The day before the interval is over, give or take the minutes the poll  *)
(* itself takes: at AskEvery days the brand may or may not be due.         *)
Due(s) == lastAsked[s] = NotAsked \/ lastAsked[s] >= AskEvery
NotDue(s) == lastAsked[s] # NotAsked /\ lastAsked[s] <= AskEvery

SkipBrand(s) ==
  /\ s \in toPoll /\ NotDue(s)
  /\ toPoll' = toPoll \ {s}
  /\ UNCHANGED <<weekday, toDigest, cached, lastAsked, phraseRow, dataAge, inPrice,
                 announced, missed, radarLapses>>

Unexpired == cached.age # NotAsked /\ cached.age <= AnswerTerm

(* The answers a poll can come by: the unexpired one; a new one, from      *)
(* Yandex or, if it fails, from XMLRiver; a new one although one is        *)
(* cached, if the cache could not be read.                                 *)
Answers ==
  {[age |-> 0, lists |-> l] : l \in {b \in BOOLEAN : ~Unexpired \/ MayLapse}}
    \cup (IF Unexpired THEN {cached} ELSE {})

(* The status of the phrase by the models of the seller; no models, if     *)
(* they could not be loaded.  An archived phrase stays archived.           *)
StatusAfter(s, known) ==
  IF phraseRow[s].status = "archived" \/ s \in known THEN "archived" ELSE "new"

(* poll_brand: answer, time of asking, matching, row.  What fails in       *)
(* between is passed over: the cache not written (kept), the time not      *)
(* written (timed), the models not loaded (known = {}), the row not        *)
(* written (written).                                                      *)
PollBrand(s) ==
  \E answer \in Answers, known \in {inPrice, {}}, kept, timed, written \in BOOLEAN :
    LET fine == kept /\ timed /\ written /\ known = inPrice
                /\ (Unexpired => answer = cached)
        shown == answer.lists /\ written
    IN /\ s \in toPoll /\ Due(s)
       /\ fine \/ MayLapse
       /\ toPoll' = toPoll \ {s}
       /\ cached' = IF kept THEN answer ELSE cached
       /\ lastAsked' = IF timed THEN [lastAsked EXCEPT ![s] = 0] ELSE lastAsked
       /\ phraseRow' = IF shown
                       THEN [phraseRow EXCEPT ![s] = [status |-> StatusAfter(s, known),
                                                      updated |-> 0]]
                       ELSE phraseRow
       /\ dataAge' = IF shown THEN [dataAge EXCEPT ![s] = answer.age] ELSE dataAge
       /\ radarLapses' = IF fine THEN radarLapses ELSE radarLapses + 1
       /\ UNCHANGED <<weekday, toDigest, inPrice, announced, missed>>

(* Both providers fail or none is set up: the brand is due again tomorrow. *)
AskInVain(s) ==
  /\ s \in toPoll /\ Due(s) /\ ~Unexpired /\ MayLapse
  /\ toPoll' = toPoll \ {s} /\ radarLapses' = radarLapses + 1
  /\ UNCHANGED <<weekday, toDigest, cached, lastAsked, phraseRow, dataAge, inPrice,
                 announced, missed>>

(* Mutant: only the phrases of the day itself.                             *)
InDigest_SameDay(s) == phraseRow[s].status = "new" /\ phraseRow[s].updated = 0

InDigest(s) == phraseRow[s].status = "new" /\ phraseRow[s].updated <= LookBack

(* A seller without a signal gets none.                                    *)
SendDigest(s) ==
  /\ toPoll = {} /\ s \in toDigest
  /\ toDigest' = toDigest \ {s}
  /\ \/ /\ announced' = IF InDigest(s) THEN announced \cup {s} ELSE announced
        /\ UNCHANGED <<missed, radarLapses>>
     \/ /\ MayLapse /\ InDigest(s)
        /\ missed' = missed \cup {s} /\ radarLapses' = radarLapses + 1
        /\ UNCHANGED announced
  /\ UNCHANGED <<weekday, toPoll, cached, lastAsked, phraseRow, dataAge, inPrice>>

PollDayPasses ==
  /\ toPoll = {} /\ toDigest = {}
  /\ weekday' = (weekday % Week) + 1
  /\ toPoll' = Watcher
  /\ toDigest' = IF weekday' \in DigestDays THEN Watcher ELSE {}
  /\ cached' = [cached EXCEPT !.age = NextAge(@, AnswerTerm)]
  /\ lastAsked' = [s \in Watcher |-> NextAge(lastAsked[s], AskEvery)]
  /\ phraseRow' = [s \in Watcher |-> [phraseRow[s] EXCEPT !.updated = NextAge(@, LookBack)]]
  /\ dataAge' = [s \in Watcher |-> NextAge(dataAge[s], AnswerTerm + AskEvery + 1)]
  /\ UNCHANGED <<inPrice, announced, missed, radarLapses>>

PollNext ==
  \/ \E s \in Watcher : SkipBrand(s) \/ PollBrand(s) \/ AskInVain(s)
                        \/ SendDigest(s)
  \/ PollDayPasses

(***************************************************************************)
(* Properties.                                                             *)
(***************************************************************************)

(* As long as no call fails: the frequency of a phrase that was in the     *)
(* last answer is never older than the term of an answer in the cache and  *)
(* the time to the next poll, although the sellers share the answer and    *)
(* most polls ask nobody.                                                  *)
FiguresAreRecent ==
  \A s \in Watcher :
    radarLapses = 0 /\ phraseRow[s].status # "none" /\ phraseRow[s].updated <= lastAsked[s]
      => dataAge[s] <= AnswerTerm + AskEvery + 1

(* After the digest of a day, no seller has a phrase under "new" that no   *)
(* digest has named, unless one could not be sent                           *)
NoveltyIsAnnounced ==
  \A s \in Watcher :
    weekday \in DigestDays /\ toPoll = {} /\ s \notin toDigest /\ phraseRow[s].status = "new"
      => s \in announced \cup missed

(* What Radar shows of a phrase is recent, and what is new is announced.   *)
RadarIsFresh == FiguresAreRecent /\ NoveltyIsAnnounced

PollSpec == PollInit /\ [][PollNext]_radarVars
=============
