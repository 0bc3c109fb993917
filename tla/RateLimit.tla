----------------------------- MODULE RateLimit ------------------------------
(***************************************************************************)
(* The limiter in front of the routes, for one key (a user or an address): *)
(* the times each instance keeps in memory, shared by every route whatever *)
(* its limit, and the counter in Redis of the one durable route, which     *)
(* goes on in memory when Redis does not answer.  Time in ticks; what      *)
(* happens within a tick is told apart by a number.                        *)
(***************************************************************************)
EXTENDS Integers, FiniteSets

CONSTANTS
  WebProcess, \* processes of the web application
  Preset,     \* limits of the routes that count in memory
  Webhook,    \* limit of the durable route
  WindowLen,  \* windowMs; that of Redis is as long
  MaxRestarts

ASSUME RateLimitAssumption ==
  /\ Preset \subseteq Nat \ {0} /\ Webhook \in Nat \ {0}
  /\ WindowLen \in Nat \ {0} /\ MaxRestarts \in Nat
  /\ IsFiniteSet(WebProcess)

VARIABLES
  phase,     \* ticks since the window of Redis began
  counted,   \* what INCR has made of the window's counter
  times,     \* the times an instance holds, [age, no]
  passed,    \* the requests the durable route has let pass, [age, no, by]
  born,      \* the restarts, [age, no]
  restarts,
  promise    \* the last refusal: limit, ticks to the end of Retry-After, and whether kept

limitVars == <<phase, counted, times, passed, born, restarts, promise>>

NoPromise == [limit |-> 0, via |-> "memory", left |-> 0, kept |-> TRUE]

LimitInit ==
  /\ phase = 0 /\ counted = 0
  /\ times = [i \in WebProcess |-> {}]
  /\ passed = {} /\ born = {} /\ restarts = 0
  /\ promise = NoPromise

(* What let a request pass: this window of Redis or the last, the memory   *)
(* of an instance, or the memory that a restart emptied.                   *)
ThisWindow == <<"redis", 0>>
LastWindow == <<"redis", 1>>
MemoryOf(i) == <<"memory", i>>
MemoryBefore(n) == <<"before", n>>

(* bucket.timestamps.filter.                                               *)
Young(held) == {t \in held : t.age < WindowLen}

(* A tick later.                                                           *)
Aged(held) == {[t EXCEPT !.age = @ + 1] : t \in held}

(* The time of a request that comes now.                                   *)
Now(held) ==
  [age |-> 0, no |-> CHOOSE n \in 0..Cardinality(held) : [age |-> 0, no |-> n] \notin held]

(* When the oldest of the times is out of the window.                      *)
Wait(held) ==
  CHOOSE w \in 1..WindowLen : /\ \E t \in held : t.age + w = WindowLen
                              /\ \A t \in held : t.age + w <= WindowLen

(* checkRateLimit, of which the callers see whether the request passes and *)
(* when to come again.                                                     *)
InMemory(i, limit) ==
  LET held == Young(times[i])
      allowed == Cardinality(held) < limit
  IN [allowed |-> allowed,
      held |-> IF allowed THEN held \cup {Now(held)} ELSE held,
      left |-> IF allowed THEN 0 ELSE Wait(held)]

(* Whether a request is the retry of the last refusal, at its time.        *)
IsRetry(limit, via) == promise # NoPromise /\ promise.limit = limit
                       /\ promise.via = via /\ promise.left = 0

(* The refusal can be kept if the times in the bucket are no more than the *)
(* limit of the route: other routes may have put more there.               *)
Told(limit, via, left, wasRetry, keepable) ==
  [limit |-> IF keepable THEN limit ELSE 0, via |-> via, left |-> left,
   kept |-> promise.kept /\ ~wasRetry]

(* A request lets the promise made to another one lapse.                   *)
Settled == [NoPromise EXCEPT !.kept = promise.kept]

LetPass(n, by) == [age |-> 0, no |-> n, by |-> by]

MemoryRequest(i, limit, durable) ==
  LET answer == InMemory(i, limit)
  IN /\ times' = [times EXCEPT ![i] = answer.held]
     /\ promise' = IF answer.allowed THEN Settled
                   ELSE Told(limit, "memory", answer.left, IsRetry(limit, "memory"),
                             Cardinality(answer.held) <= limit /\ Cardinality(WebProcess) = 1)
     /\ passed' = IF durable /\ answer.allowed
                  THEN passed \cup {LetPass(Now(Young(times[i])).no, MemoryOf(i))} ELSE passed

RequestComes(i, limit) ==
  /\ MemoryRequest(i, limit, FALSE)
  /\ UNCHANGED <<phase, counted, born, restarts>>

NextCount == IF counted <= Webhook THEN counted + 1 ELSE counted

(* Mutant: one request more.                                               *)
Countable_OneMore(n) == n <= Webhook + 1

(* checkRateLimitDurable, Redis answering.                                 *)
Countable(n) == n <= Webhook

WebhookComes ==
  /\ counted' = NextCount
  /\ promise' = IF Countable(NextCount) THEN Settled
                ELSE Told(Webhook, "redis", WindowLen - phase, IsRetry(Webhook, "redis"), TRUE)
  /\ passed' = IF Countable(NextCount) THEN passed \cup {LetPass(NextCount, ThisWindow)} ELSE passed
  /\ UNCHANGED <<phase, times, born, restarts>>

(* Redis is not set up, does not answer, or its answer is lost after it    *)
(* has counted.                                                            *)
WebhookInMemory(i) ==
  /\ MemoryRequest(i, Webhook, TRUE)
  /\ counted' \in {counted, NextCount}
  /\ UNCHANGED <<phase, born, restarts>>

(* A window of Redis that is over is the last one.                         *)
Over(r) == IF r.by = ThisWindow THEN [r EXCEPT !.by = LastWindow] ELSE r

(* A tick.  Times out of the window may stay in the map until the key is   *)
(* used or cleaned up; nothing reads them.                                 *)
Second ==
  /\ phase' = (phase + 1) % WindowLen
  /\ counted' = IF phase' = 0 THEN 0 ELSE counted
  /\ times' = [i \in WebProcess |-> {t \in Aged(times[i]) : t.age <= WindowLen}]
  /\ passed' = LET recent == Young(Aged(passed))
               IN IF phase' = 0 THEN {Over(r) : r \in recent} ELSE recent
  /\ born' = Young(Aged(born))
  /\ promise' = IF promise.left = 0 THEN Settled ELSE [promise EXCEPT !.left = @ - 1]
  /\ UNCHANGED restarts

(* What the memory of an instance let pass before restart n.               *)
CutOff(r, i, n) == IF r.by = MemoryOf(i) THEN [r EXCEPT !.by = MemoryBefore(n)] ELSE r

RestartOf(i) ==
  /\ restarts < MaxRestarts
  /\ restarts' = restarts + 1
  /\ times' = [times EXCEPT ![i] = {}]
  /\ passed' = {CutOff(r, i, restarts') : r \in passed}
  /\ born' = born \cup {[age |-> 0, no |-> restarts']}
  /\ UNCHANGED <<phase, counted, promise>>

LimitNext ==
  \/ \E i \in WebProcess : (\E limit \in Preset : RequestComes(i, limit))
                          \/ WebhookInMemory(i) \/ RestartOf(i)
  \/ WebhookComes \/ Second

(***************************************************************************)
(* Properties.                                                             *)
(***************************************************************************)

(* Whatever Redis and the instances do, the durable route lets no more     *)
(* pass within a window than the ends of two windows of Redis and the      *)
(* memory of every instance, once more for each restart, have room for.    *)
BurstIsBounded ==
  Cardinality(passed) <= Webhook * (2 + Cardinality(WebProcess) + Cardinality(born))

(* A client that was refused, waits for Retry-After and then comes first   *)
(* is let pass, by the backend that refused it, unless routes with larger  *)
(* limits had filled the bucket beyond its own.                            *)
RetryAfterHolds == promise.kept

(* The bound it sets and the wait it asks for are both true.               *)
LimiterKeepsItsWord == BurstIsBounded /\ RetryAfterHolds

LimitSpec == LimitInit /\ [][LimitNext]_limitVars
=============
