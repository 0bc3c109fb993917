----------------------------- MODULE WorkerPool -----------------------------
(***************************************************************************)
(* task_queues.WorkerPool: N daemon threads that drain a shared FIFO queue. *)
(* start() publishes a fresh queue and spawns its threads, stop() puts one *)
(* sentinel per thread behind whatever is queued and unpublishes the queue. *)
(* enqueue() reads the published queue without the pool's lock, so its put *)
(* may fall before, between or behind the sentinels of a concurrent stop(). *)
(*                                                                         *)
(* A generation is what one effective start() creates: a queue and its     *)
(* threads.  A generation that is still draining may coexist with the next.*)
(***************************************************************************)
EXTENDS Naturals, Sequences, FiniteSets

CONSTANTS
  Item,          \* jobs, each submitted once, by its own thread
  Owner,         \* threads that start and stop the pool
  Concurrency,   \* threads of a generation
  MaxStarts,     \* bound on effective calls of start()
  Stop,          \* the sentinel _STOP
  NoItem

ASSUME ItemAssumption == Stop \notin Item /\ NoItem \notin Item /\ NoItem # Stop
ASSUME OwnerAssumption == 0 \notin Owner
ASSUME PoolAssumption == Concurrency \in Nat \ {0} /\ MaxStarts \in Nat \ {0}

Generation == 1..MaxStarts
Thread == Generation \X (1..Concurrency)
Gen(t) == t[1]

VARIABLES
  published,   \* generation whose queue is self._queue, 0 for None
  started,     \* effective starts so far
  lock,        \* owner inside "with self._lock", 0 for nobody
  owner,       \* where each owner is
  left,        \* threads to spawn or sentinels to put by the lock's holder
  joining,     \* generation an owner joins
  queue,       \* queue of each generation
  thread,      \* state of each thread
  hand,        \* item a thread works on
  caller,      \* where the submitter of each item is
  target,      \* generation whose queue a submitter has read
  early        \* history: items put before stop() put its first sentinel

lifecycle == <<published, started, lock, owner, left, joining>>
threads == <<thread, hand>>
callers == <<caller, target, early>>
vars == <<lifecycle, queue, threads, callers>>

Init ==
  /\ published = 0 /\ started = 0 /\ lock = 0 /\ left = 0
  /\ owner = [o \in Owner |-> "idle"]
  /\ joining = [o \in Owner |-> 0]
  /\ queue = [g \in Generation |-> <<>>]
  /\ thread = [t \in Thread |-> "unborn"]
  /\ hand = [t \in Thread |-> NoItem]
  /\ caller = [i \in Item |-> "new"]
  /\ target = [i \in Item |-> 0]
  /\ early = {}

Sentinels(g) == {k \in DOMAIN queue[g] : queue[g][k] = Stop}
Living(g) == {t \in Thread : Gen(t) = g /\ thread[t] \in {"waiting", "handling"}}
(* stop() has put a sentinel into the queue of g, or has done with it.     *)
Closing(g) == \/ g # published
              \/ \E o \in Owner : owner[o] = "stopping" /\ left < Concurrency

Put(g, x) == queue' = [queue EXCEPT ![g] = Append(@, x)]

-----------------------------------------------------------------------------
(* start(): a second call while a queue is published returns at once.      *)

(* Mutants of StartEnter: not idempotent; one thread too many.             *)
StartEnter_Again(o) ==
  /\ owner[o] = "idle" /\ lock = 0
  /\ started < MaxStarts
  /\ lock' = o
  /\ owner' = [owner EXCEPT ![o] = "starting"]
  /\ started' = started + 1
  /\ published' = started + 1
  /\ left' = Concurrency
  /\ UNCHANGED <<joining, queue, threads, callers>>
StartEnter_OneMore(o) ==
  /\ owner[o] = "idle" /\ lock = 0
  /\ published = 0 /\ started < MaxStarts
  /\ lock' = o
  /\ owner' = [owner EXCEPT ![o] = "starting"]
  /\ started' = started + 1
  /\ published' = started + 1
  /\ left' = Concurrency + 1
  /\ UNCHANGED <<joining, queue, threads, callers>>

StartEnter(o) ==
  /\ owner[o] = "idle" /\ lock = 0
  /\ published = 0 /\ started < MaxStarts
  /\ lock' = o
  /\ owner' = [owner EXCEPT ![o] = "starting"]
  /\ started' = started + 1
  /\ published' = started + 1
  /\ left' = Concurrency
  /\ UNCHANGED <<joining, queue, threads, callers>>

SpawnThread(o) ==
  /\ owner[o] = "starting"
  /\ thread' = [thread EXCEPT ![<<published, left>>] = "waiting"]
  /\ left' = left - 1
  /\ IF left = 1
       THEN lock' = 0 /\ owner' = [owner EXCEPT ![o] = "idle"]
       ELSE UNCHANGED <<lock, owner>>
  /\ UNCHANGED <<published, started, joining, queue, hand, callers>>

-----------------------------------------------------------------------------
(* stop(join): sentinels and the unpublishing are inside the lock, the     *)
(* join is not.                                                            *)

(* Mutant of StopEnter: one sentinel too few.                              *)
StopEnter_OneShort(o) ==
  /\ owner[o] = "idle" /\ lock = 0
  /\ published # 0
  /\ lock' = o
  /\ owner' = [owner EXCEPT ![o] = "stopping"]
  /\ left' = Concurrency - 1
  /\ UNCHANGED <<published, started, joining, queue, threads, callers>>

StopEnter(o) ==
  /\ owner[o] = "idle" /\ lock = 0
  /\ published # 0
  /\ lock' = o
  /\ owner' = [owner EXCEPT ![o] = "stopping"]
  /\ left' = Concurrency
  /\ UNCHANGED <<published, started, joining, queue, threads, callers>>

(* Mutant of PutSentinel: the sentinel jumps the queue.                    *)
PutSentinel_Front(o) ==
  /\ owner[o] = "stopping" /\ left > 0
  /\ queue' = [queue EXCEPT ![published] = <<Stop>> \o @]
  /\ left' = left - 1
  /\ UNCHANGED <<published, started, lock, owner, joining, threads, callers>>

PutSentinel(o) ==
  /\ owner[o] = "stopping" /\ left > 0
  /\ Put(published, Stop)
  /\ left' = left - 1
  /\ UNCHANGED <<published, started, lock, owner, joining, threads, callers>>

Unpublish(o) ==
  /\ owner[o] = "stopping" /\ left = 0
  /\ published' = 0
  /\ lock' = 0
  /\ \E join \in BOOLEAN :
       /\ owner' = [owner EXCEPT ![o] = IF join THEN "joining" ELSE "idle"]
       /\ joining' = [joining EXCEPT ![o] = IF join THEN published ELSE 0]
  /\ UNCHANGED <<started, left, queue, threads, callers>>

(* join returns when every thread of the generation has ended.             *)
Joined(o) ==
  /\ owner[o] = "joining" /\ Living(joining[o]) = {}
  /\ owner' = [owner EXCEPT ![o] = "idle"]
  /\ joining' = [joining EXCEPT ![o] = 0]
  /\ UNCHANGED <<published, started, lock, left, queue, threads, callers>>

JoinTimesOut(o) ==
  /\ owner[o] = "joining" /\ Living(joining[o]) # {}
  /\ owner' = [owner EXCEPT ![o] = "idle"]
  /\ joining' = [joining EXCEPT ![o] = 0]
  /\ UNCHANGED <<published, started, lock, left, queue, threads, callers>>

-----------------------------------------------------------------------------
(* A submitter (main._dispatch_sync, main.job_recalc_seller) asks active() *)
(* first and falls back to a background task; enqueue() then reads the     *)
(* queue again, and puts into the queue it has read.                       *)

AskActive(i) ==
  /\ caller[i] = "new"
  /\ caller' = [caller EXCEPT ![i] = IF published # 0 THEN "asked" ELSE "fallback"]
  /\ UNCHANGED <<lifecycle, queue, threads, target, early>>

ReadQueue(i) ==
  /\ caller[i] = "asked"
  /\ caller' = [caller EXCEPT ![i] = IF published # 0 THEN "putting" ELSE "refused"]
  /\ target' = [target EXCEPT ![i] = published]
  /\ UNCHANGED <<lifecycle, queue, threads, early>>

PutItem(i) ==
  /\ caller[i] = "putting"
  /\ Put(target[i], i)
  /\ caller' = [caller EXCEPT ![i] = "queued"]
  /\ early' = IF Closing(target[i]) THEN early ELSE early \cup {i}
  /\ UNCHANGED <<lifecycle, threads, target>>

-----------------------------------------------------------------------------
(* _loop: the thread keeps to the queue it was started with.               *)

GetSentinel(t) ==
  /\ thread[t] = "waiting"
  /\ queue[Gen(t)] # <<>> /\ Head(queue[Gen(t)]) = Stop
  /\ queue' = [queue EXCEPT ![Gen(t)] = Tail(@)]
  /\ thread' = [thread EXCEPT ![t] = "ended"]
  /\ UNCHANGED <<lifecycle, hand, callers>>

(* Mutants of GetItem: the thread reads self._queue; the item stays queued.*)
GetItem_FromPublished(t) ==
  /\ thread[t] = "waiting" /\ published # 0
  /\ queue[published] # <<>> /\ Head(queue[published]) # Stop
  /\ hand' = [hand EXCEPT ![t] = Head(queue[published])]
  /\ caller' = [caller EXCEPT ![Head(queue[published])] = "running"]
  /\ queue' = [queue EXCEPT ![published] = Tail(@)]
  /\ thread' = [thread EXCEPT ![t] = "handling"]
  /\ UNCHANGED <<lifecycle, target, early>>
GetItem_Peek(t) ==
  /\ thread[t] = "waiting"
  /\ queue[Gen(t)] # <<>> /\ Head(queue[Gen(t)]) # Stop
  /\ hand' = [hand EXCEPT ![t] = Head(queue[Gen(t)])]
  /\ caller' = [caller EXCEPT ![Head(queue[Gen(t)])] = "running"]
  /\ thread' = [thread EXCEPT ![t] = "handling"]
  /\ UNCHANGED <<lifecycle, queue, target, early>>

GetItem(t) ==
  /\ thread[t] = "waiting"
  /\ queue[Gen(t)] # <<>> /\ Head(queue[Gen(t)]) # Stop
  /\ hand' = [hand EXCEPT ![t] = Head(queue[Gen(t)])]
  /\ caller' = [caller EXCEPT ![Head(queue[Gen(t)])] = "running"]
  /\ queue' = [queue EXCEPT ![Gen(t)] = Tail(@)]
  /\ thread' = [thread EXCEPT ![t] = "handling"]
  /\ UNCHANGED <<lifecycle, target, early>>

(* The handler returns or raises: the thread goes on either way.           *)
Handled(t) ==
  /\ thread[t] = "handling"
  /\ caller' = [caller EXCEPT ![hand[t]] = "finished"]
  /\ hand' = [hand EXCEPT ![t] = NoItem]
  /\ thread' = [thread EXCEPT ![t] = "waiting"]
  /\ UNCHANGED <<lifecycle, queue, target, early>>

-----------------------------------------------------------------------------
OwnerStep(o) ==
  \/ StartEnter(o) \/ SpawnThread(o)
  \/ StopEnter(o) \/ PutSentinel(o) \/ Unpublish(o) 
  \/ Joined(o) \/ JoinTimesOut(o)
CallerStep(i) == AskActive(i) \/ ReadQueue(i) \/ PutItem(i)
ThreadStep(t) == GetSentinel(t) \/ GetItem(t) \/ Handled(t)

Next ==
  \/ \E o \in Owner : OwnerStep(o)
  \/ \E i \in Item : CallerStep(i)
  \/ \E t \in Thread : ThreadStep(t)

Spec == Init /\ [][Next]_vars

(* Threads are scheduled and handlers return.  Nobody is obliged to start  *)
(* or stop the pool, but a start() or stop() that has begun is carried out.*)
Fairness ==
  /\ \A o \in Owner : WF_vars(SpawnThread(o) \/ PutSentinel(o) \/ Unpublish(o) \/ Joined(o))
  /\ \A i \in Item : WF_vars(CallerStep(i))
  /\ \A t \in Thread : WF_vars(ThreadStep(t))

FairSpec == Spec /\ Fairness

-----------------------------------------------------------------------------
TypeOK ==
  /\ published \in 0..MaxStarts /\ started \in 0..MaxStarts
  /\ lock \in Owner \cup {0} /\ left \in 0..Concurrency
  /\ owner \in [Owner -> {"idle", "starting", "stopping", "joining"}]
  /\ joining \in [Owner -> 0..MaxStarts]
  /\ queue \in [Generation -> Seq(Item \cup {Stop})]
  /\ thread \in [Thread -> {"unborn", "waiting", "handling", "ended"}]
  /\ hand \in [Thread -> Item \cup {NoItem}]
  /\ caller \in [Item -> {"new", "asked", "putting", "queued", "running",
                           "finished", "refused", "fallback"}]
  /\ target \in [Item -> 0..MaxStarts]
  /\ early \subseteq Item

(* Once stop() is through with a generation there is a sentinel in its     *)
(* queue for every thread still alive, neither fewer (a thread would wait  *)
(* for ever) nor more, wherever racing enqueue() calls put their items.    *)
SentinelPerThread ==
  \A g \in 1..started :
    g # published => Cardinality(Sentinels(g)) = Cardinality(Living(g))

(* stop(join=True) drains: when the last thread of a generation has ended, *)
(* every item put before stop() put its first sentinel has been handled.   *)
NothingEarlyIsLost ==
  \A g \in 1..started :
    (\A t \in Thread : Gen(t) = g => thread[t] = "ended") =>
      \A i \in early : target[i] = g => caller[i] = "finished"

(* A thread only ever works on items of its own queue, also while an old   *)
(* generation drains beside a new one (the argument q of _loop).           *)
ThreadsKeepToTheirQueue ==
  \A t \in Thread : hand[t] # NoItem => target[hand[t]] = Gen(t)

(* No thread outlives stop(): the join of a stopped pool comes to an end.  *)
ThreadsEnd ==
  \A g \in Generation : (g <= started /\ g # published) ~> Living(g) = {}

(* An item that enqueue() accepted before the pool began to close is       *)
(* handled, whatever the handlers of the items before it raise.            *)
EarlyItemIsHandled == \A i \in Item : i \in early ~> caller[i] = "finished"

(* The pool seen as an Executor: where a job is, the pool that has it, the *)
(* pool that takes jobs for sure and those that are gone.                  *)
PhaseOf(place) ==
  CASE place \in {"new", "asked", "putting"} -> "new"
    [] place \in {"refused", "fallback"} -> "declined"
    [] place = "queued" -> "waiting"
    [] OTHER -> place

Phase == [i \in Item |-> PhaseOf(caller[i])]
PoolOf == [i \in Item |->
             IF caller[i] \in {"queued", "running", "finished"} THEN target[i] ELSE 0]
OpenPool == IF published # 0 /\ ~Closing(published) THEN published ELSE 0
Retired == {g \in 1..started : \A t \in Thread : Gen(t) = g => thread[t] = "ended"}

(* The pool implements the contract of Executor.                           *)
E == INSTANCE Executor WITH
  phase <- Phase, pool <- PoolOf, sure <- early,
  open <- OpenPool, opened <- started, retired <- Retired
ImplementsExecutor == E!Spec
=============================================================================
