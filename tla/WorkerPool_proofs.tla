-------------------------- MODULE WorkerPool_proofs --------------------------
(* Proofs about WorkerPool, for any jobs, owners, threads and restarts.    *)
EXTENDS WorkerPool, FiniteSetTheorems, TLAPS

(* The owner inside the lock is the one that starts or stops, and only the *)
(* generation started last is ever published.                              *)
LockInv ==
  /\ \A o \in Owner : owner[o] \in {"starting", "stopping"} <=> lock = o
  /\ lock # 0 => published # 0
  /\ published \in {0, started}
  /\ \A o \in Owner : owner[o] = "starting" => left \in 1..Concurrency

(* A generation to come is empty; start() spawns its threads one by one.   *)
FreshInv ==
  /\ \A g \in Generation : g > started => queue[g] = <<>>
  /\ \A t \in Thread : Gen(t) > started => thread[t] = "unborn"
  /\ \A o \in Owner, k \in 1..left :
       owner[o] = "starting" => thread[<<published, k>>] = "unborn"

(* An item is in one place: one entry of the queue it was put into, or the *)
(* hand of one thread of that queue.                                       *)
QueueInv ==
  /\ \A i \in Item : caller[i] \in {"putting", "queued", "running", "finished"} =>
                       target[i] \in 1..started
  /\ \A g \in Generation : \A k \in 1..Len(queue[g]) :
       queue[g][k] # Stop => caller[queue[g][k]] = "queued" /\ target[queue[g][k]] = g
  /\ \A g \in Generation : \A k, l \in 1..Len(queue[g]) :
       queue[g][k] = queue[g][l] /\ k # l => queue[g][k] = Stop
  /\ \A i \in Item : caller[i] = "queued" =>
       \E k \in 1..Len(queue[target[i]]) : queue[target[i]][k] = i

HandInv ==
  /\ \A t \in Thread : thread[t] = "handling" <=> hand[t] # NoItem
  /\ \A t \in Thread : hand[t] # NoItem =>
       caller[hand[t]] = "running" /\ target[hand[t]] = Gen(t)
  /\ \A t, u \in Thread : hand[t] = hand[u] /\ t # u => hand[t] = NoItem
  /\ \A i \in Item : caller[i] = "running" => \E t \in Thread : hand[t] = i

(* Sentinels are behind every item put early, so that a thread that has    *)
(* taken one leaves no such item behind.                                   *)
EarlyInv ==
  /\ \A i \in early : caller[i] \in {"queued", "running", "finished"}
  /\ \A g \in Generation : \A k, l \in 1..Len(queue[g]) :
       queue[g][l] = Stop /\ l < k => queue[g][k] \notin early
  /\ \A t \in Thread : thread[t] = "ended" =>
       \A k \in 1..Len(queue[Gen(t)]) : queue[Gen(t)][k] \notin early

ClosedInv ==
  /\ \A g \in Generation : \A k \in 1..Len(queue[g]) : queue[g][k] = Stop => Closing(g)
  /\ \A t \in Thread : thread[t] = "ended" => Closing(Gen(t))

(* The sentinels stop() has still to put into the queue of g, counting the *)
(* whole of a pool that runs and what start() has spawned of one.          *)
Due(g) ==
  IF g # published THEN 0
  ELSE IF lock = 0 THEN Concurrency
  ELSE IF owner[lock] = "starting" THEN Concurrency - left
  ELSE left

CountInv ==
  \A g \in 1..started : Cardinality(Living(g)) = Cardinality(Sentinels(g)) + Due(g)

BaseInv == TypeOK /\ LockInv /\ FreshInv
PlaceInv == BaseInv /\ QueueInv /\ HandInv
PoolInv == PlaceInv /\ EarlyInv /\ ClosedInv /\ CountInv

-----------------------------------------------------------------------------
(* Queues.                                                                 *)

Entry == Item \cup {Stop}

LEMMA AppendFacts ==
  ASSUME NEW s \in Seq(Entry), NEW x \in Entry
  PROVE  /\ Append(s, x) \in Seq(Entry) /\ Len(s) \in Nat
         /\ Len(Append(s, x)) = Len(s) + 1
         /\ \A k \in 1..Len(s) : Append(s, x)[k] = s[k]
         /\ Append(s, x)[Len(s) + 1] = x
OBVIOUS

LEMMA TailFacts ==
  ASSUME NEW s \in Seq(Entry), s # <<>>
  PROVE  /\ Head(s) = s[1] /\ Head(s) \in Entry /\ Tail(s) \in Seq(Entry)
         /\ Len(s) \in Nat \ {0} /\ Len(Tail(s)) = Len(s) - 1
         /\ \A k \in 1..Len(Tail(s)) : Tail(s)[k] = s[k + 1]
OBVIOUS

Stops(s) == {k \in 1..Len(s) : s[k] = Stop}

LEMMA StopsFinite ==
  ASSUME NEW s \in Seq(Entry)
  PROVE  IsFiniteSet(Stops(s)) /\ Cardinality(Stops(s)) \in Nat
<1>1. IsFiniteSet(1..Len(s)) /\ Stops(s) \in SUBSET (1..Len(s))
  BY FS_Interval DEF Stops
<1>2. QED
  BY <1>1, FS_Subset, FS_CardinalityType

LEMMA StopsAppend ==
  ASSUME NEW s \in Seq(Entry), NEW x \in Entry
  PROVE  Cardinality(Stops(Append(s, x))) =
           Cardinality(Stops(s)) + (IF x = Stop THEN 1 ELSE 0)
<1>1. CASE x = Stop
  <2>1. Stops(Append(s, x)) = Stops(s) \cup {Len(s) + 1}
    BY <1>1, AppendFacts DEF Stops
  <2>2. Len(s) + 1 \notin Stops(s)
    BY AppendFacts DEF Stops
  <2>3. IsFiniteSet(Stops(s)) /\ Cardinality(Stops(s)) \in Nat
    BY StopsFinite
  <2>4. Cardinality(Stops(s) \cup {Len(s) + 1}) = Cardinality(Stops(s)) + 1
    BY <2>2, <2>3, FS_AddElement
  <2>5. QED
    BY <1>1, <2>1, <2>4
<1>2. CASE x # Stop
  <2>1. Stops(Append(s, x)) = Stops(s)
    BY <1>2, AppendFacts DEF Stops
  <2>2. QED
    BY <1>2, <2>1, StopsFinite
<1>3. QED
  BY <1>1, <1>2

LEMMA StopsTail ==
  ASSUME NEW s \in Seq(Entry), s # <<>>
  PROVE  Cardinality(Stops(Tail(s))) =
           Cardinality(Stops(s)) - (IF Head(s) = Stop THEN 1 ELSE 0)
<1> DEFINE Rest == Stops(s) \ {1}
           f == [k \in Stops(Tail(s)) |-> k + 1]
<1>1. f \in Bijection(Stops(Tail(s)), Rest)
  <2>1. f \in [Stops(Tail(s)) -> Rest]
    BY TailFacts DEF Stops
  <2>2. \A k, l \in Stops(Tail(s)) : f[k] = f[l] => k = l
    BY TailFacts DEF Stops
  <2>3. \A r \in Rest : \E k \in Stops(Tail(s)) : f[k] = r
    <3> SUFFICES ASSUME NEW r \in Rest PROVE \E k \in Stops(Tail(s)) : f[k] = r
      OBVIOUS
    <3>1. r - 1 \in 1..Len(Tail(s)) /\ Tail(s)[r - 1] = s[r]
      BY TailFacts DEF Stops
    <3>2. r - 1 \in Stops(Tail(s)) /\ f[r - 1] = r
      BY <3>1 DEF Stops
    <3>3. QED
      BY <3>2
  <2> HIDE DEF f, Rest
  <2>4. QED
    BY <2>1, <2>2, <2>3 DEF Bijection, Injection, Surjection, IsInjective
<1>2. IsFiniteSet(Rest) /\ IsFiniteSet(Stops(Tail(s)))
  BY StopsFinite, TailFacts, FS_RemoveElement
<1>3. Cardinality(Rest) = Cardinality(Stops(Tail(s)))
  BY <1>1, <1>2, FS_Bijection DEF ExistsBijection
<1>4. 1 \in Stops(s) <=> Head(s) = Stop
  BY TailFacts DEF Stops
<1>5. IsFiniteSet(Stops(s)) /\ Cardinality(Stops(s)) \in Nat
  BY StopsFinite
<1>6. Cardinality(Rest) = IF 1 \in Stops(s) THEN Cardinality(Stops(s)) - 1 ELSE Cardinality(Stops(s))
  BY <1>5, FS_RemoveElement
<1>7. CASE Head(s) = Stop
  BY <1>3, <1>4, <1>6, <1>7
<1>8. CASE Head(s) # Stop
  BY <1>3, <1>4, <1>5, <1>6, <1>8
<1>9. QED
  BY <1>7, <1>8

-----------------------------------------------------------------------------
(* Types, the lock and the generations to come.                            *)

LEMMA ThreadFacts ==
  /\ Concurrency \in Nat \ {0} /\ MaxStarts \in Nat \ {0}
  /\ \A t \in Thread : Gen(t) \in Generation /\ t = <<Gen(t), t[2]>> /\ t[2] \in 1..Concurrency
  /\ \A g \in Generation, k \in 1..Concurrency : <<g, k>> \in Thread /\ Gen(<<g, k>>) = g
BY PoolAssumption DEF Thread, Gen

LEMMA OwnerStepBase ==
  ASSUME BaseInv, NEW o \in Owner, OwnerStep(o)
  PROVE  BaseInv'
<1> USE PoolAssumption, OwnerAssumption, ItemAssumption
    DEF BaseInv, threads, callers, Generation
<1>1. CASE StartEnter(o)
  <2> USE <1>1 DEF StartEnter
  <2>1. TypeOK'
    BY DEF TypeOK
  <2>2. LockInv'
    BY DEF TypeOK, LockInv
  <2>3. FreshInv'
    BY ThreadFacts DEF TypeOK, LockInv, FreshInv
  <2>4. QED
    BY <2>1, <2>2, <2>3
<1>2. CASE SpawnThread(o)
  <2> USE <1>2 DEF SpawnThread
  <2>0. /\ published \in Generation /\ left \in 1..Concurrency /\ lock = o
        /\ <<published, left>> \in Thread
    BY ThreadFacts DEF TypeOK, LockInv
  <2>1. TypeOK'
    <3>1. /\ thread' \in [Thread -> {"unborn", "waiting", "handling", "ended"}]
          /\ left' \in 0..Concurrency
      BY <2>0 DEF TypeOK
    <3>2. /\ owner' \in [Owner -> {"idle", "starting", "stopping", "joining"}]
          /\ lock' \in Owner \cup {0}
      BY DEF TypeOK
    <3>3. QED
      BY <3>1, <3>2 DEF TypeOK
  <2>2. LockInv'
    <3>1. CASE left = 1
      BY <2>0, <3>1 DEF TypeOK, LockInv
    <3>2. CASE left # 1
      BY <2>0, <3>2 DEF TypeOK, LockInv
    <3>3. QED
      BY <3>1, <3>2
  <2>3. FreshInv'
    <3>1. \A t \in Thread : t # <<published, left>> => thread'[t] = thread[t]
      BY <2>0 DEF TypeOK
    <3>2. \A t \in Thread : Gen(t) > started => thread'[t] = "unborn"
      BY <2>0, <3>1, ThreadFacts DEF TypeOK, LockInv, FreshInv
    <3>3. ASSUME NEW p \in Owner, NEW k \in 1..left', owner'[p] = "starting"
          PROVE  thread'[<<published', k>>] = "unborn"
      <4>1. p = o /\ owner[p] = "starting" /\ k \in 1..left /\ k # left /\ published' = published
        BY <2>0, <3>3 DEF TypeOK, LockInv
      <4>2. <<published, k>> \in Thread /\ <<published, k>> # <<published, left>>
        BY <2>0, <4>1, ThreadFacts
      <4>3. QED
        BY <3>1, <4>1, <4>2 DEF FreshInv
    <3>4. QED
      BY <3>2, <3>3 DEF FreshInv
  <2>4. QED
    BY <2>1, <2>2, <2>3
<1>3. CASE StopEnter(o)
  <2> USE <1>3 DEF StopEnter
  <2>1. TypeOK'
    BY DEF TypeOK
  <2>2. LockInv' /\ FreshInv'
    BY DEF TypeOK, LockInv, FreshInv
  <2>3. QED
    BY <2>1, <2>2
<1>4. CASE PutSentinel(o)
  <2> USE <1>4 DEF PutSentinel, Put
  <2>0. published \in Generation /\ published = started /\ lock = o
    BY DEF TypeOK, LockInv
  <2>1. TypeOK'
    <3>1. Append(queue[published], Stop) \in Seq(Item \cup {Stop})
      BY <2>0 DEF TypeOK
    <3>2. queue' \in [Generation -> Seq(Item \cup {Stop})]
      BY <2>0, <3>1 DEF TypeOK
    <3>3. QED
      BY <2>0, <3>2 DEF TypeOK
  <2>2. LockInv' /\ FreshInv'
    BY SMTT(30), <2>0 DEF TypeOK, LockInv, FreshInv
  <2>3. QED
    BY <2>1, <2>2
<1>5. CASE Unpublish(o)
  <2> USE <1>5 DEF Unpublish
  <2>1. TypeOK'
    BY DEF TypeOK
  <2>2. LockInv' /\ FreshInv'
    BY DEF TypeOK, LockInv, FreshInv
  <2>3. QED
    BY <2>1, <2>2
<1>6. CASE Joined(o) \/ JoinTimesOut(o)
  <2>0. /\ owner[o] = "joining"
        /\ owner' = [owner EXCEPT ![o] = "idle"]
        /\ joining' = [joining EXCEPT ![o] = 0]
        /\ UNCHANGED <<published, started, lock, left, queue, threads, callers>>
    BY <1>6 DEF Joined, JoinTimesOut
  <2>1. TypeOK'
    BY <2>0 DEF TypeOK
  <2>2. LockInv' /\ FreshInv'
    BY <2>0 DEF TypeOK, LockInv, FreshInv
  <2>3. QED
    BY <2>1, <2>2
<1>7. QED
  BY <1>1, <1>2, <1>3, <1>4, <1>5, <1>6 DEF OwnerStep

LEMMA CallerStepBase ==
  ASSUME BaseInv, QueueInv, NEW i \in Item, CallerStep(i)
  PROVE  BaseInv'
<1> USE DEF BaseInv, lifecycle, threads
<1>1. CASE AskActive(i) \/ ReadQueue(i)
  <2> USE <1>1 DEF AskActive, ReadQueue
  <2>1. TypeOK'
    BY ZenonT(60) DEF TypeOK
  <2>2. LockInv' /\ FreshInv'
    BY DEF LockInv, FreshInv
  <2>3. QED
    BY <2>1, <2>2
<1>2. CASE PutItem(i)
  <2> USE <1>2 DEF PutItem, Put
  <2>1. target[i] \in 1..started /\ target[i] \in Generation
    BY PoolAssumption DEF QueueInv, TypeOK, Generation
  <2>2. TypeOK'
    <3>1. queue' \in [Generation -> Seq(Item \cup {Stop})]
      BY <2>1 DEF TypeOK
    <3>2. QED
      BY <3>1 DEF TypeOK
  <2>3. LockInv' /\ FreshInv'
    BY <2>1 DEF TypeOK, LockInv, FreshInv
  <2>4. QED
    BY <2>2, <2>3
<1>3. QED
  BY <1>1, <1>2 DEF CallerStep

(* What a thread takes is at the head of the queue of its generation.      *)
LEMMA HeadFacts ==
  ASSUME TypeOK, NEW t \in Thread, queue[Gen(t)] # <<>>
  PROVE  /\ Gen(t) \in Generation /\ queue[Gen(t)] \in Seq(Entry)
         /\ Head(queue[Gen(t)]) = queue[Gen(t)][1] /\ Head(queue[Gen(t)]) \in Entry
         /\ 1 \in 1..Len(queue[Gen(t)])
         /\ Tail(queue[Gen(t)]) \in Seq(Entry)
BY ThreadFacts, TailFacts DEF TypeOK, Entry

LEMMA ThreadStepBase ==
  ASSUME BaseInv, HandInv, NEW t \in Thread, ThreadStep(t)
  PROVE  BaseInv'
<1> USE DEF BaseInv, lifecycle, callers
<1>0. Gen(t) \in Generation /\ Gen(t) <= started /\ started \in Nat
  <2>1. Gen(t) \in Generation /\ Gen(t) \in Nat /\ started \in Nat
    BY ThreadFacts, PoolAssumption DEF TypeOK, Generation
  <2>2. thread[t] # "unborn"
    BY DEF ThreadStep, GetSentinel, GetItem, Handled
  <2>3. QED
    BY <2>1, <2>2 DEF FreshInv
<1>2. ASSUME thread[t] # "unborn", \A u \in Thread : u # t => thread'[u] = thread[u],
             \A g \in Generation : g # Gen(t) => queue'[g] = queue[g], UNCHANGED lifecycle
      PROVE  LockInv' /\ FreshInv'
  <2>1. LockInv'
    BY <1>2 DEF LockInv
  <2>2. \A g \in Generation : g > started' => queue'[g] = <<>>
    BY <1>0, <1>2 DEF FreshInv, Generation
  <2>3. \A u \in Thread : Gen(u) > started' => thread'[u] = "unborn"
    BY <1>0, <1>2, ThreadFacts DEF FreshInv, Generation
  <2>4. ASSUME NEW o \in Owner, NEW k \in 1..left', owner'[o] = "starting"
        PROVE  thread'[<<published', k>>] = "unborn"
    <3>1. thread[<<published, k>>] = "unborn"
      BY <1>2, <2>4 DEF FreshInv
    <3>2. <<published, k>> \in Thread
      <4>1. lock = o /\ published # 0
        BY <1>2, <2>4, OwnerAssumption DEF LockInv
      <4>2. published \in Generation /\ k \in 1..Concurrency
        BY <1>2, <2>4, <4>1, PoolAssumption DEF TypeOK, Generation
      <4>3. QED
        BY <4>2, ThreadFacts
    <3>3. QED
      BY <1>2, <3>1, <3>2
  <2>5. QED
    BY <2>1, <2>2, <2>3, <2>4 DEF FreshInv
<1>3. CASE GetSentinel(t)
  <2> USE <1>3 DEF GetSentinel
  <2>1. queue' \in [Generation -> Seq(Item \cup {Stop})]
    BY HeadFacts DEF TypeOK, Entry
  <2>2. thread' \in [Thread -> {"unborn", "waiting", "handling", "ended"}]
    BY DEF TypeOK
  <2>3. TypeOK'
    BY <2>1, <2>2 DEF TypeOK
  <2>4. QED
    BY <1>0, <1>2, <2>3 DEF TypeOK
<1>4. CASE GetItem(t)
  <2> USE <1>4 DEF GetItem
  <2>1. queue' \in [Generation -> Seq(Item \cup {Stop})] /\ Head(queue[Gen(t)]) \in Item
    BY HeadFacts DEF TypeOK, Entry
  <2>2. TypeOK'
    BY <2>1 DEF TypeOK
  <2>3. QED
    BY <1>0, <1>2, <2>2 DEF TypeOK
<1>5. CASE Handled(t)
  <2> USE <1>5 DEF Handled
  <2>1. TypeOK'
    BY DEF TypeOK
  <2>2. QED
    BY <1>2, <2>1 DEF TypeOK
<1>6. QED
  BY <1>3, <1>4, <1>5 DEF ThreadStep

-----------------------------------------------------------------------------
(* Where items are.                                                        *)

LEMMA QueueAppend ==
  ASSUME TypeOK, NEW g \in Generation, NEW x \in Entry, Put(g, x)
  PROVE  /\ \A h \in Generation : h # g => queue'[h] = queue[h]
         /\ queue[g] \in Seq(Entry) /\ queue'[g] = Append(queue[g], x)
         /\ Len(queue[g]) \in Nat /\ Len(queue'[g]) = Len(queue[g]) + 1
         /\ \A k \in 1..Len(queue[g]) : queue'[g][k] = queue[g][k]
         /\ queue'[g][Len(queue[g]) + 1] = x
<1>1. /\ \A h \in Generation : h # g => queue'[h] = queue[h]
      /\ queue'[g] = Append(queue[g], x) /\ queue[g] \in Seq(Entry)
  BY DEF TypeOK, Put, Entry
<1>2. QED
  BY <1>1, AppendFacts

LEMMA QueueTail ==
  ASSUME TypeOK, NEW g \in Generation, queue[g] # <<>>,
         queue' = [queue EXCEPT ![g] = Tail(@)]
  PROVE  /\ \A h \in Generation : h # g => queue'[h] = queue[h]
         /\ queue[g] \in Seq(Entry) /\ queue'[g] = Tail(queue[g])
         /\ Len(queue[g]) \in Nat \ {0} /\ Len(queue'[g]) = Len(queue[g]) - 1
         /\ \A k \in 1..Len(queue'[g]) :
              queue'[g][k] = queue[g][k + 1] /\ k + 1 \in 2..Len(queue[g])
<1>1. /\ \A h \in Generation : h # g => queue'[h] = queue[h]
      /\ queue'[g] = Tail(queue[g]) /\ queue[g] \in Seq(Entry)
  BY DEF TypeOK, Entry
<1>2. /\ Len(queue[g]) \in Nat \ {0} /\ Len(Tail(queue[g])) = Len(queue[g]) - 1
      /\ \A k \in 1..Len(Tail(queue[g])) : Tail(queue[g])[k] = queue[g][k + 1]
  BY <1>1, TailFacts
<1>3. \A k \in 1..Len(Tail(queue[g])) : k + 1 \in 2..Len(queue[g])
  BY <1>2
<1>4. QED
  BY <1>1, <1>2, <1>3

LEMMA OwnerStepPlace ==
  ASSUME PlaceInv, NEW o \in Owner, OwnerStep(o)
  PROVE  QueueInv' /\ HandInv'
<1> USE DEF PlaceInv, BaseInv, threads, callers
<1>1. CASE SpawnThread(o)
  <2>1. /\ published \in Generation /\ left \in 1..Concurrency
        /\ <<published, left>> \in Thread /\ thread[<<published, left>>] = "unborn"
    <3>1. owner[o] = "starting" /\ left \in 1..Concurrency /\ published # 0
      BY <1>1, OwnerAssumption DEF SpawnThread, LockInv
    <3>2. published \in Generation /\ left \in 1..left
      BY <3>1, PoolAssumption DEF TypeOK, Generation
    <3>3. QED
      BY <3>1, <3>2, ThreadFacts DEF FreshInv
  <2>2. QueueInv'
    BY <1>1 DEF SpawnThread, QueueInv
  <2>3. \A t \in Thread : thread'[t] = "handling" <=> thread[t] = "handling"
    BY <1>1, <2>1 DEF SpawnThread, TypeOK
  <2>4. HandInv'
    BY <1>1, <2>3 DEF SpawnThread, HandInv
  <2>5. QED
    BY <2>2, <2>4
<1>2. CASE PutSentinel(o)
  <2>1. published \in Generation
    BY <1>2, OwnerAssumption, PoolAssumption DEF PutSentinel, LockInv, TypeOK, Generation
  <2>2. Stop \in Entry /\ Stop \notin Item
    BY ItemAssumption DEF Entry
  <2>3. Put(published, Stop) /\ UNCHANGED <<caller, target, started, thread, hand>>
    BY <1>2 DEF PutSentinel
  <2>4. QueueInv'
    <3> HIDE DEF PlaceInv, BaseInv, threads, callers
    <3>0. TypeOK /\ QueueInv
      BY DEF PlaceInv, BaseInv
    <3>1. \A g \in Generation : \A k \in 1..Len(queue'[g]) :
            \/ k \in 1..Len(queue[g]) /\ queue'[g][k] = queue[g][k]
            \/ queue'[g][k] = Stop
      BY <2>1, <2>2, <2>3, <3>0, QueueAppend
    <3>2. \A g \in Generation : \A k \in 1..Len(queue[g]) :
            k \in 1..Len(queue'[g]) /\ queue'[g][k] = queue[g][k]
      BY <2>1, <2>2, <2>3, <3>0, QueueAppend
    <3>3. \A i \in Item : caller[i] = "queued" => target[i] \in Generation
      BY <3>0, PoolAssumption DEF QueueInv, TypeOK, Generation
    <3>4. ASSUME NEW g \in Generation, NEW k \in 1..Len(queue'[g]), queue'[g][k] # Stop
          PROVE  caller[queue'[g][k]] = "queued" /\ target[queue'[g][k]] = g
      BY <3>0, <3>1, <3>4 DEF QueueInv
    <3>5. ASSUME NEW g \in Generation, NEW k \in 1..Len(queue'[g]), NEW l \in 1..Len(queue'[g]),
                 queue'[g][k] = queue'[g][l], k # l
          PROVE  queue'[g][k] = Stop
      BY <3>0, <3>1, <3>5 DEF QueueInv
    <3>6. ASSUME NEW i \in Item, caller[i] = "queued"
          PROVE  \E k \in 1..Len(queue'[target[i]]) : queue'[target[i]][k] = i
      <4>1. PICK k \in 1..Len(queue[target[i]]) : queue[target[i]][k] = i
        BY <3>0, <3>6 DEF QueueInv
      <4>2. target[i] \in Generation
        BY <3>3, <3>6
      <4>3. k \in 1..Len(queue'[target[i]]) /\ queue'[target[i]][k] = i
        BY <3>2, <4>1, <4>2
      <4>4. QED
        BY <4>3
    <3>7. UNCHANGED <<started, caller, target>>
      BY <2>3
    <3>8. QED
      BY <3>0, <3>4, <3>5, <3>6, <3>7 DEF QueueInv
  <2>5. HandInv'
    BY <2>3 DEF HandInv
  <2>6. QED
    BY <2>4, <2>5
<1>3. CASE StartEnter(o)
  BY <1>3, PoolAssumption DEF StartEnter, TypeOK, QueueInv, HandInv
<1>4. CASE StopEnter(o) \/ Unpublish(o) \/ Joined(o) \/ JoinTimesOut(o)
  <2>1. UNCHANGED <<started, queue, threads, callers>>
    BY <1>4 DEF StopEnter, Unpublish, Joined, JoinTimesOut
  <2>2. QED
    BY <2>1 DEF QueueInv, HandInv
<1>5. QED
  BY <1>1, <1>2, <1>3, <1>4 DEF OwnerStep

LEMMA CallerStepPlace ==
  ASSUME PlaceInv, NEW i \in Item, CallerStep(i)
  PROVE  QueueInv' /\ HandInv'
<1>0. TypeOK /\ QueueInv /\ HandInv /\ LockInv
  BY DEF PlaceInv, BaseInv
<1>1. CASE AskActive(i) \/ ReadQueue(i)
  <2>1. /\ caller[i] \in {"new", "asked"} /\ caller'[i] \notin {"queued", "running", "finished"}
        /\ \A j \in Item \ {i} : caller'[j] = caller[j] /\ target'[j] = target[j]
        /\ UNCHANGED <<queue, thread, hand, started>>
    BY <1>0, <1>1 DEF AskActive, ReadQueue, TypeOK, lifecycle, threads
  <2>2. caller'[i] = "putting" => target'[i] \in 1..started
    <3>1. caller'[i] = "putting" => published # 0 /\ target'[i] = published
      BY <1>0, <1>1 DEF AskActive, ReadQueue, TypeOK
    <3>2. QED
      BY <1>0, <3>1, PoolAssumption DEF LockInv, TypeOK
  <2>3. \A g \in Generation : \A k \in 1..Len(queue[g]) : queue[g][k] \in Entry
    BY <1>0 DEF TypeOK, Entry
  <2>4. QueueInv'
    <3>1. \A j \in Item : caller'[j] \in {"putting", "queued", "running", "finished"} =>
                             target'[j] \in 1..started'
      BY <1>0, <2>1, <2>2 DEF QueueInv
    <3>2. \A g \in Generation : \A k \in 1..Len(queue[g]) :
            queue[g][k] # Stop => queue[g][k] \in Item \ {i}
      BY <1>0, <2>1, <2>3 DEF QueueInv, Entry
    <3>3. QED
      BY <1>0, <2>1, <3>1, <3>2 DEF QueueInv
  <2>5. HandInv'
    <3>1. \A t \in Thread : hand[t] # NoItem => hand[t] \in Item \ {i}
      BY <1>0, <2>1 DEF HandInv, TypeOK
    <3>2. QED
      BY <1>0, <2>1, <3>1 DEF HandInv
  <2>6. QED
    BY <2>4, <2>5
<1>2. CASE PutItem(i)
  <2> DEFINE g == target[i]
  <2>1. /\ caller[i] = "putting" /\ Put(g, i) /\ caller'[i] = "queued"
        /\ \A j \in Item \ {i} : caller'[j] = caller[j]
        /\ UNCHANGED <<target, started, thread, hand>>
    BY <1>0, <1>2 DEF PutItem, TypeOK, lifecycle, threads
  <2>2. g \in Generation /\ g \in 1..started /\ i \in Entry /\ i # Stop
    BY <1>0, <2>1, PoolAssumption, ItemAssumption DEF QueueInv, TypeOK, Generation, Entry
  <2> HIDE DEF g
  <2>3. /\ \A h \in Generation : h # g => queue'[h] = queue[h]
        /\ Len(queue[g]) \in Nat /\ Len(queue'[g]) = Len(queue[g]) + 1
        /\ \A k \in 1..Len(queue[g]) : queue'[g][k] = queue[g][k]
        /\ queue'[g][Len(queue[g]) + 1] = i
    BY <1>0, <2>1, <2>2, QueueAppend
  <2>4. \A h \in Generation : \A k \in 1..Len(queue[h]) : queue[h][k] # i
    BY <1>0, <2>1, <2>2 DEF QueueInv
  <2>5. \A h \in Generation : \A k \in 1..Len(queue[h]) : queue[h][k] \in Entry
    BY <1>0 DEF TypeOK, Entry
  <2>6. QueueInv'
    <3>1. \A j \in Item : caller'[j] \in {"putting", "queued", "running", "finished"} =>
                             target'[j] \in 1..started'
      BY <1>0, <2>1, <2>2 DEF QueueInv, g
    <3>2. \A h \in Generation : \A k \in 1..Len(queue'[h]) :
            \/ k \in 1..Len(queue[h]) /\ queue'[h][k] = queue[h][k]
            \/ h = g /\ k = Len(queue[g]) + 1 /\ queue'[h][k] = i
      BY <2>3
    <3>3. ASSUME NEW h \in Generation, NEW k \in 1..Len(queue'[h]), queue'[h][k] # Stop
          PROVE  caller'[queue'[h][k]] = "queued" /\ target'[queue'[h][k]] = h
      BY <1>0, <2>1, <2>4, <2>5, <3>2, <3>3 DEF QueueInv, Entry, g
    <3>4. ASSUME NEW h \in Generation, NEW k \in 1..Len(queue'[h]), NEW l \in 1..Len(queue'[h]),
                 queue'[h][k] = queue'[h][l], k # l
          PROVE  queue'[h][k] = Stop
      BY <1>0, <2>4, <3>2, <3>4 DEF QueueInv
    <3>5. ASSUME NEW j \in Item, caller'[j] = "queued"
          PROVE  \E k \in 1..Len(queue'[target'[j]]) : queue'[target'[j]][k] = j
      <4>1. CASE j = i
        BY <2>1, <2>3, <4>1 DEF g
      <4>2. CASE j # i
        <5>1. PICK k \in 1..Len(queue[target[j]]) : queue[target[j]][k] = j
          BY <1>0, <2>1, <3>5, <4>2 DEF QueueInv
        <5>2. target[j] \in Generation
          BY <1>0, <2>1, <3>5, <4>2, PoolAssumption DEF QueueInv, TypeOK, Generation
        <5>3. k \in 1..Len(queue'[target[j]]) /\ queue'[target[j]][k] = j
          BY <2>3, <5>1, <5>2
        <5>4. QED
          BY <2>1, <5>3
      <4>3. QED
        BY <4>1, <4>2
    <3>6. QED
      BY <3>1, <3>3, <3>4, <3>5 DEF QueueInv
  <2>7. HandInv'
    <3>1. \A t \in Thread : hand[t] # NoItem => hand[t] \in Item \ {i}
      BY <1>0, <2>1 DEF HandInv, TypeOK
    <3>2. QED
      BY <1>0, <2>1, <3>1 DEF HandInv
  <2>8. QED
    BY <2>6, <2>7
<1>3. QED
  BY <1>1, <1>2 DEF CallerStep

LEMMA ThreadStepPlace ==
  ASSUME PlaceInv, NEW t \in Thread, ThreadStep(t)
  PROVE  QueueInv' /\ HandInv'
<1> DEFINE g == Gen(t)
<1>0. TypeOK /\ QueueInv /\ HandInv /\ g \in Generation
  BY ThreadFacts DEF PlaceInv, BaseInv
<1>a. \A h \in Generation : \A k \in 1..Len(queue[h]) : queue[h][k] \in Entry
  BY <1>0 DEF TypeOK, Entry
<1> HIDE DEF g
<1>1. CASE GetSentinel(t)
  <2>1. /\ queue[g] # <<>> /\ Head(queue[g]) = Stop /\ queue' = [queue EXCEPT ![g] = Tail(@)]
        /\ thread[t] = "waiting" /\ thread' = [thread EXCEPT ![t] = "ended"]
        /\ UNCHANGED <<started, caller, target, hand>>
    BY <1>1 DEF GetSentinel, lifecycle, callers, g
  <2>2. /\ \A h \in Generation : h # g => queue'[h] = queue[h]
        /\ Len(queue[g]) \in Nat \ {0} /\ Len(queue'[g]) = Len(queue[g]) - 1
        /\ \A k \in 1..Len(queue'[g]) :
              queue'[g][k] = queue[g][k + 1] /\ k + 1 \in 2..Len(queue[g])
    BY <1>0, <2>1, QueueTail
  <2>3. queue[g][1] = Stop
    BY <1>0, <2>1, HeadFacts DEF g
  <2>4. QueueInv'
    <3>1. ASSUME NEW h \in Generation, NEW k \in 1..Len(queue'[h]), queue'[h][k] # Stop
          PROVE  caller[queue'[h][k]] = "queued" /\ target[queue'[h][k]] = h
      <4>1. CASE h = g
        <5>1. queue'[g][k] = queue[g][k + 1] /\ k + 1 \in 1..Len(queue[g])
          BY <2>2, <3>1, <4>1
        <5>2. QED
          BY <1>0, <3>1, <4>1, <5>1 DEF QueueInv
      <4>2. CASE h # g
        BY <1>0, <2>2, <3>1, <4>2 DEF QueueInv
      <4>3. QED
        BY <4>1, <4>2
    <3>2. ASSUME NEW h \in Generation, NEW k \in 1..Len(queue'[h]), NEW l \in 1..Len(queue'[h]),
                 queue'[h][k] = queue'[h][l], k # l
          PROVE  queue'[h][k] = Stop
      <4>1. CASE h = g
        <5>1. /\ queue'[g][k] = queue[g][k + 1] /\ k + 1 \in 1..Len(queue[g])
              /\ queue'[g][l] = queue[g][l + 1] /\ l + 1 \in 1..Len(queue[g])
              /\ k + 1 # l + 1
          BY <2>2, <3>2, <4>1
        <5>2. queue[g][k + 1] = queue[g][l + 1]
          BY <3>2, <4>1, <5>1
        <5>3. queue[g][k + 1] = Stop
          BY <1>0, <5>1, <5>2 DEF QueueInv
        <5>4. QED
          BY <4>1, <5>1, <5>3
      <4>2. CASE h # g
        BY <1>0, <2>2, <3>2, <4>2 DEF QueueInv
      <4>3. QED
        BY <4>1, <4>2
    <3>3. ASSUME NEW j \in Item, caller[j] = "queued"
          PROVE  \E k \in 1..Len(queue'[target[j]]) : queue'[target[j]][k] = j
      <4>1. PICK k \in 1..Len(queue[target[j]]) : queue[target[j]][k] = j
        BY <1>0, <3>3 DEF QueueInv
      <4>2. target[j] \in Generation /\ j # Stop
        BY <1>0, <3>3, PoolAssumption, ItemAssumption DEF QueueInv, TypeOK, Generation
      <4>3. CASE target[j] = g
        <5>1. k # 1 /\ k - 1 \in 1..Len(queue'[g])
          BY <2>2, <2>3, <4>1, <4>2, <4>3
        <5>2. queue'[g][k - 1] = queue[g][(k - 1) + 1] /\ (k - 1) + 1 = k
          BY <2>2, <5>1
        <5>3. QED
          BY <4>1, <4>3, <5>1, <5>2
      <4>4. CASE target[j] # g
        BY <2>2, <4>1, <4>2, <4>4
      <4>5. QED
        BY <4>3, <4>4
    <3>4. UNCHANGED <<started, caller, target>>
      BY <2>1
    <3>5. QED
      BY <1>0, <3>1, <3>2, <3>3, <3>4 DEF QueueInv
  <2>5. HandInv'
    BY <1>0, <2>1 DEF HandInv, TypeOK
  <2>6. QED
    BY <2>4, <2>5
<1>2. CASE GetItem(t)
  <2> DEFINE x == Head(queue[g])
  <2>1. /\ queue[g] # <<>> /\ x # Stop /\ queue' = [queue EXCEPT ![g] = Tail(@)]
        /\ thread[t] = "waiting" /\ thread' = [thread EXCEPT ![t] = "handling"]
        /\ hand' = [hand EXCEPT ![t] = x] /\ caller' = [caller EXCEPT ![x] = "running"]
        /\ UNCHANGED <<started, target>>
    BY <1>2 DEF GetItem, lifecycle, g
  <2>2. /\ \A h \in Generation : h # g => queue'[h] = queue[h]
        /\ Len(queue[g]) \in Nat \ {0} /\ Len(queue'[g]) = Len(queue[g]) - 1
        /\ \A k \in 1..Len(queue'[g]) :
              queue'[g][k] = queue[g][k + 1] /\ k + 1 \in 2..Len(queue[g])
    BY <1>0, <2>1, QueueTail
  <2>3. /\ queue[g][1] = x /\ x \in Item /\ 1 \in 1..Len(queue[g])
        /\ caller[x] = "queued" /\ target[x] = g
    <3>1. queue[g][1] = x /\ x \in Item /\ 1 \in 1..Len(queue[g])
      BY <1>0, <2>1, HeadFacts DEF g, Entry
    <3>2. QED
      BY <1>0, <2>1, <3>1 DEF QueueInv
  <2> HIDE DEF x
  <2>4. /\ caller'[x] = "running" /\ \A j \in Item \ {x} : caller'[j] = caller[j]
        /\ hand'[t] = x /\ \A u \in Thread \ {t} : hand'[u] = hand[u]
        /\ thread'[t] = "handling" /\ \A u \in Thread \ {t} : thread'[u] = thread[u]
    BY <1>0, <2>1, <2>3 DEF TypeOK
  <2>5. QueueInv'
    <3>1. ASSUME NEW h \in Generation, NEW k \in 1..Len(queue'[h]), queue'[h][k] # Stop
          PROVE  /\ queue'[h][k] \in Item \ {x}
                 /\ caller[queue'[h][k]] = "queued" /\ target[queue'[h][k]] = h
      <4>1. CASE h = g
        <5>1. queue'[g][k] = queue[g][k + 1] /\ k + 1 \in 1..Len(queue[g]) /\ k + 1 # 1
          BY <2>2, <3>1, <4>1
        <5>2. queue[g][k + 1] # x
          BY <1>0, <2>1, <2>3, <5>1 DEF QueueInv
        <5>3. QED
          BY <1>0, <1>a, <3>1, <4>1, <5>1, <5>2 DEF QueueInv, Entry
      <4>2. CASE h # g
        BY <1>0, <1>a, <2>2, <2>3, <3>1, <4>2 DEF QueueInv, Entry
      <4>3. QED
        BY <4>1, <4>2
    <3>2. ASSUME NEW h \in Generation, NEW k \in 1..Len(queue'[h]), NEW l \in 1..Len(queue'[h]),
                 queue'[h][k] = queue'[h][l], k # l
          PROVE  queue'[h][k] = Stop
      <4>1. CASE h = g
        <5>1. /\ queue'[g][k] = queue[g][k + 1] /\ k + 1 \in 1..Len(queue[g])
              /\ queue'[g][l] = queue[g][l + 1] /\ l + 1 \in 1..Len(queue[g])
              /\ k + 1 # l + 1
          BY <2>2, <3>2, <4>1
        <5>2. queue[g][k + 1] = queue[g][l + 1]
          BY <3>2, <4>1, <5>1
        <5>3. queue[g][k + 1] = Stop
          BY <1>0, <5>1, <5>2 DEF QueueInv
        <5>4. QED
          BY <4>1, <5>1, <5>3
      <4>2. CASE h # g
        BY <1>0, <2>2, <3>2, <4>2 DEF QueueInv
      <4>3. QED
        BY <4>1, <4>2
    <3>3. ASSUME NEW j \in Item, caller'[j] = "queued"
          PROVE  \E k \in 1..Len(queue'[target[j]]) : queue'[target[j]][k] = j
      <4>0. j # x /\ caller[j] = "queued"
        BY <2>4, <3>3
      <4>1. PICK k \in 1..Len(queue[target[j]]) : queue[target[j]][k] = j
        BY <1>0, <4>0 DEF QueueInv
      <4>2. target[j] \in Generation
        BY <1>0, <4>0, PoolAssumption DEF QueueInv, TypeOK, Generation
      <4>3. CASE target[j] = g
        <5>1. k # 1 /\ k - 1 \in 1..Len(queue'[g])
          BY <2>2, <2>3, <4>0, <4>1, <4>3
        <5>2. queue'[g][k - 1] = queue[g][(k - 1) + 1] /\ (k - 1) + 1 = k
          BY <2>2, <5>1
        <5>3. QED
          BY <4>1, <4>3, <5>1, <5>2
      <4>4. CASE target[j] # g
        BY <2>2, <4>1, <4>2, <4>4
      <4>5. QED
        BY <4>3, <4>4
    <3>4. \A j \in Item : caller'[j] \in {"putting", "queued", "running", "finished"} =>
                             target[j] \in 1..started
      BY <1>0, <2>3, <2>4 DEF QueueInv
    <3>5. UNCHANGED <<started, target>>
      BY <2>1
    <3>6. QED
      BY <2>4, <3>1, <3>2, <3>3, <3>4, <3>5 DEF QueueInv
  <2>6. HandInv'
    <3>1. \A u \in Thread : hand[u] # x
      BY <1>0, <2>3, ItemAssumption DEF HandInv, TypeOK
    <3>2. \A u \in Thread : hand[u] \in Item \cup {NoItem} /\ x # NoItem
      BY <1>0, <2>3, ItemAssumption DEF TypeOK
    <3>3. hand[t] = NoItem
      BY <1>0, <2>1 DEF HandInv
    <3>4. ASSUME NEW j \in Item, caller'[j] = "running"
          PROVE  \E u \in Thread : hand'[u] = j
      BY <1>0, <2>4, <3>2, <3>3, <3>4, ItemAssumption DEF HandInv
    <3>5. \A u \in Thread : thread'[u] = "handling" <=> hand'[u] # NoItem
      BY <1>0, <2>4, <3>2 DEF HandInv
    <3>6. \A u \in Thread : hand'[u] # NoItem =>
            caller'[hand'[u]] = "running" /\ target'[hand'[u]] = Gen(u)
      BY <1>0, <2>1, <2>3, <2>4, <3>1, <3>2 DEF HandInv, g
    <3>7. \A u, w \in Thread : hand'[u] = hand'[w] /\ u # w => hand'[u] = NoItem
      BY <1>0, <2>4, <3>1 DEF HandInv
    <3>8. QED
      BY <3>4, <3>5, <3>6, <3>7 DEF HandInv
  <2>7. QED
    BY <2>5, <2>6
<1>3. CASE Handled(t)
  <2> DEFINE x == hand[t]
  <2>1. /\ thread[t] = "handling" /\ x \in Item /\ x # NoItem
        /\ caller[x] = "running" /\ target[x] = g
    BY <1>0, <1>3 DEF Handled, HandInv, TypeOK, g
  <2>2. /\ caller'[x] = "finished" /\ \A j \in Item \ {x} : caller'[j] = caller[j]
        /\ hand'[t] = NoItem /\ \A u \in Thread \ {t} : hand'[u] = hand[u]
        /\ thread'[t] = "waiting" /\ \A u \in Thread \ {t} : thread'[u] = thread[u]
        /\ UNCHANGED <<started, target, queue>>
    BY <1>0, <1>3, <2>1 DEF Handled, TypeOK, lifecycle
  <2>3. \A u \in Thread \ {t} : hand[u] # x
    BY <1>0, <2>1 DEF HandInv
  <2> HIDE DEF x
  <2>4. \A h \in Generation : \A k \in 1..Len(queue[h]) :
          queue[h][k] # Stop => queue[h][k] \in Item \ {x}
    BY <1>0, <1>a, <2>1 DEF QueueInv, Entry
  <2>5. QueueInv'
    <3>1. \A j \in Item : caller'[j] = "queued" <=> caller[j] = "queued"
      BY <2>1, <2>2
    <3>2. QED
      BY <1>0, <2>1, <2>2, <2>4, <3>1 DEF QueueInv
  <2>6. HandInv'
    <3>1. \A u \in Thread \ {t} : hand[u] # NoItem => hand[u] \in Item \ {x}
      BY <1>0, <2>3 DEF TypeOK
    <3>2. ASSUME NEW j \in Item, caller'[j] = "running"
          PROVE  \E u \in Thread : hand'[u] = j
      <4>1. j # x /\ caller[j] = "running"
        BY <2>2, <3>2
      <4>2. PICK u \in Thread : hand[u] = j
        BY <1>0, <4>1 DEF HandInv
      <4>3. QED
        BY <2>2, <4>1, <4>2 DEF x
    <3>3. QED
      BY <1>0, <2>2, <3>1, <3>2 DEF HandInv
  <2>7. QED
    BY <2>5, <2>6
<1>4. QED
  BY <1>1, <1>2, <1>3 DEF ThreadStep

-----------------------------------------------------------------------------
(* Closing and the order of a queue.                                       *)

LEMMA ClosingStays ==
  ASSUME BaseInv, Next, NEW g \in Generation, g <= started, Closing(g)
  PROVE  Closing(g)'
<1> USE OwnerAssumption, PoolAssumption DEF BaseInv, Generation
<1>1. ASSUME NEW i \in Item, CallerStep(i)
      PROVE  Closing(g)'
  BY <1>1 DEF CallerStep, AskActive, ReadQueue, PutItem, lifecycle, Closing
<1>2. ASSUME NEW t \in Thread, ThreadStep(t)
      PROVE  Closing(g)'
  BY <1>2 DEF ThreadStep, GetSentinel, GetItem, Handled, lifecycle, Closing
<1>3. ASSUME NEW o \in Owner, OwnerStep(o)
      PROVE  Closing(g)'
  <2>1. CASE StartEnter(o)
    BY <2>1 DEF StartEnter, Closing, TypeOK
  <2>2. CASE SpawnThread(o)
    BY <2>2 DEF SpawnThread, Closing, LockInv
  <2>3. CASE StopEnter(o)
    BY <2>3 DEF StopEnter, Closing, LockInv
  <2>4. CASE PutSentinel(o)
    BY <2>4 DEF PutSentinel, Closing, TypeOK
  <2>5. CASE Unpublish(o)
    BY <2>5 DEF Unpublish, Closing
  <2>6. CASE Joined(o) \/ JoinTimesOut(o)
    <3>1. /\ owner[o] = "joining" /\ UNCHANGED <<published, left>>
          /\ \A p \in Owner \ {o} : owner'[p] = owner[p]
      BY <2>6 DEF Joined, JoinTimesOut, TypeOK
    <3>2. QED
      BY <3>1 DEF Closing
  <2>7. QED
    BY <1>3, <2>1, <2>2, <2>3, <2>4, <2>5, <2>6 DEF OwnerStep
<1>4. QED
  BY <1>1, <1>2, <1>3 DEF Next

(* Every entry of a queue was there before the step, or is what was put.   *)
LEMMA ClosedStep ==
  ASSUME PlaceInv, ClosedInv, Next
  PROVE  ClosedInv'
<1>0. BaseInv /\ TypeOK /\ LockInv /\ FreshInv
  BY DEF PlaceInv, BaseInv
<1>1. ASSUME NEW g \in Generation, NEW k \in 1..Len(queue[g]), queue[g][k] = Stop
      PROVE  Closing(g)'
  <2>1. queue[g] # <<>> /\ g \in Nat /\ started \in Nat
    BY <1>0, <1>1, PoolAssumption DEF Generation, TypeOK
  <2>2. g <= started
    BY <1>0, <2>1 DEF FreshInv
  <2>3. QED
    BY <1>0, <1>1, <2>2, ClosingStays DEF ClosedInv
<1>2. ASSUME NEW t \in Thread, thread[t] = "ended"
      PROVE  Closing(Gen(t))'
  <2>1. Gen(t) \in Generation /\ Gen(t) \in Nat /\ started \in Nat
    BY <1>0, ThreadFacts, PoolAssumption DEF Generation, TypeOK
  <2>2. Gen(t) <= started
    BY <1>0, <1>2, <2>1 DEF FreshInv
  <2>3. QED
    BY <1>0, <1>2, <2>1, <2>2, ClosingStays DEF ClosedInv
<1>3. ASSUME NEW o \in Owner, OwnerStep(o)
      PROVE  ClosedInv'
  <2>1. CASE PutSentinel(o)
    <3>1. published \in Generation /\ Put(published, Stop) /\ Stop \in Entry
      BY <1>0, <2>1, OwnerAssumption, PoolAssumption
         DEF PutSentinel, LockInv, TypeOK, Generation, Entry
    <3>2. Closing(published)'
      BY <1>0, <2>1, PoolAssumption DEF PutSentinel, Closing, TypeOK
    <3>3. \A g \in Generation : g # published => queue'[g] = queue[g]
      BY <1>0, <3>1, QueueAppend
    <3>4. UNCHANGED <<thread, published>>
      BY <2>1 DEF PutSentinel, threads
    <3>5. QED
      BY <1>1, <1>2, <3>2, <3>3, <3>4 DEF ClosedInv
  <2>2. CASE SpawnThread(o)
    <3>1. \A t \in Thread : thread'[t] = "ended" => thread[t] = "ended"
      BY <1>0, <2>2 DEF SpawnThread, TypeOK
    <3>2. queue' = queue
      BY <2>2 DEF SpawnThread
    <3>3. QED
      BY <1>1, <1>2, <3>1, <3>2 DEF ClosedInv
  <2>3. CASE StartEnter(o) \/ StopEnter(o) \/ Unpublish(o) \/ Joined(o) \/ JoinTimesOut(o)
    <3>1. UNCHANGED <<queue, thread>>
      BY <2>3 DEF StartEnter, StopEnter, Unpublish, Joined, JoinTimesOut, threads
    <3>2. QED
      BY <1>1, <1>2, <3>1 DEF ClosedInv
  <2>4. QED
    BY <1>3, <2>1, <2>2, <2>3 DEF OwnerStep
<1>4. ASSUME NEW i \in Item, CallerStep(i)
      PROVE  ClosedInv'
  <2>1. CASE PutItem(i)
    <3>1. target[i] \in Generation /\ Put(target[i], i) /\ i \in Entry /\ i # Stop
      BY <1>0, <2>1, PoolAssumption, ItemAssumption
         DEF PutItem, PlaceInv, QueueInv, TypeOK, Generation, Entry
    <3>2. \A g \in Generation : \A k \in 1..Len(queue'[g]) :
            queue'[g][k] = Stop => k \in 1..Len(queue[g]) /\ queue[g][k] = Stop
      BY SMTT(30), <1>0, <3>1, QueueAppend
    <3>3. thread' = thread
      BY <2>1 DEF PutItem, threads
    <3>4. QED
      BY <1>1, <1>2, <3>2, <3>3 DEF ClosedInv
  <2>2. CASE AskActive(i) \/ ReadQueue(i)
    <3>1. UNCHANGED <<queue, thread>>
      BY <2>2 DEF AskActive, ReadQueue, threads
    <3>2. QED
      BY <1>1, <1>2, <3>1 DEF ClosedInv
  <2>3. QED
    BY <1>4, <2>1, <2>2 DEF CallerStep
<1>5. ASSUME NEW t \in Thread, ThreadStep(t)
      PROVE  ClosedInv'
  <2>0. Gen(t) \in Generation
    BY ThreadFacts
  <2>1. CASE GetSentinel(t)
    <3>1. /\ queue[Gen(t)] # <<>> /\ queue' = [queue EXCEPT ![Gen(t)] = Tail(@)]
          /\ Head(queue[Gen(t)]) = Stop
          /\ \A u \in Thread \ {t} : thread'[u] = thread[u]
      BY <1>0, <2>1 DEF GetSentinel, TypeOK
    <3>2. 1 \in 1..Len(queue[Gen(t)]) /\ queue[Gen(t)][1] = Stop
      BY <1>0, <3>1, HeadFacts
    <3>3. \A g \in Generation : \A k \in 1..Len(queue'[g]) :
            \E l \in 1..Len(queue[g]) : queue'[g][k] = queue[g][l]
      BY <1>0, <2>0, <3>1, QueueTail
    <3>4. \A g \in Generation : \A k \in 1..Len(queue'[g]) : queue'[g][k] = Stop => Closing(g)'
      BY <1>1, <3>3
    <3>5. Closing(Gen(t))'
      BY <1>1, <2>0, <3>2
    <3>6. QED
      BY <1>2, <3>1, <3>4, <3>5 DEF ClosedInv
  <2>2. CASE GetItem(t)
    <3>1. /\ queue[Gen(t)] # <<>> /\ queue' = [queue EXCEPT ![Gen(t)] = Tail(@)]
          /\ \A u \in Thread : thread'[u] = "ended" => thread[u] = "ended"
      BY <1>0, <2>2 DEF GetItem, TypeOK
    <3>2. \A g \in Generation : \A k \in 1..Len(queue'[g]) :
            \E l \in 1..Len(queue[g]) : queue'[g][k] = queue[g][l]
      BY <1>0, <2>0, <3>1, QueueTail
    <3>3. \A g \in Generation : \A k \in 1..Len(queue'[g]) : queue'[g][k] = Stop => Closing(g)'
      BY <1>1, <3>2
    <3>4. QED
      BY <1>2, <3>1, <3>3 DEF ClosedInv
  <2>3. CASE Handled(t)
    <3>1. /\ queue' = queue
          /\ \A u \in Thread : thread'[u] = "ended" => thread[u] = "ended"
      BY <1>0, <2>3 DEF Handled, TypeOK
    <3>2. QED
      BY <1>1, <1>2, <3>1 DEF ClosedInv
  <2>4. QED
    BY <1>5, <2>1, <2>2, <2>3 DEF ThreadStep
<1>6. QED
  BY <1>3, <1>4, <1>5 DEF Next

LEMMA EarlyStep ==
  ASSUME PlaceInv, EarlyInv, ClosedInv, Next
  PROVE  EarlyInv'
<1>0. TypeOK /\ LockInv /\ FreshInv /\ QueueInv /\ early \subseteq Item /\ Stop \notin early
  BY ItemAssumption DEF PlaceInv, BaseInv, TypeOK
<1>1. ASSUME NEW o \in Owner, OwnerStep(o)
      PROVE  EarlyInv'
  <2>1. CASE PutSentinel(o)
    <3>1. published \in Generation /\ Put(published, Stop) /\ Stop \in Entry
      BY <1>0, <2>1, OwnerAssumption, PoolAssumption
         DEF PutSentinel, LockInv, TypeOK, Generation, Entry
    <3>2. /\ \A g \in Generation : g # published => queue'[g] = queue[g]
          /\ Len(queue[published]) \in Nat
          /\ Len(queue'[published]) = Len(queue[published]) + 1
          /\ \A k \in 1..Len(queue[published]) : queue'[published][k] = queue[published][k]
          /\ queue'[published][Len(queue[published]) + 1] = Stop
      BY <1>0, <3>1, QueueAppend
    <3>3. UNCHANGED <<thread, caller, early>>
      BY <2>1 DEF PutSentinel, threads, callers
    <3>4. \A g \in Generation : \A k \in 1..Len(queue'[g]) :
            queue'[g][k] \in early =>
              /\ k \in 1..Len(queue[g]) /\ queue'[g][k] = queue[g][k]
              /\ \A l \in 1..Len(queue'[g]) :
                   l < k => l \in 1..Len(queue[g]) /\ queue'[g][l] = queue[g][l]
      BY SMTT(30), <1>0, <3>2
    <3>5. \A t \in Thread : Gen(t) \in Generation
      BY ThreadFacts
    <3>6. QED
      BY <3>3, <3>4, <3>5 DEF EarlyInv
  <2>2. CASE SpawnThread(o)
    <3>1. \A t \in Thread : thread'[t] = "ended" => thread[t] = "ended"
      BY <1>0, <2>2 DEF SpawnThread, TypeOK
    <3>2. UNCHANGED <<queue, caller, early>>
      BY <2>2 DEF SpawnThread, callers
    <3>3. QED
      BY <3>1, <3>2 DEF EarlyInv
  <2>3. CASE StartEnter(o) \/ StopEnter(o) \/ Unpublish(o) \/ Joined(o) \/ JoinTimesOut(o)
    <3>1. UNCHANGED <<queue, thread, caller, early>>
      BY <2>3 DEF StartEnter, StopEnter, Unpublish, Joined, JoinTimesOut, threads, callers
    <3>2. QED
      BY <3>1 DEF EarlyInv
  <2>4. QED
    BY <1>1, <2>1, <2>2, <2>3 DEF OwnerStep
<1>2. ASSUME NEW i \in Item, CallerStep(i)
      PROVE  EarlyInv'
  <2>1. CASE PutItem(i)
    <3> DEFINE g == target[i]
    <3>1. /\ g \in Generation /\ Put(g, i) /\ i \in Entry /\ caller[i] = "putting"
          /\ early' = (IF Closing(g) THEN early ELSE early \cup {i})
          /\ thread' = thread /\ caller'[i] = "queued"
          /\ \A j \in Item \ {i} : caller'[j] = caller[j]
      BY <1>0, <2>1, PoolAssumption
         DEF PutItem, QueueInv, TypeOK, Generation, Entry, threads
    <3> HIDE DEF g
    <3>2. /\ \A h \in Generation : h # g => queue'[h] = queue[h]
          /\ Len(queue[g]) \in Nat /\ Len(queue'[g]) = Len(queue[g]) + 1
          /\ \A k \in 1..Len(queue[g]) : queue'[g][k] = queue[g][k]
          /\ queue'[g][Len(queue[g]) + 1] = i
      BY <1>0, <3>1, QueueAppend
    <3>3. i \notin early /\ i # Stop
      BY <3>1, ItemAssumption DEF EarlyInv
    <3>4. \A h \in Generation : \A k \in 1..Len(queue[h]) : queue[h][k] # i
      BY <1>0, <3>1, <3>3 DEF QueueInv
    <3>5. i \in early' => /\ \A k \in 1..Len(queue[g]) : queue[g][k] # Stop
                          /\ \A t \in Thread : Gen(t) = g => thread[t] # "ended"
      BY <3>1, <3>3 DEF ClosedInv
    <3>6. \A h \in Generation : \A k \in 1..Len(queue'[h]) :
            \/ k \in 1..Len(queue[h]) /\ queue'[h][k] = queue[h][k] /\ queue[h][k] # i
            \/ h = g /\ k = Len(queue[g]) + 1 /\ queue'[h][k] = i
      BY <3>2, <3>4
    <3>7. early' \subseteq early \cup {i}
      BY <3>1
    <3>8. ASSUME NEW h \in Generation, NEW k \in 1..Len(queue'[h]), NEW l \in 1..Len(queue'[h]),
                 queue'[h][l] = Stop, l < k
          PROVE  queue'[h][k] \notin early'
      <4>1. l \in 1..Len(queue[h]) /\ queue[h][l] = Stop
        BY <3>3, <3>6, <3>8
      <4>2. CASE k \in 1..Len(queue[h]) /\ queue'[h][k] = queue[h][k] /\ queue[h][k] # i
        BY <3>7, <3>8, <4>1, <4>2 DEF EarlyInv
      <4>3. CASE h = g /\ k = Len(queue[g]) + 1 /\ queue'[h][k] = i
        BY <3>5, <4>1, <4>3
      <4>4. QED
        BY <3>6, <4>2, <4>3
    <3>9. ASSUME NEW t \in Thread, thread'[t] = "ended", NEW k \in 1..Len(queue'[Gen(t)])
          PROVE  queue'[Gen(t)][k] \notin early'
      <4>1. thread[t] = "ended" /\ Gen(t) \in Generation
        BY <3>1, <3>9, ThreadFacts
      <4>2. CASE k \in 1..Len(queue[Gen(t)]) /\ queue'[Gen(t)][k] = queue[Gen(t)][k]
                 /\ queue[Gen(t)][k] # i
        BY <3>7, <4>1, <4>2 DEF EarlyInv
      <4>3. CASE Gen(t) = g /\ queue'[Gen(t)][k] = i
        BY <3>5, <4>1, <4>3
      <4>4. QED
        BY <3>6, <4>1, <4>2, <4>3
    <3>10. \A j \in early' : caller'[j] \in {"queued", "running", "finished"}
      BY <1>0, <3>1, <3>7 DEF EarlyInv
    <3>11. QED
      BY <3>8, <3>9, <3>10 DEF EarlyInv
  <2>2. CASE AskActive(i) \/ ReadQueue(i)
    <3>1. /\ UNCHANGED <<queue, thread, early>> /\ caller[i] \in {"new", "asked"}
          /\ \A j \in Item \ {i} : caller'[j] = caller[j]
      BY <1>0, <2>2 DEF AskActive, ReadQueue, threads, TypeOK
    <3>2. i \notin early
      BY <3>1 DEF EarlyInv
    <3>3. QED
      BY <1>0, <3>1, <3>2 DEF EarlyInv
  <2>3. QED
    BY <1>2, <2>1, <2>2 DEF CallerStep
<1>3. ASSUME NEW t \in Thread, ThreadStep(t)
      PROVE  EarlyInv'
  <2> DEFINE g == Gen(t)
  <2>0. g \in Generation /\ \A u \in Thread : Gen(u) \in Generation
    BY ThreadFacts
  <2> HIDE DEF g
  <2>1. CASE GetSentinel(t) \/ GetItem(t)
    <3>1. /\ queue[g] # <<>> /\ queue' = [queue EXCEPT ![g] = Tail(@)] /\ early' = early
          /\ \A u \in Thread \ {t} : thread'[u] = thread[u]
          /\ thread'[t] = "ended" => Head(queue[g]) = Stop
      BY <1>0, <2>1 DEF GetSentinel, GetItem, TypeOK, callers, g
    <3>2. /\ \A h \in Generation : h # g => queue'[h] = queue[h]
          /\ Len(queue[g]) \in Nat \ {0} /\ Len(queue'[g]) = Len(queue[g]) - 1
          /\ \A k \in 1..Len(queue'[g]) :
                queue'[g][k] = queue[g][k + 1] /\ k + 1 \in 2..Len(queue[g])
      BY <1>0, <2>0, <3>1, QueueTail
    <3>3. Head(queue[g]) = queue[g][1] /\ 1 \in 1..Len(queue[g]) /\ Head(queue[g]) \in Entry
      BY <1>0, <3>1, HeadFacts DEF g
    <3>4. \A j \in early : caller'[j] \in {"queued", "running", "finished"}
      BY <1>0, <2>1, <3>3 DEF GetSentinel, GetItem, TypeOK, callers, EarlyInv, g
    <3>5. ASSUME NEW h \in Generation, NEW k \in 1..Len(queue'[h]), NEW l \in 1..Len(queue'[h]),
                 queue'[h][l] = Stop, l < k
          PROVE  queue'[h][k] \notin early
      <4>1. CASE h = g
        <5>1. /\ k + 1 \in 1..Len(queue[g]) /\ l + 1 \in 1..Len(queue[g]) /\ l + 1 < k + 1
              /\ queue'[g][k] = queue[g][k + 1] /\ queue[g][l + 1] = Stop
          BY SMTT(30), <3>2, <3>5, <4>1
        <5>2. QED
          BY <2>0, <4>1, <5>1 DEF EarlyInv
      <4>2. CASE h # g
        BY <3>2, <3>5, <4>2 DEF EarlyInv
      <4>3. QED
        BY <4>1, <4>2
    <3>6. ASSUME NEW u \in Thread, thread'[u] = "ended", NEW k \in 1..Len(queue'[Gen(u)])
          PROVE  queue'[Gen(u)][k] \notin early
      <4>1. CASE u # t
        <5>1. thread[u] = "ended"
          BY <3>1, <3>6, <4>1
        <5>2. CASE Gen(u) = g
          <6>1. k + 1 \in 1..Len(queue[Gen(u)]) /\ queue'[Gen(u)][k] = queue[Gen(u)][k + 1]
            BY <3>2, <3>6, <5>2
          <6>2. QED
            BY <5>1, <6>1 DEF EarlyInv
        <5>3. CASE Gen(u) # g
          BY <2>0, <3>2, <3>6, <5>1, <5>3 DEF EarlyInv
        <5>4. QED
          BY <5>2, <5>3
      <4>2. CASE u = t
        <5>1. queue[g][1] = Stop /\ Gen(u) = g
          BY <3>1, <3>3, <3>6, <4>2 DEF g
        <5>2. queue'[g][k] = queue[g][k + 1] /\ k + 1 \in 1..Len(queue[g]) /\ 1 < k + 1
          BY <3>2, <3>6, <5>1
        <5>3. QED
          BY <2>0, <3>3, <5>1, <5>2 DEF EarlyInv
      <4>3. QED
        BY <4>1, <4>2
    <3>7. early' = early
      BY <3>1
    <3>8. QED
      BY <3>4, <3>5, <3>6, <3>7 DEF EarlyInv
  <2>2. CASE Handled(t)
    <3>1. /\ UNCHANGED <<queue, early>>
          /\ \A u \in Thread : thread'[u] = "ended" => thread[u] = "ended"
          /\ \A j \in Item : caller'[j] = caller[j] \/ caller'[j] = "finished"
      BY <1>0, <2>2 DEF Handled, TypeOK
    <3>2. QED
      BY <1>0, <3>1 DEF EarlyInv
  <2>3. QED
    BY <1>3, <2>1, <2>2 DEF ThreadStep
<1>4. QED
  BY <1>1, <1>2, <1>3 DEF Next

-----------------------------------------------------------------------------
(* Sentinels and threads.                                                  *)

LEMMA LivingFinite ==
  ASSUME NEW g \in Generation
  PROVE  IsFiniteSet(Living(g)) /\ Cardinality(Living(g)) \in Nat
<1>1. IsFiniteSet(Generation) /\ IsFiniteSet(1..Concurrency)
  BY PoolAssumption, FS_Interval DEF Generation
<1>2. IsFiniteSet(Thread)
  BY <1>1, FS_Product DEF Thread
<1>3. Living(g) \in SUBSET Thread
  BY DEF Living
<1>4. QED
  BY <1>2, <1>3, FS_Subset, FS_CardinalityType

LEMMA SentinelsFinite ==
  ASSUME TypeOK, NEW g \in Generation
  PROVE  /\ Sentinels(g) = Stops(queue[g])
         /\ IsFiniteSet(Sentinels(g)) /\ Cardinality(Sentinels(g)) \in Nat
<1>1. queue[g] \in Seq(Entry)
  BY DEF TypeOK, Entry
<1>2. Sentinels(g) = Stops(queue[g])
  BY <1>1 DEF Sentinels, Stops
<1>3. QED
  BY <1>1, <1>2, StopsFinite

LEMMA OwnerStepCount ==
  ASSUME PlaceInv, CountInv, NEW o \in Owner, OwnerStep(o), TypeOK'
  PROVE  CountInv'
<1>0. /\ TypeOK /\ LockInv /\ FreshInv /\ o # 0
      /\ started \in Nat /\ Concurrency \in Nat \ {0} /\ 1..started \subseteq Generation
  BY SMTT(30), OwnerAssumption, PoolAssumption DEF PlaceInv, BaseInv, TypeOK, Generation
<1>1. CASE StartEnter(o)
  <2>1. /\ lock' = o /\ owner'[o] = "starting" /\ left' = Concurrency
        /\ started' = started + 1 /\ published' = started + 1 /\ published = 0
        /\ UNCHANGED <<queue, thread>> /\ started + 1 \in Generation
    BY <1>0, <1>1, PoolAssumption DEF StartEnter, TypeOK, threads, Generation
  <2>2. \A g \in 1..started : Living(g)' = Living(g) /\ Sentinels(g)' = Sentinels(g)
    BY <2>1 DEF Living, Sentinels
  <2>3. \A g \in 1..started : Due(g) = 0 /\ Due(g)' = 0
    BY <1>0, <2>1 DEF Due
  <2>4. ASSUME NEW g \in Generation, g = started + 1
        PROVE  Living(g)' = {} /\ Sentinels(g)' = {} /\ Due(g)' = 0
    <3>1. \A t \in Thread : Gen(t) = g => thread[t] = "unborn"
      BY <1>0, <2>4 DEF FreshInv
    <3>2. queue[g] = <<>>
      BY <1>0, <2>4 DEF FreshInv
    <3>3. Due(g)' = 0
      BY <1>0, <2>1, <2>4 DEF Due
    <3>4. Living(g)' = {}
      BY <2>1, <3>1 DEF Living
    <3>5. Sentinels(g)' = {}
      BY <2>1, <3>2 DEF Sentinels
    <3>6. QED
      BY <3>3, <3>4, <3>5
  <2>5. ASSUME NEW g \in 1..started'
        PROVE  Cardinality(Living(g)') = Cardinality(Sentinels(g)') + Due(g)'
    <3>1. CASE g \in 1..started
      BY <2>2, <2>3, <3>1 DEF CountInv
    <3>2. CASE g = started + 1
      <4>1. Living(g)' = {} /\ Sentinels(g)' = {} /\ Due(g)' = 0
        BY <2>1, <2>4, <3>2
      <4>2. Cardinality(Living(g)') = 0 /\ Cardinality(Sentinels(g)') = 0
        BY <4>1, FS_EmptySet
      <4>3. QED
        BY <4>1, <4>2
    <3>3. QED
      BY <1>0, <2>1, <3>1, <3>2
  <2>6. QED
    BY <2>5 DEF CountInv
<1>2. CASE SpawnThread(o)
  <2> DEFINE b == <<published, left>>
  <2>1. /\ lock = o /\ owner[o] = "starting" /\ left \in 1..Concurrency /\ published \in 1..started
        /\ b \in Thread /\ Gen(b) = published /\ thread[b] = "unborn"
    <3>1. lock = o /\ owner[o] = "starting" /\ left \in 1..Concurrency /\ published # 0
      BY <1>0, <1>2 DEF SpawnThread, LockInv
    <3>2. published \in 1..started /\ published \in Generation /\ left \in 1..left
      BY <1>0, <3>1, PoolAssumption DEF TypeOK, LockInv, Generation
    <3>3. QED
      BY <1>0, <3>1, <3>2, ThreadFacts DEF FreshInv
  <2>2. /\ UNCHANGED <<published, started, queue>> /\ left' = left - 1
        /\ thread' = [thread EXCEPT ![b] = "waiting"]
        /\ left = 1 => lock' = 0
        /\ left # 1 => lock' = lock /\ owner' = owner
    BY <1>2 DEF SpawnThread
  <2>3. thread'[b] = "waiting" /\ \A t \in Thread \ {b} : thread'[t] = thread[t]
    BY <1>0, <2>1, <2>2 DEF TypeOK
  <2> HIDE DEF b
  <2>4. \A g \in 1..started : g = published =>
          Living(g)' = Living(g) \cup {b} /\ b \notin Living(g)
    BY <2>1, <2>2, <2>3 DEF Living
  <2>5. \A g \in 1..started : g # published => Living(g)' = Living(g)
    BY <2>1, <2>3 DEF Living
  <2>6. ASSUME NEW g \in 1..started, g = published
        PROVE  Due(g) = Concurrency - left /\ Due(g)' = (Concurrency - left) + 1
    <3>1. Due(g) = Concurrency - left
      BY <1>0, <2>1, <2>6 DEF Due
    <3>2. CASE left = 1
      BY <1>0, <2>2, <2>6, <3>1, <3>2 DEF Due
    <3>3. CASE left # 1
      BY <1>0, <2>1, <2>2, <2>6, <3>1, <3>3 DEF Due
    <3>4. QED
      BY <3>1, <3>2, <3>3
  <2>7. \A g \in 1..started : g # published => Due(g) = 0 /\ Due(g)' = 0
    BY <2>2 DEF Due
  <2>8. \A g \in 1..started : Sentinels(g)' = Sentinels(g)
    BY <2>2 DEF Sentinels
  <2>9. ASSUME NEW g \in 1..started'
        PROVE  Cardinality(Living(g)') = Cardinality(Sentinels(g)') + Due(g)'
    <3>1. g \in 1..started /\ g \in Generation
      BY <1>0, <2>2
    <3>2. CASE g = published
      <4>1. Cardinality(Living(g)') = Cardinality(Living(g)) + 1
        <5>1. IsFiniteSet(Living(g)) /\ Living(g)' = Living(g) \cup {b} /\ b \notin Living(g)
          BY <2>4, <3>1, <3>2, LivingFinite
        <5>2. QED
          BY <5>1, FS_AddElement
      <4>2. Due(g) = Concurrency - left /\ Due(g)' = (Concurrency - left) + 1
        BY <2>6, <3>1, <3>2
      <4>3. Cardinality(Sentinels(g)) \in Nat
        BY <1>0, <3>1, SentinelsFinite
      <4>4. QED
        BY <1>0, <2>1, <2>8, <3>1, <4>1, <4>2, <4>3 DEF CountInv
    <3>3. CASE g # published
      BY <2>5, <2>7, <2>8, <3>1, <3>3 DEF CountInv
    <3>4. QED
      BY <3>2, <3>3
  <2>10. QED
    BY <2>9 DEF CountInv
<1>3. CASE PutSentinel(o)
  <2>1. /\ lock = o /\ owner[o] = "stopping" /\ left \in 1..Concurrency
        /\ published \in 1..started /\ published \in Generation
        /\ Put(published, Stop) /\ Stop \in Entry /\ left' = left - 1
        /\ UNCHANGED <<published, started, lock, owner, thread>>
    BY <1>0, <1>3, PoolAssumption
       DEF PutSentinel, LockInv, TypeOK, threads, Entry, Generation
  <2>2. /\ queue[published] \in Seq(Entry) /\ queue'[published] = Append(queue[published], Stop)
        /\ \A g \in Generation : g # published => queue'[g] = queue[g]
    BY <1>0, <2>1, QueueAppend
  <2>3. Due(published) = left /\ Due(published)' = left - 1
    BY <1>0, <2>1 DEF Due
  <2>4. \A g \in 1..started : g # published => Due(g) = 0 /\ Due(g)' = 0
    BY <2>1 DEF Due
  <2>5. \A g \in 1..started : Living(g)' = Living(g)
    BY <2>1 DEF Living
  <2>6. Cardinality(Sentinels(published)') = Cardinality(Sentinels(published)) + 1
    <3>1. Sentinels(published) = Stops(queue[published])
      BY <1>0, <2>1, SentinelsFinite
    <3>2. Sentinels(published)' = Stops(Append(queue[published], Stop))
      BY <2>1, <2>2 DEF Sentinels, Stops
    <3>3. QED
      BY <2>1, <2>2, <3>1, <3>2, StopsAppend
  <2>7. ASSUME NEW g \in 1..started'
        PROVE  Cardinality(Living(g)') = Cardinality(Sentinels(g)') + Due(g)'
    <3>1. g \in 1..started /\ g \in Generation
      BY <1>0, <2>1
    <3>2. CASE g = published
      <4>1. Cardinality(Sentinels(g)) \in Nat
        BY <1>0, <3>1, SentinelsFinite
      <4>2. QED
        BY <2>1, <2>3, <2>5, <2>6, <3>1, <3>2, <4>1 DEF CountInv
    <3>3. CASE g # published
      <4>1. Sentinels(g)' = Sentinels(g)
        BY <2>2, <3>1, <3>3 DEF Sentinels
      <4>2. QED
        BY <2>4, <2>5, <3>1, <3>3, <4>1 DEF CountInv
    <3>4. QED
      BY <3>2, <3>3
  <2>8. QED
    BY <2>7 DEF CountInv
<1>4. CASE StopEnter(o) \/ Unpublish(o) \/ Joined(o) \/ JoinTimesOut(o)
  <2>1. UNCHANGED <<started, queue, thread>>
    BY <1>4 DEF StopEnter, Unpublish, Joined, JoinTimesOut, threads
  <2>2. \A g \in 1..started : Living(g)' = Living(g) /\ Sentinels(g)' = Sentinels(g)
    BY <2>1 DEF Living, Sentinels
  <2>3. ASSUME NEW g \in 1..started
        PROVE  Due(g)' = Due(g)
    <3>1. CASE StopEnter(o)
      BY <1>0, <3>1 DEF StopEnter, Due, TypeOK
    <3>2. CASE Unpublish(o)
      BY <1>0, <3>2 DEF Unpublish, Due, LockInv
    <3>3. CASE Joined(o) \/ JoinTimesOut(o)
      <4>1. /\ owner[o] = "joining" /\ UNCHANGED <<published, lock, left>>
            /\ \A p \in Owner \ {o} : owner'[p] = owner[p]
        BY <1>0, <3>3 DEF Joined, JoinTimesOut, TypeOK
      <4>2. lock # o
        BY <1>0, <4>1 DEF LockInv
      <4>3. lock # 0 => lock \in Owner \ {o}
        BY <1>0, <4>2 DEF TypeOK
      <4>4. QED
        BY <4>1, <4>3 DEF Due
    <3>4. QED
      BY <1>4, <3>1, <3>2, <3>3
  <2>4. QED
    BY <2>1, <2>2, <2>3 DEF CountInv
<1>5. QED
  BY <1>1, <1>2, <1>3, <1>4 DEF OwnerStep

LEMMA CallerStepCount ==
  ASSUME PlaceInv, CountInv, NEW i \in Item, CallerStep(i)
  PROVE  CountInv'
<1>0. TypeOK /\ QueueInv /\ 1..started \subseteq Generation
  BY PoolAssumption DEF PlaceInv, BaseInv, TypeOK, Generation
<1>1. UNCHANGED <<published, started, lock, owner, left, thread>>
  BY DEF CallerStep, AskActive, ReadQueue, PutItem, lifecycle, threads
<1>2. \A g \in 1..started : Living(g)' = Living(g) /\ Due(g)' = Due(g)
  BY <1>1 DEF Living, Due
<1>3. ASSUME NEW g \in 1..started
      PROVE  Cardinality(Sentinels(g)') = Cardinality(Sentinels(g))
  <2>1. CASE PutItem(i)
    <3>1. target[i] \in Generation /\ Put(target[i], i) /\ i \in Entry /\ i # Stop
      BY <1>0, <2>1, PoolAssumption, ItemAssumption
         DEF PutItem, QueueInv, TypeOK, Generation, Entry
    <3>2. CASE g = target[i]
      <4>1. /\ queue[g] \in Seq(Entry) /\ queue'[g] = Append(queue[g], i)
            /\ Sentinels(g) = Stops(queue[g]) /\ Cardinality(Sentinels(g)) \in Nat
        BY <1>0, <3>1, <3>2, QueueAppend, SentinelsFinite
      <4>2. Sentinels(g)' = Stops(Append(queue[g], i))
        BY <4>1 DEF Sentinels, Stops
      <4>3. QED
        BY <3>1, <4>1, <4>2, StopsAppend
    <3>3. CASE g # target[i]
      <4>1. queue'[g] = queue[g]
        BY <1>0, <3>1, <3>3, QueueAppend
      <4>2. QED
        BY <4>1 DEF Sentinels
    <3>4. QED
      BY <3>2, <3>3
  <2>2. CASE AskActive(i) \/ ReadQueue(i)
    BY <2>2 DEF AskActive, ReadQueue, Sentinels
  <2>3. QED
    BY <2>1, <2>2 DEF CallerStep
<1>4. QED
  BY <1>1, <1>2, <1>3 DEF CountInv

(* A thread takes its sentinel and ends: both numbers fall by one.         *)
LEMMA ThreadStepCount ==
  ASSUME PlaceInv, CountInv, NEW t \in Thread, ThreadStep(t)
  PROVE  CountInv'
<1>0. /\ TypeOK /\ 1..started \subseteq Generation /\ Gen(t) \in Generation
      /\ Concurrency \in Nat
  BY PoolAssumption, ThreadFacts DEF PlaceInv, BaseInv, TypeOK, Generation
<1>1. UNCHANGED <<published, started, lock, owner, left>>
  BY DEF ThreadStep, GetSentinel, GetItem, Handled, lifecycle
<1>2. \A g \in 1..started : Due(g)' = Due(g)
  BY <1>1 DEF Due
<1>3. ASSUME NEW g \in 1..started, g # Gen(t)
      PROVE  Living(g)' = Living(g) /\ Sentinels(g)' = Sentinels(g)
  <2>1. queue'[g] = queue[g] /\ \A u \in Thread \ {t} : thread'[u] = thread[u]
    <3>1. CASE GetSentinel(t)
      BY <1>0, <1>3, <3>1 DEF GetSentinel, TypeOK
    <3>2. CASE GetItem(t)
      BY <1>0, <1>3, <3>2 DEF GetItem, TypeOK
    <3>3. CASE Handled(t)
      BY <1>0, <1>3, <3>3 DEF Handled, TypeOK
    <3>4. QED
      BY <3>1, <3>2, <3>3 DEF ThreadStep
  <2>2. QED
    BY <1>3, <2>1 DEF Living, Sentinels
<1>4. ASSUME NEW g \in 1..started, g = Gen(t)
      PROVE  Cardinality(Living(g)') = Cardinality(Sentinels(g)') + Due(g)
  <2>0. /\ Cardinality(Living(g)) = Cardinality(Sentinels(g)) + Due(g)
        /\ IsFiniteSet(Living(g)) /\ Cardinality(Living(g)) \in Nat
        /\ Sentinels(g) = Stops(queue[g]) /\ Cardinality(Sentinels(g)) \in Nat
        /\ queue[g] \in Seq(Entry) /\ g \in Generation
    BY <1>0, LivingFinite, SentinelsFinite DEF CountInv, TypeOK, Entry
  <2>1. CASE GetSentinel(t)
    <3>1. /\ queue[g] # <<>> /\ queue' = [queue EXCEPT ![g] = Tail(@)] /\ Head(queue[g]) = Stop
          /\ thread[t] = "waiting" /\ thread'[t] = "ended"
          /\ \A u \in Thread \ {t} : thread'[u] = thread[u]
      BY <1>0, <1>4, <2>1 DEF GetSentinel, TypeOK
    <3>2. queue'[g] = Tail(queue[g]) /\ Tail(queue[g]) \in Seq(Entry)
      BY <1>0, <2>0, <3>1, QueueTail, TailFacts
    <3>3. Sentinels(g)' = Stops(Tail(queue[g]))
      BY <3>2 DEF Sentinels, Stops
    <3>4. Cardinality(Sentinels(g)') = Cardinality(Sentinels(g)) - 1
      BY <2>0, <3>1, <3>3, StopsTail
    <3>5. Living(g)' = Living(g) \ {t} /\ t \in Living(g)
      BY <1>4, <3>1 DEF Living
    <3>6. Cardinality(Living(g)') = Cardinality(Living(g)) - 1
      BY <2>0, <3>5, FS_RemoveElement
    <3>7. Due(g) \in Int
      BY <1>0 DEF Due, TypeOK
    <3>8. QED
      BY <2>0, <3>4, <3>6, <3>7
  <2>2. CASE GetItem(t)
    <3>1. /\ queue[g] # <<>> /\ queue' = [queue EXCEPT ![g] = Tail(@)] /\ Head(queue[g]) # Stop
          /\ thread[t] = "waiting" /\ thread'[t] = "handling"
          /\ \A u \in Thread \ {t} : thread'[u] = thread[u]
      BY <1>0, <1>4, <2>2 DEF GetItem, TypeOK
    <3>2. queue'[g] = Tail(queue[g]) /\ Tail(queue[g]) \in Seq(Entry)
      BY <1>0, <2>0, <3>1, QueueTail, TailFacts
    <3>3. Sentinels(g)' = Stops(Tail(queue[g]))
      BY <3>2 DEF Sentinels, Stops
    <3>4. Cardinality(Sentinels(g)') = Cardinality(Sentinels(g))
      BY <2>0, <3>1, <3>3, StopsTail
    <3>5. Living(g)' = Living(g)
      BY <3>1 DEF Living
    <3>6. QED
      BY <2>0, <3>4, <3>5
  <2>3. CASE Handled(t)
    <3>1. /\ queue' = queue /\ thread[t] = "handling" /\ thread'[t] = "waiting"
          /\ \A u \in Thread \ {t} : thread'[u] = thread[u]
      BY <1>0, <2>3 DEF Handled, TypeOK
    <3>2. Living(g)' = Living(g) /\ Sentinels(g)' = Sentinels(g)
      BY <3>1 DEF Living, Sentinels
    <3>3. QED
      BY <2>0, <3>2
  <2>4. QED
    BY <2>1, <2>2, <2>3 DEF ThreadStep
<1>5. QED
  BY <1>1, <1>2, <1>3, <1>4 DEF CountInv

-----------------------------------------------------------------------------
LEMMA InitPool == Init => PoolInv
<1> SUFFICES ASSUME Init PROVE PoolInv
  OBVIOUS
<1> USE PoolAssumption, OwnerAssumption, ItemAssumption DEF Init
<1>1. TypeOK
  BY DEF TypeOK
<1>2. LockInv /\ FreshInv
  BY DEF LockInv, FreshInv
<1>3. QueueInv
  BY PoolAssumption DEF QueueInv, Generation
<1>4. HandInv
  BY DEF HandInv
<1>5. EarlyInv
  BY ThreadFacts DEF EarlyInv
<1>6. ClosedInv
  BY DEF ClosedInv
<1>7. CountInv
  BY DEF CountInv
<1>8. QED
  BY <1>1, <1>2, <1>3, <1>4, <1>5, <1>6, <1>7 DEF PoolInv, PlaceInv, BaseInv

LEMMA StepPool == PoolInv /\ [Next]_vars => PoolInv'
<1> SUFFICES ASSUME PoolInv, [Next]_vars PROVE PoolInv'
  OBVIOUS
<1>1. CASE Next
  <2>0. PlaceInv /\ BaseInv /\ QueueInv /\ HandInv /\ EarlyInv /\ ClosedInv /\ CountInv
    BY DEF PoolInv, PlaceInv
  <2>1. BaseInv'
    BY <1>1, <2>0, OwnerStepBase, CallerStepBase, ThreadStepBase DEF Next
  <2>2. QueueInv' /\ HandInv'
    BY <1>1, <2>0, OwnerStepPlace, CallerStepPlace, ThreadStepPlace DEF Next
  <2>3. EarlyInv' /\ ClosedInv'
    BY <1>1, <2>0, EarlyStep, ClosedStep
  <2>4. TypeOK'
    BY <2>1 DEF BaseInv
  <2>5. CountInv'
    BY <1>1, <2>0, <2>4, OwnerStepCount, CallerStepCount, ThreadStepCount DEF Next
  <2>6. QED
    BY <2>1, <2>2, <2>3, <2>5 DEF PoolInv, PlaceInv
<1>2. CASE UNCHANGED vars
  <2> USE <1>2 DEF PoolInv, PlaceInv, BaseInv, vars, lifecycle, threads, callers
  <2>1. TypeOK' /\ LockInv' /\ FreshInv'
    BY DEF TypeOK, LockInv, FreshInv
  <2>2. QueueInv' /\ HandInv' /\ EarlyInv'
    BY DEF QueueInv, HandInv, EarlyInv
  <2>3. ClosedInv'
    BY DEF ClosedInv, Closing
  <2>4. CountInv'
    BY DEF CountInv, Living, Sentinels, Due
  <2>5. QED
    BY <2>1, <2>2, <2>3, <2>4
<1>3. QED
  BY <1>1, <1>2

LEMMA InvPool == Spec => []PoolInv
BY InitPool, StepPool, PTL DEF Spec

(* Every reachable state of the pool is well typed.                        *)
THEOREM TypeCorrect == Spec => []TypeOK
<1>1. PoolInv => TypeOK
  BY DEF PoolInv, PlaceInv, BaseInv
<1>2. QED
  BY <1>1, InvPool, PTL

(* stop() leaves as many sentinels as threads (task_queues.py, stop and    *)
(* _loop), for any number of threads, restarts and racing enqueue() calls. *)
THEOREM OneSentinelPerThread == Spec => []SentinelPerThread
<1>1. PoolInv => SentinelPerThread
  <2> SUFFICES ASSUME PoolInv, NEW g \in 1..started, g # published
               PROVE  Cardinality(Sentinels(g)) = Cardinality(Living(g))
    BY DEF SentinelPerThread
  <2>1. g \in Generation /\ TypeOK /\ CountInv
    BY PoolAssumption DEF PoolInv, PlaceInv, BaseInv, TypeOK, Generation
  <2>2. Due(g) = 0 /\ Cardinality(Sentinels(g)) \in Nat
    BY <2>1, SentinelsFinite DEF Due
  <2>3. QED
    BY <2>1, <2>2 DEF CountInv
<1>2. QED
  BY <1>1, InvPool, PTL

(* The last thread of a generation leaves nothing early behind.            *)
LEMMA NoneEarlyIsLost == PoolInv => NothingEarlyIsLost
<1> SUFFICES ASSUME PoolInv, NEW g \in 1..started,
                    \A t \in Thread : Gen(t) = g => thread[t] = "ended",
                    NEW i \in early, target[i] = g
             PROVE  caller[i] = "finished"
  BY DEF NothingEarlyIsLost
<1>1. TypeOK /\ QueueInv /\ HandInv /\ EarlyInv /\ i \in Item /\ g \in Generation
  BY PoolAssumption DEF PoolInv, PlaceInv, BaseInv, TypeOK, Generation
<1>2. PICK t \in Thread : Gen(t) = g /\ thread[t] = "ended"
  <2>1. <<g, 1>> \in Thread /\ Gen(<<g, 1>>) = g
    BY <1>1, ThreadFacts
  <2>2. QED
    BY <2>1
<1>3. caller[i] # "queued"
  BY <1>1, <1>2 DEF QueueInv, EarlyInv
<1>4. caller[i] # "running"
  <2> SUFFICES ASSUME caller[i] = "running" PROVE FALSE
    OBVIOUS
  <2>1. PICK u \in Thread : hand[u] = i
    BY <1>1 DEF HandInv
  <2>2. thread[u] = "handling" /\ Gen(u) = g
    BY <1>1, <2>1, ItemAssumption DEF HandInv
  <2>3. QED
    BY <2>2
<1>5. QED
  BY <1>1, <1>3, <1>4 DEF EarlyInv

(* When the threads of a stopped pool have ended, the items put before     *)
(* stop() put its first sentinel have been handled: nothing that           *)
(* enqueue() accepted in time is lost by stop(join=True).                  *)
THEOREM EarlyItemsAreHandled == Spec => []NothingEarlyIsLost
BY NoneEarlyIsLost, InvPool, PTL

(* _loop works on the queue it was started with: no thread of an old       *)
(* generation takes an item put into a new one.                            *)
THEOREM OwnQueueOnly == Spec => []ThreadsKeepToTheirQueue
<1>1. PoolInv => ThreadsKeepToTheirQueue
  BY DEF PoolInv, PlaceInv, HandInv, ThreadsKeepToTheirQueue
<1>2. QED
  BY <1>1, InvPool, PTL

-----------------------------------------------------------------------------
(* The pool implements the Executor: the contract of a submitter.          *)

(* The pool that takes jobs for sure, by what the lock's holder is at.     *)
OpenFacts ==
  /\ OpenPool \in 0..started
  /\ \A g \in 1..started : g = OpenPool <=> ~Closing(g)
  /\ lock = 0 => OpenPool = published
  /\ \A o \in Owner : owner[o] = "starting" => OpenPool = published
  /\ \A o \in Owner : owner[o] = "stopping" =>
       OpenPool = IF left < Concurrency THEN 0 ELSE published

LEMMA OpenIs == TypeOK /\ LockInv => OpenFacts
<1> SUFFICES ASSUME TypeOK, LockInv PROVE OpenFacts
  OBVIOUS
<1>1. started \in Nat /\ published \in 0..started /\ lock \in Owner \cup {0} /\ 0 \notin Owner
  BY PoolAssumption, OwnerAssumption DEF TypeOK, LockInv
<1>2. OpenPool \in 0..started
  BY <1>1 DEF OpenPool
<1>3. \A g \in 1..started : g = OpenPool <=> ~Closing(g)
  BY <1>1 DEF OpenPool, Closing
<1>4. lock = 0 => ~\E o \in Owner : owner[o] = "stopping" /\ left < Concurrency
  BY <1>1 DEF LockInv
<1>5. lock = 0 => OpenPool = published
  BY <1>1, <1>4 DEF OpenPool, Closing
<1>6. ASSUME NEW o \in Owner, owner[o] = "starting"
      PROVE  OpenPool = published
  <2>1. ~\E u \in Owner : owner[u] = "stopping" /\ left < Concurrency
    BY <1>6, <1>1 DEF LockInv
  <2>2. QED
    BY <1>1, <2>1 DEF OpenPool, Closing
<1>7. ASSUME NEW o \in Owner, owner[o] = "stopping"
      PROVE  OpenPool = IF left < Concurrency THEN 0 ELSE published
  BY <1>1, <1>7 DEF OpenPool, Closing, LockInv
<1>8. QED
  BY <1>2, <1>3, <1>5, <1>6, <1>7 DEF OpenFacts

LEMMA OpenNext == TypeOK' /\ LockInv' => OpenFacts'
BY OpenIs, PTL

(* What a submitter's place says.                                          *)
LEMMA PhaseIs ==
  /\ PhaseOf("new") = "new" /\ PhaseOf("asked") = "new" /\ PhaseOf("putting") = "new"
  /\ PhaseOf("refused") = "declined" /\ PhaseOf("fallback") = "declined"
  /\ PhaseOf("queued") = "waiting"
  /\ PhaseOf("running") = "running" /\ PhaseOf("finished") = "finished"
BY DEF PhaseOf

(* One submitter moves: its job does.                                      *)
LEMMA OneMoves ==
  ASSUME NEW i \in Item, \A j \in Item : j # i => caller'[j] = caller[j]
  PROVE  /\ Phase' = [Phase EXCEPT ![i] = PhaseOf(caller'[i])]
         /\ Phase[i] = PhaseOf(caller[i])
BY DEF Phase

(* start(), stop() and the join.                                           *)
LEMMA OwnerRefines ==
  ASSUME PoolInv, PoolInv', NEW o \in Owner, OwnerStep(o)
  PROVE  [E!Next]_E!vars
<1>1. /\ TypeOK /\ LockInv /\ FreshInv /\ TypeOK' /\ LockInv'
      /\ OpenFacts /\ OpenFacts'
  BY OpenIs, OpenNext DEF PoolInv, PlaceInv, BaseInv
<1>2. UNCHANGED <<Phase, PoolOf, early>>
  BY DEF OwnerStep, StartEnter, SpawnThread, StopEnter, PutSentinel, Unpublish, Joined,
         JoinTimesOut, callers, Phase, PoolOf
<1>3. /\ started \in Nat /\ published \in 0..started /\ 0 \notin Owner
      /\ left \in 0..Concurrency /\ Concurrency \in Nat \ {0}
  BY <1>1, PoolAssumption, OwnerAssumption DEF TypeOK, LockInv
<1>4. CASE StartEnter(o)
  <2>1. /\ published = 0 /\ lock = 0 /\ started < MaxStarts
        /\ started' = started + 1 /\ published' = started + 1
        /\ owner'[o] = "starting" /\ thread' = thread
    BY <1>1, <1>4 DEF StartEnter, threads, TypeOK
  <2>2. OpenPool = 0 /\ OpenPool' = started + 1
    BY <1>1, <2>1 DEF OpenFacts
  <2>3. ~\A t \in Thread : Gen(t) = started + 1 => thread[t] = "ended"
    <3>1. started + 1 \in Generation
      BY <1>3, <2>1, PoolAssumption DEF Generation
    <3>2. <<started + 1, 1>> \in Thread /\ Gen(<<started + 1, 1>>) = started + 1
      BY <1>3, <3>1, ThreadFacts
    <3>3. thread[<<started + 1, 1>>] = "unborn"
      BY <1>1, <1>3, <3>2 DEF FreshInv
    <3>4. QED
      BY <3>2, <3>3
  <2>4. Retired' = Retired
    BY <1>3, <2>1, <2>3 DEF Retired
  <2>5. E!Open
    BY <1>2, <2>1, <2>2, <2>4 DEF E!Open
  <2>6. QED
    BY <2>5 DEF E!Next
<1>5. CASE SpawnThread(o)
  <2>1. /\ owner[o] = "starting" /\ lock = o /\ published # 0
        /\ UNCHANGED <<published, started>>
    BY <1>1, <1>3, <1>5 DEF SpawnThread, LockInv
  <2>0. owner'[o] = "starting" \/ lock' = 0
    BY <1>1, <1>5 DEF SpawnThread, TypeOK
  <2>2. OpenPool' = OpenPool
    BY <1>1, <2>0, <2>1 DEF OpenFacts
  <2>3. Retired' = Retired
    <3> DEFINE t == <<published, left>>
    <3>1. left \in 1..Concurrency /\ published \in Generation
      BY <1>1, <1>3, <2>1 DEF LockInv, TypeOK, Generation
    <3>2. t \in Thread /\ Gen(t) = published
      BY <3>1, ThreadFacts
    <3>3. thread[t] = "unborn" /\ thread'[t] = "waiting"
      BY <1>1, <1>3, <1>5, <2>1, <3>1, <3>2 DEF SpawnThread, FreshInv, TypeOK
    <3>4. \A u \in Thread : u # t => thread'[u] = thread[u]
      BY <1>1, <1>5 DEF SpawnThread, TypeOK
    <3> HIDE DEF t
    <3>5. QED
      BY <2>1, <3>2, <3>3, <3>4 DEF Retired
  <2>4. QED
    BY <1>2, <2>1, <2>2, <2>3 DEF E!vars
<1>6. CASE StopEnter(o)
  <2>1. /\ lock = 0 /\ owner'[o] = "stopping" /\ left' = Concurrency
        /\ UNCHANGED <<published, started, thread>>
    BY <1>1, <1>6 DEF StopEnter, threads, TypeOK
  <2>2. OpenPool' = OpenPool
    BY <1>1, <1>3, <2>1 DEF OpenFacts
  <2>3. Retired' = Retired
    BY <2>1 DEF Retired
  <2>4. QED
    BY <1>2, <2>1, <2>2, <2>3 DEF E!vars
<1>7. CASE PutSentinel(o)
  <2>1. /\ owner[o] = "stopping" /\ owner'[o] = "stopping" /\ left' = left - 1 /\ left > 0
        /\ published # 0 /\ UNCHANGED <<published, started, thread>>
    BY <1>1, <1>3, <1>7 DEF PutSentinel, threads, TypeOK, LockInv
  <2>2. OpenPool = (IF left < Concurrency THEN 0 ELSE published) /\ OpenPool' = 0
    BY <1>1, <1>3, <2>1 DEF OpenFacts
  <2>3. Retired' = Retired
    BY <2>1 DEF Retired
  <2>4. CASE left < Concurrency
    BY <1>2, <2>1, <2>2, <2>3, <2>4 DEF E!vars
  <2>5. CASE ~(left < Concurrency)
    <3>1. E!Close
      BY <1>2, <2>1, <2>2, <2>3, <2>5 DEF E!Close
    <3>2. QED
      BY <3>1 DEF E!Next
  <2>6. QED
    BY <2>4, <2>5
<1>8. CASE Unpublish(o)
  <2>1. /\ owner[o] = "stopping" /\ left = 0 /\ lock' = 0 /\ published' = 0
        /\ UNCHANGED <<started, thread>>
    BY <1>8 DEF Unpublish, threads
  <2>2. OpenPool = 0 /\ OpenPool' = 0
    BY <1>1, <1>3, <2>1 DEF OpenFacts
  <2>3. Retired' = Retired
    BY <2>1 DEF Retired
  <2>4. QED
    BY <1>2, <2>1, <2>2, <2>3 DEF E!vars
<1>9. CASE Joined(o) \/ JoinTimesOut(o)
  <2>1. /\ UNCHANGED <<published, started, left, thread>>
        /\ owner[o] = "joining" /\ \A u \in Owner : owner'[u] = IF u = o THEN "idle" ELSE owner[u]
    BY <1>1, <1>9 DEF Joined, JoinTimesOut, threads, TypeOK
  <2>2. OpenPool' = OpenPool /\ Retired' = Retired
    BY <2>1 DEF OpenPool, Closing, Retired
  <2>3. QED
    BY <1>2, <2>1, <2>2 DEF E!vars
<1>10. QED
  BY <1>4, <1>5, <1>6, <1>7, <1>8, <1>9 DEF OwnerStep

(* active() and enqueue().                                                 *)
LEMMA CallerRefines ==
  ASSUME PoolInv, NEW i \in Item, CallerStep(i)
  PROVE  [E!Next]_E!vars
<1>1. TypeOK /\ LockInv /\ QueueInv /\ OpenFacts
  BY OpenIs DEF PoolInv, PlaceInv, BaseInv
<1>2. /\ UNCHANGED <<published, started, left, owner, thread>>
  BY DEF CallerStep, AskActive, ReadQueue, PutItem, lifecycle, threads
<1>3. OpenPool' = OpenPool /\ Retired' = Retired
  BY <1>2 DEF OpenPool, Closing, Retired
<1>4. published = 0 => OpenPool = 0
  BY DEF OpenPool
<1>5. \A j \in Item : j # i => caller'[j] = caller[j] /\ target'[j] = target[j]
  BY <1>1 DEF CallerStep, AskActive, ReadQueue, PutItem, TypeOK
<1>6. CASE AskActive(i) \/ ReadQueue(i)
  <2>1. /\ caller[i] \in {"new", "asked"} /\ UNCHANGED early
        /\ caller'[i] \in IF published = 0 THEN {"refused", "fallback"} ELSE {"asked", "putting"}
    BY <1>1, <1>6 DEF AskActive, ReadQueue, TypeOK
  <2>2. PoolOf' = PoolOf
    BY <1>5, <2>1 DEF PoolOf
  <2>3. Phase[i] = "new" /\ Phase' = [Phase EXCEPT ![i] = PhaseOf(caller'[i])]
    BY <1>5, <2>1, OneMoves, PhaseIs
  <2>4. CASE published = 0
    <3>1. PhaseOf(caller'[i]) = "declined"
      BY <2>1, <2>4, PhaseIs
    <3>2. E!Decline(i)
      BY <1>2, <1>3, <1>4, <2>1, <2>2, <2>3, <2>4, <3>1 DEF E!Decline
    <3>3. QED
      BY <3>2 DEF E!Next
  <2>5. CASE published # 0
    <3>1. PhaseOf(caller'[i]) = "new"
      BY <2>1, <2>5, PhaseIs
    <3>2. Phase' = Phase
      BY <2>3, <3>1 DEF Phase
    <3>3. QED
      BY <1>2, <1>3, <2>1, <2>2, <3>2 DEF E!vars
  <2>6. QED
    BY <2>4, <2>5
<1>7. CASE PutItem(i)
  <2>1. /\ caller[i] = "putting" /\ caller'[i] = "queued" /\ target' = target
        /\ early' = IF Closing(target[i]) THEN early ELSE early \cup {i}
    BY <1>1, <1>7 DEF PutItem, TypeOK
  <2>2. target[i] \in 1..started
    BY <1>1, <2>1 DEF QueueInv
  <2>3. Phase' = [Phase EXCEPT ![i] = "waiting"] /\ Phase[i] = "new"
    BY <1>5, <2>1, OneMoves, PhaseIs
  <2>4. PoolOf' = [PoolOf EXCEPT ![i] = target[i]]
    BY <1>5, <2>1 DEF PoolOf
  <2>5. early' = IF target[i] = OpenPool THEN early \cup {i} ELSE early
    BY <1>1, <2>1, <2>2 DEF OpenFacts
  <2>6. E!Accept(i, target[i])
    BY <1>2, <1>3, <2>2, <2>3, <2>4, <2>5 DEF E!Accept
  <2>7. target[i] \in 1..MaxStarts
    BY <1>1, <2>2, PoolAssumption DEF TypeOK
  <2>8. QED
    BY <2>6, <2>7 DEF E!Next
<1>8. QED
  BY <1>6, <1>7 DEF CallerStep

(* No more jobs of a pool run than it has threads at work.                 *)
Busy(g) == {k \in 1..Concurrency : hand[<<g, k>>] # NoItem}

LEMMA AllButOne ==
  ASSUME NEW n \in Nat \ {0}, NEW k \in 1..n
  PROVE  IsFiniteSet((1..n) \ {k}) /\ Cardinality((1..n) \ {k}) = n - 1
<1> DEFINE All == 1..n
<1>1. IsFiniteSet(All) /\ Cardinality(All) = n /\ k \in All
  BY FS_Interval
<1> HIDE DEF All
<1>2. IsFiniteSet(All \ {k}) /\ Cardinality(All \ {k}) = n - 1
  BY <1>1, FS_RemoveElement
<1>3. QED
  BY <1>2 DEF All

LEMMA RunningAreBusy ==
  ASSUME PoolInv, NEW t \in Thread, thread[t] = "waiting"
  PROVE  Cardinality(E!Jobs(Gen(t), "running")) < Concurrency
<1> DEFINE g == Gen(t)
           Running == E!Jobs(g, "running")
           f == [k \in Busy(g) |-> hand[<<g, k>>]]
<1> SUFFICES Cardinality(Running) < Concurrency
  OBVIOUS
<1>1. TypeOK /\ HandInv
  BY DEF PoolInv, PlaceInv, BaseInv
<1>2. g \in Generation /\ t[2] \in 1..Concurrency /\ t = <<g, t[2]>> /\ Concurrency \in Nat \ {0}
  BY ThreadFacts
<1>3. \A i \in Item : i \in Running <=> caller[i] = "running" /\ target[i] = g
  BY PhaseIs, <1>1, <1>2 DEF E!Jobs, Phase, PoolOf, TypeOK, PhaseOf, Generation
<1>4. Running \subseteq Item
  BY DEF E!Jobs
<1>5. f \in Surjection(Busy(g), Running)
  <2>1. \A k \in Busy(g) : <<g, k>> \in Thread /\ Gen(<<g, k>>) = g /\ hand[<<g, k>>] # NoItem
    BY <1>2, ThreadFacts DEF Busy
  <2>2. \A k \in Busy(g) : hand[<<g, k>>] \in Running
    BY <1>1, <1>3, <2>1 DEF HandInv, TypeOK
  <2>3. ASSUME NEW i \in Running
        PROVE  \E k \in Busy(g) : hand[<<g, k>>] = i
    <3>1. i \in Item /\ i # NoItem /\ caller[i] = "running" /\ target[i] = g
      BY <1>3, <1>4, ItemAssumption
    <3>2. PICK u \in Thread : hand[u] = i
      BY <1>1, <3>1 DEF HandInv
    <3>3. Gen(u) = g /\ u = <<g, u[2]>> /\ u[2] \in 1..Concurrency
      BY <1>1, <3>1, <3>2, ThreadFacts DEF HandInv
    <3>4. u[2] \in Busy(g) /\ hand[<<g, u[2]>>] = i
      BY <3>1, <3>2, <3>3 DEF Busy
    <3>5. QED
      BY <3>4
  <2> HIDE DEF Running
  <2>4. QED
    BY <2>2, <2>3 DEF Surjection
<1>6. Busy(g) \subseteq (1..Concurrency) \ {t[2]}
  BY <1>1, <1>2 DEF Busy, HandInv
<1>7. /\ IsFiniteSet((1..Concurrency) \ {t[2]})
      /\ Cardinality((1..Concurrency) \ {t[2]}) = Concurrency - 1
  BY <1>2, AllButOne
<1>8. IsFiniteSet(Busy(g)) /\ Cardinality(Busy(g)) <= Concurrency - 1
  BY <1>6, <1>7, FS_Subset
<1> HIDE DEF Running, f, g
<1>9. IsFiniteSet(Running) /\ Cardinality(Running) <= Cardinality(Busy(g))
  BY <1>5, <1>8, FS_Surjection
<1>10. /\ Cardinality(Running) \in Nat /\ Cardinality(Busy(g)) \in Nat
  BY <1>8, <1>9, FS_CardinalityType
<1>11. QED
  BY <1>2, <1>8, <1>9, <1>10

(* The Executor counts with a Cardinality of its own instance.             *)
LEMMA CountIs ==
  ASSUME NEW S
  PROVE  E!Cardinality(S) = Cardinality(S)
BY DEF E!Cardinality, Cardinality

(* _loop.                                                                  *)
LEMMA ThreadRefines ==
  ASSUME PoolInv, PoolInv', NEW t \in Thread, ThreadStep(t)
  PROVE  [E!Next]_E!vars
<1>1. /\ TypeOK /\ LockInv /\ QueueInv /\ OpenFacts /\ TypeOK' /\ HandInv /\ HandInv'
      /\ FreshInv /\ ClosedInv /\ EarlyInv
  BY OpenIs DEF PoolInv, PlaceInv, BaseInv
<1>2. UNCHANGED <<published, started, left, owner, target, early>>
  BY DEF ThreadStep, GetSentinel, GetItem, Handled, lifecycle, callers
<1>3. OpenPool' = OpenPool
  BY <1>2 DEF OpenPool, Closing
<1>4. Gen(t) \in Generation /\ Gen(t) \in 1..started /\ Gen(t) \in 1..MaxStarts
  <2>1. Gen(t) \in Generation /\ started \in Nat
    BY <1>1, ThreadFacts, PoolAssumption DEF TypeOK
  <2>2. ~(Gen(t) > started)
    BY <1>1 DEF FreshInv, ThreadStep, GetSentinel, GetItem, Handled
  <2>3. QED
    BY <2>1, <2>2, PoolAssumption DEF Generation
<1>5. \A u \in Thread : u # t => thread'[u] = thread[u]
  BY <1>1 DEF ThreadStep, GetSentinel, GetItem, Handled, TypeOK
<1>6. thread[t] # "ended"
  BY DEF ThreadStep, GetSentinel, GetItem, Handled
<1>7. CASE GetSentinel(t)
  <2>1. /\ thread'[t] = "ended" /\ UNCHANGED caller
        /\ queue[Gen(t)] # <<>> /\ Head(queue[Gen(t)]) = Stop
    BY <1>1, <1>7 DEF GetSentinel, callers, TypeOK
  <2>2. UNCHANGED <<Phase, PoolOf>>
    BY <1>2, <2>1 DEF Phase, PoolOf
  <2>3. CASE \E u \in Thread : Gen(u) = Gen(t) /\ thread'[u] # "ended"
    <3>1. Retired' = Retired
      BY <1>2, <1>4, <1>5, <1>6, <2>3 DEF Retired
    <3>2. QED
      BY <1>2, <1>3, <2>2, <3>1 DEF E!vars
  <2>4. CASE \A u \in Thread : Gen(u) = Gen(t) => thread'[u] = "ended"
    <3>1. Retired' = Retired \cup {Gen(t)} /\ Gen(t) \notin Retired
      BY <1>2, <1>4, <1>5, <1>6, <2>1, <2>4 DEF Retired
    <3>2. Gen(t) # OpenPool
      <4>1. Closing(Gen(t))
        BY <1>1, <1>4, <2>1, HeadFacts DEF ClosedInv
      <4>2. QED
        BY <1>1, <1>4, <4>1 DEF OpenFacts
    <3>3. \A i \in Item : PoolOf[i] = Gen(t) => target[i] = Gen(t)
      BY <1>4, PoolAssumption DEF PoolOf
    <3>4. ASSUME NEW i \in Item, target[i] = Gen(t) PROVE caller[i] # "running"
      <4> SUFFICES ASSUME caller[i] = "running" PROVE FALSE
        OBVIOUS
      <4>1. PICK u \in Thread : hand'[u] = i
        BY <1>1, <2>1 DEF HandInv
      <4>2. thread'[u] = "handling" /\ Gen(u) = Gen(t)
        BY <1>1, <1>2, <3>4, <4>1, ItemAssumption DEF HandInv
      <4>3. QED
        BY <2>4, <4>2
    <3>5. \A i \in Item : Phase[i] = "running" <=> caller[i] = "running"
      BY <1>1, PhaseIs DEF Phase, TypeOK
    <3>6. \A i \in early : target[i] = Gen(t) => Phase[i] = "finished"
      <4>1. NothingEarlyIsLost'
        BY NoneEarlyIsLost, PTL
      <4>2. \A i \in early : target[i] = Gen(t) => caller[i] = "finished"
        BY <1>2, <1>4, <2>1, <2>4, <4>1 DEF NothingEarlyIsLost
      <4>3. QED
        BY <1>1, <4>2, PhaseIs DEF Phase, TypeOK
    <3>7. E!Retire(Gen(t))
      BY <1>1, <1>2, <1>3, <1>4, <2>2, <3>1, <3>2, <3>3, <3>4, <3>5, <3>6
      DEF E!Retire, TypeOK
    <3>8. QED
      BY <1>4, <3>7 DEF E!Next
  <2>5. QED
    BY <2>3, <2>4
<1>8. CASE GetItem(t)
  <2> DEFINE i == Head(queue[Gen(t)])
  <2>1. /\ thread[t] = "waiting" /\ thread'[t] = "handling"
        /\ queue[Gen(t)] # <<>> /\ i # Stop
    BY <1>1, <1>8 DEF GetItem, TypeOK
  <2>2. i \in Item /\ caller[i] = "queued" /\ target[i] = Gen(t)
    BY <1>1, <1>4, <2>1, HeadFacts DEF QueueInv, Entry
  <2>3. caller'[i] = "running" /\ \A j \in Item : j # i => caller'[j] = caller[j]
    BY <1>1, <1>8, <2>2 DEF GetItem, TypeOK
  <2> HIDE DEF i
  <2>4. Phase[i] = "waiting" /\ Phase' = [Phase EXCEPT ![i] = "running"]
    BY <2>2, <2>3, OneMoves, PhaseIs
  <2>5. PoolOf' = PoolOf /\ PoolOf[i] = Gen(t)
    BY <1>2, <2>2, <2>3 DEF PoolOf
  <2>6. Retired' = Retired /\ Gen(t) \notin Retired
    BY <1>2, <1>5, <1>6, <2>1 DEF Retired
  <2>7. E!Cardinality(E!Jobs(PoolOf[i], "running")) < Concurrency
    BY <2>1, <2>5, RunningAreBusy, CountIs
  <2>8. E!Begin(i)
    <3>1. Phase[i] = "waiting" /\ PoolOf[i] \notin Retired
      BY <2>4, <2>5, <2>6
    <3>2. UNCHANGED <<PoolOf, early, OpenPool, started, Retired>>
      BY <1>2, <1>3, <2>5, <2>6
    <3>3. QED
      BY <2>4, <2>7, <3>1, <3>2 DEF E!Begin
  <2>9. QED
    BY <2>2, <2>8 DEF E!Next
<1>9. CASE Handled(t)
  <2> DEFINE i == hand[t]
  <2>1. thread[t] = "handling" /\ thread'[t] = "waiting"
    BY <1>1, <1>9 DEF Handled, TypeOK
  <2>2. i \in Item /\ caller[i] = "running"
    BY <1>1, <2>1 DEF HandInv, TypeOK
  <2>3. caller'[i] = "finished" /\ \A j \in Item : j # i => caller'[j] = caller[j]
    BY <1>1, <1>9, <2>2 DEF Handled, TypeOK
  <2> HIDE DEF i
  <2>4. Phase[i] = "running" /\ Phase' = [Phase EXCEPT ![i] = "finished"]
    BY <2>2, <2>3, OneMoves, PhaseIs
  <2>5. PoolOf' = PoolOf
    BY <1>2, <2>2, <2>3 DEF PoolOf
  <2>6. Retired' = Retired
    BY <1>2, <1>5, <1>6, <2>1 DEF Retired
  <2>7. E!End(i)
    BY <1>2, <1>3, <2>2, <2>4, <2>5, <2>6 DEF E!End
  <2>8. QED
    BY <2>2, <2>7 DEF E!Next
<1>10. QED
  BY <1>7, <1>8, <1>9 DEF ThreadStep

(* Every step of the pool is one of the Executor or leaves it alone.       *)
LEMMA PoolRefines ==
  PoolInv /\ PoolInv' /\ [Next]_vars => [E!Next]_E!vars
<1> SUFFICES ASSUME PoolInv, PoolInv', [Next]_vars PROVE [E!Next]_E!vars
  OBVIOUS
<1>1. CASE UNCHANGED vars
  BY <1>1 DEF vars, lifecycle, threads, callers, E!vars, Phase, PoolOf, OpenPool, Closing, Retired
<1>2. CASE Next
  BY <1>2, OwnerRefines, CallerRefines, ThreadRefines DEF Next
<1>3. QED
  BY <1>1, <1>2

LEMMA InitRefines == Init => E!Init
<1> SUFFICES ASSUME Init PROVE E!Init
  OBVIOUS
<1>1. Phase = [i \in Item |-> "new"] /\ PoolOf = [i \in Item |-> 0]
  BY PhaseIs DEF Init, Phase, PoolOf
<1>2. OpenPool = 0 /\ early = {} /\ started = 0 /\ Retired = {}
  BY DEF Init, OpenPool, Retired
<1>3. QED
  BY <1>1, <1>2 DEF E!Init

(* A WorkerPool (task_queues.py) keeps the contract of Executor for any    *)
(* jobs, owners, threads and restarts: a job runs at most once, on the     *)
(* pool that took it, beside fewer than Concurrency others, and no pool is *)
(* gone before the jobs it took while open are done.                       *)
THEOREM PoolIsExecutor == Spec => ImplementsExecutor
BY InitRefines, PoolRefines, InvPool, PTL DEF Spec, ImplementsExecutor, E!Spec
=============================================================================
