------------------------------ MODULE Executor ------------------------------
(***************************************************************************)
(* What a submitter may rely on when it hands a job to a worker pool       *)
(* (task_queues.py): a job runs at most once and on the pool that accepted *)
(* it, no pool runs more than Concurrency jobs at a time, and a pool is    *)
(* not gone before the jobs it accepted while open are done.  A job        *)
(* accepted while the pool closes may be dropped without a word.           *)
(***************************************************************************)
EXTENDS Naturals, FiniteSets

CONSTANTS Item, Concurrency, MaxStarts

VARIABLES
  phase,    \* "new", "declined", "waiting", "running" or "finished"
  pool,     \* pool that accepted the job, 0 for none
  sure,     \* jobs accepted by an open pool
  open,     \* the open pool, 0 for none
  opened,   \* pools opened so far
  retired   \* pools whose last thread has ended

vars == <<phase, pool, sure, open, opened, retired>>

Jobs(g, p) == {i \in Item : pool[i] = g /\ phase[i] = p}

Init ==
  /\ phase = [i \in Item |-> "new"]
  /\ pool = [i \in Item |-> 0]
  /\ sure = {}
  /\ open = 0 /\ opened = 0
  /\ retired = {}

Open ==
  /\ open = 0 /\ opened < MaxStarts
  /\ open' = opened + 1
  /\ opened' = opened + 1
  /\ UNCHANGED <<phase, pool, sure, retired>>

Close ==
  /\ open # 0
  /\ open' = 0
  /\ UNCHANGED <<phase, pool, sure, opened, retired>>

Decline(i) ==
  /\ phase[i] = "new" /\ open = 0
  /\ phase' = [phase EXCEPT ![i] = "declined"]
  /\ UNCHANGED <<pool, sure, open, opened, retired>>

Accept(i, g) ==
  /\ phase[i] = "new" /\ g \in 1..opened
  /\ phase' = [phase EXCEPT ![i] = "waiting"]
  /\ pool' = [pool EXCEPT ![i] = g]
  /\ sure' = IF g = open THEN sure \cup {i} ELSE sure
  /\ UNCHANGED <<open, opened, retired>>

Begin(i) ==
  /\ phase[i] = "waiting" /\ pool[i] \notin retired
  /\ Cardinality(Jobs(pool[i], "running")) < Concurrency
  /\ phase' = [phase EXCEPT ![i] = "running"]
  /\ UNCHANGED <<pool, sure, open, opened, retired>>

End(i) ==
  /\ phase[i] = "running"
  /\ phase' = [phase EXCEPT ![i] = "finished"]
  /\ UNCHANGED <<pool, sure, open, opened, retired>>

Retire(g) ==
  /\ g \in 1..opened /\ g # open /\ g \notin retired
  /\ \A i \in Item : pool[i] = g => phase[i] # "running"
  /\ \A i \in sure : pool[i] = g => phase[i] = "finished"
  /\ retired' = retired \cup {g}
  /\ UNCHANGED <<phase, pool, sure, open, opened>>

Next ==
  \/ Open \/ Close
  \/ \E i \in Item : \/ Decline(i) \/ Begin(i) \/ End(i)
                     \/ \E g \in 1..MaxStarts : Accept(i, g)
  \/ \E g \in 1..MaxStarts : Retire(g)

Spec == Init /\ [][Next]_vars
=============================================================================
