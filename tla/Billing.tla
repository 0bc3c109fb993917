------------------------------- MODULE Billing -------------------------------
(***************************************************************************)
(* Paid subscriptions: orders paid at Robokassa, the two callbacks that    *)
(* activate them (Result URL, server to server; Success URL, the buyer's   *)
(* browser), the nightly job that rolls expired ones back, and the trial   *)
(* of the Radar product.                                                   *)
(*                                                                         *)
(* A seller row holds one subscription per product.  What a plan grants is *)
(* not told apart: a subscription is known by the order that bought it.    *)
(* Changes made by an administrator are left out.                          *)
(***************************************************************************)
EXTENDS Naturals

CONSTANTS
  Seller,
  Invoice,      \* orders; each is placed at most once
  Call,         \* callbacks being handled at the same time
  Buyer,        \* robokassa_invoices.seller_id
  ProductOf,    \* robokassa_invoices.product_kind
  Nobody,       \* holder of plan "trial" and of radar_plan "none"
  Trial,        \* holder of radar_plan "trial"
  NoInvoice,
  Term,         \* SUBSCRIPTION_DAYS, in ticks
  TrialTerm,    \* days of the Radar trial, in ticks
  MaxClicks     \* bound on trial requests under way for one seller

Product == {"veloseller", "radar"}

ASSUME NameAssumption ==
  Nobody \notin Invoice /\ Trial \notin Invoice /\ NoInvoice \notin Invoice /\ Nobody # Trial
ASSUME OrderAssumption == Buyer \in [Invoice -> Seller] /\ ProductOf \in [Invoice -> Product]
ASSUME TermAssumption ==
  Term \in Nat \ {0} /\ TrialTerm \in Nat \ {0} /\ MaxClicks \in Nat

VARIABLES
  holder,     \* sellers.plan, radar_plan: who the subscription was given to
  left,       \* ticks until subscription_expires_at, radar_active_until
  trialUsed,  \* radar_trial_started_at is set
  status,     \* robokassa_invoices.status, "absent" before the insert
  charged,    \* orders the buyer has paid for at Robokassa
  answered,   \* orders whose Result callback was answered with OK
  applied,    \* history: orders written to their buyer's row
  served,     \* history: ticks of Radar trial a seller has had
  pc,         \* where each callback is
  invoice,    \* the order it is about
  source,     \* "result" or "success"
  clicks,     \* trial requests that have passed their checks
  job,        \* the product expire-subscriptions is at, or "idle"
  todo        \* sellers of the list it is working off

subscription == <<holder, left, trialUsed>>
orders == <<status, charged, answered>>
history == <<applied, served>>
calls == <<pc, invoice, source>>
expiry == <<job, todo>>
vars == <<subscription, orders, history, calls, clicks, expiry>>

Init ==
  /\ holder = [s \in Seller |-> [p \in Product |-> Nobody]]
  /\ left = [s \in Seller |-> [p \in Product |-> 0]]
  /\ trialUsed = [s \in Seller |-> FALSE]
  /\ status = [i \in Invoice |-> "absent"]
  /\ charged = {} /\ answered = {} /\ applied = {}
  /\ served = [s \in Seller |-> 0]
  /\ pc = [k \in Call |-> "idle"]
  /\ invoice = [k \in Call |-> NoInvoice]
  /\ source = [k \in Call |-> "result"]
  /\ clicks = [s \in Seller |-> 0]
  /\ job = "idle" /\ todo = {}

Grant(s, p, h, days) ==
  /\ holder' = [holder EXCEPT ![s][p] = h]
  /\ left' = [left EXCEPT ![s][p] = days]

-----------------------------------------------------------------------------
(* Orders.  The buyer pays at Robokassa whenever he likes.                 *)

CreateInvoice(i) ==
  /\ status[i] = "absent"
  /\ status' = [status EXCEPT ![i] = "pending"]
  /\ UNCHANGED <<subscription, charged, answered, history, calls, clicks, expiry>>

Charge(i) ==
  /\ status[i] = "pending" /\ i \notin charged
  /\ charged' = charged \cup {i}
  /\ UNCHANGED <<subscription, status, answered, history, calls, clicks, expiry>>

-----------------------------------------------------------------------------
(* Callbacks.  Robokassa repeats Result until it is answered with OK, the  *)
(* buyer may load the Success page at any time and again.  A callback that *)
(* is refused (rate limit, failed SELECT) changes nothing: it is not a     *)
(* step.  create-payment stores only plans that fit their product, so the  *)
(* branch that closes an order without activation is never taken.          *)

Finish(k) ==
  /\ pc' = [pc EXCEPT ![k] = "idle"]
  /\ invoice' = [invoice EXCEPT ![k] = NoInvoice]
  /\ UNCHANGED source

Answer(i, src) == answered' = IF src = "result" THEN answered \cup {i} ELSE answered

(* Mutant: a callback is believed without its signature.                   *)
Receivable_Unpaid(i, src) ==
  status[i] # "absent" /\ (src = "result" => i \notin answered)

(* A signature that fits proves that the buyer has paid.                   *)
Receivable(i, src) == i \in charged /\ (src = "result" => i \notin answered)

ReceivePaid(k, i, src) ==
  /\ pc[k] = "idle" /\ Receivable(i, src)
  /\ status[i] = "paid"
  /\ Answer(i, src)
  /\ UNCHANGED <<subscription, status, charged, history, calls, clicks, expiry>>

ReceivePending(k, i, src) ==
  /\ pc[k] = "idle" /\ Receivable(i, src)
  /\ status[i] = "pending"
  /\ pc' = [pc EXCEPT ![k] = "read"]
  /\ invoice' = [invoice EXCEPT ![k] = i]
  /\ source' = [source EXCEPT ![k] = src]
  /\ UNCHANGED <<subscription, orders, history, clicks, expiry>>

(* The UPDATE of sellers, by id and with absolute values.                  *)
WriteActivation(i) ==
  /\ Grant(Buyer[i], ProductOf[i], i, Term)
  /\ applied' = applied \cup {i}
  /\ UNCHANGED trialUsed

Activate(k) ==
  /\ pc[k] = "read"
  /\ WriteActivation(invoice[k])
  /\ pc' = [pc EXCEPT ![k] = "activated"]
  /\ UNCHANGED <<orders, served, invoice, source, clicks, expiry>>

(* Mutant: a failed activation does not keep the order from being closed.  *)
ActivateRaises_Ignored(k) ==
  /\ pc[k] = "read"
  /\ pc' = [pc EXCEPT ![k] = "activated"]
  /\ UNCHANGED <<subscription, orders, history, invoice, source, clicks, expiry>>

(* It fails, or its answer is lost, or the process dies: no OK is sent.    *)
ActivateRaises(k) ==
  /\ pc[k] = "read"
  /\ WriteActivation(invoice[k]) \/ UNCHANGED <<subscription, applied>>
  /\ Finish(k)
  /\ UNCHANGED <<orders, served, clicks, expiry>>

MarkPaid(k) ==
  /\ pc[k] = "activated"
  /\ status' = [status EXCEPT ![invoice[k]] = "paid"]
  /\ Answer(invoice[k], source[k])
  /\ Finish(k)
  /\ UNCHANGED <<subscription, charged, history, clicks, expiry>>

(* Mutant: Robokassa is answered with OK although the order is not closed. *)
MarkPaidRaises_AnswersOk(k) ==
  /\ pc[k] = "activated"
  /\ status' = [status EXCEPT ![invoice[k]] = "paid"] \/ UNCHANGED status
  /\ Answer(invoice[k], source[k])
  /\ Finish(k)
  /\ UNCHANGED <<subscription, charged, history, clicks, expiry>>

MarkPaidRaises(k) ==
  /\ pc[k] = "activated"
  /\ status' = [status EXCEPT ![invoice[k]] = "paid"] \/ UNCHANGED status
  /\ Finish(k)
  /\ UNCHANGED <<subscription, charged, answered, history, clicks, expiry>>

-----------------------------------------------------------------------------
(* expire-subscriptions: one list per product, then an UPDATE by id for    *)
(* each seller on it.  (A plan that is not Nobody's always has a date.)    *)

Expired(p) == {s \in Seller : holder[s][p] # Nobody /\ left[s][p] = 0}

(* Mutant: without expired main subscriptions the job returns at once.     *)
ExpireStart_ReturnsEarly ==
  /\ job = "idle"
  /\ Expired("veloseller") # {}
  /\ job' = "veloseller" /\ todo' = Expired("veloseller")
  /\ UNCHANGED <<subscription, orders, history, calls, clicks>>

ExpireStart ==
  /\ job = "idle"
  /\ job' = "veloseller" /\ todo' = Expired("veloseller")
  /\ UNCHANGED <<subscription, orders, history, calls, clicks>>

(* Mutant: the rollback of Radar forgets that the trial has been used.     *)
ExpireReset_ClearsTrial(s, p) ==
  /\ job = p /\ s \in todo
  /\ Grant(s, p, Nobody, 0)
  /\ todo' = todo \ {s}
  /\ trialUsed' = [trialUsed EXCEPT ![s] = FALSE]
  /\ UNCHANGED <<orders, history, calls, clicks, job>>

ExpireReset(s, p) ==
  /\ job = p /\ s \in todo
  /\ Grant(s, p, Nobody, 0)
  /\ todo' = todo \ {s}
  /\ UNCHANGED <<trialUsed, orders, history, calls, clicks, job>>

(* An UPDATE that raises, committed or not, is logged: the next seller.    *)
ExpireResetRaises(s, p) ==
  /\ job = p /\ s \in todo
  /\ Grant(s, p, Nobody, 0) \/ UNCHANGED <<holder, left>>
  /\ todo' = todo \ {s}
  /\ UNCHANGED <<trialUsed, orders, history, calls, clicks, job>>

ExpireNext ==
  /\ job # "idle" /\ todo = {}
  /\ IF job = "veloseller"
       THEN job' = "radar" /\ todo' = Expired("radar")
       ELSE job' = "idle" /\ UNCHANGED todo
  /\ UNCHANGED <<subscription, orders, history, calls, clicks>>

(* A list that raises ends the job; so does the death of the worker.       *)
ExpireAborts ==
  /\ job # "idle"
  /\ job' = "idle" /\ todo' = {}
  /\ UNCHANGED <<subscription, orders, history, calls, clicks>>

-----------------------------------------------------------------------------
(* The Radar trial: checks on what was read, then an UPDATE by id.         *)

TrialChecked(s) ==
  /\ ~trialUsed[s] /\ holder[s]["radar"] = Nobody
  /\ clicks[s] < MaxClicks
  /\ clicks' = [clicks EXCEPT ![s] = @ + 1]
  /\ UNCHANGED <<subscription, orders, history, calls, expiry>>

TrialWrite(s) ==
  /\ clicks[s] > 0
  /\ clicks' = [clicks EXCEPT ![s] = @ - 1]
  /\ Grant(s, "radar", Trial, TrialTerm)
  /\ trialUsed' = [trialUsed EXCEPT ![s] = TRUE]
  /\ UNCHANGED <<orders, history, calls, expiry>>

TrialRaises(s) ==
  /\ clicks[s] > 0
  /\ clicks' = [clicks EXCEPT ![s] = @ - 1]
  /\ UNCHANGED <<subscription, orders, history, calls, expiry>>

-----------------------------------------------------------------------------
(* A tick is days, a request or a pass of the job is seconds: none of them *)
(* is under way while a tick passes.                                       *)
Tick ==
  /\ job = "idle"
  /\ \A k \in Call : pc[k] = "idle"
  /\ \A s \in Seller : clicks[s] = 0
  /\ \E s \in Seller, p \in Product : left[s][p] > 0
  /\ left' = [s \in Seller |-> [p \in Product |->
                IF left[s][p] > 0 THEN left[s][p] - 1 ELSE 0]]
  /\ served' = [s \in Seller |->
                  IF holder[s]["radar"] = Trial /\ left[s]["radar"] > 0
                    THEN served[s] + 1 ELSE served[s]]
  /\ UNCHANGED <<holder, trialUsed, orders, applied, calls, clicks, expiry>>

OrderStep(i) == CreateInvoice(i) \/ Charge(i)

CallStep(k) ==
  \/ \E i \in Invoice, src \in {"result", "success"} :
       ReceivePaid(k, i, src) \/ ReceivePending(k, i, src)
  \/ Activate(k) \/ ActivateRaises(k) \/ MarkPaid(k) \/ MarkPaidRaises(k)

ExpireStep ==
  \/ ExpireStart \/ ExpireNext \/ ExpireAborts
  \/ \E s \in Seller, p \in Product : ExpireReset(s, p) \/ ExpireResetRaises(s, p)

TrialStep(s) == TrialChecked(s) \/ TrialWrite(s) \/ TrialRaises(s)

Next ==
  \/ \E i \in Invoice : OrderStep(i)
  \/ \E k \in Call : CallStep(k)
  \/ ExpireStep
  \/ \E s \in Seller : TrialStep(s)
  \/ Tick

Spec == Init /\ [][Next]_vars

(* Robokassa repeats Result until it is answered, and the job runs every   *)
(* night.  Both may be thrown back by the database any number of times,    *)
(* but not for ever.  Nobody has to order, to pay, or to ask for a trial.  *)
Fairness ==
  /\ \A i \in Invoice :
       /\ SF_vars(\E k \in Call : ReceivePaid(k, i, "result") \/ ReceivePending(k, i, "result"))
       /\ SF_vars(\E k \in Call : invoice[k] = i /\ Activate(k))
       /\ SF_vars(\E k \in Call : invoice[k] = i /\ MarkPaid(k))
  /\ WF_vars(ExpireStart) /\ SF_vars(ExpireNext)
  /\ \A s \in Seller, p \in Product : SF_vars(ExpireReset(s, p))

FairSpec == Spec /\ Fairness

-----------------------------------------------------------------------------
TypeOK ==
  /\ holder \in [Seller -> [Product -> Invoice \cup {Nobody, Trial}]]
  /\ left \in [Seller -> [Product -> Nat]]
  /\ trialUsed \in [Seller -> BOOLEAN]
  /\ status \in [Invoice -> {"absent", "pending", "paid"}]
  /\ charged \subseteq Invoice /\ answered \subseteq charged /\ applied \subseteq charged
  /\ served \in [Seller -> Nat]
  /\ pc \in [Call -> {"idle", "read", "activated"}]
  /\ invoice \in [Call -> Invoice \cup {NoInvoice}]
  /\ source \in [Call -> {"result", "success"}]
  /\ clicks \in [Seller -> 0..MaxClicks]
  /\ job \in Product \cup {"idle"} /\ todo \subseteq Seller

(* The order of the two UPDATEs: Robokassa is answered with OK, and stops  *)
(* repeating, only when the order is closed, and an order is closed only   *)
(* when it has been written to the seller, whichever write fails.          *)
OkMeansActivated ==
  /\ \A i \in answered : status[i] = "paid"
  /\ \A i \in Invoice : status[i] = "paid" => i \in applied

(* The Radar trial is given once: however requests, payments and the       *)
(* expiry interleave, nobody has more days of it than one trial.           *)
TrialIsGivenOnce == \A s \in Seller : served[s] <= TrialTerm

(* Whoever has paid gets the order closed, hence activated, in the end.    *)
MoneyBuysThePlan == \A i \in Invoice : i \in charged ~> status[i] = "paid"

(* A subscription that has run out does not stay: it is rolled back, or    *)
(* given anew.                                                             *)
ExpiredPlanEnds ==
  \A s \in Seller, p \in Product : s \in Expired(p) ~> s \notin Expired(p)

(* "A repeated call is safe": a subscription that has passed from one      *)
(* order to another is not given back to an order applied before.          *)
RepeatIsSafe ==
  [][\A s \in Seller, p \in Product :
       holder[s][p] \in Invoice /\ holder'[s][p] \in applied
         => holder'[s][p] = holder[s][p]]_vars
=============================================================================
