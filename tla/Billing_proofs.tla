--------------------------- MODULE Billing_proofs ---------------------------
(* Proofs about Billing, for any sellers, orders, callbacks and terms.     *)
EXTENDS Billing, TLAPS

(* A callback that is at work knows a paid order; one that has activated   *)
(* it leaves it applied.                                                   *)
CallsKnow ==
  \A k \in Call :
    /\ pc[k] # "idle" => invoice[k] \in charged
    /\ pc[k] = "activated" => invoice[k] \in applied

(* Days of the trial that are left, and days had, make one trial.  Days    *)
(* are counted only after the flag was set and with no request open.       *)
TrialBudget ==
  \A s \in Seller :
    /\ served[s] <= TrialTerm
    /\ holder[s]["radar"] = Trial => served[s] + left[s]["radar"] <= TrialTerm
    /\ holder[s]["radar"] = Trial => trialUsed[s]
    /\ ~trialUsed[s] \/ clicks[s] > 0 => served[s] = 0

OrderInv == TypeOK /\ CallsKnow /\ OkMeansActivated

LEMMA InitOrder == Init => OrderInv /\ TrialBudget
BY NameAssumption, OrderAssumption, TermAssumption
   DEF Init, OrderInv, TypeOK, CallsKnow, OkMeansActivated, TrialBudget, Product

(* What a grant does to the columns it writes.                             *)
LEMMA GrantType ==
  ASSUME TypeOK, NEW s \in Seller, NEW p \in Product,
         NEW h \in Invoice \cup {Nobody, Trial}, NEW days \in Nat, Grant(s, p, h, days)
  PROVE  /\ holder' \in [Seller -> [Product -> Invoice \cup {Nobody, Trial}]]
         /\ left' \in [Seller -> [Product -> Nat]]
         /\ holder'[s][p] = h /\ left'[s][p] = days
         /\ \A q \in Seller \ {s} : holder'[q] = holder[q] /\ left'[q] = left[q]
<1>1. /\ holder' = [holder EXCEPT ![s] = [holder[s] EXCEPT ![p] = h]]
      /\ left' = [left EXCEPT ![s] = [left[s] EXCEPT ![p] = days]]
  BY DEF Grant, TypeOK
<1>2. /\ [holder[s] EXCEPT ![p] = h] \in [Product -> Invoice \cup {Nobody, Trial}]
      /\ [left[s] EXCEPT ![p] = days] \in [Product -> Nat]
  BY DEF TypeOK
<1>3. QED
  BY <1>1, <1>2 DEF TypeOK

LEMMA CallStepOrder ==
  ASSUME OrderInv, NEW k \in Call, CallStep(k)
  PROVE  OrderInv'
<1> USE NameAssumption, OrderAssumption, TermAssumption
    DEF OrderInv, TypeOK, CallsKnow, OkMeansActivated, subscription, orders, history,
        calls, expiry, Finish, Answer, Product
<1>1. ASSUME NEW i \in Invoice, NEW src \in {"result", "success"}, ReceivePaid(k, i, src)
      PROVE  OrderInv'
  BY <1>1 DEF ReceivePaid, Receivable
<1>2. ASSUME NEW i \in Invoice, NEW src \in {"result", "success"}, ReceivePending(k, i, src)
      PROVE  OrderInv'
  BY <1>2 DEF ReceivePending, Receivable
<1>3. CASE Activate(k)
  BY <1>3 DEF Activate, WriteActivation, Grant
<1>4. CASE ActivateRaises(k)
  <2>1. CASE WriteActivation(invoice[k])
    BY <1>4, <2>1 DEF ActivateRaises, WriteActivation, Grant
  <2>2. CASE UNCHANGED <<subscription, applied>>
    BY <1>4, <2>2 DEF ActivateRaises
  <2>3. QED
    BY <1>4, <2>1, <2>2 DEF ActivateRaises
<1>5. CASE MarkPaid(k)
  BY <1>5 DEF MarkPaid
<1>6. CASE MarkPaidRaises(k)
  BY SMTT(30), <1>6 DEF MarkPaidRaises
<1>7. QED
  BY <1>1, <1>2, <1>3, <1>4, <1>5, <1>6 DEF CallStep

LEMMA NextOrder == OrderInv /\ [Next]_vars => OrderInv'
<1> SUFFICES ASSUME OrderInv, [Next]_vars
             PROVE  OrderInv'
  OBVIOUS
<1> USE NameAssumption, OrderAssumption, TermAssumption
    DEF OrderInv, TypeOK, CallsKnow, OkMeansActivated, subscription, orders, history,
        calls, expiry, Product
<1>1. CASE \E i \in Invoice : OrderStep(i)
  BY <1>1 DEF OrderStep, CreateInvoice, Charge
<1>2. CASE \E k \in Call : CallStep(k)
  BY <1>2, CallStepOrder
<1>3. CASE ExpireStep
  <2>1. CASE ExpireStart \/ ExpireNext \/ ExpireAborts
    BY <1>3, <2>1 DEF ExpireStart, ExpireNext, ExpireAborts, Expired
  <2>2. ASSUME NEW s \in Seller, NEW p \in Product, ExpireReset(s, p) \/ ExpireResetRaises(s, p)
        PROVE  OrderInv'
    <3>1. Grant(s, p, Nobody, 0) \/ UNCHANGED <<holder, left>>
      BY <2>2 DEF ExpireReset, ExpireResetRaises
    <3>2. /\ holder' \in [Seller -> [Product -> Invoice \cup {Nobody, Trial}]]
          /\ left' \in [Seller -> [Product -> Nat]]
      BY <3>1, GrantType
    <3>3. QED
      BY <2>2, <3>2 DEF ExpireReset, ExpireResetRaises
  <2>3. QED
    BY <1>3, <2>1, <2>2 DEF ExpireStep
<1>4. CASE \E s \in Seller : TrialStep(s)
  <2>1. PICK s \in Seller : TrialStep(s)
    BY <1>4
  <2>2. clicks' \in [Seller -> 0..MaxClicks]
    BY <2>1 DEF TrialStep, TrialChecked, TrialWrite, TrialRaises
  <2>3. /\ holder' \in [Seller -> [Product -> Invoice \cup {Nobody, Trial}]]
        /\ left' \in [Seller -> [Product -> Nat]]
    BY <2>1, GrantType DEF TrialStep, TrialChecked, TrialWrite, TrialRaises
  <2>4. QED
    BY <2>1, <2>2, <2>3 DEF TrialStep, TrialChecked, TrialWrite, TrialRaises
<1>5. CASE Tick
  BY <1>5 DEF Tick
<1>6. CASE UNCHANGED vars
  BY <1>6 DEF vars
<1>7. QED
  BY <1>1, <1>2, <1>3, <1>4, <1>5, <1>6 DEF Next

(* Every reachable state is well typed; in particular only orders that     *)
(* were paid for are ever written to a seller.                             *)
THEOREM TypeCorrect == Spec => []TypeOK
<1>1. OrderInv => TypeOK
  BY DEF OrderInv
<1>2. QED
  BY InitOrder, NextOrder, <1>1, PTL DEF Spec

(* An order answered with OK is closed, and a closed order has been        *)
(* written to its buyer's row, for any number of callbacks at once and     *)
(* whichever of their writes fail.                                         *)
THEOREM OkIsEarned == Spec => []OkMeansActivated
<1>1. OrderInv => OkMeansActivated
  BY DEF OrderInv
<1>2. QED
  BY InitOrder, NextOrder, <1>1, PTL DEF Spec

-----------------------------------------------------------------------------
(* A step in which no day passes and nobody asks for the trial.            *)
Timeless ==
  /\ UNCHANGED <<served, trialUsed, clicks>>
  /\ \A s \in Seller : holder'[s]["radar"] = Trial =>
       holder[s]["radar"] = Trial /\ left'[s]["radar"] = left[s]["radar"]

LEMMA TimelessStep ==
  ASSUME TrialBudget, Timeless
  PROVE  TrialBudget'
BY DEF TrialBudget, Timeless

LEMMA NextTrial == OrderInv /\ TrialBudget /\ [Next]_vars => TrialBudget'
<1> SUFFICES ASSUME OrderInv, TrialBudget, [Next]_vars
             PROVE  TrialBudget'
  OBVIOUS
<1> USE NameAssumption, OrderAssumption, TermAssumption
    DEF OrderInv, TypeOK, subscription, orders, history, calls, expiry, Product
<1>1. CASE \E i \in Invoice : OrderStep(i)
  <2>1. Timeless
    BY <1>1 DEF OrderStep, CreateInvoice, Charge, Timeless
  <2>2. QED
    BY <2>1, TimelessStep
<1>2. CASE \E k \in Call : CallStep(k)
  <2>1. PICK k \in Call : CallStep(k)
    BY <1>2
  <2>2. CASE Activate(k) \/ ActivateRaises(k)
    <3>1. pc[k] = "read" /\ invoice[k] \in Invoice
      BY <2>2 DEF Activate, ActivateRaises, CallsKnow
    <3>2. Timeless
      BY SMTT(30), <2>2, <3>1 DEF Activate, ActivateRaises, WriteActivation, Grant, Timeless
    <3>3. QED
      BY <3>2, TimelessStep
  <2>3. CASE ~(Activate(k) \/ ActivateRaises(k))
    <3>1. Timeless
      BY <2>1, <2>3 DEF CallStep, ReceivePaid, ReceivePending, MarkPaid, MarkPaidRaises, Timeless
    <3>2. QED
      BY <3>1, TimelessStep
  <2>4. QED
    BY <2>2, <2>3
<1>3. CASE ExpireStep
  <2>1. Timeless
    <3>1. CASE ExpireStart \/ ExpireNext \/ ExpireAborts
      BY <3>1 DEF ExpireStart, ExpireNext, ExpireAborts, Timeless
    <3>2. ASSUME NEW s \in Seller, NEW p \in Product, ExpireReset(s, p) \/ ExpireResetRaises(s, p)
          PROVE  Timeless
      <4>1. CASE Grant(s, p, Nobody, 0)
        BY <3>2, <4>1 DEF ExpireReset, ExpireResetRaises, Grant, Timeless
      <4>2. CASE UNCHANGED <<holder, left>>
        BY <3>2, <4>2 DEF ExpireReset, ExpireResetRaises, Timeless
      <4>3. QED
        BY <3>2, <4>1, <4>2 DEF ExpireReset, ExpireResetRaises
    <3>3. QED
      BY <1>3, <3>1, <3>2 DEF ExpireStep
  <2>2. QED
    BY <2>1, TimelessStep
<1>4. CASE \E s \in Seller : TrialStep(s)
  <2>1. PICK s \in Seller : TrialStep(s)
    BY <1>4
  <2>2. CASE TrialChecked(s)
    BY <2>2 DEF TrialChecked, TrialBudget
  <2>3. CASE TrialRaises(s)
    BY <2>3 DEF TrialRaises, TrialBudget
  <2>4. CASE TrialWrite(s)
    <3>1. served[s] = 0 /\ UNCHANGED served
      BY <2>4 DEF TrialWrite, TrialBudget
    <3>2. /\ holder'[s]["radar"] = Trial /\ left'[s]["radar"] = TrialTerm /\ trialUsed'[s]
          /\ \A q \in Seller \ {s} : /\ holder'[q] = holder[q] /\ left'[q] = left[q]
                                    /\ trialUsed'[q] = trialUsed[q] /\ clicks'[q] = clicks[q]
      BY <2>4, GrantType DEF TrialWrite
    <3>3. QED
      BY <3>1, <3>2 DEF TrialBudget
  <2>5. QED
    BY <2>1, <2>2, <2>3, <2>4 DEF TrialStep
<1>5. CASE Tick
  BY <1>5 DEF Tick, TrialBudget
<1>6. CASE UNCHANGED vars
  BY <1>6 DEF vars, TrialBudget
<1>7. QED
  BY <1>1, <1>2, <1>3, <1>4, <1>5, <1>6 DEF Next

(* The Radar trial is given once: whatever requests, payments, rollbacks   *)
(* and failures interleave, no seller has more days of it than one trial.  *)
THEOREM TrialOnce == Spec => []TrialIsGivenOnce
<1>1. OrderInv /\ TrialBudget => TrialIsGivenOnce
  BY DEF TrialBudget, TrialIsGivenOnce
<1>2. OrderInv /\ TrialBudget /\ [Next]_vars => OrderInv' /\ TrialBudget'
  BY NextOrder, NextTrial
<1>3. QED
  BY InitOrder, <1>1, <1>2, PTL DEF Spec
=============================================================================
