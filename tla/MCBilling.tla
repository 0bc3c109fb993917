----------------------------- MODULE MCBilling -----------------------------
(* Instances of Billing for TLC: one seller places all the orders.         *)
EXTENDS Billing

CONSTANTS s1, i1, i2

OneBuyer == [i \in Invoice |-> s1]

(* An order for each product.                                              *)
OneEach == [i \in Invoice |-> IF i = i1 THEN "veloseller" ELSE "radar"]

(* Two orders for the main product: a renewal or a change of plan.         *)
TwoOfAKind == [i \in Invoice |-> "veloseller"]
=============================================================================
