----------------------------- MODULE IdealLedger -----------------------------
(***************************************************************************)
(* What the payment service promises about a customer's money: nothing is  *)
(* charged that was not asked for, nor twice by one order; nothing is      *)
(* ordered back that was not charged; the books show no more as refunded   *)
(* than was ordered back, nor more than was asked; an invoice is paid by a *)
(* charge, never opened again, and stays paid unless a payment and a void  *)
(* have crossed.  Whether what was ordered back arrives is the gateway's   *)
(* promise.  There are no handlers, events and statuses of payments here.  *)
(***************************************************************************)
EXTENDS Naturals

CONSTANT Orders

VARIABLES
  asked,       \* what the books ask for by each order, 0 before there is a payment row
  charged,     \* what the customer has paid by it
  instructed,  \* what the gateway has been told to pay back of it, in all
  shown,       \* what the books show as refunded
  invoice,     \* "open", "paid" or "void"
  crossed      \* whether a payment and a void of the invoice have crossed

rows == <<asked, shown, invoice, crossed>>

money == <<charged, instructed>>

Init ==
  /\ asked = [o \in Orders |-> 0]
  /\ charged = [o \in Orders |-> 0]
  /\ instructed = [o \in Orders |-> 0]
  /\ shown = [o \in Orders |-> 0]
  /\ invoice = "open"
  /\ crossed = FALSE

Ask(o) ==
  /\ asked[o] = 0
  /\ asked' = [asked EXCEPT ![o] = asked'[o]]
  /\ asked'[o] \in Nat \ {0}
  /\ UNCHANGED <<money, shown, invoice, crossed>>

Charge(o) ==
  /\ asked[o] > 0 /\ charged[o] = 0
  /\ charged' = [charged EXCEPT ![o] = asked[o]]
  /\ UNCHANGED <<rows, instructed>>

Instruct(o) ==
  /\ charged[o] > 0
  /\ instructed' = [instructed EXCEPT ![o] = instructed'[o]]
  /\ instructed[o] <= instructed'[o] /\ instructed'[o] <= instructed[o] + charged[o]
  /\ UNCHANGED <<rows, charged>>

Show(o) ==
  /\ shown' = [shown EXCEPT ![o] = shown'[o]]
  /\ shown'[o] <= instructed[o] /\ shown'[o] <= asked[o]
  /\ UNCHANGED <<money, asked, invoice, crossed>>

Pay(o) ==
  /\ charged[o] > 0
  /\ invoice' = "paid"
  /\ crossed' \in {crossed, TRUE}
  /\ UNCHANGED <<money, asked, shown>>

Void ==
  /\ invoice # "paid" \/ crossed
  /\ invoice' = "void"
  /\ UNCHANGED <<money, asked, shown, crossed>>

Next == Void \/ \E o \in Orders : Ask(o) \/ Charge(o) \/ Instruct(o) \/ Show(o) \/ Pay(o)

Spec == Init /\ [][Next]_<<rows, money>>
=============================================================================
