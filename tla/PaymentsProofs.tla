--------------------------- MODULE PaymentsProofs ---------------------------
(***************************************************************************)
(* Proofs about Payments, for any order ids, totals and requests.          *)
(***************************************************************************)
EXTENDS Payments, TLAPS

-----------------------------------------------------------------------------
(* Type correctness.                                                       *)

\* The fields a snapshot has, by its operation.
LEMMA SnapshotType ==
  ASSUME NEW s \in Request
  PROVE  /\ s.op \in {"issue", "find", "open", "store", "sync", "refund", "refunded", "reconcile"}
              => s.o \in Orders
         /\ s.op \in {"create", "recompute", "issue", "find", "open", "store"} => s.total \in Totals
         /\ s.op = "sync" => /\ s.result \in {"PAID", "FAILED"}
                             /\ s.seen \in PaymentStatus
                             /\ s.event \in PaymentEvent \cup {NoEvent}
         /\ s.op \in {"refund", "refunded"} => s.already \in Nat /\ s.amount \in Amounts
         /\ s.op = "reconcile" => s.event \in RefundEvent
BY DEF Request, Idle

\* What the gateway knows of a refund it has accepted.
LEMMA RefundType ==
  ASSUME TypeOK, NEW f \in RefundIds, refund[f].state # "NONE"
  PROVE  /\ refund[f] \in [state : RefundState, o : Orders, amount : Amounts]
         /\ refund[f].o \in Orders /\ refund[f].amount \in Amounts
<1>1. refund[f] \in {NoRefund} \cup [state : RefundState, o : Orders, amount : Amounts]
  BY DEF TypeOK
<1>2. refund[f] # NoRefund
  BY DEF NoRefund
<1> QED BY <1>1, <1>2

\* An order that has just been opened.
LEMMA OpenedOrder ==
  ASSUME NEW r \in Requests, OpenOrder(r)
  PROVE  \/ UNCHANGED order
         \/ /\ order[req[r].o].state = "NONE"
            /\ order' = [order EXCEPT ![req[r].o] =
                           [state |-> "ACTIVE", amount |-> req[r].total,
                            accepted |-> 0, refunded |-> 0, failed |-> 0]]
BY DEF OpenOrder, NoOrder

LEMMA AmountsAreNumbers == Totals \subseteq Nat /\ Amounts \subseteq Nat
BY PaymentsAssumption DEF Amounts

\* A handler that goes on keeps its fields.
LEMMA NextPhase ==
  ASSUME NEW s \in Request
  PROVE  /\ s.op = "issue" => [s EXCEPT !.op = "find"] \in Request
         /\ s.op = "find" => [s EXCEPT !.op = "open"] \in Request
         /\ s.op = "open" => [s EXCEPT !.op = "store"] \in Request
         /\ s.op = "refund" => [s EXCEPT !.op = "refunded"] \in Request
BY DEF Request, Idle

\* An invoice that exists has a total, and payments and the handlers about them
\* come after the invoice.
NeedsInvoice == {"void", "recompute", "find", "open", "store",
                 "sync", "refund", "refunded", "reconcile"}

TypeInv ==
  /\ TypeOK
  /\ invoice.status # "NONE" => invoice.total \in Totals
  /\ \A o \in Orders : payment[o].status # "NONE" => invoice.status # "NONE"
  /\ \A r \in Requests : req[r].op \in NeedsInvoice => invoice.status # "NONE"

LEMMA BeginType ==
  ASSUME TypeInv, NEW r \in Requests, Begin(r)
  PROVE  \E s \in Request : Hold(r, s) /\ (s.op \in NeedsInvoice => invoice.status # "NONE")
<1> USE DEF NeedsInvoice
<1>1. CASE BeginCreate(r)
  BY <1>1 DEF BeginCreate, TypeInv, TypeOK, Request
<1>2. CASE BeginVoid(r)
  BY <1>2 DEF BeginVoid, Request, VOIDABLE_STATUSES
<1>3. CASE BeginRecompute(r)
  BY <1>3 DEF BeginRecompute, TypeInv, TypeOK, Request
<1>4. ASSUME NEW o \in Orders, BeginIntent(r, o)
      PROVE  \E s \in Request : Hold(r, s) /\ (s.op \in NeedsInvoice => invoice.status # "NONE")
  <2>1. CASE invoice.status \in {"NONE", "VOID"}
    BY <1>4, <2>1 DEF BeginIntent, TypeInv, TypeOK, Request
  <2>2. CASE invoice.status \notin {"NONE", "VOID"}
    <3>1. invoice.total \in Totals
      BY <2>2 DEF TypeInv
    <3> QED BY <1>4, <2>2, <3>1 DEF BeginIntent, TypeInv, TypeOK, Request
  <2> QED BY <2>1, <2>2
<1>5. ASSUME NEW o \in Orders, NEW result \in {"PAID", "FAILED"}, NEW event \in PaymentEvent \cup {NoEvent},
             Sync(r, o, result, event)
      PROVE  \E s \in Request : Hold(r, s) /\ (s.op \in NeedsInvoice => invoice.status # "NONE")
  <2>1. payment[o].status \in PaymentStatus
    BY <1>5 DEF Sync, TypeInv, TypeOK
  <2>2. [op |-> "sync", o |-> o, result |-> result, seen |-> payment[o].status, event |-> event] \in Request
    BY <2>1 DEF Request
  <2>3. invoice.status # "NONE"
    BY <1>5 DEF Sync, TypeInv
  <2> QED BY <1>5, <2>2, <2>3 DEF Sync
<1>6. ASSUME NEW o \in Orders, NEW amount \in Amounts, BeginRefund(r, o, amount)
      PROVE  \E s \in Request : Hold(r, s) /\ (s.op \in NeedsInvoice => invoice.status # "NONE")
  BY <1>6 DEF BeginRefund, TypeInv, TypeOK, Request
<1>7. ASSUME NEW event \in sent, BeginPaymentWebhook(r, event)
      PROVE  \E s \in Request : Hold(r, s) /\ (s.op \in NeedsInvoice => invoice.status # "NONE")
  <2>1. event \in PaymentEvent /\ event.o \in Orders
    BY <1>7 DEF BeginPaymentWebhook, TypeInv, TypeOK, Event, PaymentEvent, RefundEvent
  <2> QED BY <1>5, <1>7, <2>1 DEF BeginPaymentWebhook
<1>8. ASSUME NEW event \in sent, BeginRefundWebhook(r, event)
      PROVE  \E s \in Request : Hold(r, s) /\ (s.op \in NeedsInvoice => invoice.status # "NONE")
  <2>1. event \in RefundEvent /\ event.o \in Orders
    BY <1>8 DEF BeginRefundWebhook, TypeInv, TypeOK, Event, PaymentEvent, RefundEvent
  <2>2. invoice.status # "NONE"
    BY <1>8, <2>1 DEF BeginRefundWebhook, TypeInv
  <2> QED BY <1>8, <2>1, <2>2 DEF BeginRefundWebhook, Request
<1> QED
  BY <1>1, <1>2, <1>3, <1>4, <1>5, <1>6, <1>7, <1>8 DEF Begin, BeginConfirm, Deliver

InvoiceRow == [status : InvoiceStatus \cup {"NONE"}, total : Totals \cup {0}]
PaymentRow == [status : PaymentStatus \cup {"NONE"}, amount : Totals \cup {0}, refunded : Nat]
OrderRow == [state : OrderState \cup {"NONE"}, amount : Totals \cup {0},
             accepted : Nat, refunded : Nat, failed : Nat]
RefundRow == {NoRefund} \cup [state : RefundState, o : Orders, amount : Amounts]

\* What a step has to leave in each variable but req.
RowsTyped ==
  /\ total \in Totals
  /\ invoice \in InvoiceRow
  /\ invoice.status # "NONE" => invoice.total \in Totals
  /\ payment \in [Orders -> PaymentRow]
  /\ \A o \in Orders : payment[o].status # "NONE" => invoice.status # "NONE"
  /\ order \in [Orders -> OrderRow]
  /\ refund \in [RefundIds -> RefundRow]
  /\ sent \subseteq Event
  /\ handled \subseteq PaymentEvent
  /\ crossed \in BOOLEAN

RequestsTyped ==
  /\ req \in [Requests -> Request]
  /\ \A r \in Requests : req[r].op \in NeedsInvoice => invoice.status # "NONE"

LEMMA TypeParts == TypeInv <=> RowsTyped /\ RequestsTyped
BY DEF TypeInv, TypeOK, RowsTyped, RequestsTyped, InvoiceRow, PaymentRow, OrderRow, RefundRow

LEMMA ProceedType ==
  ASSUME RequestsTyped, NEW r \in Requests, NEW s \in Request, Proceed(r, s),
         s.op \in NeedsInvoice => invoice'.status # "NONE",
         invoice.status # "NONE" => invoice'.status # "NONE"
  PROVE  RequestsTyped'
BY DEF RequestsTyped, Proceed

LEMMA TypeStep ==
  ASSUME TypeInv, [Next]_vars
  PROVE  TypeInv' /\ RowsTyped' /\ RequestsTyped'
<1>0. RowsTyped /\ RequestsTyped
  BY TypeParts
<1> SUFFICES RowsTyped' /\ RequestsTyped'
  BY TypeParts, PTL
<1>i. Idle \in Request /\ Idle.op \notin NeedsInvoice
  BY DEF Request, Idle, NeedsInvoice
<1>1. CASE UNCHANGED vars
  BY <1>0, <1>1 DEF vars, RowsTyped, RequestsTyped
<1>2. ASSUME NEW t \in Totals, Reprice(t)
      PROVE  RowsTyped' /\ RequestsTyped'
  BY <1>0, <1>2 DEF Reprice, gateway, history, RowsTyped, RequestsTyped
<1>3. ASSUME NEW o \in Orders, Capture(o) \/ Settle(o) \/ FailAttempt(o) \/ Expire(o)
      PROVE  RowsTyped' /\ RequestsTyped'
  <2>1. UNCHANGED <<total, invoice, payment, refund, handled, crossed, req>>
    BY <1>3 DEF Capture, Settle, FailAttempt, Expire, database, history
  <2>2. order' \in [Orders -> OrderRow]
    BY <1>0, <1>3 DEF Capture, Settle, FailAttempt, Expire, RowsTyped, OrderRow, OrderState
  <2>3. sent' \subseteq Event
    BY <1>0, <1>3 DEF Capture, Settle, FailAttempt, Expire, RowsTyped, Event, PaymentEvent
  <2> QED BY <1>0, <2>1, <2>2, <2>3 DEF RowsTyped, RequestsTyped
<1>4. ASSUME NEW f \in RefundIds, PayRefund(f) \/ FailRefund(f)
      PROVE  RowsTyped' /\ RequestsTyped'
  <2>1. UNCHANGED <<total, invoice, payment, handled, crossed, req>>
    BY <1>4 DEF PayRefund, FailRefund, database, history
  <2>2. /\ refund[f] \in [state : RefundState, o : Orders, amount : Amounts]
        /\ refund[f].o \in Orders /\ refund[f].amount \in Amounts /\ refund[f].amount \in Nat
    BY <1>4, RefundType, AmountsAreNumbers DEF PayRefund, FailRefund, TypeInv
  <2>3. refund' \in [RefundIds -> RefundRow]
    BY <1>0, <1>4, <2>2 DEF PayRefund, FailRefund, RowsTyped, RefundRow, RefundState
  <2>4. sent' \subseteq Event
    BY <1>0, <1>4, <2>2 DEF PayRefund, FailRefund, RowsTyped, Event, RefundEvent
  <2>5. order' \in [Orders -> OrderRow]
    <3> DEFINE o == refund[f].o
               n == refund[f].amount
    <3>1. order[o] \in OrderRow /\ order[o].refunded + n \in Nat /\ order[o].failed + n \in Nat
      BY <1>0, <2>2 DEF RowsTyped, OrderRow
    <3>2. [order[o] EXCEPT !.refunded = @ + n] \in OrderRow
      BY <3>1 DEF OrderRow
    <3>3. [order[o] EXCEPT !.failed = @ + n] \in OrderRow
      BY <3>1 DEF OrderRow
    <3>4. \/ order' = [order EXCEPT ![o] = [order[o] EXCEPT !.refunded = @ + n]]
          \/ order' = [order EXCEPT ![o] = [order[o] EXCEPT !.failed = @ + n]]
      BY <1>0, <1>4, <2>2 DEF PayRefund, FailRefund, RowsTyped
    <3> QED BY <1>0, <2>2, <3>2, <3>3, <3>4 DEF RowsTyped
  <2> QED BY <1>0, <2>1, <2>3, <2>4, <2>5 DEF RowsTyped, RequestsTyped
<1>5. ASSUME NEW r \in Requests, Begin(r)
      PROVE  RowsTyped' /\ RequestsTyped'
  <2>1. PICK s \in Request : Hold(r, s) /\ (s.op \in NeedsInvoice => invoice.status # "NONE")
    BY <1>5, BeginType
  <2>2. UNCHANGED <<total, invoice, payment, order, refund, sent, handled, crossed>> /\ Proceed(r, s)
    BY <2>1 DEF Hold, database, gateway, history
  <2>3. RequestsTyped'
    BY <1>0, <2>1, <2>2, ProceedType
  <2> QED BY <1>0, <2>2, <2>3 DEF RowsTyped
<1>6. ASSUME NEW r \in Requests, Abandon(r)
      PROVE  RowsTyped' /\ RequestsTyped'
  <2>1. UNCHANGED <<total, invoice, payment, order, refund, sent, handled, crossed>> /\ Proceed(r, Idle)
    BY <1>6 DEF Abandon, database, gateway, history
  <2>2. RequestsTyped'
    BY <1>0, <1>i, <2>1, ProceedType
  <2> QED BY <1>0, <2>1, <2>2 DEF RowsTyped
<1>7. ASSUME NEW r \in Requests, Advance(r)
      PROVE  RowsTyped' /\ RequestsTyped'
  <2>0. req[r] \in Request /\ (req[r].op \in NeedsInvoice => invoice.status # "NONE")
    BY <1>0 DEF RequestsTyped
  <2>1. CASE CommitIssue(r)
    <3>1. req[r].total \in Totals
      BY <2>0, <2>1, SnapshotType DEF CommitIssue
    <3>2. invoice' \in InvoiceRow /\ invoice'.status # "NONE" /\ invoice'.total \in Totals
      BY <1>0, <2>1, <3>1 DEF CommitIssue, RowsTyped, InvoiceRow, InvoiceStatus
    <3>3. \E s \in Request : Proceed(r, s)
      BY <1>i, <2>0, <2>1, NextPhase DEF CommitIssue
    <3>4. RequestsTyped'
      BY <1>0, <3>2, <3>3, ProceedType
    <3> QED
      BY <1>0, <2>1, <3>2, <3>4 DEF CommitIssue, gateway, history, RowsTyped
  <2>2. CASE CommitVoid(r)
    <3>1. invoice' \in InvoiceRow /\ invoice'.status # "NONE" /\ invoice'.total \in Totals
      BY <1>0, <2>0, <2>2 DEF CommitVoid, RowsTyped, InvoiceRow, InvoiceStatus, NeedsInvoice
    <3>2. RequestsTyped'
      BY <1>0, <1>i, <2>2, <3>1, ProceedType DEF CommitVoid
    <3> QED BY <1>0, <2>2, <3>1, <3>2 DEF CommitVoid, gateway, history, RowsTyped
  <2>3. CASE CommitRecompute(r)
    <3>1. req[r].total \in Totals
      BY <2>0, <2>3, SnapshotType DEF CommitRecompute
    <3>2. invoice' \in InvoiceRow /\ invoice'.status # "NONE" /\ invoice'.total \in Totals
      BY <1>0, <2>0, <2>3, <3>1 DEF CommitRecompute, RowsTyped, InvoiceRow, NeedsInvoice
    <3>3. RequestsTyped'
      BY <1>0, <1>i, <2>3, <3>2, ProceedType DEF CommitRecompute
    <3> QED BY <1>0, <2>3, <3>2, <3>3 DEF CommitRecompute, gateway, history, RowsTyped
  <2>4. CASE FindPending(r)
    <3>1. UNCHANGED <<total, invoice, payment, order, refund, sent, handled, crossed>>
      BY <2>4 DEF FindPending, database, gateway, history
    <3>2. \E s \in Request : Proceed(r, s)
      BY <1>i, <2>0, <2>4, NextPhase DEF FindPending
    <3>3. RequestsTyped'
      BY <1>0, <2>0, <2>4, <3>1, <3>2, ProceedType DEF FindPending, NeedsInvoice
    <3> QED BY <1>0, <3>1, <3>3 DEF RowsTyped
  <2>5. CASE OpenOrder(r)
    <3>1. req[r].o \in Orders /\ req[r].total \in Totals
      BY <2>0, <2>5, SnapshotType DEF OpenOrder
    <3>2. UNCHANGED <<total, invoice, payment, refund, sent, handled, crossed>>
      BY <2>5 DEF OpenOrder, database, history
    <3>3. \E s \in Request : Proceed(r, s)
      BY <1>i, <2>0, <2>5, NextPhase DEF OpenOrder
    <3>4. RequestsTyped'
      BY <1>0, <2>0, <2>5, <3>2, <3>3, ProceedType DEF OpenOrder, NeedsInvoice
    <3>5. order' \in [Orders -> OrderRow]
      <4> DEFINE new == [state |-> "ACTIVE", amount |-> req[r].total,
                         accepted |-> 0, refunded |-> 0, failed |-> 0]
      <4>1. new \in OrderRow
        BY <3>1 DEF OrderRow, OrderState
      <4>2. order' = order \/ order' = [order EXCEPT ![req[r].o] = new]
        BY <2>5, OpenedOrder
      <4> QED BY <1>0, <3>1, <4>1, <4>2 DEF RowsTyped
    <3> QED BY <1>0, <3>2, <3>4, <3>5 DEF RowsTyped
  <2>6. CASE StorePayment(r)
    <3>1. req[r].o \in Orders /\ req[r].total \in Totals
      BY <2>0, <2>6, SnapshotType DEF StorePayment
    <3>2. /\ UNCHANGED <<total, invoice, order, refund, sent, handled, crossed>>
          /\ invoice.status # "NONE"
      BY <2>0, <2>6 DEF StorePayment, gateway, history, NeedsInvoice
    <3>3. RequestsTyped'
      BY <1>0, <1>i, <2>6, <3>2, ProceedType DEF StorePayment
    <3>4. payment' \in [Orders -> PaymentRow]
      BY <1>0, <2>6, <3>1 DEF StorePayment, RowsTyped, PaymentRow, PaymentStatus
    <3> QED BY <1>0, <3>2, <3>3, <3>4 DEF RowsTyped
  <2>7. CASE CommitSync(r)
    <3>1. req[r].o \in Orders /\ req[r].event \in PaymentEvent \cup {NoEvent}
      BY <2>0, <2>7, SnapshotType DEF CommitSync
    <3>2. handled' \subseteq PaymentEvent /\ crossed' \in BOOLEAN
      BY <1>0, <2>7, <3>1 DEF CommitSync, Cross, Finish, RowsTyped
    <3>3. payment' \in [Orders -> PaymentRow]
      <4>1. CASE payment' = [payment EXCEPT ![req[r].o].status = "SUCCEEDED"]
        BY <1>0, <3>1, <4>1 DEF RowsTyped, PaymentRow, PaymentStatus
      <4>2. CASE payment' = [payment EXCEPT ![req[r].o].status = "FAILED"]
        BY <1>0, <3>1, <4>2 DEF RowsTyped, PaymentRow, PaymentStatus
      <4> QED BY <1>0, <2>7, <4>1, <4>2 DEF CommitSync, RowsTyped
    <3>4. invoice' \in InvoiceRow /\ invoice'.status # "NONE" /\ invoice'.total \in Totals
      <4>1. invoice.status # "NONE"
        BY <2>0, <2>7 DEF CommitSync, NeedsInvoice
      <4>2. invoice' = invoice \/ invoice' = [invoice EXCEPT !.status = "PAID"]
        BY <2>7 DEF CommitSync
      <4> QED BY <1>0, <4>1, <4>2 DEF RowsTyped, InvoiceRow, InvoiceStatus
    <3>5. RequestsTyped'
      BY <1>0, <1>i, <2>7, <3>4, ProceedType DEF CommitSync, Finish
    <3> QED
      BY <1>0, <2>7, <3>2, <3>3, <3>4, <3>5 DEF CommitSync, gateway, RowsTyped
  <2>8. CASE AskRefund(r)
    <3>1. req[r].o \in Orders /\ req[r].amount \in Amounts /\ req[r].amount \in Nat
      BY <2>0, <2>8, SnapshotType, AmountsAreNumbers DEF AskRefund
    <3>2. UNCHANGED <<total, invoice, payment, sent, handled, crossed>>
      BY <2>8 DEF AskRefund, database, history
    <3>3. \E s \in Request : Proceed(r, s)
      BY <1>i, <2>0, <2>8, NextPhase DEF AskRefund
    <3>4. RequestsTyped'
      BY <1>0, <2>0, <2>8, <3>2, <3>3, ProceedType DEF AskRefund, NeedsInvoice
    <3>5. refund' \in [RefundIds -> RefundRow]
      BY <1>0, <2>8, <3>1 DEF AskRefund, RowsTyped, RefundRow, RefundState
    <3>6. order' \in [Orders -> OrderRow]
      <4>1. CASE order' = [order EXCEPT ![req[r].o].accepted = @ + req[r].amount]
        <5>1. order[req[r].o] \in OrderRow /\ order[req[r].o].accepted + req[r].amount \in Nat
          BY <1>0, <3>1 DEF RowsTyped, OrderRow
        <5> QED BY <1>0, <3>1, <4>1, <5>1 DEF RowsTyped, OrderRow
      <4> QED BY <1>0, <2>8, <4>1 DEF AskRefund, RowsTyped
    <3> QED BY <1>0, <3>2, <3>4, <3>5, <3>6 DEF RowsTyped
  <2>9. CASE CommitRefund(r)
    <3>1. /\ req[r].o \in Orders
          /\ req[r].already + req[r].amount \in Nat
      BY <2>0, <2>9, SnapshotType, AmountsAreNumbers DEF CommitRefund
    <3>2. /\ UNCHANGED <<total, invoice, order, refund, sent, handled, crossed>>
          /\ invoice.status # "NONE"
      BY <2>0, <2>9 DEF CommitRefund, gateway, history, NeedsInvoice
    <3>3. RequestsTyped'
      BY <1>0, <1>i, <2>9, <3>2, ProceedType DEF CommitRefund
    <3>4. payment' \in [Orders -> PaymentRow]
      BY SMTT(40), <1>0, <2>9, <3>1 DEF CommitRefund, RowsTyped, PaymentRow, PaymentStatus, refundStatus
    <3> QED BY <1>0, <3>2, <3>3, <3>4 DEF RowsTyped
  <2>10. CASE CommitReconcile(r)
    <3>1. req[r].o \in Orders /\ req[r].event.amount \in Nat
      BY <2>0, <2>10, SnapshotType, AmountsAreNumbers DEF CommitReconcile, RefundEvent
    <3>2. /\ UNCHANGED <<total, invoice, order, refund, sent, handled, crossed>>
          /\ invoice.status # "NONE"
      BY <2>0, <2>10 DEF CommitReconcile, gateway, history, NeedsInvoice
    <3>3. RequestsTyped'
      BY <1>0, <1>i, <2>10, <3>2, ProceedType DEF CommitReconcile
    <3>4. payment' \in [Orders -> PaymentRow]
      BY SMTT(40), <1>0, <2>10, <3>1 DEF CommitReconcile, RowsTyped, PaymentRow, PaymentStatus, refundStatus
    <3> QED BY <1>0, <3>2, <3>3, <3>4 DEF RowsTyped
  <2> QED
    BY <1>7, <2>1, <2>2, <2>3, <2>4, <2>5, <2>6, <2>7, <2>8, <2>9, <2>10 DEF Advance
<1> QED
  BY <1>1, <1>2, <1>3, <1>5, <1>6, <1>7, <1>4 DEF Next

LEMMA TypeInit ==
  ASSUME Init
  PROVE  TypeInv
<1>1. /\ payment \in [Orders -> PaymentRow] /\ order \in [Orders -> OrderRow]
      /\ refund \in [RefundIds -> RefundRow] /\ invoice \in InvoiceRow
  BY DEF Init, PaymentRow, OrderRow, RefundRow, InvoiceRow, NoPayment, NoOrder
<1>2. RowsTyped
  BY <1>1 DEF Init, RowsTyped, NoPayment
<1>3. RequestsTyped
  BY DEF Init, RequestsTyped, Request, Idle, NeedsInvoice
<1> QED BY <1>2, <1>3, TypeParts

\* The types are right in every reachable state.
THEOREM TypeCorrect == Spec => []TypeOK
<1>1. Init => TypeInv
  BY TypeInit
<1>2. TypeInv /\ [Next]_vars => TypeInv'
  BY TypeStep
<1>3. TypeInv => TypeOK
  BY DEF TypeInv
<1> QED BY <1>1, <1>2, <1>3, PTL DEF Spec

-----------------------------------------------------------------------------
(* The ledger: what the rows, the gateway's records and the snapshots in     *)
(* flight say of each other.  Everything the gateway has said stays true     *)
(* (GatewayOnlyGrows), so a snapshot taken before an await is still right    *)
(* after it; that is why handlers that never look again agree in the end.    *)

PaidStatus == {"SUCCEEDED", "REFUNDED", "PARTIALLY_REFUNDED"}

OrderInv(o) ==
  /\ order[o].state = "NONE" => order[o].accepted = 0 /\ order[o].refunded = 0
  /\ captured(o) => payment[o].status # "NONE"

\* A refund is for money the gateway has captured, and counted as accepted.
RefundInv(f) ==
  refund[f].state # "NONE" =>
    /\ captured(refund[f].o)
    /\ refund[f].amount <= order[refund[f].o].accepted
    /\ refund[f].amount <= order[refund[f].o].amount

PaymentInv(o) ==
  /\ payment[o].status # "NONE" =>
       order[o].state # "NONE" /\ payment[o].amount = order[o].amount
  /\ payment[o].status \in PaidStatus => captured(o)
  /\ payment[o].refunded <= order[o].accepted
  /\ payment[o].refunded <= order[o].amount
  /\ payment[o].status = "REFUNDED" => order[o].amount <= order[o].accepted
  /\ payment[o].status = "SUCCEEDED" => settled

InvoiceInv ==
  invoice.status = "PAID" => \E o \in Orders : captured(o) /\ payment[o].status # "NONE"

\* A void in flight while the invoice is paid has been crossed by the success.
VoidInv == \A r \in Requests : req[r].op = "void" /\ invoice.status = "PAID" => crossed

EventInv(event) ==
  /\ event.type \in {"success", "refund"} => captured(event.o)
  /\ event.type = "refund" /\ event.status = "SUCCESS" =>
       /\ event.amount <= order[event.o].refunded
       /\ event.amount <= order[event.o].accepted
       /\ event.amount <= order[event.o].amount

SnapshotInv(s) ==
  /\ s.op = "store" => order[s.o].state # "NONE" /\ order[s.o].amount = s.total
  /\ s.op = "sync" => payment[s.o].status # "NONE"
  /\ s.op = "sync" /\ s.result = "PAID" => captured(s.o)
  /\ s.op = "refund" => /\ payment[s.o].status # "NONE" /\ order[s.o].state # "NONE"
                        /\ s.already <= order[s.o].accepted
                        /\ s.already + s.amount <= order[s.o].amount
  /\ s.op = "refunded" => /\ captured(s.o)
                          /\ s.already + s.amount <= order[s.o].accepted
                          /\ s.already + s.amount <= order[s.o].amount
  /\ s.op = "reconcile" => /\ s.o = s.event.o
                           /\ captured(s.o)
                           /\ s.event.amount <= order[s.o].refunded
                           /\ s.event.amount <= order[s.o].accepted
                           /\ s.event.amount <= order[s.o].amount

LedgerInv ==
  /\ TypeInv
  /\ \A o \in Orders : OrderInv(o) /\ PaymentInv(o)
  /\ \A f \in RefundIds : RefundInv(f)
  /\ InvoiceInv
  /\ VoidInv
  /\ \A event \in sent : EventInv(event)
  /\ \A r \in Requests : SnapshotInv(req[r])

\* The steps that write the gateway's records.
LEMMA GatewayStep ==
  ASSUME [Next]_vars
  PROVE  \/ UNCHANGED gateway
         \/ \E o \in Orders : Capture(o) \/ Settle(o) \/ FailAttempt(o) \/ Expire(o)
         \/ \E f \in RefundIds : PayRefund(f) \/ FailRefund(f)
         \/ \E r \in Requests : OpenOrder(r) \/ AskRefund(r)
<1>1. ASSUME NEW r \in Requests, Begin(r) PROVE UNCHANGED gateway
  BY <1>1 DEF Begin, BeginCreate, BeginVoid, BeginRecompute, BeginIntent, BeginConfirm,
              BeginRefund, Deliver, BeginPaymentWebhook, BeginRefundWebhook, Sync, Hold
<1>2. ASSUME NEW r \in Requests, Advance(r)
      PROVE  UNCHANGED gateway \/ OpenOrder(r) \/ AskRefund(r)
  BY <1>2 DEF Advance, CommitIssue, CommitVoid, CommitRecompute, FindPending, StorePayment,
              CommitSync, CommitRefund, CommitReconcile, gateway
<1> QED BY <1>1, <1>2 DEF Next, Reprice, Abandon, vars, gateway

\* The steps that write the database.
LEMMA DatabaseStep ==
  ASSUME [Next]_vars
  PROVE  \/ UNCHANGED <<invoice, payment>>
         \/ \E r \in Requests :
              \/ CommitIssue(r) \/ CommitVoid(r) \/ CommitRecompute(r) \/ StorePayment(r)
              \/ CommitSync(r) \/ CommitRefund(r) \/ CommitReconcile(r)
<1>1. ASSUME NEW r \in Requests, Begin(r) PROVE UNCHANGED <<invoice, payment>>
  BY <1>1 DEF Begin, BeginCreate, BeginVoid, BeginRecompute, BeginIntent, BeginConfirm, BeginRefund,
              Deliver, BeginPaymentWebhook, BeginRefundWebhook, Sync, Hold, database
<1>2. ASSUME NEW r \in Requests, FindPending(r) \/ OpenOrder(r) \/ AskRefund(r)
      PROVE  UNCHANGED <<invoice, payment>>
  BY <1>2 DEF FindPending, OpenOrder, AskRefund, database
<1> QED
  BY <1>1, <1>2 DEF Next, Advance, Reprice, Capture, Settle, FailAttempt, Expire,
                    PayRefund, FailRefund, Abandon, vars, database

\* Only a success is crossed.
LEMMA CrossStep ==
  ASSUME [Next]_vars
  PROVE  UNCHANGED crossed \/ \E r \in Requests : CommitSync(r)
<1>1. ASSUME NEW r \in Requests, Begin(r) PROVE UNCHANGED crossed
  BY <1>1 DEF Begin, BeginCreate, BeginVoid, BeginRecompute, BeginIntent, BeginConfirm, BeginRefund,
              Deliver, BeginPaymentWebhook, BeginRefundWebhook, Sync, Hold, history
<1>2. ASSUME NEW r \in Requests, Advance(r) PROVE CommitSync(r) \/ UNCHANGED crossed
  BY <1>2 DEF Advance, CommitIssue, CommitVoid, CommitRecompute, FindPending, OpenOrder,
              StorePayment, AskRefund, CommitRefund, CommitReconcile, history
<1> QED
  BY <1>1, <1>2 DEF Next, Reprice, Capture, Settle, FailAttempt, Expire, PayRefund, FailRefund,
                    Abandon, vars, history

\* History is not unmade.
LEMMA CrossedStep ==
  ASSUME [Next]_vars, crossed
  PROVE  crossed'
<1>1. ASSUME NEW r \in Requests, CommitSync(r) PROVE crossed'
  BY <1>1 DEF CommitSync, Cross
<1> QED
  BY <1>1, CrossStep

\* What the gateway has said stays true.
LEMMA GatewayOnlyGrows ==
  ASSUME LedgerInv, [Next]_vars, NEW o \in Orders
  PROVE  /\ sent \subseteq sent'
         /\ order[o].state # "NONE" => order'[o].state # "NONE" /\ order'[o].amount = order[o].amount
         /\ order[o].accepted <= order'[o].accepted
         /\ order[o].refunded <= order'[o].refunded
         /\ captured(o) => captured(o)'
<1>0. /\ order \in [Orders -> OrderRow]
      /\ order[o].refunded \in Nat /\ order[o].accepted \in Nat
      /\ order[o].state = "NONE" => order[o].accepted = 0 /\ order[o].refunded = 0
      /\ RequestsTyped
  BY TypeParts DEF LedgerInv, RowsTyped, OrderRow, OrderInv
<1>1. CASE UNCHANGED gateway
  BY <1>0, <1>1 DEF gateway, captured
<1>2. ASSUME NEW p \in Orders, Capture(p) \/ Settle(p) \/ FailAttempt(p) \/ Expire(p)
      PROVE  /\ sent \subseteq sent'
             /\ order[o].state # "NONE" => order'[o].state # "NONE"
             /\ order'[o].amount = order[o].amount
             /\ order[o].accepted = order'[o].accepted
             /\ order[o].refunded = order'[o].refunded
             /\ captured(o) => captured(o)'
  BY <1>0, <1>2 DEF Capture, Settle, FailAttempt, Expire, captured, OrderRow
<1>3. ASSUME NEW r \in Requests, OpenOrder(r)
      PROVE  /\ sent \subseteq sent'
             /\ order[o].state # "NONE" => order'[o] = order[o]
             /\ order[o].accepted <= order'[o].accepted
             /\ order[o].refunded <= order'[o].refunded
  <2>1. order \in [Orders -> OrderRow] /\ sent' = sent
    BY <1>0, <1>3 DEF OpenOrder
  <2>2. CASE order' = order
    BY <1>0, <2>1, <2>2
  <2>3. CASE /\ order[req[r].o].state = "NONE"
             /\ order' = [order EXCEPT ![req[r].o] =
                            [state |-> "ACTIVE", amount |-> req[r].total,
                             accepted |-> 0, refunded |-> 0, failed |-> 0]]
    BY <1>0, <2>1, <2>3
  <2> QED BY <1>3, <2>2, <2>3, OpenedOrder
<1>4. ASSUME NEW r \in Requests, AskRefund(r)
      PROVE  /\ sent \subseteq sent'
             /\ order'[o].state = order[o].state
             /\ order'[o].amount = order[o].amount
             /\ order[o].accepted <= order'[o].accepted
             /\ order[o].refunded = order'[o].refunded
  <2>1. req[r].amount \in Nat
    BY <1>0, <1>4, SnapshotType, AmountsAreNumbers DEF AskRefund, RequestsTyped
  <2> QED BY <1>0, <1>4, <2>1 DEF AskRefund, OrderRow
<1>5. ASSUME NEW f \in RefundIds, PayRefund(f) \/ FailRefund(f)
      PROVE  /\ sent \subseteq sent'
             /\ order'[o].state = order[o].state
             /\ order'[o].amount = order[o].amount
             /\ order[o].accepted = order'[o].accepted
             /\ order[o].refunded <= order'[o].refunded
  <2>1. refund[f].amount \in Nat
    BY <1>5, RefundType, AmountsAreNumbers DEF PayRefund, FailRefund, LedgerInv, TypeInv
  <2> QED BY <1>0, <1>5, <2>1 DEF PayRefund, FailRefund, OrderRow
<1>6. ASSUME \/ \E r \in Requests : OpenOrder(r) \/ AskRefund(r)
             \/ \E f \in RefundIds : PayRefund(f) \/ FailRefund(f)
      PROVE  captured(o) => captured(o)'
  BY <1>3, <1>4, <1>5, <1>6 DEF captured
<1> QED BY <1>0, <1>1, <1>2, <1>3, <1>4, <1>5, <1>6, GatewayStep

\* A payment row is never deleted, and a settled invoice stays settled: only a void that
\* a success has crossed can still close it.
LEMMA RowsStay ==
  ASSUME LedgerInv, [Next]_vars
  PROVE  /\ \A o \in Orders : payment[o].status # "NONE" => payment'[o].status # "NONE"
         /\ crossed => crossed'
         /\ settled => settled'
<1>0. payment \in [Orders -> PaymentRow] /\ invoice \in InvoiceRow /\ crossed \in BOOLEAN
  BY TypeParts DEF LedgerInv, RowsTyped
<1>c. crossed => crossed'
  BY CrossedStep
<1>1. CASE UNCHANGED <<invoice, payment>>
  BY <1>1, <1>c DEF settled
<1>2. ASSUME NEW r \in Requests, CommitIssue(r) \/ CommitRecompute(r)
      PROVE  /\ payment' = payment
             /\ invoice.status \in {"PAID", "VOID"} => invoice'.status = invoice.status
  BY <1>0, <1>2 DEF CommitIssue, CommitRecompute, InvoiceRow
<1>3. ASSUME NEW r \in Requests, CommitVoid(r)
      PROVE  payment' = payment /\ (settled => settled')
  <2>1. /\ req[r].op = "void" /\ invoice'.status = "VOID" /\ UNCHANGED <<payment, crossed>>
    BY <1>0, <1>3 DEF CommitVoid, history, InvoiceRow
  <2> QED
    BY <2>1 DEF LedgerInv, VoidInv, settled
<1>4. ASSUME NEW r \in Requests, StorePayment(r) \/ CommitRefund(r) \/ CommitReconcile(r)
      PROVE  /\ invoice' = invoice
             /\ \A o \in Orders : payment[o].status # "NONE" => payment'[o].status # "NONE"
  BY <1>0, <1>4 DEF StorePayment, CommitRefund, CommitReconcile, refundStatus, PaymentRow
<1>5. ASSUME NEW r \in Requests, CommitSync(r)
      PROVE  /\ \A o \in Orders : payment[o].status # "NONE" => payment'[o].status # "NONE"
             /\ invoice'.status \in {invoice.status, "PAID"}
  BY <1>0, <1>5 DEF CommitSync, PaymentRow, InvoiceRow
<1> QED BY <1>1, <1>2, <1>3, <1>4, <1>5, <1>c, DatabaseStep DEF settled

\* What a snapshot or an event says stays true.
LEMMA SnapshotKept ==
  ASSUME LedgerInv, [Next]_vars, NEW s \in Request, SnapshotInv(s)
  PROVE  SnapshotInv(s)'
<1>1. CASE s.op \in {"store", "sync", "refund", "refunded", "reconcile"}
  <2>1. s.o \in Orders
    BY <1>1, SnapshotType
  <2>2. /\ order[s.o].refunded \in Nat /\ order'[s.o].refunded \in Nat
        /\ order[s.o].accepted \in Nat /\ order'[s.o].accepted \in Nat
    BY <2>1, TypeStep, TypeParts DEF LedgerInv, RowsTyped, OrderRow
  <2>3. s.op \in {"refund", "refunded"} => s.already \in Nat /\ s.amount \in Nat
    BY SnapshotType, AmountsAreNumbers
  <2>4. s.op = "reconcile" => s.event.amount \in Nat
    BY SnapshotType, AmountsAreNumbers DEF RefundEvent
  <2>5. captured(s.o) => order[s.o].state # "NONE"
    BY DEF captured
  <2> QED BY <1>1, <2>1, <2>2, <2>3, <2>4, <2>5, GatewayOnlyGrows, RowsStay DEF SnapshotInv
<1>2. CASE s.op \notin {"store", "sync", "refund", "refunded", "reconcile"}
  BY <1>2 DEF SnapshotInv
<1> QED BY <1>1, <1>2

LEMMA EventKept ==
  ASSUME LedgerInv, [Next]_vars, NEW event \in Event, EventInv(event)
  PROVE  EventInv(event)'
<1>1. event.o \in Orders
  BY DEF Event, PaymentEvent, RefundEvent
<1>2. /\ order[event.o].refunded \in Nat /\ order'[event.o].refunded \in Nat
      /\ order[event.o].accepted \in Nat /\ order'[event.o].accepted \in Nat
  BY <1>1, TypeStep, TypeParts DEF LedgerInv, RowsTyped, OrderRow
<1>3. event.type = "refund" => event.amount \in Nat
  BY AmountsAreNumbers DEF Event, PaymentEvent, RefundEvent
<1>4. captured(event.o) => order[event.o].state # "NONE"
  BY DEF captured
<1> QED BY <1>1, <1>2, <1>3, <1>4, GatewayOnlyGrows DEF EventInv

\* So does what a refund says.
LEMMA RefundStep ==
  ASSUME LedgerInv, [Next]_vars, NEW f \in RefundIds
  PROVE  RefundInv(f)'
<1>0. /\ refund \in [RefundIds -> RefundRow] /\ RefundInv(f) /\ RequestsTyped
      /\ order \in [Orders -> OrderRow] /\ order' \in [Orders -> OrderRow]
  BY TypeStep, TypeParts DEF LedgerInv, RowsTyped
<1>1. ASSUME NEW o \in Orders, NEW n \in Nat, captured(o), n <= order[o].accepted,
             n <= order[o].amount
      PROVE  captured(o)' /\ n <= order'[o].accepted /\ n <= order'[o].amount
  <2>1. /\ order[o].accepted \in Nat /\ order'[o].accepted \in Nat
        /\ order[o].accepted <= order'[o].accepted
        /\ captured(o)' /\ order'[o].amount = order[o].amount
    BY <1>0, <1>1, GatewayOnlyGrows DEF OrderRow, captured
  <2> QED BY <1>1, <2>1
<1>2. CASE refund'[f] = refund[f]
  <2>1. CASE refund[f].state = "NONE"
    BY <1>2, <2>1 DEF RefundInv
  <2>2. CASE refund[f].state # "NONE"
    <3>1. refund[f].o \in Orders /\ refund[f].amount \in Nat
      BY <2>2, RefundType, AmountsAreNumbers DEF LedgerInv, TypeInv
    <3> QED BY <1>0, <1>1, <1>2, <2>2, <3>1 DEF RefundInv, captured
  <2> QED BY <2>1, <2>2
<1>3. ASSUME NEW g \in RefundIds, PayRefund(g) \/ FailRefund(g), refund'[f] # refund[f]
      PROVE  RefundInv(f)'
  <2>1. f = g /\ refund[f].state = "PENDING"
    BY <1>0, <1>3 DEF PayRefund, FailRefund
  <2>2. /\ refund[f] \in [state : RefundState, o : Orders, amount : Amounts]
        /\ refund[f].o \in Orders /\ refund[f].amount \in Nat
    BY <2>1, RefundType, AmountsAreNumbers DEF LedgerInv, TypeInv
  <2>3. refund'[f].o = refund[f].o /\ refund'[f].amount = refund[f].amount
    BY <1>0, <1>3, <2>1, <2>2 DEF PayRefund, FailRefund
  <2> QED BY <1>0, <1>1, <2>1, <2>2, <2>3 DEF RefundInv, captured
<1>4. ASSUME NEW r \in Requests, AskRefund(r), refund'[f] # refund[f]
      PROVE  RefundInv(f)'
  <2> DEFINE o == req[r].o
             n == req[r].amount
  <2>1. /\ o \in Orders /\ n \in Nat /\ req[r].already \in Nat
        /\ order[o].accepted \in Nat
    BY <1>0, <1>4, SnapshotType, AmountsAreNumbers DEF AskRefund, RequestsTyped, OrderRow
  <2>2. /\ captured(o) /\ order' = [order EXCEPT ![o].accepted = @ + n]
        /\ refund'[f] = [state |-> "PENDING", o |-> o, amount |-> n]
    BY <1>0, <1>4 DEF AskRefund
  <2>3. /\ order'[o].accepted = order[o].accepted + n /\ order'[o].amount = order[o].amount
        /\ order'[o].state = order[o].state
    BY <1>0, <2>1, <2>2 DEF OrderRow
  <2>4. order[o].amount \in Nat /\ req[r].already + n <= order[o].amount
    BY <1>0, <1>4, <2>1, AmountsAreNumbers DEF AskRefund, LedgerInv, SnapshotInv, OrderRow
  <2> QED BY <2>1, <2>2, <2>3, <2>4 DEF RefundInv, captured
<1>5. ASSUME NEW r \in Requests, OpenOrder(r) PROVE refund' = refund
  BY <1>5 DEF OpenOrder
<1>6. ASSUME NEW o \in Orders, Capture(o) \/ Settle(o) \/ FailAttempt(o) \/ Expire(o)
      PROVE  refund' = refund
  BY <1>6 DEF Capture, Settle, FailAttempt, Expire
<1> QED BY <1>2, <1>3, <1>4, <1>5, <1>6, GatewayStep DEF gateway

\* A handler starts with a snapshot that is right.
LEMMA BeginSnapshot ==
  ASSUME LedgerInv, NEW r \in Requests, Begin(r)
  PROVE  \E s \in Request : Hold(r, s) /\ SnapshotInv(s)
<1>0. PICK s \in Request : Hold(r, s)
  BY BeginType DEF LedgerInv, Begin
<1>1. \A t : Hold(r, t) => t = s
  <2>1. req \in [Requests -> Request]
    BY DEF LedgerInv, TypeInv, TypeOK
  <2> QED BY <1>0, <2>1 DEF Hold, Proceed
<1>2. ASSUME s.op \notin {"store", "sync", "refund", "refunded", "reconcile"}
      PROVE  SnapshotInv(s)
  BY <1>2 DEF SnapshotInv
<1>3. ASSUME BeginCreate(r) \/ BeginVoid(r) \/ BeginRecompute(r)
      PROVE  SnapshotInv(s)
  <2>1. s.op \in {"create", "void", "recompute"}
    BY <1>1, <1>3 DEF BeginCreate, BeginVoid, BeginRecompute
  <2> QED BY <1>0, <1>2, <2>1
<1>4. ASSUME NEW o \in Orders, BeginIntent(r, o)
      PROVE  SnapshotInv(s)
  <2>1. s.op \in {"issue", "find"}
    BY <1>1, <1>4 DEF BeginIntent
  <2> QED BY <1>2, <2>1
<1>5. ASSUME NEW o \in Orders, NEW event, NEW result \in {"PAID", "FAILED"},
             Sync(r, o, result, event), result = "PAID" => captured(o)
      PROVE  SnapshotInv(s)
  <2>1. s.op = "sync" /\ s.o = o /\ s.result = result
    BY <1>1, <1>5 DEF Sync
  <2> QED BY <1>5, <2>1 DEF Sync, SnapshotInv
<1>6. ASSUME NEW o \in Orders, BeginConfirm(r, o)
      PROVE  SnapshotInv(s)
  BY <1>5, <1>6 DEF BeginConfirm
<1>7. ASSUME NEW o \in Orders, NEW amount \in Amounts, BeginRefund(r, o, amount)
      PROVE  SnapshotInv(s)
  <2>1. s.op = "refund" /\ s.o = o /\ s.already = payment[o].refunded /\ s.amount = amount
    BY <1>1, <1>7 DEF BeginRefund
  <2>2. /\ payment[o].status # "NONE" /\ payment[o].refunded <= order[o].accepted
        /\ order[o].state # "NONE" /\ payment[o].refunded + amount <= order[o].amount
    BY <1>7 DEF BeginRefund, LedgerInv, PaymentInv
  <2> QED BY <2>1, <2>2 DEF SnapshotInv
<1>8. ASSUME NEW event \in sent, Deliver(r, event)
      PROVE  SnapshotInv(s)
  <2>0. EventInv(event) /\ event \in Event /\ event.o \in Orders
    BY DEF LedgerInv, TypeInv, TypeOK, Event, PaymentEvent, RefundEvent
  <2>1. CASE BeginPaymentWebhook(r, event)
    BY <1>5, <2>0, <2>1 DEF BeginPaymentWebhook, EventInv
  <2>2. CASE BeginRefundWebhook(r, event)
    <3>1. s.op = "reconcile" /\ s.o = event.o /\ s.event = event
      BY <1>1, <2>2 DEF BeginRefundWebhook
    <3> QED BY <2>0, <2>2, <3>1 DEF BeginRefundWebhook, EventInv, SnapshotInv
  <2> QED BY <1>8, <2>1, <2>2 DEF Deliver
<1>9. SnapshotInv(s)
  BY <1>3, <1>4, <1>6, <1>7, <1>8 DEF Begin
<1> QED BY <1>0, <1>9

\* Only its own handler touches a snapshot.
LEMMA RequestStep ==
  ASSUME req \in [Requests -> Request], [Next]_vars, NEW q \in Requests
  PROVE  req'[q] = req[q] \/ Begin(q) \/ Advance(q) \/ Abandon(q)
<1>1. ASSUME NEW r \in Requests, Begin(r) \/ Advance(r) \/ Abandon(r)
      PROVE  \E s : req' = [req EXCEPT ![r] = s]
  <2>1. ASSUME Begin(r) PROVE \E s : Proceed(r, s)
    BY <2>1 DEF Begin, BeginCreate, BeginVoid, BeginRecompute, BeginIntent, BeginConfirm, BeginRefund,
                Deliver, BeginPaymentWebhook, BeginRefundWebhook, Sync, Hold
  <2>2. ASSUME Advance(r) PROVE \E s : Proceed(r, s)
    BY <2>2 DEF Advance, CommitIssue, CommitVoid, CommitRecompute, FindPending, OpenOrder, StorePayment,
                CommitSync, AskRefund, CommitRefund, CommitReconcile, Finish
  <2>3. ASSUME Abandon(r) PROVE \E s : Proceed(r, s)
    BY <2>3 DEF Abandon
  <2> QED BY <1>1, <2>1, <2>2, <2>3 DEF Proceed
<1>2. ASSUME NEW r \in Requests, Begin(r) \/ Advance(r) \/ Abandon(r), r # q
      PROVE  req'[q] = req[q]
  BY <1>1, <1>2
<1> QED
  BY <1>2 DEF Next, Reprice, Capture, Settle, FailAttempt, Expire, PayRefund, FailRefund, vars

\* Snapshots stay right while handlers go on.
LEMMA SnapshotStep ==
  ASSUME LedgerInv, [Next]_vars, NEW q \in Requests
  PROVE  SnapshotInv(req[q])'
<1>0. /\ req \in [Requests -> Request] /\ req' \in [Requests -> Request]
      /\ req[q] \in Request /\ SnapshotInv(req[q])
      /\ \A s \in Request : SnapshotInv(s) => SnapshotInv(s)'
  BY TypeStep, SnapshotKept DEF LedgerInv, RequestsTyped, TypeInv, TypeOK
<1>1. CASE req'[q] = req[q]
  BY <1>0, <1>1
<1>2. ASSUME Begin(q)
      PROVE  SnapshotInv(req[q])'
  <2>1. PICK s \in Request : Hold(q, s) /\ SnapshotInv(s)
    BY <1>2, BeginSnapshot
  <2>2. req'[q] = s
    BY <1>0, <2>1 DEF Hold, Proceed
  <2> QED BY <1>0, <2>1, <2>2
<1>3. ASSUME req'[q].op \notin {"store", "sync", "refund", "refunded", "reconcile"}
      PROVE  SnapshotInv(req[q])'
  BY <1>3 DEF SnapshotInv
<1>4. ASSUME Advance(q)
      PROVE  SnapshotInv(req[q])'
  <2>1. CASE OpenOrder(q)
    <3>1. req[q].o \in Orders /\ order \in [Orders -> OrderRow]
      BY <1>0, <2>1, SnapshotType, TypeParts DEF OpenOrder, LedgerInv, RowsTyped
    <3>2. CASE order[req[q].o].state = "NONE"
      <4>1. /\ req'[q] = [req[q] EXCEPT !.op = "store"]
            /\ order'[req[q].o] = [NoOrder EXCEPT !.state = "ACTIVE", !.amount = req[q].total]
        BY <1>0, <2>1, <3>1, <3>2 DEF OpenOrder, Proceed
      <4>2. /\ req'[q].op = "store" /\ req'[q].o = req[q].o /\ req'[q].total = req[q].total
        BY <1>0, <2>1, <4>1 DEF Request, OpenOrder, Idle
      <4> QED BY <4>1, <4>2 DEF SnapshotInv, NoOrder
    <3>3. CASE order[req[q].o].state # "NONE"
      BY <1>0, <1>3, <2>1, <3>3 DEF OpenOrder, Proceed, Idle
    <3> QED BY <3>2, <3>3
  <2>2. CASE AskRefund(q)
    <3>1. /\ req[q].o \in Orders /\ req[q].amount \in Nat /\ req[q].already \in Nat
          /\ order \in [Orders -> OrderRow] /\ order[req[q].o].accepted \in Nat
      BY <1>0, <2>2, SnapshotType, AmountsAreNumbers, TypeParts
      DEF AskRefund, LedgerInv, RowsTyped, OrderRow
    <3>2. /\ req[q].already <= order[req[q].o].accepted
          /\ req[q].already + req[q].amount <= order[req[q].o].amount
      BY <1>0, <2>2 DEF AskRefund, SnapshotInv
    <3>3. CASE req'[q] = Idle
      BY <1>3, <3>3 DEF Idle
    <3>4. CASE req'[q] = [req[q] EXCEPT !.op = "refunded"] /\ captured(req[q].o)
               /\ order' = [order EXCEPT ![req[q].o].accepted = @ + req[q].amount]
      <4>1. /\ req'[q].op = "refunded" /\ req'[q].o = req[q].o
            /\ req'[q].already = req[q].already /\ req'[q].amount = req[q].amount
        BY <1>0, <2>2, <3>4 DEF Request, AskRefund, Idle
      <4>2. /\ order'[req[q].o].accepted = order[req[q].o].accepted + req[q].amount
            /\ order'[req[q].o].amount = order[req[q].o].amount
        BY <3>1, <3>4 DEF OrderRow
      <4>3. captured(req[q].o)'
        BY <3>1, <3>4 DEF OrderRow, captured
      <4> QED BY <3>1, <3>2, <4>1, <4>2, <4>3 DEF SnapshotInv, captured
    <3> QED BY <1>0, <2>2, <3>3, <3>4 DEF AskRefund, Proceed
  <2>3. CASE CommitIssue(q)
    <3>1. req'[q] = Idle \/ (req[q].op = "issue" /\ req'[q] = [req[q] EXCEPT !.op = "find"])
      BY <1>0, <2>3 DEF CommitIssue, Proceed
    <3> QED BY <1>0, <1>3, <3>1 DEF Idle, Request
  <2>4. CASE FindPending(q)
    <3>1. req'[q] = Idle \/ (req[q].op = "find" /\ req'[q] = [req[q] EXCEPT !.op = "open"])
      BY <1>0, <2>4 DEF FindPending, Proceed
    <3> QED BY <1>0, <1>3, <3>1 DEF Idle, Request
  <2>5. CASE \/ CommitVoid(q) \/ CommitRecompute(q) \/ StorePayment(q)
             \/ CommitSync(q) \/ CommitRefund(q) \/ CommitReconcile(q)
    <3>1. req'[q] = Idle
      BY <1>0, <2>5 DEF CommitVoid, CommitRecompute, StorePayment, CommitSync, CommitRefund,
                        CommitReconcile, Finish, Proceed
    <3> QED BY <1>3, <3>1 DEF Idle
  <2> QED BY <1>4, <2>1, <2>2, <2>3, <2>4, <2>5 DEF Advance
<1>5. ASSUME Abandon(q)
      PROVE  SnapshotInv(req[q])'
  BY <1>0, <1>3, <1>5 DEF Abandon, Proceed, Idle
<1>6. req'[q] = req[q] \/ Begin(q) \/ Advance(q) \/ Abandon(q)
  BY <1>0, RequestStep
<1> QED BY <1>1, <1>2, <1>4, <1>5, <1>6

LEMMA OrderStep ==
  ASSUME LedgerInv, [Next]_vars, NEW o \in Orders
  PROVE  OrderInv(o)'
<1>0. /\ order \in [Orders -> OrderRow] /\ order' \in [Orders -> OrderRow]
      /\ OrderInv(o) /\ RequestsTyped
      /\ captured(o) => payment'[o].status # "NONE"
  BY TypeStep, TypeParts, RowsStay DEF LedgerInv, RowsTyped, OrderInv
<1>1. CASE order'[o] = order[o]
  BY <1>0, <1>1 DEF OrderInv, captured
<1>2. ASSUME NEW p \in Orders, Capture(p) \/ Settle(p) \/ FailAttempt(p) \/ Expire(p)
      PROVE  OrderInv(o)'
  <2>1. CASE p = o
    BY <1>0, <1>2, <2>1
    DEF Capture, Settle, FailAttempt, Expire, database, OrderInv, OrderRow, captured
  <2>2. CASE p # o
    BY <1>0, <1>1, <1>2, <2>2 DEF Capture, Settle, FailAttempt, Expire
  <2> QED BY <2>1, <2>2
<1>3. ASSUME NEW r \in Requests, OpenOrder(r), req[r].o = o, order[o].state = "NONE"
      PROVE  OrderInv(o)'
  <2>1. order'[o] = [NoOrder EXCEPT !.state = "ACTIVE", !.amount = req[r].total]
    BY <1>0, <1>3 DEF OpenOrder
  <2> QED BY <2>1 DEF OrderInv, captured, NoOrder
<1>4. ASSUME NEW r \in Requests, AskRefund(r), req[r].o = o
      PROVE  OrderInv(o)'
  <2>1. CASE order' = order
    BY <1>1, <2>1
  <2>2. CASE captured(o) /\ order' = [order EXCEPT ![o].accepted = @ + req[r].amount]
    <3>1. order'[o].state = order[o].state
      BY <1>0, <2>2 DEF OrderRow
    <3> QED BY <1>0, <2>2, <3>1 DEF OrderInv, captured
  <2> QED BY <1>4, <2>1, <2>2 DEF AskRefund
<1>5. ASSUME NEW r \in Requests, OpenOrder(r) \/ AskRefund(r)
      PROVE  OrderInv(o)'
  BY <1>0, <1>1, <1>3, <1>4, <1>5 DEF OpenOrder, AskRefund
<1>6. ASSUME NEW f \in RefundIds, PayRefund(f) \/ FailRefund(f)
      PROVE  OrderInv(o)'
  <2>1. refund[f].o \in Orders /\ captured(refund[f].o)
    BY <1>6, RefundType DEF PayRefund, FailRefund, LedgerInv, TypeInv, RefundInv
  <2>2. CASE refund[f].o = o
    <3>1. order'[o].state = order[o].state
      BY <1>0, <1>6, <2>2 DEF PayRefund, FailRefund, OrderRow
    <3> QED BY <1>0, <2>1, <2>2, <3>1 DEF OrderInv, captured
  <2>3. CASE refund[f].o # o
    BY <1>0, <1>1, <1>6, <2>1, <2>3 DEF PayRefund, FailRefund
  <2> QED BY <2>2, <2>3
<1> QED BY <1>1, <1>2, <1>5, <1>6, GatewayStep DEF gateway

LEMMA EventStep ==
  ASSUME LedgerInv, [Next]_vars, NEW event \in sent'
  PROVE  EventInv(event)'
<1>0. /\ order \in [Orders -> OrderRow] /\ RequestsTyped /\ sent \subseteq Event
  BY TypeParts DEF LedgerInv, RowsTyped
<1>1. CASE event \in sent
  BY <1>0, <1>1, EventKept DEF LedgerInv
<1>2. ASSUME NEW o \in Orders, Capture(o) \/ Settle(o) \/ FailAttempt(o) \/ Expire(o), event \notin sent
      PROVE  EventInv(event)'
  <2>1. \/ event.type = "failed"
        \/ event.type = "success" /\ event.o = o /\ order'[o].state = "AUTHORIZED"
    BY <1>0, <1>2 DEF Capture, Settle, FailAttempt, Expire, OrderRow
  <2> QED BY <2>1 DEF EventInv, captured
<1>3. ASSUME NEW f \in RefundIds, PayRefund(f) \/ FailRefund(f), event \notin sent
      PROVE  EventInv(event)'
  <2> DEFINE o == refund[f].o
             n == refund[f].amount
  <2>0. refund[f].state = "PENDING"
    BY <1>3 DEF PayRefund, FailRefund
  <2>1. o \in Orders /\ n \in Nat
    BY <2>0, RefundType, AmountsAreNumbers DEF LedgerInv, TypeInv
  <2>2. captured(o) /\ n <= order[o].accepted /\ n <= order[o].amount
    BY <2>0 DEF LedgerInv, RefundInv
  <2>3. /\ event.type = "refund" /\ event.o = o /\ event.amount = n
        /\ event.status = "SUCCESS" => order' = [order EXCEPT ![o].refunded = @ + n]
    BY <1>3 DEF PayRefund, FailRefund
  <2>4. order[o].refunded \in Nat
    BY <1>0, <2>1 DEF OrderRow
  <2>5. order'[o].state \in {"AUTHORIZED", "PAID"}
    BY <2>1, <2>2, GatewayOnlyGrows DEF captured
  <2>6. ASSUME event.status = "SUCCESS"
        PROVE  n <= order'[o].refunded /\ n <= order'[o].accepted /\ n <= order'[o].amount
    <3>1. /\ order'[o].refunded = order[o].refunded + n
          /\ order'[o].accepted = order[o].accepted
          /\ order'[o].amount = order[o].amount
      BY <1>0, <2>1, <2>3, <2>6 DEF OrderRow
    <3> QED BY <2>1, <2>2, <2>4, <3>1
  <2> HIDE DEF o, n
  <2> QED BY <2>3, <2>5, <2>6 DEF EventInv, captured
<1>4. ASSUME NEW r \in Requests, OpenOrder(r) \/ AskRefund(r) PROVE sent' = sent
  BY <1>4 DEF OpenOrder, AskRefund
<1> QED BY <1>1, <1>2, <1>3, <1>4, GatewayStep DEF gateway

LEMMA PaymentStep ==
  ASSUME LedgerInv, [Next]_vars, NEW o \in Orders
  PROVE  PaymentInv(o)'
<1>0. /\ payment \in [Orders -> PaymentRow] /\ order \in [Orders -> OrderRow]
      /\ order' \in [Orders -> OrderRow] /\ payment' \in [Orders -> PaymentRow]
      /\ RequestsTyped
      /\ PaymentInv(o) /\ OrderInv(o)'
      /\ \A r \in Requests : SnapshotInv(req[r])
  BY TypeStep, TypeParts, OrderStep DEF LedgerInv, RowsTyped
<1>g. /\ order[o].state # "NONE" => order'[o].state # "NONE" /\ order'[o].amount = order[o].amount
      /\ order[o].accepted <= order'[o].accepted
      /\ captured(o) => captured(o)'
      /\ settled => settled'
  BY GatewayOnlyGrows, RowsStay
<1>n. /\ order[o].accepted \in Nat /\ order'[o].accepted \in Nat /\ payment[o].refunded \in Nat
      /\ order'[o].amount \in Nat /\ order[o].amount \in Nat
  <2>1. order[o] \in OrderRow /\ order'[o] \in OrderRow /\ payment[o] \in PaymentRow
    BY <1>0
  <2>2. Totals \cup {0} \subseteq Nat
    BY AmountsAreNumbers
  <2> QED BY <2>1, <2>2 DEF OrderRow, PaymentRow
<1>s. order[o].state = "NONE" => order[o].accepted = 0 /\ payment[o].status = "NONE"
  BY <1>0 DEF LedgerInv, OrderInv, PaymentInv
<1>p. captured(o) => order[o].state # "NONE"
  BY DEF captured
<1>1. CASE payment'[o] = payment[o]
  <2>1. payment[o].refunded <= order'[o].accepted /\ payment[o].refunded <= order'[o].amount
    BY <1>0, <1>g, <1>n, <1>s DEF PaymentInv
  <2> QED BY <1>0, <1>1, <1>g, <1>n, <1>s, <1>p, <2>1 DEF PaymentInv, PaidStatus, captured
<1>2. ASSUME NEW r \in Requests, StorePayment(r), req[r].o = o
      PROVE  PaymentInv(o)'
  <2>1. payment'[o] = [status |-> "PENDING", amount |-> req[r].total, refunded |-> 0]
    BY <1>0, <1>2 DEF StorePayment
  <2>2. order[o].state # "NONE" /\ order[o].amount = req[r].total
    BY <1>0, <1>2 DEF StorePayment, SnapshotInv
  <2> QED BY <1>g, <1>n, <2>1, <2>2 DEF PaymentInv, PaidStatus, captured
<1>3. ASSUME NEW r \in Requests, CommitSync(r), req[r].o = o
      PROVE  PaymentInv(o)'
  <2>1. payment[o].status # "NONE" /\ (req[r].result = "PAID" => captured(o))
    BY <1>0, <1>3 DEF CommitSync, SnapshotInv
  <2>2. CASE /\ payment'[o].status = "SUCCEEDED" /\ req[r].result = "PAID"
             /\ invoice'.status = "PAID"
             /\ payment'[o].amount = payment[o].amount /\ payment'[o].refunded = payment[o].refunded
    BY <1>0, <1>g, <1>n, <1>p, <2>1, <2>2 DEF PaymentInv, PaidStatus, captured, settled
  <2>3. CASE /\ payment'[o].status = "FAILED"
             /\ payment'[o].amount = payment[o].amount /\ payment'[o].refunded = payment[o].refunded
    BY <1>0, <1>g, <1>n, <2>1, <2>3 DEF PaymentInv, PaidStatus, captured
  <2>4. invoice \in InvoiceRow
    BY TypeParts DEF LedgerInv, RowsTyped
  <2> QED BY <1>0, <1>1, <1>3, <2>2, <2>3, <2>4 DEF CommitSync, PaymentRow, InvoiceRow
<1>4. ASSUME NEW n \in Nat, n <= order[o].accepted, n <= order[o].amount,
             captured(o), order' = order,
             payment' = [payment EXCEPT ![o].refunded = n, ![o].status = refundStatus(o, n)]
      PROVE  PaymentInv(o)'
  <2>1. /\ payment'[o].status = refundStatus(o, n)
        /\ payment'[o].amount = payment[o].amount /\ payment'[o].refunded = n
    BY <1>0, <1>4 DEF PaymentRow
  <2>2. payment[o].status # "NONE" /\ order[o].state # "NONE" /\ payment[o].amount = order[o].amount
    BY <1>0, <1>4 DEF LedgerInv, OrderInv, PaymentInv
  <2> QED BY <1>4, <1>g, <1>n, <2>1, <2>2 DEF PaymentInv, PaidStatus, refundStatus, captured
<1>5. ASSUME NEW r \in Requests, CommitRefund(r), req[r].o = o
      PROVE  PaymentInv(o)'
  <2>1. /\ req[r].already + req[r].amount \in Nat
        /\ req[r].already + req[r].amount <= order[o].accepted
        /\ req[r].already + req[r].amount <= order[o].amount
        /\ captured(o)
    BY <1>0, <1>5, SnapshotType, AmountsAreNumbers DEF CommitRefund, SnapshotInv, RequestsTyped
  <2> QED BY <1>4, <1>5, <2>1 DEF CommitRefund, gateway
<1>6. ASSUME NEW r \in Requests, CommitReconcile(r), req[r].o = o
      PROVE  PaymentInv(o)'
  <2>1. /\ req[r].event.amount \in Nat /\ captured(o)
        /\ req[r].event.amount <= order[o].accepted /\ req[r].event.amount <= order[o].amount
    BY <1>0, <1>6, SnapshotType, AmountsAreNumbers
    DEF CommitReconcile, SnapshotInv, RequestsTyped, RefundEvent
  <2> QED BY <1>4, <1>6, <2>1 DEF CommitReconcile, gateway
<1>7. ASSUME NEW r \in Requests,
             \/ StorePayment(r) \/ CommitSync(r) \/ CommitRefund(r) \/ CommitReconcile(r),
             req[r].o # o
      PROVE  payment'[o] = payment[o]
  BY <1>0, <1>7 DEF StorePayment, CommitSync, CommitRefund, CommitReconcile
<1>8. ASSUME NEW r \in Requests, CommitIssue(r) \/ CommitVoid(r) \/ CommitRecompute(r)
      PROVE  payment' = payment
  BY <1>8 DEF CommitIssue, CommitVoid, CommitRecompute
<1> QED BY <1>1, <1>2, <1>3, <1>5, <1>6, <1>7, <1>8, DatabaseStep

LEMMA InvoiceStep ==
  ASSUME LedgerInv, [Next]_vars
  PROVE  InvoiceInv'
<1>0. /\ invoice \in InvoiceRow /\ RequestsTyped
      /\ \A r \in Requests : SnapshotInv(req[r])
  BY TypeParts DEF LedgerInv, RowsTyped
<1>1. ASSUME NEW o \in Orders, captured(o), payment[o].status # "NONE"
      PROVE  InvoiceInv'
  BY <1>1, GatewayOnlyGrows, RowsStay DEF InvoiceInv, captured
<1>2. CASE invoice.status = "PAID"
  BY <1>1, <1>2 DEF LedgerInv, InvoiceInv
<1>3. CASE invoice'.status # "PAID"
  BY <1>3 DEF InvoiceInv
<1>4. CASE invoice.status # "PAID" /\ invoice'.status = "PAID"
  <2>1. PICK r \in Requests : CommitSync(r) /\ req[r].result = "PAID"
    <3>1. ASSUME NEW r \in Requests, CommitIssue(r) \/ CommitVoid(r) \/ CommitRecompute(r)
          PROVE  invoice'.status \in {invoice.status, "ISSUED", "VOID"}
      BY <1>0, <3>1 DEF CommitIssue, CommitVoid, CommitRecompute, InvoiceRow
    <3>2. ASSUME NEW r \in Requests, StorePayment(r) \/ CommitRefund(r) \/ CommitReconcile(r)
          PROVE  invoice' = invoice
      BY <3>2 DEF StorePayment, CommitRefund, CommitReconcile
    <3>3. ASSUME NEW r \in Requests, CommitSync(r), req[r].result # "PAID"
          PROVE  invoice' = invoice
      BY <3>3 DEF CommitSync
    <3> QED BY <1>4, <3>1, <3>2, <3>3, DatabaseStep
  <2>2. req[r].o \in Orders /\ captured(req[r].o) /\ payment[req[r].o].status # "NONE"
    BY <1>0, <2>1, SnapshotType DEF CommitSync, SnapshotInv, RequestsTyped
  <2> QED BY <1>1, <2>2
<1> QED BY <1>2, <1>3, <1>4

\* A handler that goes on is the one it was, in its next phase, or done.
LEMMA AdvancePhase ==
  ASSUME TypeInv, NEW q \in Requests, Advance(q)
  PROVE  \/ req'[q] = Idle
         \/ req'[q].op \in {"find", "open", "refunded"}
         \/ /\ OpenOrder(q) /\ order[req[q].o].state = "NONE"
            /\ req'[q].op = "store" /\ req'[q].o = req[q].o
<1>0. req \in [Requests -> Request] /\ req[q] \in Request
  BY DEF TypeInv, TypeOK
<1>1. CASE CommitIssue(q)
  <2>1. req'[q] = Idle \/ (req[q].op = "issue" /\ req'[q] = [req[q] EXCEPT !.op = "find"])
    BY <1>0, <1>1 DEF CommitIssue, Proceed
  <2> QED
    BY <1>0, <2>1 DEF Request, Idle
<1>2. CASE FindPending(q)
  <2>1. req'[q] = Idle \/ (req[q].op = "find" /\ req'[q] = [req[q] EXCEPT !.op = "open"])
    BY <1>0, <1>2 DEF FindPending, Proceed
  <2> QED
    BY <1>0, <2>1 DEF Request, Idle
<1>3. CASE OpenOrder(q)
  <2>1. \/ req'[q] = Idle
        \/ /\ order[req[q].o].state = "NONE" /\ req[q].op = "open"
           /\ req'[q] = [req[q] EXCEPT !.op = "store"]
    BY <1>0, <1>3 DEF OpenOrder, Proceed
  <2> QED
    BY <1>0, <1>3, <2>1 DEF Request, Idle
<1>4. CASE AskRefund(q)
  <2>1. req'[q] = Idle \/ (req[q].op = "refund" /\ req'[q] = [req[q] EXCEPT !.op = "refunded"])
    BY <1>0, <1>4 DEF AskRefund, Proceed
  <2> QED
    BY <1>0, <2>1 DEF Request, Idle
<1>5. CASE \/ CommitVoid(q) \/ CommitRecompute(q) \/ StorePayment(q)
           \/ CommitSync(q) \/ CommitRefund(q) \/ CommitReconcile(q)
  BY <1>0, <1>5 DEF CommitVoid, CommitRecompute, StorePayment, CommitSync, CommitRefund,
                    CommitReconcile, Finish, Proceed
<1> QED
  BY <1>1, <1>2, <1>3, <1>4, <1>5 DEF Advance

\* A void in flight began before the invoice was paid.
LEMMA VoidInvStep ==
  ASSUME LedgerInv, [Next]_vars
  PROVE  VoidInv'
<1>0. /\ req \in [Requests -> Request] /\ req' \in [Requests -> Request]
      /\ invoice \in InvoiceRow
  BY TypeStep, TypeParts DEF LedgerInv, RowsTyped, TypeInv, TypeOK
<1> SUFFICES ASSUME NEW q \in Requests, req'[q].op = "void", invoice'.status = "PAID"
             PROVE  crossed'
  BY DEF VoidInv
<1>1. CASE req'[q] # req[q]
  <2>1. ASSUME Begin(q) PROVE FALSE
    <3>1. PICK s \in Request : Hold(q, s) /\ UNCHANGED invoice
      BY <2>1, BeginType DEF Hold, database, LedgerInv
    <3>2. s.op = "void" /\ Hold(q, s) /\ invoice.status = "PAID"
      BY <1>0, <3>1 DEF Hold, Proceed
    <3>3. \A t : Hold(q, t) => t.op = "void"
      BY <1>0, <3>2 DEF Hold, Proceed
    <3>4. ~BeginVoid(q)
      BY <3>2 DEF BeginVoid, VOIDABLE_STATUSES
    <3>5. ~BeginCreate(q) /\ ~BeginRecompute(q)
      BY <3>3 DEF BeginCreate, BeginRecompute
    <3>6. \A o \in Orders : ~BeginIntent(q, o)
      BY <3>3 DEF BeginIntent
    <3>7. \A o, result, event : ~Sync(q, o, result, event)
      BY <3>3 DEF Sync
    <3>8. \A o \in Orders, amount \in Amounts : ~BeginRefund(q, o, amount)
      BY <3>3 DEF BeginRefund
    <3>9. \A event \in sent : ~BeginRefundWebhook(q, event)
      BY <3>3 DEF BeginRefundWebhook
    <3> QED
      BY <2>1, <3>4, <3>5, <3>6, <3>7, <3>8, <3>9
      DEF Begin, Deliver, BeginConfirm, BeginPaymentWebhook
  <2>2. ASSUME Advance(q) PROVE FALSE
    BY <2>2, AdvancePhase DEF LedgerInv, Idle
  <2>3. ASSUME Abandon(q) PROVE FALSE
    BY <1>0, <2>3 DEF Abandon, Proceed, Idle
  <2> QED
    BY <1>0, <1>1, <2>1, <2>2, <2>3, RequestStep
<1>2. CASE req'[q] = req[q] /\ invoice.status = "PAID"
  BY <1>2, CrossedStep DEF LedgerInv, VoidInv
<1>3. CASE req'[q] = req[q] /\ invoice.status # "PAID"
  <2>1. PICK r \in Requests : CommitSync(r) /\ invoice' # invoice
    <3>1. ASSUME NEW r \in Requests, CommitIssue(r) \/ CommitVoid(r) \/ CommitRecompute(r)
          PROVE  invoice'.status \in {invoice.status, "ISSUED", "VOID"}
      BY <1>0, <3>1 DEF CommitIssue, CommitVoid, CommitRecompute, InvoiceRow
    <3>2. ASSUME NEW r \in Requests, StorePayment(r) \/ CommitRefund(r) \/ CommitReconcile(r)
          PROVE  invoice' = invoice
      BY <3>2 DEF StorePayment, CommitRefund, CommitReconcile
    <3> QED BY <1>3, <3>1, <3>2, DatabaseStep
  <2> QED
    BY <1>3, <2>1 DEF CommitSync, Cross
<1> QED
  BY <1>1, <1>2, <1>3

\* The ledger invariant is inductive.
LEMMA LedgerHolds == Spec => []LedgerInv
<1>1. Init => LedgerInv
  <2> SUFFICES ASSUME Init PROVE LedgerInv
    OBVIOUS
  <2>1. TypeInv
    BY TypeInit
  <2>2. \A o \in Orders : OrderInv(o) /\ PaymentInv(o)
    <3> SUFFICES ASSUME NEW o \in Orders PROVE OrderInv(o) /\ PaymentInv(o)
      OBVIOUS
    <3>1. payment[o] = NoPayment /\ order[o] = NoOrder
      BY DEF Init
    <3> QED BY <3>1 DEF OrderInv, PaymentInv, PaidStatus, captured, NoPayment, NoOrder
  <2>3. \A f \in RefundIds : RefundInv(f)
    BY DEF Init, RefundInv, NoRefund
  <2> QED BY <2>1, <2>2, <2>3 DEF Init, LedgerInv, InvoiceInv, VoidInv, SnapshotInv, Idle
<1>2. LedgerInv /\ [Next]_vars => LedgerInv'
  <2> SUFFICES ASSUME LedgerInv, [Next]_vars PROVE LedgerInv'
    OBVIOUS
  <2>1. TypeInv'
    BY TypeStep DEF LedgerInv
  <2> QED
    BY <2>1, OrderStep, PaymentStep, RefundStep, InvoiceStep, VoidInvStep, EventStep, SnapshotStep
    DEF LedgerInv
<1> QED BY <1>1, <1>2, PTL DEF Spec

\* No payment and no invoice is shown as paid unless the gateway captured it.
THEOREM PhantomFree == Spec => []NoPhantomPayment
<1>1. LedgerInv => NoPhantomPayment
  BY DEF LedgerInv, PaymentInv, InvoiceInv, NoPhantomPayment, PaidStatus
<1> QED BY <1>1, LedgerHolds, PTL

\* A successful payment's invoice is paid, or void because the two have crossed.
THEOREM SettlementCorrect == Spec => []PaymentSettlesInvoice
<1>1. LedgerInv => PaymentSettlesInvoice
  BY DEF LedgerInv, PaymentInv, PaymentSettlesInvoice
<1> QED BY <1>1, LedgerHolds, PTL

\* What a payment row asks is what the gateway charges.
THEOREM AmountCorrect == Spec => []OrderMatchesPayment
<1>1. LedgerInv => OrderMatchesPayment
  BY DEF LedgerInv, PaymentInv, OrderMatchesPayment
<1> QED BY <1>1, LedgerHolds, PTL

\* The refunded total never runs ahead of what the gateway has accepted to refund, and
\* REFUNDED is written only when it has accepted the whole amount.
THEOREM RefundsAccepted == Spec => []RefundsWereAccepted
<1>1. LedgerInv => RefundsWereAccepted
  BY DEF LedgerInv, PaymentInv, RefundsWereAccepted
<1> QED BY <1>1, LedgerHolds, PTL

\* What a webhook writes has been paid out to the customer by then (handleRefundWebhook).
THEOREM ReconciledPaidOut == Spec => ReconciledWasPaidOut
<1>1. ASSUME LedgerInv, [Next]_vars, NEW r \in Requests, CommitReconcile(r)
      PROVE  payment'[req[r].o].refunded <= order[req[r].o].refunded
  <2>1. /\ req[r] \in Request /\ req[r].op = "reconcile" /\ SnapshotInv(req[r])
        /\ payment \in [Orders -> PaymentRow]
    BY <1>1, TypeParts DEF CommitReconcile, LedgerInv, RowsTyped, TypeInv, TypeOK
  <2>2. req[r].o \in Orders
    BY <2>1, SnapshotType
  <2>3. payment'[req[r].o].refunded = req[r].event.amount
    BY <1>1, <2>1, <2>2 DEF CommitReconcile, PaymentRow
  <2> QED BY <2>1, <2>3 DEF SnapshotInv
<1>2. LedgerInv /\ [Next]_vars =>
        [\A r \in Requests :
           CommitReconcile(r) => payment'[req[r].o].refunded <= order[req[r].o].refunded]_vars
  BY <1>1
<1> QED BY <1>2, LedgerHolds, PTL DEF ReconciledWasPaidOut, Spec

-----------------------------------------------------------------------------
(* What has been handled stays recorded.                                   *)

Open == {"NONE", "PENDING", "PROCESSING"}

Recorded(o) == payment[o].status \notin Open /\ settled

\* A payment row is inserted by one handler, and once: nobody else has opened its order.
StoreInv ==
  /\ \A r \in Requests : req[r].op = "store" => payment[req[r].o].status = "NONE"
  /\ \A q, r \in Requests :
       req[q].op = "store" /\ req[r].op = "store" /\ req[q].o = req[r].o => q = r

\* What a sync in flight rests on: a success it skips has been recorded, and the event it
\* will finish with is the one it acts on.
SyncInv(s) ==
  /\ s.op = "sync" /\ s.result = "PAID" /\ s.seen = "SUCCEEDED" => Recorded(s.o)
  /\ s.op = "sync" /\ s.event.type = "success" => s.result = "PAID" /\ s.o = s.event.o

RecordInv ==
  /\ LedgerInv
  /\ StoreInv
  /\ \A r \in Requests : SyncInv(req[r])
  /\ HandledIsRecorded

\* A handler that begins stores nothing, and what it has read is so.
LEMMA BeginSync ==
  ASSUME RecordInv, NEW r \in Requests, Begin(r)
  PROVE  \E s \in Request : Hold(r, s) /\ s.op # "store" /\ SyncInv(s)
<1>0. LedgerInv /\ TypeInv /\ sent \subseteq Event
  BY DEF RecordInv, LedgerInv, TypeInv, TypeOK
<1>1. ASSUME NEW o \in Orders, NEW result \in {"PAID", "FAILED"},
             NEW event \in PaymentEvent \cup {NoEvent}, Sync(r, o, result, event),
             event.type = "success" => result = "PAID" /\ event.o = o
      PROVE  \E s \in Request : Hold(r, s) /\ s.op # "store" /\ SyncInv(s)
  <2> DEFINE s == [op |-> "sync", o |-> o, result |-> result, seen |-> payment[o].status,
                   event |-> event]
  <2>1. payment[o].status \in PaymentStatus
    BY <1>0, <1>1 DEF Sync, TypeInv, TypeOK
  <2>2. s \in Request
    BY <2>1 DEF Request
  <2>3. payment[o].status = "SUCCEEDED" => Recorded(o)
    BY <1>0 DEF LedgerInv, PaymentInv, Recorded, Open
  <2>4. SyncInv(s)
    BY <1>1, <2>3 DEF SyncInv
  <2> QED
    BY <1>1, <2>2, <2>4 DEF Sync
<1>2. ASSUME NEW s \in Request, Hold(r, s),
             s.op \in {"create", "void", "recompute", "issue", "find", "refund"}
      PROVE  \E t \in Request : Hold(r, t) /\ t.op # "store" /\ SyncInv(t)
  BY <1>2 DEF SyncInv
<1>3. PICK s \in Request : Hold(r, s)
  BY <1>0, BeginType
<1>4. req' = [req EXCEPT ![r] = s] /\ req \in [Requests -> Request]
  BY <1>0, <1>3 DEF Hold, Proceed, TypeInv, TypeOK
<1>5. CASE BeginCreate(r) \/ BeginVoid(r) \/ BeginRecompute(r)
           \/ \E o \in Orders : BeginIntent(r, o)
  <2>1. req'[r].op \in {"create", "void", "recompute", "issue", "find"}
    <3>1. ASSUME NEW t, Hold(r, t), t.op \in {"create", "void", "recompute", "issue", "find"}
          PROVE  req'[r].op \in {"create", "void", "recompute", "issue", "find"}
      BY <1>4, <3>1 DEF Hold, Proceed
    <3>2. CASE BeginCreate(r)
      BY <3>1, <3>2 DEF BeginCreate
    <3>3. CASE BeginVoid(r)
      BY <3>1, <3>3 DEF BeginVoid
    <3>4. CASE BeginRecompute(r)
      BY <3>1, <3>4 DEF BeginRecompute
    <3>5. CASE \E o \in Orders : BeginIntent(r, o)
      BY <3>1, <3>5 DEF BeginIntent
    <3> QED
      BY <1>5, <3>2, <3>3, <3>4, <3>5
  <2> QED
    BY <1>2, <1>3, <1>4, <2>1
<1>6. CASE \E o \in Orders, amount \in Amounts : BeginRefund(r, o, amount)
  <2>1. req'[r].op = "refund"
    BY <1>4, <1>6 DEF BeginRefund, Hold, Proceed
  <2> QED
    BY <1>2, <1>3, <1>4, <2>1
<1>7. ASSUME NEW o \in Orders, BeginConfirm(r, o)
      PROVE  \E t \in Request : Hold(r, t) /\ t.op # "store" /\ SyncInv(t)
  <2>1. NoEvent \in PaymentEvent \cup {NoEvent} /\ NoEvent.type = "none"
    BY DEF NoEvent
  <2>2. Sync(r, o, "PAID", NoEvent) \/ Sync(r, o, "FAILED", NoEvent)
    BY <1>7 DEF BeginConfirm
  <2> QED
    BY <1>1, <2>1, <2>2
<1>8. ASSUME NEW event \in sent, BeginPaymentWebhook(r, event)
      PROVE  \E t \in Request : Hold(r, t) /\ t.op # "store" /\ SyncInv(t)
  <2>1. event \in PaymentEvent /\ event.o \in Orders
    BY <1>0, <1>8 DEF BeginPaymentWebhook, Event, PaymentEvent, RefundEvent
  <2>2. \/ event.type = "success" /\ Sync(r, event.o, "PAID", event)
        \/ event.type = "failed" /\ Sync(r, event.o, "FAILED", event)
    BY <1>8 DEF BeginPaymentWebhook
  <2> QED
    BY <1>1, <2>1, <2>2
<1>9. ASSUME NEW event \in sent, BeginRefundWebhook(r, event)
      PROVE  \E t \in Request : Hold(r, t) /\ t.op # "store" /\ SyncInv(t)
  <2>1. event \in RefundEvent /\ event.o \in Orders
    BY <1>0, <1>9 DEF BeginRefundWebhook, Event, PaymentEvent, RefundEvent
  <2> DEFINE t == [op |-> "reconcile", o |-> event.o, event |-> event]
  <2>2. t \in Request /\ Hold(r, t)
    BY <1>9, <2>1 DEF BeginRefundWebhook, Request
  <2>3. SyncInv(t)
    BY <1>9 DEF BeginRefundWebhook, SyncInv
  <2> QED
    BY <2>2, <2>3
<1> QED
  BY <1>5, <1>6, <1>7, <1>8, <1>9 DEF Begin, Deliver

\* A payment that is recorded stays so.
LEMMA RecordedStays ==
  ASSUME RecordInv, [Next]_vars, NEW o \in Orders, Recorded(o)
  PROVE  Recorded(o)'
<1>0. /\ payment \in [Orders -> PaymentRow] /\ LedgerInv
      /\ settled'
  BY TypeParts, RowsStay DEF RecordInv, LedgerInv, RowsTyped, Recorded
<1>1. CASE payment'[o].status = payment[o].status
  BY <1>0, <1>1 DEF Recorded
<1>2. ASSUME NEW r \in Requests, StorePayment(r)
      PROVE  payment'[o] = payment[o]
  <2>1. req[r].o # o
    BY <1>2 DEF StorePayment, RecordInv, StoreInv, Recorded, Open
  <2> QED
    BY <1>0, <1>2, <2>1 DEF StorePayment
<1>3. ASSUME NEW r \in Requests, CommitSync(r)
      PROVE  payment'[o].status \in {payment[o].status, "SUCCEEDED", "FAILED"}
  BY <1>0, <1>3 DEF CommitSync, PaymentRow
<1>4. ASSUME NEW r \in Requests, CommitRefund(r) \/ CommitReconcile(r)
      PROVE  payment'[o].status \in {payment[o].status, "REFUNDED", "PARTIALLY_REFUNDED"}
  BY <1>0, <1>4 DEF CommitRefund, CommitReconcile, refundStatus, PaymentRow
<1>5. ASSUME NEW r \in Requests, CommitIssue(r) \/ CommitVoid(r) \/ CommitRecompute(r)
      PROVE  payment' = payment
  BY <1>5 DEF CommitIssue, CommitVoid, CommitRecompute
<1>6. payment'[o].status \in {payment[o].status, "SUCCEEDED", "FAILED", "REFUNDED",
                              "PARTIALLY_REFUNDED"}
  BY <1>2, <1>3, <1>4, <1>5, DatabaseStep
<1> QED
  BY <1>0, <1>6 DEF Recorded, Open

\* What a snapshot rests on stays so.
LEMMA SyncKept ==
  ASSUME RecordInv, [Next]_vars, NEW s \in Request, SyncInv(s)
  PROVE  SyncInv(s)'
<1>1. s.op = "sync" => s.o \in Orders
  BY SnapshotType
<1> QED
  BY <1>1, RecordedStays DEF SyncInv

\* Any request after a step: as it was, newly begun, on its way to a refund or an order,
\* or with an order it has just opened.
LEMMA RequestAfter ==
  ASSUME RecordInv, [Next]_vars, NEW q \in Requests
  PROVE  \/ req'[q] = req[q]
         \/ req'[q] \in Request /\ req'[q].op # "store" /\ SyncInv(req'[q])
         \/ /\ OpenOrder(q) /\ order[req[q].o].state = "NONE"
            /\ req'[q].op = "store" /\ req'[q].o = req[q].o
<1>0. TypeInv /\ req \in [Requests -> Request] /\ req' \in [Requests -> Request]
  BY TypeStep DEF RecordInv, LedgerInv, TypeInv, TypeOK
<1>1. CASE Begin(q)
  <2>1. PICK s \in Request : Hold(q, s) /\ s.op # "store" /\ SyncInv(s)
    BY <1>1, BeginSync
  <2> QED
    BY <1>0, <2>1 DEF Hold, Proceed
<1>2. CASE Advance(q)
  BY <1>0, <1>2, AdvancePhase DEF SyncInv, Idle
<1>3. CASE Abandon(q)
  BY <1>0, <1>3 DEF Abandon, Proceed, SyncInv, Idle
<1> QED
  BY <1>0, <1>1, <1>2, <1>3, RequestStep

\* An order is opened once, and its payment row inserted by the handler that opened it.
LEMMA StoreStep ==
  ASSUME RecordInv, [Next]_vars
  PROVE  StoreInv'
<1>0. /\ LedgerInv /\ StoreInv /\ req' \in [Requests -> Request]
      /\ payment \in [Orders -> PaymentRow]
  BY TypeStep, TypeParts DEF RecordInv, LedgerInv, TypeInv, TypeOK, RowsTyped
<1>1. ASSUME NEW q \in Requests, req'[q].op = "store"
      PROVE  /\ req'[q].o \in Orders
             /\ payment[req'[q].o].status = "NONE"
             /\ \/ req'[q] = req[q]
                \/ OpenOrder(q) /\ order[req'[q].o].state = "NONE"
  <2>1. \/ req'[q] = req[q]
        \/ OpenOrder(q) /\ order[req'[q].o].state = "NONE"
    BY <1>1, RequestAfter
  <2>2. req'[q].o \in Orders
    BY <1>0, <1>1, SnapshotType
  <2> QED
    BY <1>0, <1>1, <2>1, <2>2 DEF StoreInv, LedgerInv, PaymentInv
<1>2. ASSUME NEW q \in Requests, req[q].op = "store"
      PROVE  order[req[q].o].state # "NONE"
  BY <1>0, <1>2 DEF LedgerInv, SnapshotInv
<1>3. ASSUME NEW p \in Requests, NEW q \in Requests, OpenOrder(p), OpenOrder(q)
      PROVE  p = q
  <2>1. \E x, y : req' = [req EXCEPT ![p] = x] /\ req' = [req EXCEPT ![q] = y] /\ x # req[p]
    <3>1. \E x : req' = [req EXCEPT ![p] = x] /\ x.op # "open"
      BY <1>0, <1>3, SnapshotType DEF OpenOrder, Proceed, Idle, LedgerInv, TypeInv, TypeOK, Request
    <3> QED
      BY <1>3, <3>1 DEF OpenOrder, Proceed
  <2> QED
    BY <1>0, <2>1 DEF LedgerInv, TypeInv, TypeOK
<1>4. ASSUME NEW q \in Requests, NEW r \in Requests, req'[q].op = "store", req'[r].op = "store",
             req'[q].o = req'[r].o
      PROVE  q = r
  <2>1. CASE req'[q] = req[q] /\ req'[r] = req[r]
    BY <1>0, <1>4, <2>1 DEF StoreInv
  <2>2. CASE OpenOrder(q) /\ OpenOrder(r)
    BY <1>3, <2>2
  <2>3. CASE req'[q] = req[q] /\ order[req'[r].o].state = "NONE"
    BY <1>2, <1>4, <2>3
  <2>4. CASE req'[r] = req[r] /\ order[req'[q].o].state = "NONE"
    BY <1>2, <1>4, <2>4
  <2> QED
    BY <1>1, <1>4, <2>1, <2>2, <2>3, <2>4
<1>5. ASSUME NEW q \in Requests, req'[q].op = "store"
      PROVE  payment'[req'[q].o].status = "NONE"
  <2> DEFINE o == req'[q].o
  <2>1. o \in Orders /\ payment[o].status = "NONE"
    BY <1>1, <1>5
  <2>2. CASE UNCHANGED payment
    BY <2>1, <2>2
  <2>3. ASSUME NEW r \in Requests, StorePayment(r)
        PROVE  payment'[o] = payment[o]
    <3>1. req[r].op = "store" /\ req' = [req EXCEPT ![r] = Idle]
          /\ req \in [Requests -> Request]
      BY <1>0, <2>3 DEF StorePayment, Proceed, LedgerInv, TypeInv, TypeOK
    <3>2. q # r /\ req'[q] = req[q]
      BY <1>5, <3>1 DEF Idle
    <3>3. req[r].o # o
      BY <1>0, <1>5, <3>1, <3>2 DEF StoreInv
    <3> QED
      BY <1>0, <2>1, <2>3, <3>3 DEF StorePayment
  <2>4. ASSUME NEW r \in Requests, CommitSync(r) \/ CommitRefund(r) \/ CommitReconcile(r)
        PROVE  payment'[o] = payment[o]
    <3>1. captured(req[r].o) \/ payment[req[r].o].status # "NONE"
      BY <1>0, <2>4 DEF CommitSync, CommitRefund, CommitReconcile, LedgerInv, SnapshotInv
    <3>2. req[r].o \in Orders
      <4>1. req[r] \in Request /\ req[r].op \in {"sync", "refunded", "reconcile"}
        BY <1>0, <2>4 DEF CommitSync, CommitRefund, CommitReconcile, LedgerInv, TypeInv, TypeOK
      <4> QED
        BY <4>1, SnapshotType
    <3>3. payment[req[r].o].status # "NONE"
      BY <1>0, <3>1, <3>2 DEF LedgerInv, OrderInv
    <3>4. req[r].o # o
      BY <2>1, <3>3
    <3> QED
      BY <1>0, <2>1, <2>4, <3>4 DEF CommitSync, CommitRefund, CommitReconcile
  <2>5. ASSUME NEW r \in Requests, CommitIssue(r) \/ CommitVoid(r) \/ CommitRecompute(r)
        PROVE  UNCHANGED payment
    BY <2>5 DEF CommitIssue, CommitVoid, CommitRecompute
  <2> QED
    BY <2>1, <2>2, <2>3, <2>4, <2>5, DatabaseStep
<1> QED
  BY <1>4, <1>5 DEF StoreInv

\* The only steps that finish with an event are the last ones of its handler.
LEMMA HandledStep ==
  ASSUME [Next]_vars
  PROVE  handled' = handled \/ \E r \in Requests : CommitSync(r)
<1>1. ASSUME NEW r \in Requests, Begin(r) PROVE handled' = handled
  BY <1>1 DEF Begin, BeginCreate, BeginVoid, BeginRecompute, BeginIntent, BeginConfirm, BeginRefund,
              Deliver, BeginPaymentWebhook, BeginRefundWebhook, Sync, Hold, history
<1>2. ASSUME NEW r \in Requests, Advance(r)
      PROVE  handled' = handled \/ CommitSync(r)
  BY <1>2 DEF Advance, CommitIssue, CommitVoid, CommitRecompute, FindPending, OpenOrder,
              StorePayment, AskRefund, CommitRefund, CommitReconcile, history
<1> QED
  BY <1>1, <1>2 DEF Next, Reprice, Capture, Settle, FailAttempt, Expire, PayRefund, FailRefund,
                    Abandon, vars, history

\* A success that a handler finishes with is recorded by then.
LEMMA HandledIsRecordedStep ==
  ASSUME RecordInv, [Next]_vars
  PROVE  HandledIsRecorded'
<1>0. LedgerInv /\ TypeInv /\ payment \in [Orders -> PaymentRow] /\ invoice \in InvoiceRow
  BY TypeParts DEF RecordInv, LedgerInv, RowsTyped
<1>1. ASSUME NEW o \in Orders, [type |-> "success", o |-> o] \in handled'
      PROVE  Recorded(o)'
  <2> DEFINE e == [type |-> "success", o |-> o]
  <2>1. CASE e \in handled
    <3>1. Recorded(o)
      BY <2>1 DEF RecordInv, HandledIsRecorded, Recorded, Open
    <3> QED
      BY <3>1, RecordedStays
  <2>2. ASSUME NEW r \in Requests, CommitSync(r), e = req[r].event
        PROVE  Recorded(o)'
    <3>1. req[r].op = "sync" /\ req[r].event.type = "success" /\ req[r].event.o = o
      BY <2>2 DEF CommitSync
    <3>2. req[r].result = "PAID" /\ req[r].o = o
      BY <3>1 DEF RecordInv, SyncInv
    <3>3. CASE req[r].seen = "SUCCEEDED"
      BY <3>1, <3>2, <3>3, RecordedStays DEF RecordInv, SyncInv
    <3>4. CASE req[r].seen # "SUCCEEDED"
      <4>1. payment' = [payment EXCEPT ![o].status = "SUCCEEDED"]
            /\ invoice' = [invoice EXCEPT !.status = "PAID"]
        BY <2>2, <3>2, <3>4 DEF CommitSync
      <4> QED
        BY <1>0, <4>1 DEF Recorded, Open, PaymentRow, InvoiceRow, settled
    <3> QED
      BY <3>3, <3>4
  <2>3. ASSUME NEW r \in Requests, CommitSync(r), e \notin handled
        PROVE  e = req[r].event
    BY <1>1, <2>3 DEF CommitSync, Finish
  <2> QED
    BY <1>1, <2>1, <2>2, <2>3, HandledStep
<1> QED
  BY <1>1 DEF HandledIsRecorded, Recorded, Open

\* What is recorded and what rests on it is inductive, together with the ledger.
LEMMA RecordHolds == Spec => []RecordInv
<1>1. Init => StoreInv /\ (\A r \in Requests : SyncInv(req[r])) /\ HandledIsRecorded
  BY DEF Init, StoreInv, SyncInv, HandledIsRecorded, Idle
<1>2. RecordInv /\ [Next]_vars =>
        StoreInv' /\ (\A r \in Requests : SyncInv(req[r]))' /\ HandledIsRecorded'
  <2> SUFFICES ASSUME RecordInv, [Next]_vars
               PROVE  StoreInv' /\ (\A r \in Requests : SyncInv(req[r]))' /\ HandledIsRecorded'
    OBVIOUS
  <2>1. ASSUME NEW q \in Requests
        PROVE  SyncInv(req[q])'
    <3>0. req[q] \in Request /\ SyncInv(req[q])
      BY DEF RecordInv, LedgerInv, TypeInv, TypeOK
    <3>1. \A s \in Request : SyncInv(s) => SyncInv(s)'
      BY SyncKept
    <3>2. CASE req'[q] = req[q]
      BY <3>0, <3>1, <3>2
    <3>3. CASE req'[q] \in Request /\ SyncInv(req'[q])
      BY <3>1, <3>3
    <3>4. CASE req'[q].op = "store"
      BY <3>4 DEF SyncInv
    <3> QED
      BY <3>2, <3>3, <3>4, RequestAfter
  <2> QED
    BY <2>1, StoreStep, HandledIsRecordedStep
<1>3. RecordInv <=>
        LedgerInv /\ StoreInv /\ (\A r \in Requests : SyncInv(req[r])) /\ HandledIsRecorded
  BY DEF RecordInv
<1> QED
  BY <1>1, <1>2, <1>3, LedgerHolds, PTL DEF Spec

\* A success that some handler has finished with is on the books for good: however late,
\* repeated or reordered the events that follow, the payment is never open again and its
\* invoice stays paid, unless a void has crossed it (syncFromOrder, createIntent).
THEOREM HandledRecorded == Spec => []HandledIsRecorded
<1>1. RecordInv => HandledIsRecorded
  BY DEF RecordInv
<1> QED BY <1>1, RecordHolds, PTL

-----------------------------------------------------------------------------
(* The payment service keeps the ideal ledger.                             *)

\* A row that is not there asks nothing, and one that is asks a total.
PriceInv ==
  \A o \in Orders :
    /\ payment[o].status = "NONE" => payment[o] = NoPayment
    /\ payment[o].status # "NONE" => payment[o].amount \in Totals

LEMMA PriceStep ==
  ASSUME RecordInv, PriceInv, [Next]_vars
  PROVE  PriceInv'
<1>0. payment \in [Orders -> PaymentRow] /\ req \in [Requests -> Request] /\ LedgerInv
  BY TypeParts DEF RecordInv, LedgerInv, RowsTyped, RequestsTyped
<1> SUFFICES ASSUME NEW o \in Orders
             PROVE  /\ payment'[o].status = "NONE" => payment'[o] = NoPayment
                    /\ payment'[o].status # "NONE" => payment'[o].amount \in Totals
  BY DEF PriceInv
<1>1. CASE payment'[o] = payment[o]
  BY <1>1 DEF PriceInv
<1>2. ASSUME NEW r \in Requests, StorePayment(r), payment'[o] # payment[o]
      PROVE  payment'[o].status = "PENDING" /\ payment'[o].amount \in Totals
  <2>1. req[r].total \in Totals
    BY <1>0, <1>2, SnapshotType DEF StorePayment
  <2> QED
    BY <1>0, <1>2, <2>1 DEF StorePayment
<1>3. ASSUME NEW r \in Requests, CommitSync(r) \/ CommitRefund(r) \/ CommitReconcile(r),
             payment'[o] # payment[o]
      PROVE  payment[o].status # "NONE" /\ payment'[o].amount = payment[o].amount
  <2>1. req[r].o = o
    BY <1>0, <1>3 DEF CommitSync, CommitRefund, CommitReconcile
  <2>2. captured(o) \/ payment[o].status # "NONE"
    BY <1>0, <1>3, <2>1 DEF CommitSync, CommitRefund, CommitReconcile, LedgerInv, SnapshotInv
  <2>3. payment[o].status # "NONE"
    BY <1>0, <2>2 DEF LedgerInv, OrderInv
  <2> QED
    BY <1>0, <1>3, <2>1, <2>3 DEF CommitSync, CommitRefund, CommitReconcile, PaymentRow
<1>4. ASSUME NEW r \in Requests, CommitIssue(r) \/ CommitVoid(r) \/ CommitRecompute(r)
      PROVE  payment' = payment
  BY <1>4 DEF CommitIssue, CommitVoid, CommitRecompute
<1>5. payment[o].status # "NONE" => payment'[o].status # "NONE"
  BY <1>0, RowsStay
<1> QED
  BY <1>1, <1>2, <1>3, <1>4, <1>5, DatabaseStep DEF PriceInv

\* The parts of the ledger an order has in the rows and at the gateway, pointwise.
SameMoney ==
  \A o \in Orders :
    (captured(o)' <=> captured(o)) /\ (captured(o) => order'[o].amount = order[o].amount)

SameInstructed == \A o \in Orders : order'[o].accepted = order[o].accepted

SameAsked == \A o \in Orders : payment'[o].amount = payment[o].amount

SameShown == \A o \in Orders : payment'[o].refunded = payment[o].refunded

SameInvoice ==
  /\ \A status \in {"PAID", "VOID"} : invoice'.status = status <=> invoice.status = status
  /\ crossed' = crossed

\* A step of each kind in the ledger's own words.
LEMMA StutterStep ==
  ASSUME SameMoney, SameInstructed, SameAsked, SameShown, SameInvoice
  PROVE  UNCHANGED <<Ledger!rows, Ledger!money>>
BY DEF SameMoney, SameInstructed, SameAsked, SameShown, SameInvoice, Ledger!rows, Ledger!money, captured

LEMMA AskStep ==
  ASSUME NEW o \in Orders, payment[o].amount = 0, payment'[o].amount \in Nat \ {0},
         \A p \in Orders \ {o} : payment'[p].amount = payment[p].amount,
         SameMoney, SameInstructed, SameShown, SameInvoice
  PROVE  Ledger!Ask(o)
BY DEF SameMoney, SameInstructed, SameShown, SameInvoice, Ledger!Ask, Ledger!money, captured

LEMMA ChargeStep ==
  ASSUME NEW o \in Orders, payment[o].amount > 0, ~captured(o), captured(o)',
         order'[o].amount = payment[o].amount,
         \A p \in Orders \ {o} : order'[p] = order[p],
         SameInstructed, SameAsked, SameShown, SameInvoice
  PROVE  Ledger!Charge(o)
BY DEF SameInstructed, SameAsked, SameShown, SameInvoice, Ledger!Charge, Ledger!rows, captured

LEMMA InstructStep ==
  ASSUME NEW o \in Orders, captured(o), order[o].amount > 0,
         order[o].accepted <= order'[o].accepted,
         order'[o].accepted <= order[o].accepted + order[o].amount,
         \A p \in Orders \ {o} : order'[p].accepted = order[p].accepted,
         SameMoney, SameAsked, SameShown, SameInvoice
  PROVE  Ledger!Instruct(o)
BY DEF SameMoney, SameAsked, SameShown, SameInvoice, Ledger!Instruct, Ledger!rows, captured

LEMMA ShowStep ==
  ASSUME NEW o \in Orders, payment'[o].refunded <= order[o].accepted,
         payment'[o].refunded <= payment[o].amount,
         \A p \in Orders \ {o} : payment'[p].refunded = payment[p].refunded,
         SameMoney, SameInstructed, SameAsked, SameInvoice
  PROVE  Ledger!Show(o)
BY DEF SameMoney, SameInstructed, SameAsked, SameInvoice, Ledger!Show, Ledger!money, captured

LEMMA PayStep ==
  ASSUME NEW o \in Orders, captured(o), order[o].amount > 0, invoice'.status = "PAID",
         crossed' \in {crossed, TRUE}, SameMoney, SameInstructed, SameAsked, SameShown
  PROVE  Ledger!Pay(o)
BY DEF SameMoney, SameInstructed, SameAsked, SameShown, Ledger!Pay, Ledger!money, captured

LEMMA VoidStep ==
  ASSUME invoice'.status = "VOID", invoice.status # "PAID" \/ crossed, crossed' = crossed,
         SameMoney, SameInstructed, SameAsked, SameShown
  PROVE  Ledger!Void
BY DEF SameMoney, SameInstructed, SameAsked, SameShown, Ledger!Void, Ledger!money, captured

\* What the gateway does alone, and what it is asked to.
LEMMA GatewayRefines ==
  ASSUME RecordInv, PriceInv, [Next]_vars, ~UNCHANGED gateway
  PROVE  [Ledger!Next]_<<Ledger!rows, Ledger!money>>
<1>0. /\ order \in [Orders -> OrderRow] /\ req \in [Requests -> Request] /\ LedgerInv
      /\ \A o \in Orders : OrderInv(o) /\ PaymentInv(o)
  BY TypeParts DEF RecordInv, LedgerInv, RowsTyped, RequestsTyped
<1>1. ASSUME UNCHANGED <<invoice, payment, crossed>>
      PROVE  SameAsked /\ SameShown /\ SameInvoice
  BY <1>1 DEF SameAsked, SameShown, SameInvoice
<1>2. ASSUME NEW o \in Orders, Capture(o)
      PROVE  Ledger!Charge(o)
  <2>1. /\ UNCHANGED <<invoice, payment, crossed>> /\ payment[o].status # "NONE" /\ ~captured(o)
        /\ order' = [order EXCEPT ![o].state = "AUTHORIZED"]
    BY <1>2 DEF Capture, database, history, captured
  <2>2. payment[o].amount = order[o].amount /\ payment[o].amount > 0
    BY <1>0, <2>1, PaymentsAssumption DEF PaymentInv, PriceInv
  <2>3. captured(o)' /\ order'[o].amount = order[o].amount
    BY <1>0, <2>1 DEF captured, OrderRow
  <2>4. (\A p \in Orders \ {o} : order'[p] = order[p]) /\ SameInstructed
    BY <1>0, <2>1 DEF OrderRow, SameInstructed
  <2> QED
    BY <1>1, <2>1, <2>2, <2>3, <2>4, ChargeStep
<1>3. ASSUME NEW o \in Orders, Settle(o) \/ FailAttempt(o) \/ Expire(o)
      PROVE  UNCHANGED <<Ledger!rows, Ledger!money>>
  <2>1. UNCHANGED <<invoice, payment, crossed>>
    BY <1>3 DEF Settle, FailAttempt, Expire, database, history
  <2>2. SameMoney /\ SameInstructed
    BY <1>0, <1>3 DEF Settle, FailAttempt, Expire, SameMoney, SameInstructed, captured, OrderRow
  <2> QED
    BY <1>1, <2>1, <2>2, StutterStep
<1>4. ASSUME NEW r \in Requests, OpenOrder(r)
      PROVE  UNCHANGED <<Ledger!rows, Ledger!money>>
  <2>1. UNCHANGED <<invoice, payment, crossed>>
    BY <1>4 DEF OpenOrder, database, history
  <2>2. SameMoney /\ SameInstructed
    <3>1. CASE order' = order
      BY <3>1 DEF SameMoney, SameInstructed, captured
    <3>2. CASE /\ order[req[r].o].state = "NONE"
               /\ order' = [order EXCEPT ![req[r].o] =
                              [state |-> "ACTIVE", amount |-> req[r].total,
                               accepted |-> 0, refunded |-> 0, failed |-> 0]]
      BY <1>0, <3>2 DEF OrderInv, SameMoney, SameInstructed, captured
    <3> QED BY <1>4, <3>1, <3>2, OpenedOrder
  <2> QED
    BY <1>1, <2>1, <2>2, StutterStep
<1>5. ASSUME NEW r \in Requests, AskRefund(r)
      PROVE  \/ UNCHANGED <<Ledger!rows, Ledger!money>>
             \/ \E o \in Orders : Ledger!Instruct(o)
  <2>1. PICK o \in Orders, n \in Amounts : o = req[r].o /\ n = req[r].amount
    BY <1>0, <1>5, SnapshotType DEF AskRefund
  <2>2. /\ n \in Nat /\ req[r].already \in Nat /\ order[o].accepted \in Nat
        /\ order[o].amount \in Nat
    BY <1>0, <1>5, AmountsAreNumbers, SnapshotType DEF AskRefund, OrderRow
  <2>3. UNCHANGED <<invoice, payment, crossed>>
    BY <1>5 DEF AskRefund, database, history
  <2>4. /\ captured(o)
        /\ order' = [order EXCEPT ![o].accepted = @ + n]
    BY <1>5, <2>1 DEF AskRefund, gateway
  <2>5. order'[o].accepted = order[o].accepted + n
    BY <1>0, <2>4 DEF OrderRow
  <2>6. SameMoney /\ \A p \in Orders \ {o} : order'[p].accepted = order[p].accepted
    BY <1>0, <2>4 DEF SameMoney, captured, OrderRow
  <2>7. n <= order[o].amount
    BY <1>0, <1>5, <2>1, <2>2 DEF AskRefund, LedgerInv, SnapshotInv
  <2>8. order[o].amount > 0
    <3>1. payment[o].status # "NONE"
      BY <1>0, <2>4 DEF OrderInv
    <3>2. payment[o].amount \in Totals /\ payment[o].amount = order[o].amount
      BY <1>0, <3>1 DEF PaymentInv, PriceInv
    <3>3. \A t \in Totals : t > 0
      BY PaymentsAssumption
    <3> QED BY <3>2, <3>3
  <2>9. /\ order[o].accepted <= order'[o].accepted
        /\ order'[o].accepted <= order[o].accepted + order[o].amount
    BY <2>2, <2>5, <2>7
  <2> QED
    BY <1>1, <2>3, <2>4, <2>6, <2>8, <2>9, InstructStep
<1>6. ASSUME NEW f \in RefundIds, PayRefund(f) \/ FailRefund(f)
      PROVE  UNCHANGED <<Ledger!rows, Ledger!money>>
  <2>1. UNCHANGED <<invoice, payment, crossed>>
    BY <1>6 DEF PayRefund, FailRefund, database, history
  <2>2. SameMoney /\ SameInstructed
    BY <1>0, <1>6 DEF PayRefund, FailRefund, SameMoney, SameInstructed, captured, OrderRow
  <2> QED
    BY <1>1, <2>1, <2>2, StutterStep
<1> QED
  BY <1>2, <1>3, <1>4, <1>5, <1>6, GatewayStep DEF Ledger!Next

\* What a handler writes to the rows.
LEMMA DatabaseRefines ==
  ASSUME RecordInv, PriceInv, [Next]_vars, UNCHANGED gateway
  PROVE  [Ledger!Next]_<<Ledger!rows, Ledger!money>>
<1>0. /\ payment \in [Orders -> PaymentRow] /\ invoice \in InvoiceRow
      /\ req \in [Requests -> Request] /\ LedgerInv /\ crossed \in BOOLEAN
      /\ \A r \in Requests : SnapshotInv(req[r])
  BY TypeParts DEF RecordInv, LedgerInv, RowsTyped, RequestsTyped
<1>1. SameMoney /\ SameInstructed
  BY DEF gateway, SameMoney, SameInstructed, captured
<1>2. ASSUME UNCHANGED payment
      PROVE  SameAsked /\ SameShown
  BY <1>2 DEF SameAsked, SameShown
<1>3. ASSUME UNCHANGED <<invoice, crossed>>
      PROVE  SameInvoice
  BY <1>3 DEF SameInvoice
<1>4. CASE UNCHANGED <<invoice, payment, crossed>>
  BY <1>1, <1>2, <1>3, <1>4, StutterStep
<1>5. ASSUME NEW r \in Requests, CommitIssue(r) \/ CommitRecompute(r)
      PROVE  UNCHANGED <<Ledger!rows, Ledger!money>>
  <2>1. UNCHANGED payment
    BY <1>5 DEF CommitIssue, CommitRecompute
  <2>2. SameInvoice
    BY <1>0, <1>5 DEF CommitIssue, CommitRecompute, SameInvoice, InvoiceRow, history
  <2> QED
    BY <1>1, <1>2, <2>1, <2>2, StutterStep
<1>6. ASSUME NEW r \in Requests, CommitVoid(r)
      PROVE  Ledger!Void
  <2>1. UNCHANGED <<payment, crossed>> /\ invoice'.status = "VOID"
    BY <1>0, <1>6 DEF CommitVoid, history, InvoiceRow
  <2>2. invoice.status # "PAID" \/ crossed
    BY <1>0, <1>6 DEF CommitVoid, LedgerInv, VoidInv
  <2> QED
    BY <1>1, <1>2, <2>1, <2>2, VoidStep
<1>7. ASSUME NEW r \in Requests, StorePayment(r)
      PROVE  \E o \in Orders : Ledger!Ask(o)
  <2>1. PICK o \in Orders, t \in Totals : o = req[r].o /\ t = req[r].total
    BY <1>0, <1>7, SnapshotType DEF StorePayment
  <2>2. payment[o] = NoPayment
    BY <1>7, <2>1 DEF StorePayment, RecordInv, StoreInv, PriceInv
  <2>3. UNCHANGED <<invoice, crossed>>
    BY <1>7 DEF StorePayment, history
  <2>4. payment' = [payment EXCEPT ![o] = [status |-> "PENDING", amount |-> t, refunded |-> 0]]
    BY <1>7, <2>1 DEF StorePayment
  <2>5. /\ payment'[o] = [status |-> "PENDING", amount |-> t, refunded |-> 0]
        /\ \A p \in Orders \ {o} : payment'[p] = payment[p]
    BY <1>0, <2>4
  <2>6. payment[o].amount = 0 /\ payment[o].refunded = 0
    BY <2>2 DEF NoPayment
  <2>7. payment'[o].amount \in Nat \ {0} /\ payment'[o].refunded = 0
    BY <2>5, PaymentsAssumption
  <2>8. SameShown
    BY <2>5, <2>6, <2>7 DEF SameShown
  <2>9. \A p \in Orders \ {o} : payment'[p].amount = payment[p].amount
    BY <2>5
  <2> QED
    BY <1>1, <1>3, <2>3, <2>6, <2>7, <2>8, <2>9, AskStep
<1>8. ASSUME NEW r \in Requests, CommitSync(r)
      PROVE  \/ UNCHANGED <<Ledger!rows, Ledger!money>>
             \/ \E o \in Orders : Ledger!Pay(o)
  <2>1. req[r].o \in Orders /\ req[r].op = "sync"
    BY <1>0, <1>8, SnapshotType DEF CommitSync
  <2>2. SameAsked /\ SameShown
    BY <1>0, <1>8, <2>1 DEF CommitSync, SameAsked, SameShown, PaymentRow
  <2>3. CASE UNCHANGED <<invoice, crossed>>
    BY <1>1, <1>3, <2>2, <2>3, StutterStep
  <2>4. CASE /\ req[r].result = "PAID" /\ invoice' = [invoice EXCEPT !.status = "PAID"]
             /\ Cross
    <3>1. captured(req[r].o) /\ payment[req[r].o].status # "NONE"
      BY <1>0, <2>1, <2>4 DEF SnapshotInv
    <3>2. order[req[r].o].amount > 0
      <4>1. payment[req[r].o].amount \in Totals
        BY <2>1, <3>1 DEF PriceInv
      <4>2. payment[req[r].o].amount = order[req[r].o].amount
        BY <1>0, <2>1, <3>1 DEF LedgerInv, PaymentInv
      <4>3. \A t \in Totals : t > 0
        BY PaymentsAssumption
      <4> QED
        BY <4>1, <4>2, <4>3
    <3>3. invoice'.status = "PAID" /\ crossed' \in {crossed, TRUE}
      BY <1>0, <2>4 DEF InvoiceRow, Cross
    <3> QED
      BY <1>1, <2>1, <2>2, <3>1, <3>2, <3>3, PayStep
  <2> QED
    BY <1>8, <2>3, <2>4 DEF CommitSync
<1>9. ASSUME NEW r \in Requests, NEW n, CommitRefund(r) \/ CommitReconcile(r),
             n = IF req[r].op = "refunded" THEN req[r].already + req[r].amount
                                           ELSE req[r].event.amount
      PROVE  \E o \in Orders : Ledger!Show(o)
  <2>1. PICK o \in Orders : o = req[r].o
    BY <1>0, <1>9, SnapshotType DEF CommitRefund, CommitReconcile
  <2>2. n <= order[o].accepted /\ n <= order[o].amount /\ captured(o)
    BY <1>0, <1>9, <2>1 DEF CommitRefund, CommitReconcile, SnapshotInv
  <2>6. payment[o].amount = order[o].amount
    BY <1>0, <2>2 DEF LedgerInv, OrderInv, PaymentInv
  <2>3. /\ UNCHANGED <<invoice, crossed>>
        /\ payment' = [payment EXCEPT ![o].refunded = n, ![o].status = refundStatus(o, n)]
    BY <1>9, <2>1 DEF CommitRefund, CommitReconcile, history
  <2>4. /\ payment'[o].refunded = n
        /\ \A p \in Orders \ {o} : payment'[p].refunded = payment[p].refunded
        /\ SameAsked
    BY <1>0, <2>3 DEF PaymentRow, SameAsked
  <2>5. payment'[o].refunded <= order[o].accepted /\ payment'[o].refunded <= payment[o].amount
    BY <2>2, <2>4, <2>6
  <2> QED
    BY <1>1, <1>3, <2>3, <2>4, <2>5, ShowStep
<1>10. UNCHANGED <<invoice, payment>> => UNCHANGED crossed \/ \E r \in Requests : CommitSync(r)
  BY CrossStep
<1> QED
  BY <1>4, <1>5, <1>6, <1>7, <1>8, <1>9, <1>10, DatabaseStep DEF Ledger!Next

\* Every step of the service, the gateway and its webhooks is a step of the ideal ledger
\* or leaves it alone: one charge for a row's amount, nothing ordered back that was not
\* charged, nothing shown as refunded that was not ordered back, an invoice that is never
\* open again and stays paid unless a void has crossed the payment.
THEOREM LedgerKept == Spec => KeepsLedger
<1>1. Init => Ledger!Init /\ PriceInv
  BY DEF Init, Ledger!Init, PriceInv, NoPayment, NoOrder, captured
<1>2. RecordInv /\ PriceInv /\ [Next]_vars => PriceInv'
  BY PriceStep
<1>3. RecordInv /\ PriceInv /\ [Next]_vars => [Ledger!Next]_<<Ledger!rows, Ledger!money>>
  BY GatewayRefines, DatabaseRefines
<1> QED
  BY <1>1, <1>2, <1>3, RecordHolds, PTL DEF Spec, KeepsLedger, Ledger!Spec
=============================================================================
