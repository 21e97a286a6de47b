------------------------------ MODULE Payments ------------------------------
(***************************************************************************)
(* Paying for a booking: payments.service, its webhook controller, the     *)
(* parts of invoices.service that change an invoice, and the gateway they  *)
(* talk to.  One booking and its invoice: booking_id is unique in invoices,*)
(* and no handler touches two bookings.                                    *)
(*                                                                         *)
(* A payment row is keyed by the id of its gateway order.  As in Bookings, *)
(* a handler is split where it awaits: what it has read stays in req while *)
(* other handlers and the gateway go on.  Webhooks may be lost, repeated   *)
(* and reordered.  A refund the gateway accepts is paid out or given up    *)
(* later; the row is written when it is accepted.                          *)
(***************************************************************************)
EXTENDS Naturals

CONSTANTS
  Orders,     \* the order ids a client can get: dnr_<invoice id>, dnr_<idempotency key>
  Totals,     \* what the booking can cost, tax included
  RefundIds,  \* refunds the gateway can accept; with none left it refuses (a bound)
  Requests,   \* concurrent requests the API process serves
  CanFail     \* whether handlers may fail between two awaits

ASSUME PaymentsAssumption ==
  /\ Totals \subseteq Nat \ {0}
  /\ CanFail \in BOOLEAN

VARIABLES
  total,     \* price less discount plus tax, computed from the booking row
  invoice,   \* the booking's invoice: status ("NONE" while absent) and total
  payment,   \* the payment row of each order
  order,     \* the gateway's record of each order
  refund,    \* the gateway's record of each refund
  sent,      \* the webhook events the gateway has sent
  req,       \* what each request in flight has read and still has to do
  handled,   \* history: the payment events some handler has finished with
  crossed    \* history: whether a success was ever recorded while a void was in flight

vars == <<total, invoice, payment, order, refund, sent, req, handled, crossed>>
database == <<total, invoice, payment>>
gateway == <<order, refund, sent>>
history == <<handled, crossed>>

-----------------------------------------------------------------------------
(* Rows, events and snapshots.                                             *)

InvoiceStatus == {"DRAFT", "ISSUED", "PARTIALLY_PAID", "PAID", "OVERDUE", "VOID"}

VOIDABLE_STATUSES == {"DRAFT", "ISSUED", "PARTIALLY_PAID", "OVERDUE"}

PaymentStatus == {"PENDING", "PROCESSING", "SUCCEEDED", "FAILED",
                  "REFUNDED", "PARTIALLY_REFUNDED"}

\* AUTHORIZED: the gateway still reports ACTIVE, with a successful payment on it.
OrderState == {"ACTIVE", "AUTHORIZED", "PAID", "EXPIRED", "CANCELLED"}

RefundState == {"PENDING", "SUCCESS", "FAILED"}

Amounts == UNION {1..t : t \in Totals}

PaymentEvent == [type : {"success", "failed"}, o : Orders]
RefundEvent == [type : {"refund"}, o : Orders, amount : Amounts, status : {"SUCCESS", "FAILED"}]
Event == PaymentEvent \cup RefundEvent

NoEvent == [type |-> "none"]

Idle == [op |-> "idle"]

Request ==
  {Idle}
  \cup [op : {"void"}]
  \cup [op : {"create", "recompute"}, total : Totals]
  \cup [op : {"issue", "find", "open", "store"}, o : Orders, total : Totals]
  \cup [op : {"sync"}, o : Orders, result : {"PAID", "FAILED"},
        seen : PaymentStatus, event : PaymentEvent \cup {NoEvent}]
  \cup [op : {"refund", "refunded"}, o : Orders, already : Nat, amount : Amounts]
  \cup [op : {"reconcile"}, o : Orders, event : RefundEvent]

NoPayment == [status |-> "NONE", amount |-> 0, refunded |-> 0]

\* Of the refunds of an order: the sums accepted, paid out to the customer and given up.
NoOrder == [state |-> "NONE", amount |-> 0, accepted |-> 0, refunded |-> 0, failed |-> 0]
NoRefund == [state |-> "NONE"]

Init ==
  /\ total \in Totals
  /\ invoice = [status |-> "NONE", total |-> 0]
  /\ payment = [o \in Orders |-> NoPayment]
  /\ order = [o \in Orders |-> NoOrder]
  /\ refund = [f \in RefundIds |-> NoRefund]
  /\ sent = {}
  /\ req = [r \in Requests |-> Idle]
  /\ handled = {}
  /\ crossed = FALSE

Proceed(r, s) == req' = [req EXCEPT ![r] = s]

\* Request r has read s and written nothing.
Hold(r, s) ==
  /\ req[r] = Idle
  /\ Proceed(r, s)
  /\ UNCHANGED <<database, gateway, history>>

captured(o) == order[o].state \in {"AUTHORIZED", "PAID"}

-----------------------------------------------------------------------------
(* Invoices.                                                               *)

\* CouponsService.redeem changes the booking's discount, whatever has been
\* invoiced or paid.
Reprice(t) ==
  /\ total' = t
  /\ UNCHANGED <<invoice, payment, gateway, history, req>>

\* InvoicesService.create, for a booking without a live invoice.
BeginCreate(r) ==
  /\ invoice.status \in {"NONE", "VOID"}
  /\ Hold(r, [op |-> "create", total |-> total])

\* The insert of create and of ensureInvoice.  booking_id is unique, so it fails
\* if the booking has an invoice by now, even a void one; createIntent goes on
\* with the row it inserted.
CommitIssue(r) ==
  /\ req[r].op \in {"create", "issue"}
  /\ \/ /\ invoice.status = "NONE"
        /\ invoice' = [status |-> "ISSUED", total |-> req[r].total]
        /\ Proceed(r, IF req[r].op = "create" THEN Idle ELSE [req[r] EXCEPT !.op = "find"])
     \/ /\ invoice.status # "NONE"
        /\ Proceed(r, Idle)
        /\ UNCHANGED invoice
  /\ UNCHANGED <<total, payment, gateway, history>>

BeginVoidUnchecked(r) == invoice.status # "NONE" /\ Hold(r, [op |-> "void"])

BeginVoid(r) ==
  /\ invoice.status \in VOIDABLE_STATUSES
  /\ Hold(r, [op |-> "void"])

CommitVoid(r) ==
  /\ req[r].op = "void"
  /\ invoice' = [invoice EXCEPT !.status = "VOID"]
  /\ Proceed(r, Idle)
  /\ UNCHANGED <<total, payment, gateway, history>>

\* regenerate with recomputeTotals asks for no particular status.
BeginRecompute(r) ==
  /\ invoice.status # "NONE"
  /\ Hold(r, [op |-> "recompute", total |-> total])

CommitRecompute(r) ==
  /\ req[r].op = "recompute"
  /\ invoice' = [invoice EXCEPT !.total = req[r].total]
  /\ Proceed(r, Idle)
  /\ UNCHANGED <<total, payment, gateway, history>>

-----------------------------------------------------------------------------
(* createIntent.                                                           *)

\* The booking is read with its invoice; without a live one, ensureInvoice will
\* insert one.  A paid invoice ends the request.
BeginIntent(r, o) ==
  \/ /\ invoice.status \in {"NONE", "VOID"}
     /\ Hold(r, [op |-> "issue", o |-> o, total |-> total])
  \/ /\ invoice.status \notin {"NONE", "VOID", "PAID"}
     /\ Hold(r, [op |-> "find", o |-> o, total |-> invoice.total])

\* A pending payment whose order is still active at the gateway is handed out
\* again.  If there is none, or the gateway does not answer, a new order follows.
FindPending(r) ==
  /\ req[r].op = "find"
  /\ LET Pending == {p \in Orders : payment[p].status \in {"PENDING", "PROCESSING"}}
     IN  \/ /\ \E p \in Pending : order[p].state \in {"ACTIVE", "AUTHORIZED"}
            /\ Proceed(r, Idle)
         \/ /\ \/ Pending = {}
               \/ CanFail
               \/ \E p \in Pending : order[p].state \notin {"ACTIVE", "AUTHORIZED"}
            /\ Proceed(r, [req[r] EXCEPT !.op = "open"])
  /\ UNCHANGED <<database, gateway, history>>

\* An order id is used once at the gateway: a second createOrder is refused.
OpenOrder(r) ==
  LET o == req[r].o IN
  /\ req[r].op = "open"
  /\ \/ /\ order[o].state = "NONE"
        /\ order' = [order EXCEPT ![o] = [NoOrder EXCEPT !.state = "ACTIVE", !.amount = req[r].total]]
        /\ Proceed(r, [req[r] EXCEPT !.op = "store"])
     \/ /\ order[o].state # "NONE"
        /\ Proceed(r, Idle)
        /\ UNCHANGED order
  /\ UNCHANGED <<database, refund, sent, history>>

StoreCurrentTotal(r) ==
  /\ req[r].op = "store"
  /\ payment' = [payment EXCEPT ![req[r].o] =
                   [status |-> "PENDING", amount |-> invoice.total, refunded |-> 0]]
  /\ Proceed(r, Idle)
  /\ UNCHANGED <<total, invoice, gateway, history>>

StorePayment(r) ==
  /\ req[r].op = "store"
  /\ payment' = [payment EXCEPT ![req[r].o] =
                   [status |-> "PENDING", amount |-> req[r].total, refunded |-> 0]]
  /\ Proceed(r, Idle)
  /\ UNCHANGED <<total, invoice, gateway, history>>

-----------------------------------------------------------------------------
(* confirm, and the payment webhooks: syncFromOrder.                       *)

Sync(r, o, result, event) ==
  /\ payment[o].status # "NONE"
  /\ Hold(r, [op |-> "sync", o |-> o, result |-> result,
              seen |-> payment[o].status, event |-> event])

BeginConfirmTrusting(r, o) ==
  \/ order[o].state # "EXPIRED" /\ Sync(r, o, "PAID", NoEvent)
  \/ order[o].state = "EXPIRED" /\ Sync(r, o, "FAILED", NoEvent)

\* confirm asks the gateway.  An order it still reports ACTIVE counts as paid if
\* one of its payments succeeded, and otherwise changes nothing.
BeginConfirm(r, o) ==
  \/ captured(o) /\ Sync(r, o, "PAID", NoEvent)
  \/ order[o].state = "EXPIRED" /\ Sync(r, o, "FAILED", NoEvent)

BeginPaymentWebhook(r, event) ==
  \/ event.type = "success" /\ Sync(r, event.o, "PAID", event)
  \/ event.type = "failed" /\ Sync(r, event.o, "FAILED", event)

Finish(r, event) ==
  /\ handled' = handled \cup ({event} \ {NoEvent})
  /\ Proceed(r, Idle)

\* Whether a void is in flight is recorded with a success.
Cross == crossed' = (crossed \/ \E q \in Requests : req[q].op = "void")

CommitSyncOfPending(r) ==
  LET s == req[r] IN
  /\ s.op = "sync"
  /\ IF s.seen = "PENDING"
     THEN /\ payment' = [payment EXCEPT ![s.o].status =
                           IF s.result = "PAID" THEN "SUCCEEDED" ELSE "FAILED"]
          /\ invoice' = [invoice EXCEPT !.status = IF s.result = "PAID" THEN "PAID" ELSE @]
          /\ IF s.result = "PAID" THEN Cross ELSE UNCHANGED crossed
     ELSE UNCHANGED <<payment, invoice, crossed>>
  /\ Finish(r, s.event)
  /\ UNCHANGED <<total, gateway>>

CommitSyncReopening(r) ==
  LET s == req[r] IN
  /\ s.op = "sync"
  /\ IF s.result = "PAID"
     THEN /\ payment' = [payment EXCEPT ![s.o].status = "SUCCEEDED"]
          /\ invoice' = [invoice EXCEPT !.status = "PAID"]
          /\ Cross
     ELSE /\ payment' = [payment EXCEPT ![s.o].status = "FAILED"]
          /\ invoice' = [invoice EXCEPT !.status = "ISSUED"]
          /\ UNCHANGED crossed
  /\ Finish(r, s.event)
  /\ UNCHANGED <<total, gateway>>

\* A payment seen in another status is overwritten, and a successful one takes
\* the invoice along.
CommitSync(r) ==
  LET s == req[r] IN
  /\ s.op = "sync"
  /\ \/ /\ s.result = "PAID" /\ s.seen # "SUCCEEDED"
        /\ payment' = [payment EXCEPT ![s.o].status = "SUCCEEDED"]
        /\ invoice' = [invoice EXCEPT !.status = "PAID"]
        /\ Cross
     \/ /\ s.result = "FAILED" /\ s.seen # "FAILED"
        /\ payment' = [payment EXCEPT ![s.o].status = "FAILED"]
        /\ UNCHANGED <<invoice, crossed>>
     \/ /\ <<s.result, s.seen>> \in {<<"PAID", "SUCCEEDED">>, <<"FAILED", "FAILED">>}
        /\ UNCHANGED <<payment, invoice, crossed>>
  /\ Finish(r, s.event)
  /\ UNCHANGED <<total, gateway>>

-----------------------------------------------------------------------------
(* Refunds.                                                                *)

BeginRefundUnasked(r, o, amount) ==
  /\ payment[o].status \in {"SUCCEEDED", "PARTIALLY_REFUNDED"}
  /\ payment[o].refunded + amount <= payment[o].amount
  /\ Hold(r, [op |-> "refunded", o |-> o, already |-> payment[o].refunded, amount |-> amount])

\* refund: the amount is checked against the balance of the row it has read.
BeginRefund(r, o, amount) ==
  /\ payment[o].status \in {"SUCCEEDED", "PARTIALLY_REFUNDED"}
  /\ payment[o].refunded + amount <= payment[o].amount
  /\ Hold(r, [op |-> "refund", o |-> o, already |-> payment[o].refunded, amount |-> amount])

\* createRefund.  The gateway accepts a refund of what it still holds of the order, to be
\* paid out or given up later, and refuses the rest.  The handler learns no more than
\* whether it was accepted.
AskRefund(r) ==
  LET s == req[r] IN
  /\ s.op = "refund"
  /\ \/ \E f \in RefundIds :
          /\ refund[f] = NoRefund
          /\ captured(s.o)
          /\ order[s.o].accepted + s.amount <= order[s.o].amount + order[s.o].failed
          /\ refund' = [refund EXCEPT ![f] = [state |-> "PENDING", o |-> s.o, amount |-> s.amount]]
          /\ order' = [order EXCEPT ![s.o].accepted = @ + s.amount]
          /\ Proceed(r, [s EXCEPT !.op = "refunded"])
     \/ /\ \/ order[s.o].accepted + s.amount > order[s.o].amount + order[s.o].failed
           \/ \A f \in RefundIds : refund[f] # NoRefund
        /\ Proceed(r, Idle)
        /\ UNCHANGED <<order, refund>>
  /\ UNCHANGED <<database, sent, history>>

refundStatusFull(o, refunded) == "REFUNDED"

\* The status a refund leaves the payment in.
refundStatus(o, refunded) ==
  IF refunded >= payment[o].amount THEN "REFUNDED" ELSE "PARTIALLY_REFUNDED"

\* The new balance is computed from the row as it was read, and written although the
\* refund has only been accepted.
CommitRefund(r) ==
  LET s == req[r] IN
  /\ s.op = "refunded"
  /\ payment' = [payment EXCEPT ![s.o].refunded = s.already + s.amount,
                                ![s.o].status = refundStatus(s.o, s.already + s.amount)]
  /\ Proceed(r, Idle)
  /\ UNCHANGED <<total, invoice, gateway, history>>

BeginRefundWebhookOfAny(r, event) ==
  /\ event.type = "refund"
  /\ payment[event.o].status # "NONE"
  /\ payment[event.o].refunded # event.amount
  /\ Hold(r, [op |-> "reconcile", o |-> event.o, event |-> event])

\* handleRefundWebhook, for a refund that was paid out, compares the refunded total with
\* the amount of the one refund the event is about.  An event of a refund that was given up
\* changes nothing, so there is no step for it: the row keeps what it shows.
BeginRefundWebhook(r, event) ==
  /\ event.type = "refund" /\ event.status = "SUCCESS"
  /\ payment[event.o].status # "NONE"
  /\ payment[event.o].refunded # event.amount
  /\ Hold(r, [op |-> "reconcile", o |-> event.o, event |-> event])

CommitReconcile(r) ==
  LET s == req[r] IN
  /\ s.op = "reconcile"
  /\ payment' = [payment EXCEPT ![s.o].refunded = s.event.amount,
                                ![s.o].status = refundStatus(s.o, s.event.amount)]
  /\ Proceed(r, Idle)
  /\ UNCHANGED <<total, invoice, gateway, history>>

-----------------------------------------------------------------------------
(* The gateway and its customer.  A session token reaches the customer only *)
(* once the payment row exists.                                            *)

Capture(o) ==
  /\ payment[o].status # "NONE"
  /\ order[o].state = "ACTIVE"
  /\ order' = [order EXCEPT ![o].state = "AUTHORIZED"]
  /\ sent' = sent \cup {[type |-> "success", o |-> o]}
  /\ UNCHANGED <<database, refund, history, req>>

Settle(o) ==
  /\ order[o].state = "AUTHORIZED"
  /\ order' = [order EXCEPT ![o].state = "PAID"]
  /\ UNCHANGED <<database, refund, sent, history, req>>

\* A declined or dropped attempt; the order stays open for another one.
FailAttempt(o) ==
  /\ payment[o].status # "NONE"
  /\ order[o].state = "ACTIVE"
  /\ sent' = sent \cup {[type |-> "failed", o |-> o]}
  /\ UNCHANGED <<database, order, refund, history, req>>

\* An order ends unpaid.
Expire(o) ==
  /\ order[o].state = "ACTIVE"
  /\ \E state \in {"EXPIRED", "CANCELLED"} : order' = [order EXCEPT ![o].state = state]
  /\ UNCHANGED <<database, refund, sent, history, req>>

\* A refund reaches the customer, or is given up: failed or cancelled.
PayRefund(f) ==
  LET o == refund[f].o IN
  /\ refund[f].state = "PENDING"
  /\ refund' = [refund EXCEPT ![f].state = "SUCCESS"]
  /\ order' = [order EXCEPT ![o].refunded = @ + refund[f].amount]
  /\ sent' = sent \cup {[type |-> "refund", o |-> o, amount |-> refund[f].amount, status |-> "SUCCESS"]}
  /\ UNCHANGED <<database, history, req>>

FailRefund(f) ==
  LET o == refund[f].o IN
  /\ refund[f].state = "PENDING"
  /\ refund' = [refund EXCEPT ![f].state = "FAILED"]
  /\ order' = [order EXCEPT ![o].failed = @ + refund[f].amount]
  /\ sent' = sent \cup {[type |-> "refund", o |-> o, amount |-> refund[f].amount, status |-> "FAILED"]}
  /\ UNCHANGED <<database, history, req>>

\* A read, a gateway call or a write fails, or the process goes away: what has
\* been written stays.  The webhook route answers 200 all the same.
Abandon(r) ==
  /\ CanFail
  /\ req[r] # Idle
  /\ Proceed(r, Idle)
  /\ UNCHANGED <<database, gateway, history>>

-----------------------------------------------------------------------------
Deliver(r, event) == BeginPaymentWebhook(r, event) \/ BeginRefundWebhook(r, event)

Begin(r) ==
  \/ BeginCreate(r) \/ BeginVoid(r) \/ BeginRecompute(r)
  \/ \E o \in Orders : BeginIntent(r, o) \/ BeginConfirm(r, o)
  \/ \E o \in Orders, amount \in Amounts : BeginRefund(r, o, amount)
  \/ \E event \in sent : Deliver(r, event)

Advance(r) ==
  \/ CommitIssue(r) \/ CommitVoid(r) \/ CommitRecompute(r)
  \/ FindPending(r) \/ OpenOrder(r) \/ StorePayment(r)
  \/ CommitSync(r) \/ AskRefund(r) \/ CommitRefund(r) \/ CommitReconcile(r)

Next ==
  \/ \E t \in Totals : Reprice(t)
  \/ \E o \in Orders : Capture(o) \/ Settle(o) \/ FailAttempt(o) \/ Expire(o)
  \/ \E f \in RefundIds : PayRefund(f) \/ FailRefund(f)
  \/ \E r \in Requests : Begin(r) \/ Advance(r) \/ Abandon(r)

Spec == Init /\ [][Next]_vars

\* Handlers that have started go on, and the gateway delivers every payment
\* event at least once.
FirstDelivery(event) ==
  /\ event \in sent \ handled
  /\ \E r \in Requests : BeginPaymentWebhook(r, event)

FairSpec ==
  /\ Spec
  /\ \A r \in Requests : WF_vars(Advance(r))
  /\ \A o \in Orders : SF_vars(FirstDelivery([type |-> "success", o |-> o]))

-----------------------------------------------------------------------------
(* Properties.                                                             *)

\* Rows, orders, events and snapshots have their types, and no status is
\* written that the schema does not have.
TypeOK ==
  /\ total \in Totals
  /\ invoice \in [status : InvoiceStatus \cup {"NONE"}, total : Totals \cup {0}]
  /\ payment \in [Orders -> [status : PaymentStatus \cup {"NONE"},
                             amount : Totals \cup {0}, refunded : Nat]]
  /\ order \in [Orders -> [state : OrderState \cup {"NONE"}, amount : Totals \cup {0},
                           accepted : Nat, refunded : Nat, failed : Nat]]
  /\ refund \in [RefundIds -> {NoRefund} \cup [state : RefundState, o : Orders, amount : Amounts]]
  /\ sent \subseteq Event
  /\ req \in [Requests -> Request]
  /\ handled \subseteq PaymentEvent
  /\ crossed \in BOOLEAN

\* No phantom money: an invoice or a payment is shown as paid, or as refunded,
\* only if the gateway captured the order behind it, however confirms, webhooks
\* and failed attempts interleave.
NoPhantomPayment ==
  /\ \A o \in Orders :
       payment[o].status \in {"SUCCEEDED", "REFUNDED", "PARTIALLY_REFUNDED"} => captured(o)
  /\ invoice.status = "PAID" => \E o \in Orders : captured(o) /\ payment[o].status # "NONE"

\* The invoice of a success stays paid; it can be void only if a success and a void have
\* crossed, each having read the invoice before the other wrote it.
settled == invoice.status = "PAID" \/ (invoice.status = "VOID" /\ crossed)

\* The two tables agree: once a payment has succeeded, no stale handler can make its
\* invoice payable again, and nothing but a void that was on its way can close it.
PaymentSettlesInvoice ==
  \A o \in Orders : payment[o].status = "SUCCEEDED" => settled

\* The customer is charged what the payment row says, even if the invoice was
\* recomputed while the order was being created.
OrderMatchesPayment ==
  \A o \in Orders : payment[o].status # "NONE" => payment[o].amount = order[o].amount

\* The books show as refunded only what the gateway was told to refund and accepted, and
\* a payment as refunded only if it accepted the whole amount: lost updates, reconciling
\* webhooks and refunds that fail and are asked for again err in one direction only.  What
\* was accepted may still be pending or have failed.
RefundsWereAccepted ==
  \A o \in Orders :
    /\ payment[o].refunded <= order[o].accepted
    /\ payment[o].status = "REFUNDED" => order[o].amount <= order[o].accepted

\* If the gateway has paid out every refund of an order that it accepted, the books show
\* no more than what the customer got, and a refunded payment has been paid back in full.
PaidOutRefundsAreCovered ==
  \A o \in Orders :
    (\A f \in RefundIds : refund[f] # NoRefund /\ refund[f].o = o => refund[f].state = "SUCCESS")
    => /\ payment[o].refunded <= order[o].refunded
       /\ payment[o].status = "REFUNDED" => order[o].refunded = order[o].amount

\* What a webhook puts on the books has reached the customer, however late and whatever
\* else happened to the order: no event of a refund that was given up gets that far.
ReconciledWasPaidOut ==
  [][\A r \in Requests :
       CommitReconcile(r) => payment'[req[r].o].refunded <= order[req[r].o].refunded]_vars

\* A success that a handler has finished with is on the books for good: the payment is
\* never open again and its invoice stays settled, though the handler has read the status
\* long before it acts on it, and other handlers overwrite it.
HandledIsRecorded ==
  \A o \in Orders :
    [type |-> "success", o |-> o] \in handled =>
      /\ payment[o].status \notin {"NONE", "PENDING", "PROCESSING"}
      /\ settled

Ledger == INSTANCE IdealLedger WITH
  asked <- [o \in Orders |-> payment[o].amount],
  charged <- [o \in Orders |-> IF captured(o) THEN order[o].amount ELSE 0],
  instructed <- [o \in Orders |-> order[o].accepted],
  shown <- [o \in Orders |-> payment[o].refunded],
  invoice <- IF invoice.status = "PAID" THEN "paid"
             ELSE IF invoice.status = "VOID" THEN "void" ELSE "open"

\* Whatever the handlers, the gateway and its webhooks do together is one step of an
\* ideal ledger: a charge of what a row asks for, an instruction to pay some of it back, a
\* line in the books that such instructions cover, or an invoice that closes and stays
\* closed, as paid unless a payment and a void have crossed.
KeepsLedger == Ledger!Spec

\* What the customer paid is recorded as a success at some time, if handlers
\* and the gateway's webhook are fair: failed attempts, expired intents and a
\* voided invoice delay it and cannot prevent it.
CapturedIsRecorded ==
  \A o \in Orders :
    captured(o) /\ payment[o].status = "PENDING" ~> payment[o].status = "SUCCEEDED"

-----------------------------------------------------------------------------
(* What the documentation claims and the code does not do.                 *)

\* payments.service: "Webhook handlers are idempotent".  A handler given a
\* payment event that some handler has finished with changes no row.
WebhooksAreIdempotent ==
  [][\A r \in Requests :
       CommitSync(r) /\ req[r].event \in handled => UNCHANGED database]_vars

\* analytics.service: "Net revenue = amount - refunded_amount [...] (a fully refunded payment
\* nets to 0)".  What is taken off the revenue has gone back to the customer.
ShownRefundsWentBack == \A o \in Orders : payment[o].refunded <= order[o].refunded

\* createIntent: "Reuse an in-flight order for this invoice (idempotency on
\* retries)".  A customer who retries is not charged by two orders.
ChargedOnce == \A o, p \in Orders : captured(o) /\ captured(p) => o = p
=============================================================================
