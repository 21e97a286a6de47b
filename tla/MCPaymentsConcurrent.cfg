\* One order, two requests that overlap, fail and hear from the gateway at will.
SPECIFICATION Spec
CONSTANTS
  Orders = {o1}
  Totals = {1, 2}
  RefundIds = {f1, f2}
  Requests = {r1, r2}
  CanFail = TRUE
SYMMETRY Symmetric
INVARIANTS
  NoPhantomPayment
  PaymentSettlesInvoice
  OrderMatchesPayment
  RefundsWereAccepted
  PaidOutRefundsAreCovered
  HandledIsRecorded
PROPERTIES
  ReconciledWasPaidOut
  KeepsLedger
