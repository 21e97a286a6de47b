\* One order, two overlapping requests, no failures, fair handlers and webhooks.
SPECIFICATION FairSpec
CONSTANTS
  Orders = {o1}
  Totals = {2}
  RefundIds = {f1}
  Requests = {r1, r2}
  CanFail = FALSE
PROPERTIES
  CapturedIsRecorded
