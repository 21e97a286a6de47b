\* One booking, two requests whose reads and transactions interleave freely.
SPECIFICATION Spec
CONSTANTS
  Bookings = {b1}
  Technicians = {t1}
  Warranted = {b1}
  Requests = {r1, r2}
  MaxHistory = 7
  MaxAssignments = 2
SYMMETRY Symmetric
VIEW Rows
CONSTRAINTS RescheduledOnce EarlyHandovers
INVARIANTS
  HistoryIsGrounded
  StatusMatchesHistory
  CompletionPassedEveryStage
  AcceptedIsNotPending
  WarrantyFollowsCompletion
  HandoverHasSuccessor
