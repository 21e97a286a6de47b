\* Two bookings, two technicians, two requests: what an overlap costs, and whom.
SPECIFICATION Spec
CONSTANTS
  Bookings = {b1, b2}
  Technicians = {t1, t2}
  Warranted = {b1, b2}
  Requests = {r1, r2}
  MaxHistory = 7
  MaxAssignments = 2
SYMMETRY AllSymmetric
CONSTRAINTS RescheduledOnce ShortTrails EarlyHandovers
INVARIANTS
  OneActiveAssignment
  HistoryIsChain
  WarrantyMeansCompleted
PROPERTIES
  KeepsPromise
