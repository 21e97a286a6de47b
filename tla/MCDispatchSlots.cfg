\* Slots: three bookings for a slot that takes one, two requests that overlap at
\* will, no jobs.
SPECIFICATION Spec
CONSTANTS
  Bookings = {b1, b2, b3}
  Technicians = {t1}
  Requests = {r1, r2}
  Starts = {1, 3}
  Durations = {1}
  DAY = 6
  WORKING_HOUR_START = 1
  WORKING_HOUR_END = 5
  SLOT_BUFFER = 1
  VISIT_DURATION = 2
  MAX_CONCURRENT_PER_SLOT = 1
  MAX_DAILY_JOBS = 1
  MaxLength = 4
  Rows = {}
SYMMETRY Symmetric
INVARIANTS
  OverbookingIsBounded
  WindowFitsService
