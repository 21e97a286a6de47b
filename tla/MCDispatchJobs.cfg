\* Jobs: two subscription visits, which can be rescheduled once, one technician with
\* one job a day, two requests that overlap at will.  Days have three hours: visits
\* can share a day without overlapping, and overlap without sharing a day.
SPECIFICATION Spec
CONSTANTS
  Bookings = {b1, b2}
  Technicians = {t1}
  Requests = {r1, r2}
  Starts = {1, 2, 3}
  Durations = {}
  DAY = 3
  WORKING_HOUR_START = 2
  WORKING_HOUR_END = 3
  SLOT_BUFFER = 1
  VISIT_DURATION = 1
  MAX_CONCURRENT_PER_SLOT = 1
  MAX_DAILY_JOBS = 1
  MaxLength = 2
  Rows = {i1, i2, i3}
SYMMETRY Symmetric
INVARIANTS
  DoubleBookingNeedsARace
  OverloadNeedsARace
