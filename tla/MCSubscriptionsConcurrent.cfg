\* A monthly and a quarterly plan, two requests that overlap at will, five months.
\* A cancelled subscription stops for good, so deadlock is not an error.
SPECIFICATION Spec
CONSTANTS
  monthly = monthly
  quarterly = quarterly
  Plans = {monthly, quarterly}
  Cycle <- MCCycle
  Requests = {r1, r2}
  Starts = {0, 1}
  MaxTime = 5
  MaxVisits = 5
SYMMETRY Symmetric
INVARIANTS
  NoVisitSkipped
  DoubleRenewalNeedsARace
  VisitsAdvance
PROPERTIES
  CancellationIsFinal
CHECK_DEADLOCK FALSE
