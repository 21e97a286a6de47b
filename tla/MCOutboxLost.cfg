\* One job, two buttons pressed, one flush.
SPECIFICATION Spec
CONSTANTS
  Jobs = {j1}
  Starts = {"ARRIVED"}
  Flushes = {f1}
  MaxActions = 2
CHECK_DEADLOCK FALSE
INVARIANT NothingLost
