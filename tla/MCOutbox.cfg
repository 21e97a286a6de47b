\* One job, two buttons pressed, two flushes that may overlap.
SPECIFICATION FairSpec
CONSTANTS
  Jobs = {j1}
  Starts = {"ARRIVED"}
  Flushes = {f1, f2}
  MaxActions = 2
CHECK_DEADLOCK FALSE
INVARIANTS
  LossNeedsAnOverlap
  RefusedIsPassed
PROPERTY QueueDrainsOrBlocks
