CONSTANTS
  Days = {d1, d2}
  Rows = {e1, e2, e3}
  Batches = {b1, b2}
  NoDay = NoDay
SPECIFICATION UsageSpec
INVARIANT RollupNeverLags
CHECK_DEADLOCK FALSE
