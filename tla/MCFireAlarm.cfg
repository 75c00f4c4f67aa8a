CONSTANTS
  Levels = {l1}
  Gates = {g1}
  MEDIAN_WINDOW = 3
  TEMPCHANGE_WINDOW = 10
  Temperatures = {58}
SPECIFICATION AlarmSpec
INVARIANT AlarmOpensGates
CHECK_DEADLOCK FALSE
