CONSTANTS
  Jobs = {j1}
  MaxTime = 6
  HourSecs = 2
  MaxRolls = 3
  Env = {"overlap"}
SPECIFICATION Spec
INVARIANT UsageComplete
CHECK_DEADLOCK FALSE
