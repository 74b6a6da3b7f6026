CONSTANTS
  Jobs = {j1}
  MaxTime = 6
  HourSecs = 2
  MaxRolls = 2
  Env = {"overlap", "fail", "noindex", "purge", "restart"}
SPECIFICATION Spec
INVARIANTS HoursCovered MarkAgrees
CHECK_DEADLOCK FALSE
