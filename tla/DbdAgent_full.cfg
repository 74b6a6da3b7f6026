CONSTANTS
  MaxMsgs = 4
  Starts = {1}
  Registers = {}
  MaxQueue = 2
  Callers = {c1}
  MaxFaults = 1
  MaxRpcs = 1
  Env = {"close", "race", "cancel", "late", "crash"}
SPECIFICATION Spec
INVARIANTS TypeOK QueueBounded ListOrFile OneSocketUser
PROPERTIES AppliedInOrder
CHECK_DEADLOCK FALSE
