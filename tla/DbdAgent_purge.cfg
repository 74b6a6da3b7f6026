CONSTANTS
  MaxMsgs = 3
  Starts = {1}
  Registers = {}
  MaxQueue = 3
  Callers = {}
  MaxFaults = 0
  MaxRpcs = 0
  Env = {}
SPECIFICATION Spec
INVARIANT NotLost
