CONSTANTS
  MaxMsgs = 2
  Starts = {2}
  Registers = {1}
  MaxQueue = 5
  Callers = {c1, c2}
  MaxFaults = 1
  MaxRpcs = 2
  Env = {"close", "crash"}
SPECIFICATION FairSpec
INVARIANTS KeptUntilApplied ReplyMatchesRequest AgentWaitHasWaker
PROPERTIES CloseReturns RpcReturns Drain KeepsPromise
