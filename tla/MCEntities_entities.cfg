CONSTANTS
  Uid       <- MCUid
  Names     = {"u", "v"}
  Accts     = {"a", "b"}
  Clusters  = {"k", "l"}
  Keys      = {"w"}
  QosNames  = {"q", "r"}
  Levels    = {3}
  Tables    <- MCTables
  Scenarios <- MCScenarios
  MaxCalls  = 3
  MaxOps    = 2
  MaxUse    = 2
  MaxCrashes = 2
SPECIFICATION Spec
INVARIANTS AnswersAgree NoOrphans UsageRollsUp StateKept
CHECK_DEADLOCK FALSE
