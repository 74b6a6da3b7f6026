CONSTANTS
  Jobs = {j1}
  MaxSuspends = 2
  MaxTime = 4
  MaxResends = 1
  Resendable = {"job_start", "job_complete", "step_start", "step_complete", "suspend", "flush"}
  MaxPurges = 2
  MaxFlushes = 1
  Nodes = {n1}
  Counts = {2, 3}
  NodeLists = {"a", "b"}
  Horizon = 3
  Cpus = {1, 2}
  ResvHorizon = 4
  MaxChanges = 2
  Items = {i1, i2}
  Archived = {"suspend", "step", "job"}
  Purge = 1
  MaxMonth = 4
  MaxRuns = 2
  MaxHurt = 1
  Account = "acct"
  Users = {"user"}
  Amounts = {0, 1}
  DayHours = 2
  MonthDays = 2
  Months = 2
  MaxRecords = 2
  MaxRolls = 2
  RollTimes = {1}
  Trouble = {"manual", "restart", "fail"}
SPECIFICATION TablesSpec
VIEW RowsView
INVARIANTS JobRecorded SuspendedTime WindowShows EventsOnce ReservedOnce ArchiveKeeps ReportsAddUp
CHECK_DEADLOCK FALSE
