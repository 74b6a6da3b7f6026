CONSTANTS
  CurrStart = 2
  CurrEnd = 4
  Regs <- MCRegs
  Downs <- MCDowns
  Resvs <- MCResvs
  JobRows <- MCJobs
  MaxRows = 3
SPECIFICATION Spec
INVARIANTS HourBalances JobsCharged
CHECK_DEADLOCK FALSE
