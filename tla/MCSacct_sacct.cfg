SPECIFICATION Spec
CONSTANTS
  Now = 10
  Midnight = 5
  DefMem = 100
  QosNames <- MCQosNames
  Users <- MCUsers
  Groups <- MCGroups
  Uid = "1"
  HomeCluster = "c1"
  IsNumber <- MCIsNumber
  StepArg <- MCStepArg
  JobRows <- MCJobRows
  Periods <- MCPeriods
  ClusterNames <- MCClusterNames
  Number <- MCNumber
  Options <- MCOptions
  LogOptions <- MCLogOptions
  MaxOptions = 2
  Worlds <- MCWorlds
  Completed <- MCCompleted
  LogUsers <- MCLogUsers
  LogGroups <- MCLogGroups
  CutPoints = {4, 8, 14, 34, 46, 100}
  MaxRecords = 2
INVARIANTS ListsWhatIsAsked CellsMean TotalsAddUp
