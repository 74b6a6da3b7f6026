CONSTANTS
  Clusters <- MC_Clusters
  Start <- MC_Start
  Accts = {"root", "a", "b"}
  Users = {"u"}
  Limits = {2}
  MaxCalls = 3
  MaxIds = 8
  MaxOps = 2
  MaxBatch = 2
  Env = {}
SPECIFICATION Spec
INVARIANTS TreeOK CacheAgrees
PROPERTIES JobsKeepAssoc
