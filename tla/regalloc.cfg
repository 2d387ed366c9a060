SPECIFICATION AllocSpec
CONSTANTS
  PoolSize = 2
  NCaller = 1
  ParamBase = 5
  Families = {"plain", "mixed", "phi", "phis", "quiet"}
  Programs <- MCPrograms
  Inputs = {}
INVARIANTS
  ExecTypeOK
  ReadsAgree
CHECK_DEADLOCK FALSE
