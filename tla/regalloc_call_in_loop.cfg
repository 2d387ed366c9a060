SPECIFICATION AllocSpec
CONSTANTS
  PoolSize = 2
  NCaller = 1
  ParamBase = 5
  Families = {"call_in_loop"}
  Programs <- MCPrograms
  Inputs = {}
INVARIANTS
  ReadsAgree
CHECK_DEADLOCK FALSE
