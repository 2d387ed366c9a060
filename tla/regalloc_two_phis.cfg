SPECIFICATION AllocSpec
CONSTANTS
  PoolSize = 3
  NCaller = 1
  ParamBase = 5
  Families = {"two_phis"}
  Programs <- MCPrograms
  Inputs = {}
INVARIANTS
  ReadsAgree
CHECK_DEADLOCK FALSE
