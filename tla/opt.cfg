SPECIFICATION FairSpec
CONSTANTS
  W8 = 3
  W32 = 4
  W64 = 8
  Fuel = 40
  Iterations = 2
  Rounds = 2
  FoldPasses = 3
  ParamBase = 20
  SharedTypes = TRUE
  Families = {"straight","blocks","memory","pointers","others"}
  Programs <- MCPrograms
  InputsOf <- MCInputsOf
INVARIANTS
  TypeOK
  SameBehaviour
  AliasNamesVreg
  Settled
  NoCommonSubexpr
PROPERTIES
  Terminates
CHECK_DEADLOCK FALSE
