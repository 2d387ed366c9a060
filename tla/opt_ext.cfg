SPECIFICATION Spec
CONSTANTS
  W8 = 3
  W32 = 4
  W64 = 8
  Fuel = 10
  Iterations = 8
  Rounds = 2
  FoldPasses = 16
  ParamBase = 20
  SharedTypes = TRUE
  Families = {"chains"}
  Programs <- MCPrograms
  InputsOf <- MCInputsOf
INVARIANTS
  SameBehaviour
CHECK_DEADLOCK FALSE
