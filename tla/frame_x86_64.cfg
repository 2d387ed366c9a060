SPECIFICATION Spec
CONSTANTS
  ParamBase = 4
  Above = 6
  Below = 4
  Targets = {"x86_64"}
  Savers = {"x86_64"}
  Allocas = {}
  Variadic = {}
  Takers = {}
  StackTakers = {}
  Functions <- MCFunctions
INVARIANTS
  CalleeSavedRestored
CHECK_DEADLOCK FALSE
