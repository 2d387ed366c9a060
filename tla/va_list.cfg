SPECIFICATION Spec
CONSTANTS
  ParamBase = 4
  Above = 6
  Below = 4
  Targets = {}
  Savers = {}
  Allocas = {"x86_64", "x86"}
  Variadic = {}
  Takers = {"x86_64", "x86", "arm64", "riscv", "arm"}
  StackTakers = {"x86_64", "x86", "riscv", "arm"}
  Functions <- Listed
INVARIANTS
  ArgumentsInOrder
CHECK_DEADLOCK FALSE
