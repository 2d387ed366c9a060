SPECIFICATION Spec
CONSTANTS
  ParamBase = 4
  Above = 6
  Below = 4
  Targets = {"x86_64", "x86", "arm64", "riscv", "arm"}
  Savers = {"x86_64", "x86", "arm64", "riscv", "arm"}
  Allocas = {"x86_64", "x86", "arm64", "riscv", "arm"}
  Variadic = {"x86_64", "x86", "arm64", "riscv", "arm"}
  Takers = {"x86_64", "x86", "arm64", "riscv", "arm"}
  StackTakers = {"x86", "riscv"}
  Functions <- Framed
INVARIANTS
  TypeOK
  ObjectsKeep
  CalleeSavedRestored
  CallersFrameKept
CHECK_DEADLOCK FALSE
