SPECIFICATION Spec
CONSTANTS
  ParamBase = 3
  FpMax = 4
  IntBits = 5
  AliasCap = 1
  FuncCap = 1
  MaxHops = 2
  MaxCallArgs = 1
  Ints = {}
  Fps = {1, 2}
  Literals <- OneLiteral
  MaxFuncs = 2
  MaxInstrs = 2
  MaxBlocks = 1
  MaxParams = 1
  MaxPlaceholders = 2
INVARIANTS
  TypeOK
  CurrentFunctionIsThere
  NumbersApart
  FinalizedMentionsNone
PROPERTIES
  FinalizeIsIdempotent
  ImplementsSubstitution
CHECK_DEADLOCK FALSE
