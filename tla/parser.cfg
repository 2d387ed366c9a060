SPECIFICATION Spec
CONSTANTS
  ParamBase = 5
  FpMax = 4
  IntBits = 6
  SymMax = 3
  TypeMax = 3
  FieldMax = 3
  MaxCallArgs = 2
  Texts <- MCTexts
INVARIANTS
  TypeOK
  StatementsKept
  NamesApart
  LayoutsAgree
CHECK_DEADLOCK FALSE
