SPECIFICATION Spec
CONSTANTS
  NSlots = 3
  Depth = 5
  Cases <- MCCases
INVARIANTS
  TypeOK
  ResultArrives
  OthersStay
  WorldAsMeant
  StackBalanced
CHECK_DEADLOCK FALSE
