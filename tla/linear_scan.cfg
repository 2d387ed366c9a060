SPECIFICATION Spec
CONSTANTS
  PoolSize = 3
  NCaller = 1
  MaxPos = 2
  Inputs <- MCInputs
INVARIANTS
  TypeOK
  NoSharedRegister
  PoolRespected
  SpillsOnlyUnderPressure
  UsedIsPrefix
PROPERTIES
  HandoverShortens
  ImplementsContract
CHECK_DEADLOCK FALSE
