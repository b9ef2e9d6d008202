CONSTANTS
  m1 = m1
  m2 = m2
  shot1 = shot1
  shot2 = shot2
  key = key
  None = None
  Machines <- TwoMachines
  Known <- OneMachine
  MaxConn = 2
  Calls <- OneKey
  Screenshots <- NoCalls
  Target <- KeyToM1
SPECIFICATION FairSpec
PROPERTIES
  EveryCallEnds
  GoneMachineUnlisted
CHECK_DEADLOCK FALSE
