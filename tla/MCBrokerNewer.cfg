CONSTANTS
  m1 = m1
  m2 = m2
  shot1 = shot1
  shot2 = shot2
  key = key
  None = None
  Machines <- OneMachine
  Known <- OneMachine
  MaxConn = 2
  Calls <- OneKey
  Screenshots <- NoCalls
  Target <- KeyToM1
SPECIFICATION Spec
PROPERTIES
  NewerConnectionKept
CHECK_DEADLOCK FALSE
