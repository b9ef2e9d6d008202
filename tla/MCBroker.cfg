CONSTANTS
  m1 = m1
  m2 = m2
  shot1 = shot1
  shot2 = shot2
  key = key
  None = None
  Machines <- OneMachine
  Known <- OneMachine
  MaxConn = 2
  Calls <- TwoShots
  Screenshots <- TwoShots
  Target <- ShotsToM1
SPECIFICATION Spec
INVARIANTS
  TypeOK
  AnswerMatchesRequest
  ImagesInv
  RegisteredIsServing
  ConfigComesFirst
  PerformedInOrder
PROPERTIES
  SettledOnce
  OnlyOwnExitEvicts
  ImplementsPromise
CHECK_DEADLOCK FALSE
