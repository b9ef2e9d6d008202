CONSTANTS
  shift = shift
  left_button = left_button
  None = None
  Inputs <- TwoInputs
  Chords <- SomeChords
  MaxTimers = 3
SPECIFICATION FairSpec
INVARIANTS
  TypeOK
  NothingStuck
  NoStrayTimer
PROPERTIES
  NoEarlyRelease
  HoldsEnd
CHECK_DEADLOCK FALSE
