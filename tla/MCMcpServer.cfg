CONSTANTS
  None = None
  Bad = Bad
  desk = desk
  Formats <- TwoFormats
  Strangers <- SomeStrangers
  MaxClock = 2
  MaxCopies = 3
  BrokerConfigs <- SomeBrokers
  Configs <- SomeConfigs
SPECIFICATION Spec
INVARIANTS
  TypeOK
  ShownWhateverTheCopy
PROPERTIES
  WorksAsConfigured
  CopiesAreKept
  OldestGoFirst
