CONSTANTS
  None = None
  Unit = 4
  DefaultMonitor = 0
  Layouts <- SomeLayouts
  Calls <- SomeCalls
SPECIFICATION Spec
INVARIANTS
  FractionOfTheImage
