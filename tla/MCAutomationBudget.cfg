CONSTANTS
  click = click
  scroll = scroll
  preview = preview
  before = before
  None = None
  NumSteps = 2
  MaxActions <- TwoBudgets
  MaxAttempts = 2
  Tools <- SomeTools
  Scrolls <- OneScroll
  Previews <- OnePreview
  Screens <- OneScreen
SPECIFICATION Spec
PROPERTIES
  BudgetIsHard
CHECK_DEADLOCK FALSE
