SPECIFICATION Spec
CONSTANTS
  Conns = {1, 2}
  MaxFailures = 2
  PromptClose = FALSE
PROPERTY ReaderClosesOwn
CHECK_DEADLOCK FALSE
