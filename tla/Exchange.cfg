CONSTANTS
  Torn = Torn
  Projects <- ProjectsA
  Breakpoints <- BreakpointsA
  Stacks <- StacksA
  Rows <- RowsA
  Errors <- ErrorsA
  Multiline = {"lines"}
  Binary = {"bytes"}
  MaxSent = 7
SPECIFICATION ExchangeSpec
INVARIANTS ReadAsWritten LinesAgree
CHECK_DEADLOCK FALSE
