SPECIFICATION Spec
CONSTANTS
  Files = {"a", "b"}
  Foreign = {"z"}
  OnDisk <- OneLine
  Functions = {1}
  MaxLines = 3
  MaxEdits = 1
  MaxMarked = 1
  MaxPosted = 1
INVARIANTS MarksAreBreakpoints
PROPERTIES RowsLeadToFunctions FunctionsGetListed
CHECK_DEADLOCK FALSE
