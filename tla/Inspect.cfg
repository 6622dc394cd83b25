SPECIFICATION InspectSpec
CONSTANTS
  MaxDepth = 2
  Reserved = {"print"}
  Programs <- ProgramsAll
  Words <- WordsA
  Phrase <- PhraseA
  Styled <- StyledA
  Types = {"number"}
  Books <- BooksA
  MaxStarts = 1
  MaxPauses = 2
  MaxEvents = 2
  InitialFront = {"locals", "watches"}
  MaxUses = 2
  BytesOf <- BytesA
  Widths = {20, 44}
  Positions = {8}
  Huge = 128
  MaxBreaks = 1
INVARIANTS ShownIsCurrent BlocksStayWhole DumpIsOfTheBuffer
PROPERTIES TipsAreOfThisPause
CHECK_DEADLOCK FALSE
