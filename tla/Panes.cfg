SPECIFICATION Spec
CONSTANTS
  PANE_ID_MAX = 3
INVARIANTS HiddenBooksReturn
PROPERTIES LayoutIsSaved
