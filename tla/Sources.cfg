SPECIFICATION Spec
CONSTANTS
  Files = {1, 2, 3}
  Capital = {3}
  ReadOnly = {2}
  Vanishing = {1}
  Edited = {1}
  Lines = {0}
  MaxText = 1
INVARIANTS EditorShowsSelectedTab BreakpointsHaveSources
PROPERTIES OnlyEditsChangeTexts DeletesTheSelected
