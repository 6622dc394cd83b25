SPECIFICATION Spec
CONSTANTS
  Projects = {p, q}
  Files = {old, new}
  Vanishing = {old, new}
  MaxMRU = 1
  Untitled = Untitled
  Absent = Absent
  Newer = Newer
  Torn = Torn
INVARIANTS UnsavedIsDue
PROPERTIES EventuallySaved
