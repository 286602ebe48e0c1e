\* One command that replaces a consent.
CONSTANTS
  Asker = {p1, p2}
  MaxAsks = 1
  MaxSlips = 0
SPECIFICATION ConsentSpec
PROPERTY WritesAtomically
CHECK_DEADLOCK FALSE
