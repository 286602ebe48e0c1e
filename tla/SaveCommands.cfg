\* One command against a source asset that is rewritten, kills, power loss and a failing output.
CONSTANTS
  s1 = s1
  p1 = p1
  Saver = {s1}
  Path = {p1}
  Dest <- OnePath
  Absent = Absent
  Foreign = Foreign
  Torn = Torn
  Version = {v1, v2}
  Expected = v1
  Mixed = Mixed
  None = None
SPECIFICATION CommandFairSpec
INVARIANTS CommandInv CommandTellsTruth
PROPERTIES NoWorkSilenced CommandsUseSave CommandEnds
