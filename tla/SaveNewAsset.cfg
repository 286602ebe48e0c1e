\* Two runs that contend for one output path, with kills, power loss and other programs.
CONSTANTS
  s1 = s1
  s2 = s2
  p1 = p1
  Saver = {s1, s2}
  Path = {p1}
  Dest <- SamePath
  Absent = Absent
  Foreign = Foreign
  Torn = Torn
SPECIFICATION FairSpec
INVARIANTS SaveInv SaveTellsTruth
PROPERTIES SaveDiscipline ImplementsExclusiveOutput EventuallySettles
