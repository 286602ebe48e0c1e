\* Any two commands that can meet, with up to two of: a checkout, an edit, a moved tag, a mixed-up file, another publisher.
CONSTANTS
  Job = {p1, p2}
  Commit = {c1, c2}
  Sha = c1
  Torn = Torn
  None = None
  MaxFaults = 2
SYMMETRY JobSymmetry
SPECIFICATION MCSpec
INVARIANTS CoreInv
PROPERTY PublicationWasApproved
