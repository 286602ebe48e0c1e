\* Two commands that find the lock of a crashed one.
CONSTANTS
  Proc = {p1, p2}
  Digest = {d1, d2}
  None = None
  MaxAttachments = 2
  MaxRuns = 3
  MaxCrashes = 1
SYMMETRY WorkspaceSymmetry
SPECIFICATION WorkspaceSpec
INVARIANT ExclusiveMutation
CHECK_DEADLOCK FALSE
