\* A crash while a cleanup moves its snapshots, and what the next command reports.
CONSTANTS
  Proc = {p1, p2}
  Digest = {d1, d2}
  None = None
  MaxAttachments = 2
  MaxRuns = 3
  MaxCrashes = 1
SYMMETRY WorkspaceSymmetry
SPECIFICATION WorkspaceSpec
PROPERTY ReceiptIsExact
CHECK_DEADLOCK FALSE
