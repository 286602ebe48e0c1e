\* The workspace: two processes at a time, three commands, one crash, any failing calls. Resolution: two
\* attachments of any scope and one change between any two steps. The package store: two commands at a time
\* out of two, one crash or failed write. Publication and work packs: one command over every small asset and pack,
\* whose files others change between its steps.
CONSTANTS
  Proc = {p1, p2}
  Digest = {d1, d2}
  None = None
  MaxAttachments = 2
  MaxRuns = 3
  MaxCrashes = 1
  Attached = {a1, a2}
  Nobody = Nobody
  MaxChanges = 1
  Worker = {p1, p2}
  Bytes = {d1, d2}
  Gone = None
  MaxCommands = 2
  MaxFaults = 1
  MaxFields = 2
  MaxReplaced = 2
  Packer = {p1, p2}
  MaxPacks = 3
  MaxTroubled = 2
SYMMETRY RetiredSymmetry
SPECIFICATION RetiredSpec
INVARIANTS StoresAgree ResolutionsAreClear
PROPERTIES StoresChangeByRight CleanupsAreApproved ChoicesAreBound
CHECK_DEADLOCK FALSE
