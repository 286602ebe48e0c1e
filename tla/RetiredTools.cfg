\* An entitlement, the installer, the Host consent and the secrets: two commands at a time out of two or three, one
\* crash or failed write. Clusters and discovery: every small set of domains. Traces: three records over two days.
\* Protection: two commands on two paths. Archives: every layout of up to three entries.
CONSTANTS
  Client = {p1, p2}
  MaxVersion = 2
  MaxOrders = 2
  MaxHarm = 1
  Shell = {p1, p2}
  MaxCalls = 2
  MaxMishaps = 1
  Asker = {p1, p2}
  MaxAsks = 2
  MaxSlips = 2
  Word = {"a", "b"}
  Foreign = "z"
  Caller = {p1, p2}
  MaxUses = 3
  MaxTroubles = 1
  Idents = 2
  MaxChanges = 1
  Scribe = {p1, p2}
  Days = 2
  MaxRecords = 3
  MaxCuts = 1
  MaxReadings = 2
  Keeper = {p1, p2}
  Place = {x, y}
  Password = {"a", "b"}
  MaxCommands = 2
  MaxMisfortunes = 1
  Central = 6
  MaxEntries = 3
  MaxEntry = 2
  MaxTotal = 4
  MaxRatio = 3
  MaxHurt = 1
SYMMETRY ToolSymmetry
SPECIFICATION MCToolsSpec
INVARIANTS ToolsAgree AnswersAreTrue AssetsAreProtected
PROPERTIES ToolsMoveByRight
CHECK_DEADLOCK FALSE
