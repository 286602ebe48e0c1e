\* Every support graph on three judgments, with every order of its relations, one of them recorded twice;
\* any two relations, lifecycles or value order, and every revision with one relation. Every input of
\* up to seven bytes in every division into chunks, lines of at most two bytes; every archive of up to
\* five blocks; every text of up to nine tokens with two levels of nesting. A session
\* of up to two lines, or one request, over a file that changes.
CONSTANTS
  Node = {1, 2, 3}
  Judgment = {j1, j2, j3}
  SomeJudgment = j1
  Relation = {r1, r2}
  Revised = {r1}
  Void = Void
  LF = LF
  Other = Other
  Limit = 2
  MaxBytes = 7
  Path = {1, 2}
  Unfit = Unfit
  NoPath = NoPath
  None = None
  MaxFiles = 2
  MaxTotal = 1
  EntryCount = 1
  MaxBlocks = 5
  Name = {"a", "b"}
  MaxDepth = 2
  MaxTokens = 9
  Version = {v1, v2}
  Bad = Bad
  Nil = Nil
  HandleId = {h1}
  Window = 1
  MaxTime = 2
  MaxLines = 2
SYMMETRY VersionSymmetry
SPECIFICATION ReadingSpec
INVARIANTS SystemIsReported LinesAreExact FormatsAreExact SessionTellsOneTruth
PROPERTY SearchAdvances
