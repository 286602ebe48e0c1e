------------------------------- MODULE MCReading -------------------------------
(***************************************************************************)
(* The readers of lines, archives and JSON, what is derived from an asset  *)
(* that was read, the system checks, and a session that reads one.  An     *)
(* initial state chooses one and leaves the others done.                   *)
(***************************************************************************)
EXTENDS SystemChecks, RequestLines, TarArchive, StrictJson, ReadSession

CONSTANT SomeJudgment   \* judgments differ in nothing: a revised relation starts at this one

VARIABLE part

FirstIsOfSome == \A r \in Revised : original.relations[r] # Void => original.relations[r].source = SomeJudgment

SystemIdle ==
  /\ edges = {} /\ twice = {} /\ roots = {} /\ colour = [n \in Node |-> 2]
  /\ stack = <<>> /\ todo = <<>> /\ warnings = <<>>
  /\ original = Empty /\ edited = Empty /\ lifecycle = [j \in Judgment |-> "null"] /\ order = Unordered
  /\ stage = "idle" /\ findings = {}

LinesIdle ==
  /\ input = <<>> /\ chunk = <<>> /\ start = 0 /\ end = 0
  /\ pending = <<>> /\ lines = <<>> /\ state = "returned"

TarIdle ==
  /\ dialect = "npm" /\ blocks = <<>> /\ zeroBlocks = 0
  /\ pax = None /\ longPath = None /\ files = <<>> /\ verdict = "refused"

JsonIdle == tokens = <<>> /\ nesting = <<>> /\ expects = "value" /\ jsonVerdict = "unterminated"

ReadIdle ==
  /\ opt = [allow |-> FALSE, session |-> FALSE, accept |-> FALSE, args |-> FALSE, view |-> "none", modelView |-> "none"]
  /\ contents = Bad /\ now = 0 /\ at = "end" /\ line = 0 /\ request = Nothing /\ retained = Nil /\ viewed = FALSE
  /\ issued = [h \in HandleId |-> Nil] /\ registered = {} /\ kept = {} /\ result = Unread
  /\ delivered = FALSE /\ projectionFailure = FALSE /\ answers = <<>> /\ code = 0 /\ exit = "returned"

systemVars == <<cycleVars, checkVars>>

ReadingInit ==
  \/ part = "system" /\ SystemInit /\ FirstIsOfSome /\ LinesIdle /\ TarIdle /\ JsonIdle /\ ReadIdle
  \/ part = "lines" /\ SystemIdle /\ LinesInit /\ TarIdle /\ JsonIdle /\ ReadIdle
  \/ part = "archive" /\ SystemIdle /\ LinesIdle /\ TarInit /\ JsonIdle /\ ReadIdle
  \/ part = "json" /\ SystemIdle /\ LinesIdle /\ TarIdle /\ JsonInit /\ ReadIdle
  \/ part = "session" /\ SystemIdle /\ LinesIdle /\ TarIdle /\ JsonIdle /\ ReadInit

ReadingNext ==
  \/ part = "system" /\ SystemNext /\ UNCHANGED <<lineVars, tarVars, jsonVars, readVars, part>>
  \/ part = "lines" /\ LinesNext /\ UNCHANGED <<systemVars, tarVars, jsonVars, readVars, part>>
  \/ part = "archive" /\ TarNext /\ UNCHANGED <<systemVars, lineVars, jsonVars, readVars, part>>
  \/ part = "json" /\ JsonNext /\ UNCHANGED <<systemVars, lineVars, tarVars, readVars, part>>
  \/ part = "session" /\ ReadNext /\ UNCHANGED <<systemVars, lineVars, tarVars, jsonVars, part>>

readingVars == <<systemVars, lineVars, tarVars, jsonVars, readVars, part>>

VersionSymmetry == Permutations(Version)

ReadingSpec == ReadingInit /\ [][ReadingNext]_readingVars

--------------------------------------------------------------------------------

\* The two formats this code reads by itself: the files of an archive are its entries under their own names, and
\* a JSON text is accepted exactly if the grammar has it.
FormatsAreExact == (part = "archive" => ArchiveIsExact) /\ (part = "json" => JsonIsStrict)
================================================================================
