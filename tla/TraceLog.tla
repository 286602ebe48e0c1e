--------------------------------- MODULE TraceLog ---------------------------------
(***************************************************************************)
(* The daily trace files of retired/src/cmds/trace.js, which any process   *)
(* appends to, reads and clears without a lock.  An append is one write:   *)
(* it is whole, or cut off anywhere, its line feed included, by a crash or *)
(* a full disk, which recordTrace does not tell.                           *)
(***************************************************************************)
EXTENDS Integers, SequencesExt

CONSTANTS
  Scribe,      \* processes that read or clear the traces
  Days,        \* the number of days
  MaxRecords,  \* bound on the records appended, by anybody
  MaxCuts,     \* bound on the appends cut off and the files that cannot be read
  MaxReadings  \* bound on the readings and clearings

ASSUME TraceAssumption == {Days, MaxRecords, MaxCuts, MaxReadings} \subseteq Nat /\ Days # 0

VARIABLES
  pages,    \* pages[d]: the lines of the file of day d, none when there is no file
  today,
  scribe,   \* scribe[s]: the command under way
  recorded, \* the number of records appended; a record is its number
  erased,   \* the records that an unlink took away (history)
  history,  \* the last complete reading and what it was due (history)
  cuts, readings

traceVars == <<pages, today, scribe, recorded, erased, history, cuts, readings>>

\* A line: the records in it, whether it parses, whether its line feed is still missing.
Line(records, parses, open) == [records |-> records, parses |-> parses, open |-> open]

AtRest == [verb |-> "none", todo |-> {}, got |-> <<>>, due |-> {}, past |-> {}, latest |-> 0]

NoHistory == [got |-> <<>>, shown |-> <<>>, latest |-> 0, due |-> {}, past |-> {}]

TraceInit ==
  /\ pages = [d \in 1..Days |-> <<>>] /\ today = 1 /\ scribe = [s \in Scribe |-> AtRest] /\ recorded = 0 /\ erased = {}
  /\ history = NoHistory /\ cuts = 0 /\ readings = 0

--------------------------------------------------------------------------------

Files == {d \in 1..Days : pages[d] # <<>>}

\* Mutant of Appended: an append behind a cut record begins the file anew.
AppendedAnew(page, line) == IF page # <<>> /\ page[Len(page)].open THEN <<line>> ELSE Append(page, line)

\* What is appended to an open line makes one line with it, which does not parse.
Appended(page, line) ==
  IF page # <<>> /\ page[Len(page)].open
  THEN [page EXCEPT ![Len(page)] = Line(@.records \union line.records, FALSE, line.open)]
  ELSE Append(page, line)

RecordTrace ==
  /\ recorded < MaxRecords /\ recorded' = recorded + 1
  /\ \E fate \in {"whole", "unended", "part", "nothing"} :
       /\ cuts' = cuts + (IF fate = "whole" THEN 0 ELSE 1) /\ cuts' <= MaxCuts
       /\ pages' = IF fate = "nothing" THEN pages
                   ELSE [pages EXCEPT ![today] = Appended(@, Line({recorded + 1}, fate # "part", fate # "whole"))]
  /\ UNCHANGED <<today, scribe, erased, history, readings>>

NextDay == today < Days /\ today' = today + 1 /\ UNCHANGED <<pages, scribe, recorded, erased, history, cuts, readings>>

\* The record of a line that parses, which has no other.
RecordOf(line) == CHOOSE r \in line.records : TRUE

\* Mutant of Parsed: the rest of a file is skipped with a malformed line.
ParsedUntilBroken(page) ==
  [i \in 1..Cardinality({k \in DOMAIN page : \A j \in 1..k : page[j].parses}) |-> RecordOf(page[i])]

Parsing(page) == {k \in DOMAIN page : page[k].parses}

\* The i-th of a set of numbers.
Ith(S, i) == CHOOSE k \in S : Cardinality({j \in S : j < k}) = i - 1

\* Malformed lines are skipped, one by one.
Parsed(page) == [i \in 1..Cardinality(Parsing(page)) |-> RecordOf(page[Ith(Parsing(page), i)])]

Kept == UNION {ToSet(Parsed(pages[d])) : d \in Files}

\* What no later append can spoil.
Sealed == UNION {UNION {line.records : line \in {l \in ToSet(pages[d]) : l.parses /\ ~l.open}} : d \in Files}

\* A command begins with the files there are.
Started(verb, due, past, latest) == [verb |-> verb, todo |-> Files, got |-> <<>>, due |-> due, past |-> past, latest |-> latest]

\* readAllTraces lists the files and reads them in the order of their names; -n asks for the latest.
StartReading(s) ==
  /\ scribe[s] = AtRest /\ readings < MaxReadings /\ readings' = readings + 1
  /\ \E latest \in {0, 1, 2} :
       scribe' = [scribe EXCEPT ![s] = Started("read", Sealed, erased, latest)]
  /\ UNCHANGED <<pages, today, recorded, erased, history, cuts>>

First(S) == CHOOSE d \in S : \A e \in S : d <= e

Contents(page) == UNION {line.records : line \in ToSet(page)}

\* Mutant of SkipFile: a file that cannot be read ends the reading, which shows what it has.
SkipFileAndRest(s) ==
  /\ scribe[s].verb = "read" /\ scribe[s].todo # {} /\ cuts < MaxCuts /\ cuts' = cuts + 1
  /\ LET d == First(scribe[s].todo) IN
     scribe' = [scribe EXCEPT ![s] = [scribe[s] EXCEPT !.todo = {}, !.due = @ \ Contents(pages[d])]]
  /\ UNCHANGED <<pages, today, recorded, erased, history, readings>>

\* A file that cannot be read is skipped, and nobody is told: its records are not due.
SkipFile(s) ==
  /\ scribe[s].verb = "read" /\ scribe[s].todo # {} /\ cuts < MaxCuts /\ cuts' = cuts + 1
  /\ LET d == First(scribe[s].todo) IN
     scribe' = [scribe EXCEPT ![s] = [scribe[s] EXCEPT !.todo = @ \ {d}, !.due = @ \ Contents(pages[d])]]
  /\ UNCHANGED <<pages, today, recorded, erased, history, readings>>

ReadFile(s) ==
  /\ scribe[s].verb = "read" /\ scribe[s].todo # {}
  /\ LET d == First(scribe[s].todo) IN
     scribe' = [scribe EXCEPT ![s] = [scribe[s] EXCEPT !.todo = @ \ {d}, !.got = @ \o Parsed(pages[d])]]
  /\ UNCHANGED <<pages, today, recorded, erased, history, cuts, readings>>

\* slice(-count).reverse(), where slice(-0) is all.
Latest(entries, count) ==
  Reverse(IF count = 0 \/ count >= Len(entries) THEN entries ELSE SubSeq(entries, Len(entries) - count + 1, Len(entries)))

EndReading(s) ==
  /\ scribe[s].verb = "read" /\ scribe[s].todo = {}
  /\ history' = [got |-> scribe[s].got, shown |-> Latest(scribe[s].got, scribe[s].latest), latest |-> scribe[s].latest,
                 due |-> scribe[s].due \ erased, past |-> scribe[s].past]
  /\ scribe' = [scribe EXCEPT ![s] = AtRest]
  /\ UNCHANGED <<pages, today, recorded, erased, cuts, readings>>

StartClearing(s) ==
  /\ scribe[s] = AtRest /\ readings < MaxReadings /\ readings' = readings + 1
  /\ scribe' = [scribe EXCEPT ![s] = Started("clear", Kept, {}, 0)]
  /\ UNCHANGED <<pages, today, recorded, erased, history, cuts>>

\* A file that another clearing has removed throws: the files behind it stay.
UnlinkFile(s) ==
  /\ scribe[s].verb = "clear"
  /\ \E d \in scribe[s].todo :
       /\ scribe' = [scribe EXCEPT ![s] = IF pages[d] = <<>> THEN AtRest ELSE [scribe[s] EXCEPT !.todo = @ \ {d}]]
       /\ pages' = [pages EXCEPT ![d] = <<>>] /\ erased' = erased \union Contents(pages[d])
  /\ UNCHANGED <<today, recorded, history, cuts, readings>>

\* Mutant of EndClearing: the clearing ends before all files are gone.
EndClearingEarly(s) ==
  /\ scribe[s].verb = "clear"
  /\ erased' = erased \union scribe[s].due /\ scribe' = [scribe EXCEPT ![s] = AtRest]
  /\ UNCHANGED <<pages, today, recorded, history, cuts, readings>>

\* A clearing that says it is done has taken all there was when it began.
EndClearing(s) ==
  /\ scribe[s].verb = "clear" /\ scribe[s].todo = {}
  /\ erased' = erased \union scribe[s].due /\ scribe' = [scribe EXCEPT ![s] = AtRest]
  /\ UNCHANGED <<pages, today, recorded, history, cuts, readings>>

TraceNext ==
  \/ RecordTrace \/ NextDay
  \/ \E s \in Scribe :
       StartReading(s) \/ ReadFile(s) \/ SkipFile(s) \/ EndReading(s) \/ StartClearing(s) \/ UnlinkFile(s) \/ EndClearing(s)

--------------------------------------------------------------------------------

\* A reading gives every record once and in the order recorded, none that was cleared before it began, and all that were
\* wholly written before it began, whatever was cut off before or behind them, unless they are cleared or in a file that
\* could not be read itself.
HistoryIsTrue ==
  /\ \A i, j \in 1..Len(history.got) : i < j => history.got[i] < history.got[j]
  /\ ToSet(history.got) \intersect history.past = {}
  /\ history.due \subseteq ToSet(history.got)

\* What is shown are the latest, the newest first, and as many as asked for.
LatestAreShown ==
  history.latest > 0 =>
    /\ Len(history.shown) <= history.latest /\ ToSet(history.shown) \subseteq ToSet(history.got)
    /\ \A k \in ToSet(history.got) \ ToSet(history.shown) :
         Len(history.shown) = history.latest /\ \A m \in ToSet(history.shown) : k < m

TracesAreTrue == HistoryIsTrue /\ LatestAreShown
================================================================================
