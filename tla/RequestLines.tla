------------------------------ MODULE RequestLines ------------------------------
(***************************************************************************)
(* requestLines of src/public-cli.js: the generator that cuts the chunks   *)
(* of a session's input into request lines of at most Limit bytes.  A byte *)
(* is a line feed, LF, or it is not.                                       *)
(***************************************************************************)
EXTENDS Naturals, Sequences, SequencesExt

CONSTANTS
  LF, Other,  \* the two kinds of byte
  Limit,      \* 1048576
  MaxBytes    \* bound on the bytes of the input

ASSUME RequestLinesAssumption == LF # Other /\ Limit \in Nat /\ MaxBytes \in Nat

VARIABLES
  input,       \* what the input has given so far
  chunk,       \* the chunk being cut, <<>> when the next is awaited
  start, end,  \* the bounds of the piece looked at, as counts of bytes before them
  pending,     \* the beginning of a line, from earlier chunks
  lines,       \* the lines yielded
  state        \* "reading", "thrown", "returned"

lineVars == <<input, chunk, start, end, pending, lines, state>>

Byte == {LF, Other}

LinesInit ==
  /\ input = <<>> /\ chunk = <<>> /\ start = 0 /\ end = 0
  /\ pending = <<>> /\ lines = <<>> /\ state = "reading"

\* for await (const part of input)
NextChunk ==
  /\ state = "reading" /\ chunk = <<>>
  /\ \E part \in BoundedSeq(Byte, MaxBytes - Len(input)) :
       /\ part # <<>>
       /\ chunk' = part /\ input' = input \o part
  /\ start' = 0 /\ end' = 0
  /\ UNCHANGED <<pending, lines, state>>

AtCut == end < Len(chunk) => chunk[end + 1] = LF

\* if (end !== chunk.length && chunk[end] !== 10) continue
Advance ==
  /\ state = "reading" /\ chunk # <<>> /\ ~AtCut
  /\ end' = end + 1
  /\ UNCHANGED <<input, chunk, start, pending, lines, state>>

\* Mutant of Piece: the line feed is taken with the line.
PieceWithFeed == SubSeq(chunk, start + 1, IF end < Len(chunk) THEN end + 1 ELSE end)

Piece == SubSeq(chunk, start + 1, end)

\* Mutant of TooLarge: only the piece of the chunk at hand is measured.
TooLargeOfChunk == end - start > Limit

TooLarge == Len(pending) + end - start > Limit

Throw ==
  /\ state = "reading" /\ chunk # <<>> /\ AtCut /\ TooLarge
  /\ state' = "thrown"
  /\ UNCHANGED <<input, chunk, start, end, pending, lines>>

Cut ==
  /\ state = "reading" /\ chunk # <<>> /\ AtCut /\ ~TooLarge
  /\ IF end < Len(chunk)
     THEN /\ lines' = Append(lines, pending \o Piece) /\ pending' = <<>>
          /\ start' = end + 1 /\ end' = end + 1 /\ chunk' = chunk
     ELSE /\ pending' = pending \o Piece /\ lines' = lines
          /\ chunk' = <<>> /\ start' = 0 /\ end' = 0
  /\ UNCHANGED <<input, state>>

\* The input is done: if (pending.length) yield pending
Finish ==
  /\ state = "reading" /\ chunk = <<>>
  /\ lines' = IF pending # <<>> THEN Append(lines, pending) ELSE lines
  /\ state' = "returned"
  /\ UNCHANGED <<input, chunk, start, end, pending>>

Ended == state # "reading" /\ UNCHANGED lineVars

LinesNext == NextChunk \/ Advance \/ Throw \/ Cut \/ Finish \/ Ended

LinesSpec == LinesInit /\ [][LinesNext]_lineVars

--------------------------------------------------------------------------------
(* Properties.                                                                 *)

\* The line feeds among the first n bytes, the place of the k-th, and the pieces of the input they end.
Feeds(n) == {i \in 1..n : input[i] = LF}
Count == Cardinality(Feeds(Len(input)))
FeedAt(k) == IF k = 0 THEN 0 ELSE CHOOSE i \in Feeds(Len(input)) : Cardinality(Feeds(i)) = k
WholeLines == [k \in 1..Count |-> SubSeq(input, FeedAt(k - 1) + 1, FeedAt(k) - 1)]
LastLine == SubSeq(input, FeedAt(Count) + 1, Len(input))

\* The lines are those of the input, byte for byte, however the input came in chunks; a tail without
\* a line feed is a line, an empty one is not.
LinesAreTheInput ==
  /\ IsPrefix(lines, IF state = "returned" /\ LastLine # <<>> THEN Append(WholeLines, LastLine) ELSE WholeLines)
  /\ state = "returned" => Len(lines) = Len(WholeLines) + (IF LastLine = <<>> THEN 0 ELSE 1)

\* A line of exactly Limit bytes passes, one more is refused, whatever chunk it is completed in: the
\* generator throws only for a line over the limit, and all lines before it have been yielded.
LimitIsPerLine ==
  /\ \A k \in DOMAIN lines : Len(lines[k]) <= Limit
  /\ Len(pending) <= Limit
  /\ state = "thrown" => Len(Append(WholeLines, LastLine)[Len(lines) + 1]) > Limit

\* The generator cuts the input at its line feeds and nowhere else, up to a line over the limit.
LinesAreExact == LinesAreTheInput /\ LimitIsPerLine
================================================================================
