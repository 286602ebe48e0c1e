------------------------------ MODULE SessionInput ------------------------------
(***************************************************************************)
(* sessionInput of src/public-cli.js: the wrapper around the iterator of   *)
(* the session input that lets an output failure stop it, asks it to close *)
(* at most once and keeps its late answers away from the session.          *)
(*                                                                         *)
(* The iterator is the caller's: it answers next() and return() when it    *)
(* likes, or never.                                                        *)
(***************************************************************************)
EXTENDS Naturals

VARIABLES
  iterator,   \* `iterator` is set: the run reads a session
  readable,   \* the input is a Node Readable
  stopped,    \* `stopped`
  finished,   \* `finished`, the iterator has answered done
  canceled,   \* `canceled`
  closing,    \* the promise `closing`: "none", "scheduled" (its microtask is
              \* queued), "requested" (return() was called), "returned", "threw"
  destroying, \* the microtask of cancel(): "none", "scheduled", "run"
  nexts,      \* calls of iterator.next() so far
  returns     \* calls of iterator.return() so far

inputVars == <<iterator, readable, stopped, finished, canceled, closing, destroying, nexts, returns>>

InputTypeOK ==
  /\ iterator \in BOOLEAN
  /\ readable \in BOOLEAN
  /\ stopped \in BOOLEAN
  /\ finished \in BOOLEAN
  /\ canceled \in BOOLEAN
  /\ closing \in {"none", "scheduled", "requested", "returned", "threw"}
  /\ destroying \in {"none", "scheduled", "run"}
  /\ nexts \in Nat
  /\ returns \in Nat

\* A session makes its iterator in the same synchronous stretch as run() itself.
\* If the output has failed already, cancel() has run before and the new iterator
\* is closed at once.
InputInit(alreadyFailed) ==
  /\ iterator \in BOOLEAN
  /\ readable \in BOOLEAN
  /\ stopped = alreadyFailed
  /\ finished = FALSE
  /\ canceled = alreadyFailed
  /\ closing = IF alreadyFailed /\ iterator THEN "scheduled" ELSE "none"
  /\ destroying = IF alreadyFailed THEN "scheduled" ELSE "none"
  /\ nexts = 0
  /\ returns = 0

\* There is something to close: an iterator that has not answered done.
Closable == iterator /\ ~ finished

\* Mutant of ClosingNext: every close() makes a request of its own.
ClosingAgain == IF Closable THEN "scheduled" ELSE closing

\* The promise that close() leaves: made once, kept afterwards.
ClosingNext == IF Closable /\ closing = "none" THEN "scheduled" ELSE closing

\* close(): the return of the wrapping iterator.
Close ==
  /\ stopped' = (stopped \/ Closable)
  /\ closing' = ClosingNext
  /\ UNCHANGED <<iterator, readable, finished, canceled, destroying, nexts, returns>>

\* Mutant of Cancel: the input is asked to close but is not stopped.
CancelUnstopped ==
  IF canceled THEN UNCHANGED inputVars
  ELSE /\ canceled' = TRUE
       /\ destroying' = "scheduled"
       /\ closing' = ClosingNext
       /\ UNCHANGED <<iterator, readable, stopped, finished, nexts, returns>>

\* Mutant of Cancel: iteration stops but the iterator is never asked to close.
CancelUnclosed ==
  IF canceled THEN UNCHANGED inputVars
  ELSE /\ canceled' = TRUE
       /\ stopped' = TRUE
       /\ destroying' = "scheduled"
       /\ UNCHANGED <<iterator, readable, closing, finished, nexts, returns>>

\* cancel(): stops iteration, then queues the destruction of a Readable and the close.
Cancel ==
  IF canceled THEN UNCHANGED inputVars
  ELSE /\ canceled' = TRUE
       /\ stopped' = TRUE
       /\ destroying' = "scheduled"
       /\ closing' = ClosingNext
       /\ UNCHANGED <<iterator, readable, finished, nexts, returns>>

\* The microtask of cancel().
Destroy ==
  /\ destroying = "scheduled"
  /\ destroying' = "run"
  /\ UNCHANGED <<iterator, readable, stopped, finished, canceled, closing, nexts, returns>>

\* The microtask of close(): return() is called if there is one, and may throw.
RequestReturn ==
  /\ closing = "scheduled"
  /\ \/ closing' \in {"requested", "threw"} /\ returns' = returns + 1
     \/ closing' = "returned" /\ UNCHANGED returns
  /\ UNCHANGED <<iterator, readable, stopped, finished, canceled, destroying, nexts>>

\* The caller's iterator answers the request.
ReturnSettles ==
  /\ closing = "requested"
  /\ closing' \in {"returned", "threw"}
  /\ UNCHANGED <<iterator, readable, stopped, finished, canceled, destroying, nexts, returns>>

\* next(), its part before the await, on an input that is not stopped.
CallNext ==
  /\ nexts' = nexts + 1
  /\ UNCHANGED <<iterator, readable, stopped, finished, canceled, closing, destroying, returns>>

\* next(), its part after the await: an answer that comes after the stop is dropped.
Answered(done) ==
  /\ finished' = (finished \/ (done /\ ~ stopped))
  /\ UNCHANGED <<iterator, readable, stopped, canceled, closing, destroying, nexts, returns>>
================================================================================
