------------------------------ MODULE RunLifecycle ------------------------------
(***************************************************************************)
(* run() of src/public-cli.js: one command from its call to its exit code  *)
(* or its rejection.  The operation (a one-shot command, or the read       *)
(* session with its loop over input lines) is raced against the first      *)
(* output failure; a run that loses the race is answered although its      *)
(* operation may still be waiting for the caller's input.                  *)
(*                                                                         *)
(* An action is the code between two awaits of one of the promise chains:  *)
(* the operation, the run, the close of the input, the output stream.      *)
(* Their microtasks interleave freely, except that setImmediate() fires    *)
(* only when no microtask or next-tick event is queued.                    *)
(***************************************************************************)
EXTENDS OutputWriter, SessionInput, Sequences

CONSTANTS
  Chunks,     \* the chunks the input may deliver: complete lines and the kind
              \* of the unterminated bytes after them, or "none"
  MaxChunks   \* the number of chunks before the input ends: bounds the model

LineKinds == {"ready", "refused", "malformed"}

ASSUME ChunksAssumption ==
  /\ Chunks \subseteq [lines : Seq(LineKinds \union {"oversized"}),
                       tail : LineKinds \union {"none"}]
  /\ MaxChunks \in Nat

VARIABLES
  op,         \* what the operation waits for or has come to
  line,       \* the kind of the line in work
  lines,      \* complete lines of the current chunk the generator has not yielded
  tail,       \* the kind of its unterminated bytes, or "none"
  draining,   \* requestLines has left its loop over the input
  then,       \* why the operation writes or closes, or the error it ended with
  code,       \* `code`, and the value the operation resolves with
  answered,   \* lines answered and acknowledged
  taken,      \* lines yielded to the session loop
  refusals,   \* one of them was not answered ready
  run,        \* "racing", "releasing" or "settled"
  race,       \* how the race ended: "none", "code" or an error
  outcome     \* what run() settles with: "pending", "code" or an error

opVars == <<op, line, lines, tail, draining, then, code, answered, taken, refusals>>
runVars == <<run, race, outcome>>
vars == <<outputVars, inputVars, opVars, runVars>>

OpErrors == Failures \union {"work_error", "input_error", "cleanup_error"}

\* The operation starts with run(): a session asks for its first line, a one-shot
\* command has one answer to work out.
Init ==
  /\ OutputInit
  /\ InputInit(failed)
  /\ op = IF iterator THEN "asking" ELSE "working"
  /\ line \in IF iterator THEN {"none"} ELSE {"ready", "refused"}
  /\ lines = <<>> /\ tail = "none" /\ draining = FALSE
  /\ then = "none"
  /\ code = 0 /\ answered = 0
  /\ taken = IF iterator THEN 0 ELSE 1
  /\ refusals = (line = "refused")
  /\ run = "racing" /\ race = "none" /\ outcome = "pending"

\* Math.max of exit codes.
Larger(a, b) == IF a < b THEN b ELSE a

\* fail(error) as a whole: the writer records it and the input is cancelled.
Fails(error, after) == RecordFailure(error, after) /\ Cancel

--------------------------------------------------------------------------------
(* The operation: the ways it goes on, by the variables of opVars.            *)

Goto(place, reason) == op' = place /\ then' = reason

\* An error leaves the operation through the generator: when that is suspended
\* inside its loop over the input, the input is closed first.
Throws(error) ==
  IF iterator /\ ~ draining /\ then # "oversized"
  THEN Close /\ Goto("closing", error)
  ELSE UNCHANGED inputVars /\ Goto("rejected", error)

\* Mutant of Demand: the wrapper does not look at `stopped`.
DemandAnyway ==
  /\ op = "asking" /\ lines = <<>> /\ ~ draining
  /\ CallNext /\ Goto("waiting", "none")
  /\ UNCHANGED <<outputVars, runVars, line, lines, tail, draining, code, answered, taken, refusals>>

\* The generator is resumed with no line left in its chunk: next() calls the
\* iterator, or answers done because the input is stopped.
Demand ==
  /\ op = "asking" /\ lines = <<>> /\ ~ draining
  /\ IF stopped
     THEN draining' = TRUE /\ UNCHANGED <<inputVars, op, then>>
     ELSE CallNext /\ Goto("waiting", "none") /\ UNCHANGED draining
  /\ UNCHANGED <<outputVars, runVars, line, lines, tail, code, answered, taken, refusals>>

\* A line is yielded and parsed.  Bytes that are no JSON text end the session
\* with a diagnostic; a request is worked on.
Take(kind) ==
  /\ line' = kind
  /\ taken' = taken + 1
  /\ refusals' = (refusals \/ kind # "ready")
  /\ IF kind = "malformed" THEN Goto("writing", "malformed") ELSE Goto("working", "answer")

\* Mutant of TakeLine: a malformed line closes the input before its diagnostic
\* is written.
TakeLineClosing ==
  /\ op = "asking" /\ lines # <<>>
  /\ lines' = Tail(lines)
  /\ IF Head(lines) = "oversized"
     THEN Close /\ Goto("closing", "oversized") /\ UNCHANGED <<line, taken, refusals>>
     ELSE Take(Head(lines)) /\ IF Head(lines) = "malformed" THEN Close ELSE UNCHANGED inputVars
  /\ UNCHANGED <<outputVars, runVars, tail, draining, code, answered>>

\* The next complete line of the chunk.  One over the limit is not yielded: the
\* generator throws inside its loop, which closes the input before anything else.
TakeLine ==
  /\ op = "asking" /\ lines # <<>>
  /\ lines' = Tail(lines)
  /\ IF Head(lines) = "oversized"
     THEN Close /\ Goto("closing", "oversized") /\ UNCHANGED <<line, taken, refusals>>
     ELSE Take(Head(lines)) /\ UNCHANGED inputVars
  /\ UNCHANGED <<outputVars, runVars, tail, draining, code, answered>>

\* After the loop: the unterminated bytes are the last line, then the session ends.
Drain ==
  /\ op = "asking" /\ lines = <<>> /\ draining
  /\ IF tail # "none"
     THEN Take(tail) /\ tail' = "none"
     ELSE Goto("resolved", "none") /\ UNCHANGED <<line, tail, taken, refusals>>
  /\ UNCHANGED <<outputVars, inputVars, runVars, lines, draining, code, answered>>

\* iterator.next() answers with a chunk or with done.  Bytes kept from the last
\* chunk become the start of the first line, or stay unterminated.
InputAnswers ==
  /\ op = "waiting"
  /\ Goto("asking", "none")
  /\ \/ /\ nexts <= MaxChunks
        /\ \E c \in Chunks :
             IF stopped THEN draining' = TRUE /\ UNCHANGED <<lines, tail>>
             ELSE /\ lines' = c.lines
                  /\ tail' = IF c.lines = <<>> /\ c.tail = "none" THEN tail ELSE c.tail
                  /\ UNCHANGED draining
        /\ Answered(FALSE)
     \/ Answered(TRUE) /\ draining' = TRUE /\ UNCHANGED <<lines, tail>>
  /\ UNCHANGED <<outputVars, runVars, line, code, answered, taken, refusals>>

\* iterator.next() rejects: the loop ends without asking the iterator to close.
InputThrows ==
  /\ op = "waiting"
  /\ Goto("rejected", "input_error")
  /\ UNCHANGED <<outputVars, inputVars, runVars, line, lines, tail, draining, code,
                 answered, taken, refusals>>

\* The file reads, admissions and productions behind an answer come back.  A step
\* of the work that finds the output failed throws that failure.
WorkDone ==
  /\ op = "working"
  /\ \/ Goto("writing", then) /\ UNCHANGED inputVars
     \/ Throws("work_error")
     \/ failed /\ Throws(failure)
  /\ UNCHANGED <<outputVars, runVars, line, lines, tail, draining, code, answered, taken, refusals>>

\* Mutant of Write: the write does not look at `failed`.
WriteAnyway ==
  /\ op = "writing" /\ write = "idle"
  /\ SubmitWrite
  /\ UNCHANGED <<inputVars, opVars, runVars>>

\* write(text): refused when the output has failed, or found gone or unable now.
\* The error goes to the caller; here it is the operation that throws it.
Write ==
  /\ op = "writing" /\ write = "idle"
  /\ \/ /\ failed
        /\ Throws(failure)
        /\ UNCHANGED <<outputVars, line, lines, tail, draining, code, answered, taken, refusals>>
     \/ /\ ~ failed /\ sink = "open"
        /\ SubmitWrite
        /\ UNCHANGED <<inputVars, opVars>>
     \/ /\ ~ failed
        /\ \E error \in IF sink = "gone" THEN {"output_closed"} ELSE {"unavailable"} :
             Fails(error, "rejected")
        /\ UNCHANGED <<stream, sink, event, listening, writes, unheard>>
        /\ UNCHANGED opVars
  /\ UNCHANGED runVars

\* Mutant of Acknowledged: the exit code of a session is its last answer's.
AcknowledgedLast ==
  /\ op = "writing" /\ write = "acked"
  /\ write' = "idle"
  /\ answered' = answered + 1
  /\ LET own == IF line = "ready" THEN 0 ELSE 1
     IN  /\ code' = own
         /\ IF iterator THEN Goto("asking", "none") ELSE Goto("resolved", "none")
         /\ UNCHANGED inputVars
  /\ UNCHANGED <<stream, sink, event, listening, failed, failure, writes, unheard>>
  /\ UNCHANGED <<runVars, line, lines, tail, draining, taken, refusals>>

\* The write of the operation is acknowledged and the operation goes on.  The
\* return after a malformed line leaves the loop, which closes the input.
Acknowledged ==
  /\ op = "writing" /\ write = "acked"
  /\ write' = "idle"
  /\ answered' = IF then = "oversized" THEN answered ELSE answered + 1
  /\ LET own == IF line = "ready" THEN 0 ELSE 1
     IN  CASE then \in {"malformed", "oversized"} ->
                /\ code' = 2
                /\ IF then = "malformed" /\ ~ draining
                   THEN Close /\ Goto("closing", "malformed")
                   ELSE UNCHANGED inputVars /\ Goto("resolved", "none")
           [] OTHER ->
                /\ code' = Larger(code, own)
                /\ IF iterator THEN Goto("asking", "none") ELSE Goto("resolved", "none")
                /\ UNCHANGED inputVars
  /\ UNCHANGED <<stream, sink, event, listening, failed, failure, writes, unheard>>
  /\ UNCHANGED <<runVars, line, lines, tail, draining, taken, refusals>>

WriteRejected ==
  /\ op = "writing" /\ write = "rejected"
  /\ write' = "idle"
  /\ Throws(failure)
  /\ UNCHANGED <<stream, sink, event, listening, failed, failure, writes, unheard>>
  /\ UNCHANGED <<runVars, line, lines, tail, draining, code, answered, taken, refusals>>

\* Mutant of Closed: the answer of return() is not awaited.
ClosedUnawaited ==
  /\ op = "closing"
  /\ CASE then = "oversized" -> Goto("writing", "oversized")
       [] then = "malformed" -> Goto("resolved", "none")
       [] OTHER -> Goto("rejected", then)
  /\ UNCHANGED <<outputVars, inputVars, runVars, line, lines, tail, draining, code,
                 answered, taken, refusals>>

\* Mutant of Closed: only a return() that succeeds lets the operation go on.
ClosedOnSuccess ==
  /\ op = "closing"
  /\ finished \/ closing = "returned"
  /\ CASE then = "oversized" -> Goto("writing", "oversized")
       [] then = "malformed" -> Goto("resolved", "none")
       [] OTHER -> Goto("rejected", then)
  /\ UNCHANGED <<outputVars, inputVars, runVars, line, lines, tail, draining, code,
                 answered, taken, refusals>>

\* The operation has waited for close().  An error of the close replaces a return
\* but not an error; after an oversized line the diagnostic is written now.
Closed ==
  /\ op = "closing"
  /\ finished \/ closing \in {"returned", "threw"}
  /\ CASE then = "oversized" -> Goto("writing", "oversized")
       [] then = "malformed" ->
            IF closing = "threw" THEN Goto("rejected", "cleanup_error") ELSE Goto("resolved", "none")
       [] OTHER -> Goto("rejected", then)
  /\ UNCHANGED <<outputVars, inputVars, runVars, line, lines, tail, draining, code,
                 answered, taken, refusals>>

--------------------------------------------------------------------------------
(* The output stream.                                                         *)

Acks == AckWrite /\ UNCHANGED <<inputVars, opVars, runVars>>

\* The write callback with an error; Node emits the 'error' event afterwards.
WriteFails ==
  /\ write = "pending" /\ event = "none"
  /\ Fails("write_error", "rejected")
  /\ sink' = "gone"
  /\ event' = "write_error"
  /\ UNCHANGED <<stream, listening, writes, unheard>>
  /\ UNCHANGED <<opVars, runVars>>

SinkGone == SinkGoes /\ UNCHANGED <<inputVars, opVars, runVars>>

Emit ==
  /\ \/ /\ event # "none" /\ listening
        /\ Fails(event, Rejecting)
        /\ event' = "none"
        /\ UNCHANGED <<stream, sink, listening, writes, unheard>>
     \/ EmitUnheard /\ UNCHANGED inputVars
  /\ UNCHANGED <<opVars, runVars>>

--------------------------------------------------------------------------------
(* The caller's input and the microtasks of sessionInput.                     *)

InputTask(A) == A /\ UNCHANGED <<outputVars, opVars, runVars>>

--------------------------------------------------------------------------------
(* The run.                                                                   *)

\* Mutant of Settles: the run waits for its operation, whatever the output does.
SettlesWithOperation ==
  /\ run = "racing"
  /\ run' = "releasing"
  /\ \/ op = "resolved" /\ race' = "code" /\ UNCHANGED inputVars
     \/ op = "rejected" /\ race' = then /\ Cancel
  /\ UNCHANGED <<outputVars, opVars, outcome>>

\* The race of settle() ends: with the operation, or with the first failure.  On
\* an error the input is cancelled.
Settles ==
  /\ run = "racing"
  /\ run' = "releasing"
  /\ \/ op = "resolved" /\ race' = "code" /\ UNCHANGED inputVars
     \/ op = "rejected" /\ race' = then /\ Cancel
     \/ failed /\ race' = failure /\ Cancel
  /\ UNCHANGED <<outputVars, opVars, outcome>>

\* Mutant of Releases: the listeners are removed without the setImmediate().
ReleasesAtOnce ==
  /\ run = "releasing"
  /\ run' = "settled"
  /\ listening' = FALSE
  /\ outcome' = IF failed THEN failure ELSE race
  /\ UNCHANGED <<stream, sink, event, failed, failure, write, writes, unheard>>
  /\ UNCHANGED <<inputVars, opVars, race>>

\* Mutant of Releases: the answer is the race's, without the check() at the end.
ReleasesUnchecked ==
  /\ run = "releasing"
  /\ event = "none" /\ closing # "scheduled" /\ destroying # "scheduled"
  /\ run' = "settled"
  /\ listening' = FALSE
  /\ outcome' = race
  /\ UNCHANGED <<stream, sink, event, failed, failure, write, writes, unheard>>
  /\ UNCHANGED <<inputVars, opVars, race>>

\* The setImmediate() of release() fires: listeners are removed, check() throws
\* the first failure, and otherwise the race decides.
Releases ==
  /\ run = "releasing"
  /\ event = "none" /\ closing # "scheduled" /\ destroying # "scheduled"
  /\ run' = "settled"
  /\ listening' = FALSE
  /\ outcome' = IF failed THEN failure ELSE race
  /\ UNCHANGED <<stream, sink, event, failed, failure, write, writes, unheard>>
  /\ UNCHANGED <<inputVars, opVars, race>>

--------------------------------------------------------------------------------
Operation == Demand \/ TakeLine \/ Drain \/ Write \/ Acknowledged \/ WriteRejected \/ Closed

Tasks == InputTask(Destroy) \/ InputTask(RequestReturn)

Environment ==
  \/ InputAnswers \/ InputThrows \/ WorkDone \/ InputTask(ReturnSettles)
  \/ Acks \/ WriteFails \/ SinkGone

Next == Operation \/ Tasks \/ Emit \/ Settles \/ Releases \/ Environment

Spec == Init /\ [][Next]_vars

\* Queued microtasks, next-tick events and immediates run.
Scheduling ==
  /\ WF_vars(Operation) /\ WF_vars(Tasks) /\ WF_vars(Emit)
  /\ WF_vars(Settles) /\ WF_vars(Releases)

\* Nothing is assumed of the input, the file system or the output stream.
FairSpec == Spec /\ Scheduling

\* The input answers every call, the file system answers, the sink acknowledges.
Cooperation ==
  /\ WF_vars(InputAnswers \/ InputThrows) /\ WF_vars(WorkDone)
  /\ WF_vars(InputTask(ReturnSettles)) /\ WF_vars(Acks \/ WriteFails)

--------------------------------------------------------------------------------
(* Properties.                                                                *)

TypeOK ==
  /\ OutputTypeOK /\ InputTypeOK
  /\ op \in {"asking", "waiting", "working", "writing", "closing", "resolved", "rejected"}
  /\ line \in LineKinds \union {"none"}
  /\ lines \in Seq(LineKinds \union {"oversized"})
  /\ tail \in LineKinds \union {"none"}
  /\ draining \in BOOLEAN
  /\ then \in OpErrors \union {"none", "answer", "malformed", "oversized"}
  /\ code \in 0..2
  /\ answered \in Nat /\ taken \in Nat
  /\ refusals \in BOOLEAN
  /\ run \in {"racing", "releasing", "settled"}
  /\ race \in OpErrors \union {"none", "code"}
  /\ outcome \in OpErrors \union {"pending", "code"}

\* The first output failure is preserved through run completion.
FirstFailureWins == [][failed => failed' /\ failure' = failure]_vars

\* A run whose output failed is rejected with that failure: neither a late line,
\* nor the end of the input, nor an error of the input or its cleanup replaces it.
FailureDecides == run = "settled" /\ failed => outcome = failure

\* After an output failure the input is not asked for another item, although the
\* operation may live on after the run has been answered.
NoInputAfterFailure == [][failed => nexts' = nexts]_vars

\* After an output failure nothing more is written.
NoOutputAfterFailure == [][failed => writes' = writes]_vars

\* The iterator's return() is requested at most once, whichever of the cancel, the
\* loop and the error paths come to ask for it.
ReturnAtMostOnce == returns <= 1

\* While the output is healthy the diagnostic of a malformed line is acknowledged
\* before the input is asked to close.
DiagnosticBeforeCleanup ==
  op = "writing" /\ then = "malformed" /\ closing # "none" => failed

\* The 'error' event of a write of the run finds the run's listener, although Node
\* emits it after the write callback has failed the run.
NoUnheardError == ~ unheard

\* Exit code 0 of a session: the input ended, every line of it was yielded,
\* answered ready and acknowledged.
ExitZeroIsEarned ==
  run = "settled" /\ outcome = "code" /\ code = 0 =>
    /\ ~ refusals /\ answered = taken
    /\ iterator => finished /\ lines = <<>> /\ tail = "none"

\* A rejected session has asked its input to close and destroyed a Readable one by
\* the time the caller hears of it, unless the input has ended.
RejectedRunReleasesInput ==
  run = "settled" /\ outcome # "code" /\ iterator =>
    /\ finished \/ closing \in {"requested", "returned", "threw"}
    /\ readable => destroying = "run"

\* A run that answers with a code has waited for the close it started.
HealthyCleanupIsAwaited ==
  run = "settled" /\ outcome = "code" => closing \in {"none", "returned", "threw"}

\* Nothing the abandoned operation, the input or the sink does later reaches what
\* the caller was told, or calls into what the caller owns.
SettledIsFinal ==
  [][run = "settled" => UNCHANGED <<failed, failure, nexts, returns, writes, outcome>>]_vars

\* A failed run tells its failure, asks the input to return once and misses no error event.
FailureIsTold == FailureDecides /\ ReturnAtMostOnce /\ NoUnheardError

\* How a run with an input ends: in the order, and with the release of the input, that its code or
\* its rejection promises.
CleanupIsOrdered ==
  DiagnosticBeforeCleanup /\ ExitZeroIsEarned /\ RejectedRunReleasesInput /\ HealthyCleanupIsAwaited

\* What no step does once the output has failed or the run is settled.
FailureIsFinal == FirstFailureWins /\ NoInputAfterFailure /\ NoOutputAfterFailure /\ SettledIsFinal

\* An output failure ends the run, whatever the input, its cleanup, the file
\* system and the stream do afterwards.
FailureEndsRun == failed ~> run = "settled"

\* A run whose environment answers it settles.
CooperativeRunSettles == Cooperation => <>(run = "settled")

\* A run comes to its end, after a failure whatever its environment does.
RunSettles == FailureEndsRun /\ CooperativeRunSettles

--------------------------------------------------------------------------------
(* The inductive invariant behind the safety properties.                      *)

\* A failure has a name, has stopped the input and has left no write waiting.
BoundaryHolds ==
  /\ failed <=> failure # "none"
  /\ failed \/ canceled => stopped
  /\ failed => write # "pending"
  /\ write = "rejected" => failed

\* Only the operation writes, and it waits for its write.
WriteIsAwaited ==
  /\ write # "idle" => op = "writing"
  /\ ~ stream => event = "none" /\ write # "pending"

\* The listeners of a stream stay until the run settles, and longer than any error
\* event of a write of the run.
ListenersCover ==
  /\ listening <=> stream /\ run # "settled"
  /\ event = "write_error" => listening
  /\ ~ unheard

\* A race that has ended has ended with the operation or with the failure.
RaceIsWon ==
  /\ run # "racing" => race # "none" /\ (failed \/ op \in {"resolved", "rejected"})
  /\ run = "settled" /\ failed => outcome = failure

\* return() is called by the microtask of the one promise `closing`.
OneClosing == closing \in {"none", "scheduled"} => returns = 0

\* An operation that closes or has been rejected knows why.
ReasonIsKept ==
  /\ op = "closing" => then \in OpErrors \union {"malformed", "oversized"}
  /\ op = "rejected" => then \in OpErrors

LifeInv ==
  /\ TypeOK /\ BoundaryHolds /\ WriteIsAwaited /\ ListenersCover
  /\ RaceIsWon /\ OneClosing /\ ReturnAtMostOnce /\ ReasonIsKept

--------------------------------------------------------------------------------
(* What it leaves out: who closed the input, and how lines are counted.        *)

\* A failure has cancelled the input, and what cancels it asks for its close and its
\* destruction; without a failure only a run that lost its race cancels.
CancelReaches ==
  /\ failed \/ race \notin {"none", "code"} => canceled
  /\ canceled => destroying # "none" /\ (Closable => closing # "none")
  /\ canceled /\ ~ failed => run # "racing" /\ race # "code"

\* A settled run has let the microtasks of its input run, and answers with the race's
\* result unless it has failed.
SettledIsQuiet ==
  run = "settled" =>
    /\ closing # "scheduled" /\ destroying # "scheduled"
    /\ ~ failed => outcome = race

\* A close that nobody cancelled belongs to the operation: it waits for it, and stops
\* the input for nothing else.
CloseIsWaited ==
  ~ canceled =>
    /\ stopped => closing # "none"
    /\ closing \in {"scheduled", "requested"} => op = "closing" /\ ~ finished
    /\ closing # "none" => op \in {"closing", "resolved", "rejected"} \/ then = "oversized"

\* An oversized line is the reason of its close and its diagnostic, and of nothing after.
OversizedEnds == then = "oversized" => op \in {"closing", "writing", "resolved", "rejected"}

\* As long as the code is 0, every line yielded has been answered ready, but for the one in work.
CodeCounts ==
  /\ op \in {"asking", "waiting"} => answered = taken /\ (code = 0 => ~ refusals)
  /\ op \in {"working", "writing"} /\ then # "oversized" =>
       answered + 1 = taken /\ (code = 0 /\ refusals => line # "ready")
  /\ op = "resolved" /\ code = 0 => answered = taken /\ ~ refusals
  /\ op = "closing" /\ then = "malformed" => code = 2

\* A session that nobody cancelled drains when its input has ended, and resolves when
\* it is drained.
DrainedIsEnd ==
  ~ canceled =>
    /\ draining => finished
    /\ op = "resolved" /\ code = 0 /\ iterator => finished /\ lines = <<>> /\ tail = "none"

\* How a run comes to its end: its input is closed by the cancel of a failed run or by the
\* operation that waits for it, its code counts what was answered, and a drained input has ended.
Ending == CancelReaches /\ SettledIsQuiet /\ CloseIsWaited /\ OversizedEnds /\ CodeCounts /\ DrainedIsEnd
================================================================================
