------------------------------ MODULE OutputWriter ------------------------------
(***************************************************************************)
(* outputWriter of src/public-cli.js: the one output of a run and the      *)
(* failure boundary around it.  The steps here are the parts of the        *)
(* handlers that concern the writer; RunLifecycle joins them with the      *)
(* session input that a first failure cancels and with the run.            *)
(*                                                                         *)
(* The operation of a run awaits each write before the next, so `pending`  *)
(* holds at most one reject function and is modelled by the state of that  *)
(* one write.  A callback that comes after the failure finds `pending`     *)
(* cleared and `failed` set and changes nothing: it is not an action.      *)
(***************************************************************************)
EXTENDS Naturals

VARIABLES
  stream,     \* stdout is a Writable, not a synchronous write-only sink
  sink,       \* "open", or "gone": destroyed or ended by whoever owns it
  event,      \* the 'error' or 'close' event in the next-tick queue, or "none"
  listening,  \* the 'error' and 'close' listeners are attached
  failed,     \* `failed`
  failure,    \* `failure`, the first failure, or "none"
  write,      \* the write of the operation: "idle", "pending", "acked", "rejected"
  writes,     \* calls of stdout.write so far
  unheard     \* an 'error' event of the run's own write was emitted to nobody

outputVars == <<stream, sink, event, listening, failed, failure, write, writes, unheard>>

Failures == {"write_error", "output_closed", "unavailable"}

OutputTypeOK ==
  /\ stream \in BOOLEAN
  /\ sink \in {"open", "gone"}
  /\ event \in {"none", "write_error", "output_closed"}
  /\ listening \in BOOLEAN
  /\ failed \in BOOLEAN
  /\ failure \in Failures \union {"none"}
  /\ write \in {"idle", "pending", "acked", "rejected"}
  /\ writes \in Nat
  /\ unheard \in BOOLEAN

\* The listeners are attached when the writer is made; a stream that is already
\* gone fails it at once.
OutputInit ==
  /\ stream \in BOOLEAN
  /\ sink \in IF stream THEN {"open", "gone"} ELSE {"open"}
  /\ event = "none"
  /\ listening = stream
  /\ failed = (sink = "gone")
  /\ failure = IF failed THEN "output_closed" ELSE "none"
  /\ write = "idle"
  /\ writes = 0
  /\ unheard = FALSE

\* Mutant of RecordFailure: the latest failure replaces the first.
RecordLatest(error, after) ==
  /\ failed' = TRUE
  /\ failure' = error
  /\ write' = after

\* fail(error), the writer's part: the first failure is kept, and a write that
\* waits for its callback is rejected.
RecordFailure(error, after) ==
  /\ failed' = TRUE
  /\ failure' = IF failed THEN failure ELSE error
  /\ write' = after

Rejecting == IF write = "pending" THEN "rejected" ELSE write

\* stdout.write(text, callback) is called and its callback awaited; a
\* synchronous sink has stored the text when the call returns.
SubmitWrite ==
  /\ writes' = writes + 1
  /\ write' = IF stream THEN "pending" ELSE "acked"
  /\ UNCHANGED <<stream, sink, event, listening, failed, failure, unheard>>

\* The write callback without an error.
AckWrite ==
  /\ write = "pending"
  /\ event = "none"
  /\ write' = "acked"
  /\ UNCHANGED <<stream, sink, event, listening, failed, failure, writes, unheard>>

\* Whoever owns the stream destroys or ends it; a 'close' event may follow.
SinkGoes ==
  /\ stream /\ sink = "open"
  /\ sink' = "gone"
  /\ event' \in {event, "output_closed"}
  /\ UNCHANGED <<stream, listening, failed, failure, write, writes, unheard>>

\* An event that finds no listener; Node throws on an unheard 'error' event.
EmitUnheard ==
  /\ event # "none" /\ ~ listening
  /\ unheard' = (unheard \/ event = "write_error")
  /\ event' = "none"
  /\ UNCHANGED <<stream, sink, listening, failed, failure, write, writes>>
================================================================================
