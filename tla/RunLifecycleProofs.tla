-------------------------- MODULE RunLifecycleProofs ---------------------------
(***************************************************************************)
(* Proofs about RunLifecycle for every set of chunks and every number of    *)
(* them: the failure boundary of a run holds in every order of the input's  *)
(* answers, the write callbacks, the stream's events and the microtasks,    *)
(* and what a settled run leaves alone, what its input has been asked and   *)
(* what its exit code says.                                                 *)
(*                                                                          *)
(* LifeInv says nothing of who closed the input or of how lines are         *)
(* counted; Ending, in the second half, does, and is inductive together     *)
(* with it.                                                                 *)
(***************************************************************************)
EXTENDS RunLifecycle, TLAPS

(***************************************************************************)
(* What the two ways to close the input do.                                *)
(***************************************************************************)

\* What neither close() nor cancel() does: un-stop the input, call into it, or forget
\* a request that was made.
InputKept ==
  /\ InputTypeOK'
  /\ stopped => stopped'
  /\ canceled' => canceled \/ stopped'
  /\ nexts' = nexts /\ returns' = returns /\ iterator' = iterator
  /\ closing' \in {"none", "scheduled"} => closing \in {"none", "scheduled"}

\* close() keeps the input.
LEMMA CloseKeeps == InputTypeOK /\ Close => InputKept /\ canceled' = canceled
BY DEF InputTypeOK, Close, ClosingNext, Closable, InputKept

\* cancel() keeps the input and leaves it stopped.
LEMMA CancelKeeps == InputTypeOK /\ (canceled => stopped) /\ Cancel => InputKept /\ stopped'
BY DEF InputTypeOK, Cancel, ClosingNext, Closable, InputKept, inputVars

\* An error that leaves the operation closes the input or ends the operation, and is
\* kept as its reason.
LEMMA ThrowsKeeps ==
  ASSUME NEW error, InputTypeOK, Throws(error)
  PROVE  /\ InputKept /\ canceled' = canceled
         /\ op' \in {"closing", "rejected"} /\ then' = error
<1>1. CASE Close /\ Goto("closing", error)
  BY <1>1, CloseKeeps DEF Goto
<1>2. CASE UNCHANGED inputVars /\ Goto("rejected", error)
  BY <1>2 DEF Goto, InputKept, InputTypeOK, inputVars
<1>3. QED
  BY <1>1, <1>2 DEF Throws

(***************************************************************************)
(* The inductive invariant.                                                *)
(***************************************************************************)

\* The types of the variables of the operation and of the run.
OpTypeOK ==
  /\ op \in {"asking", "waiting", "working", "writing", "closing", "resolved", "rejected"}
  /\ line \in LineKinds \union {"none"}
  /\ lines \in Seq(LineKinds \union {"oversized"})
  /\ tail \in LineKinds \union {"none"}
  /\ draining \in BOOLEAN
  /\ then \in OpErrors \union {"none", "answer", "malformed", "oversized"}
  /\ code \in 0..2
  /\ answered \in Nat /\ taken \in Nat
  /\ refusals \in BOOLEAN

\* The types of a run.
RunTypeOK ==
  /\ run \in {"racing", "releasing", "settled"}
  /\ race \in OpErrors \union {"none", "code"}
  /\ outcome \in OpErrors \union {"pending", "code"}

\* The type invariant in its parts.
LEMMA TypeParts == TypeOK <=> OutputTypeOK /\ InputTypeOK /\ OpTypeOK /\ RunTypeOK
BY DEF TypeOK, OpTypeOK, RunTypeOK

\* The rest of the invariant in one name, and what it needs of the input.
Boundary ==
  /\ BoundaryHolds /\ WriteIsAwaited /\ ListenersCover /\ RaceIsWon
  /\ OneClosing /\ ReturnAtMostOnce /\ ReasonIsKept

\* The conjuncts of LifeInv, by the module they come from.
Parts == OutputTypeOK /\ InputTypeOK /\ OpTypeOK /\ RunTypeOK /\ Boundary

\* They are LifeInv.
LEMMA InvParts == LifeInv <=> Parts
BY TypeParts DEF LifeInv, Parts, Boundary

\* The next call of the iterator happens only on an input that is not stopped.
LEMMA DemandInv == Parts /\ Demand => Parts'
<1> SUFFICES ASSUME Parts, Demand PROVE Parts'
  OBVIOUS
<1>1. OutputTypeOK'
    BY DEF OutputTypeOK, Demand, outputVars, Parts
<1>2. InputTypeOK'
    BY DEF InputTypeOK, Demand, CallNext, inputVars, Parts
<1>3. OpTypeOK'
    BY DEF OpTypeOK, Demand, Goto, Parts
<1>4. RunTypeOK'
    BY DEF RunTypeOK, Demand, runVars, Parts
<1>5. BoundaryHolds'
    BY DEF BoundaryHolds, Demand, CallNext, outputVars, inputVars, Parts, Boundary
<1>6. WriteIsAwaited'
    BY DEF WriteIsAwaited, Demand, outputVars, Parts, Boundary
<1>7. ListenersCover'
    BY DEF ListenersCover, Demand, outputVars, runVars, Parts, Boundary
<1>8. RaceIsWon'
    BY DEF RaceIsWon, Demand, outputVars, runVars, Parts, Boundary
<1>9. OneClosing'
    BY DEF OneClosing, Demand, CallNext, inputVars, Parts, Boundary
<1>10. ReturnAtMostOnce'
    BY DEF ReturnAtMostOnce, Demand, CallNext, inputVars, Parts, Boundary
<1>11. ReasonIsKept'
    BY DEF ReasonIsKept, Demand, Goto, Parts
<1>12. QED
  BY <1>1, <1>2, <1>3, <1>4, <1>5, <1>6, <1>7, <1>8, <1>9, <1>10, <1>11 DEF Parts, Boundary

\* A line goes to work or closes the input.
LEMMA TakeLineInv == Parts /\ TakeLine => Parts'
<1> SUFFICES ASSUME Parts, TakeLine PROVE Parts'
  OBVIOUS
<1>1. OutputTypeOK'
    BY DEF OutputTypeOK, TakeLine, outputVars, Parts
<1>2. InputTypeOK'
    BY CloseKeeps DEF InputKept, InputTypeOK, TakeLine, inputVars, Parts
<1>3. OpTypeOK'
  <2>1. Head(lines) \in LineKinds \union {"oversized"} /\ Tail(lines) \in Seq(LineKinds \union {"oversized"})
    BY DEF Parts, OpTypeOK, TakeLine
  <2>2. CASE Head(lines) = "oversized"
    BY <2>1, <2>2 DEF Parts, OpTypeOK, TakeLine, Goto
  <2>3. CASE Head(lines) # "oversized"
    BY <2>1, <2>3 DEF Parts, OpTypeOK, TakeLine, Take, Goto
  <2>4. QED
    BY <2>2, <2>3
<1>4. RunTypeOK'
    BY DEF RunTypeOK, TakeLine, runVars, Parts
<1>5. BoundaryHolds'
    BY CloseKeeps DEF InputKept, BoundaryHolds, TakeLine, outputVars, inputVars, Parts, Boundary
<1>6. WriteIsAwaited'
    BY DEF WriteIsAwaited, TakeLine, outputVars, Parts, Boundary
<1>7. ListenersCover'
    BY DEF ListenersCover, TakeLine, outputVars, runVars, Parts, Boundary
<1>8. RaceIsWon'
    BY DEF RaceIsWon, TakeLine, outputVars, runVars, Parts, Boundary
<1>9. OneClosing'
    BY CloseKeeps DEF InputKept, OneClosing, TakeLine, inputVars, Parts, Boundary
<1>10. ReturnAtMostOnce'
    BY CloseKeeps DEF InputKept, ReturnAtMostOnce, TakeLine, inputVars, Parts, Boundary
<1>11. ReasonIsKept'
    BY DEF ReasonIsKept, TakeLine, Take, Goto, Parts
<1>12. QED
  BY <1>1, <1>2, <1>3, <1>4, <1>5, <1>6, <1>7, <1>8, <1>9, <1>10, <1>11 DEF Parts, Boundary

\* The last line goes to work or the operation resolves.
LEMMA DrainInv == Parts /\ Drain => Parts'
<1> SUFFICES ASSUME Parts, Drain PROVE Parts'
  OBVIOUS
<1>1. OutputTypeOK'
    BY DEF OutputTypeOK, Drain, outputVars, Parts
<1>2. InputTypeOK'
    BY DEF InputTypeOK, Drain, inputVars, Parts
<1>3. OpTypeOK'
  <2>1. CASE tail = "none"
    BY <2>1 DEF Parts, OpTypeOK, Drain, Goto
  <2>2. CASE tail # "none"
    <3>1. tail \in LineKinds
      BY <2>2 DEF Parts, OpTypeOK
    <3>2. QED
      BY <2>2, <3>1 DEF Parts, OpTypeOK, Drain, Take, Goto
  <2>3. QED
    BY <2>1, <2>2
<1>4. RunTypeOK'
    BY DEF RunTypeOK, Drain, runVars, Parts
<1>5. BoundaryHolds'
    BY DEF BoundaryHolds, Drain, outputVars, inputVars, Parts, Boundary
<1>6. WriteIsAwaited'
    BY DEF WriteIsAwaited, Drain, outputVars, Parts, Boundary
<1>7. ListenersCover'
    BY DEF ListenersCover, Drain, outputVars, runVars, Parts, Boundary
<1>8. RaceIsWon'
    BY DEF RaceIsWon, Drain, outputVars, runVars, Parts, Boundary
<1>9. OneClosing'
    BY DEF OneClosing, Drain, inputVars, Parts, Boundary
<1>10. ReturnAtMostOnce'
    BY DEF ReturnAtMostOnce, Drain, inputVars, Parts, Boundary
<1>11. ReasonIsKept'
    BY DEF ReasonIsKept, Drain, Take, Goto, Parts
<1>12. QED
  BY <1>1, <1>2, <1>3, <1>4, <1>5, <1>6, <1>7, <1>8, <1>9, <1>10, <1>11 DEF Parts, Boundary

\* An answer of the input changes only the lines to work on.
LEMMA InputAnswersInv == Parts /\ InputAnswers => Parts'
<1> SUFFICES ASSUME Parts, InputAnswers PROVE Parts'
  OBVIOUS
<1>1. OutputTypeOK'
    BY DEF OutputTypeOK, InputAnswers, outputVars, Parts
<1>2. InputTypeOK'
    BY DEF InputTypeOK, InputAnswers, Answered, Parts
<1>3. OpTypeOK'
    BY ChunksAssumption DEF OpTypeOK, InputAnswers, Goto, Parts
<1>4. RunTypeOK'
    BY DEF RunTypeOK, InputAnswers, runVars, Parts
<1>5. BoundaryHolds'
    BY DEF BoundaryHolds, InputAnswers, Answered, outputVars, Parts, Boundary
<1>6. WriteIsAwaited'
    BY DEF WriteIsAwaited, InputAnswers, outputVars, Parts, Boundary
<1>7. ListenersCover'
    BY DEF ListenersCover, InputAnswers, outputVars, runVars, Parts, Boundary
<1>8. RaceIsWon'
    BY DEF RaceIsWon, InputAnswers, outputVars, runVars, Parts, Boundary
<1>9. OneClosing'
    BY DEF OneClosing, InputAnswers, Answered, Parts, Boundary
<1>10. ReturnAtMostOnce'
    BY DEF ReturnAtMostOnce, InputAnswers, Answered, Parts, Boundary
<1>11. ReasonIsKept'
    BY DEF ReasonIsKept, InputAnswers, Goto, Parts
<1>12. QED
  BY <1>1, <1>2, <1>3, <1>4, <1>5, <1>6, <1>7, <1>8, <1>9, <1>10, <1>11 DEF Parts, Boundary

\* An error of the input becomes the reason of the operation.
LEMMA InputThrowsInv == Parts /\ InputThrows => Parts'
<1> SUFFICES ASSUME Parts, InputThrows PROVE Parts'
  OBVIOUS
<1>1. OutputTypeOK'
    BY DEF OutputTypeOK, InputThrows, outputVars, Parts
<1>2. InputTypeOK'
    BY DEF InputTypeOK, InputThrows, inputVars, Parts
<1>3. OpTypeOK'
    BY DEF InputKept, OpErrors, OpTypeOK, InputThrows, Goto, Parts
<1>4. RunTypeOK'
    BY DEF RunTypeOK, InputThrows, runVars, Parts
<1>5. BoundaryHolds'
    BY DEF BoundaryHolds, InputThrows, outputVars, inputVars, Parts, Boundary
<1>6. WriteIsAwaited'
    BY DEF WriteIsAwaited, InputThrows, outputVars, Parts, Boundary
<1>7. ListenersCover'
    BY DEF ListenersCover, InputThrows, outputVars, runVars, Parts, Boundary
<1>8. RaceIsWon'
    BY DEF RaceIsWon, InputThrows, outputVars, runVars, Parts, Boundary
<1>9. OneClosing'
    BY DEF OneClosing, InputThrows, inputVars, Parts, Boundary
<1>10. ReturnAtMostOnce'
    BY DEF ReturnAtMostOnce, InputThrows, inputVars, Parts, Boundary
<1>11. ReasonIsKept'
    BY DEF InputKept, OpErrors, ReasonIsKept, InputThrows, Goto, Parts
<1>12. QED
  BY <1>1, <1>2, <1>3, <1>4, <1>5, <1>6, <1>7, <1>8, <1>9, <1>10, <1>11 DEF Parts, Boundary

\* The work behind an answer ends with a write or an error.
LEMMA WorkDoneInv == Parts /\ WorkDone => Parts'
<1> SUFFICES ASSUME Parts, WorkDone PROVE Parts'
  OBVIOUS
<1>1. OutputTypeOK'
    BY DEF OutputTypeOK, WorkDone, outputVars, Parts
<1>2. InputTypeOK'
    BY ThrowsKeeps DEF InputKept, InputTypeOK, WorkDone, inputVars, Parts
<1>3. OpTypeOK'
    BY ThrowsKeeps DEF OpErrors, OutputTypeOK, OpTypeOK, WorkDone, Goto, Parts
<1>4. RunTypeOK'
    BY DEF RunTypeOK, WorkDone, runVars, Parts
<1>5. BoundaryHolds'
    BY ThrowsKeeps DEF InputKept, BoundaryHolds, WorkDone, outputVars, inputVars, Parts,
     Boundary
<1>6. WriteIsAwaited'
    BY DEF WriteIsAwaited, WorkDone, outputVars, Parts, Boundary
<1>7. ListenersCover'
    BY DEF ListenersCover, WorkDone, outputVars, runVars, Parts, Boundary
<1>8. RaceIsWon'
    BY DEF RaceIsWon, WorkDone, outputVars, runVars, Parts, Boundary
<1>9. OneClosing'
    BY ThrowsKeeps DEF InputKept, OneClosing, WorkDone, inputVars, Parts, Boundary
<1>10. ReturnAtMostOnce'
    BY ThrowsKeeps DEF InputKept, ReturnAtMostOnce, WorkDone, inputVars, Parts, Boundary
<1>11. ReasonIsKept'
    BY ThrowsKeeps DEF OpErrors, OutputTypeOK, BoundaryHolds, ReasonIsKept, WorkDone, Goto,
     Parts, Boundary
<1>12. QED
  BY <1>1, <1>2, <1>3, <1>4, <1>5, <1>6, <1>7, <1>8, <1>9, <1>10, <1>11 DEF Parts, Boundary

\* A write is refused, submitted, or is itself the first failure.
LEMMA WriteInv == Parts /\ Write => Parts'
<1> SUFFICES ASSUME Parts, Write PROVE Parts'
  OBVIOUS
<1>1. OutputTypeOK'
  <2>1. CASE UNCHANGED outputVars
    BY <2>1 DEF Parts, OutputTypeOK, outputVars
  <2>2. CASE SubmitWrite
    BY <2>2 DEF Parts, OutputTypeOK, SubmitWrite
  <2>3. CASE /\ \E error \in {"output_closed", "unavailable"} : Fails(error, "rejected")
             /\ UNCHANGED <<stream, sink, event, listening, writes, unheard>>
    BY <2>3 DEF Parts, OutputTypeOK, Fails, RecordFailure, Failures
  <2>4. QED
    BY <2>1, <2>2, <2>3 DEF Write
<1>2. InputTypeOK'
    BY ThrowsKeeps, CancelKeeps DEF InputKept, InputTypeOK, BoundaryHolds, Write, Fails,
     inputVars, Parts, Boundary
<1>3. OpTypeOK'
    BY ThrowsKeeps DEF OpErrors, OutputTypeOK, OpTypeOK, Write, opVars, Parts
<1>4. RunTypeOK'
    BY DEF RunTypeOK, Write, runVars, Parts
<1>5. BoundaryHolds'
    BY ThrowsKeeps, CancelKeeps DEF InputKept, BoundaryHolds, Write, SubmitWrite, Fails,
     RecordFailure, outputVars, inputVars, Parts, Boundary
<1>6. WriteIsAwaited'
    BY DEF WriteIsAwaited, Write, SubmitWrite, Fails, RecordFailure, outputVars, opVars, Parts,
     Boundary
<1>7. ListenersCover'
    BY DEF ListenersCover, Write, SubmitWrite, outputVars, runVars, Parts, Boundary
<1>8. RaceIsWon'
    BY DEF RaceIsWon, Write, outputVars, runVars, Parts, Boundary
<1>9. OneClosing'
    BY ThrowsKeeps, CancelKeeps DEF InputKept, BoundaryHolds, OneClosing, Write, Fails,
     inputVars, Parts, Boundary
<1>10. ReturnAtMostOnce'
    BY ThrowsKeeps, CancelKeeps DEF InputKept, BoundaryHolds, ReturnAtMostOnce, Write, Fails,
     inputVars, Parts, Boundary
<1>11. ReasonIsKept'
    BY ThrowsKeeps DEF OpErrors, OutputTypeOK, BoundaryHolds, ReasonIsKept, Write, opVars,
     Parts, Boundary
<1>12. QED
  BY <1>1, <1>2, <1>3, <1>4, <1>5, <1>6, <1>7, <1>8, <1>9, <1>10, <1>11 DEF Parts, Boundary

\* An acknowledged write lets the operation go on.
LEMMA AcknowledgedInv == Parts /\ Acknowledged => Parts'
<1> SUFFICES ASSUME Parts, Acknowledged PROVE Parts'
  OBVIOUS
<1>1. OutputTypeOK'
    BY DEF OutputTypeOK, Acknowledged, Parts
<1>2. InputTypeOK'
    BY CloseKeeps DEF InputKept, InputTypeOK, Acknowledged, inputVars, Parts
<1>3. OpTypeOK'
    BY DEF OpTypeOK, Acknowledged, Goto, Larger, Parts
<1>4. RunTypeOK'
    BY DEF RunTypeOK, Acknowledged, runVars, Parts
<1>5. BoundaryHolds'
    BY CloseKeeps DEF InputKept, BoundaryHolds, Acknowledged, inputVars, Parts, Boundary
<1>6. WriteIsAwaited'
    BY DEF WriteIsAwaited, Acknowledged, Parts, Boundary
<1>7. ListenersCover'
    BY DEF ListenersCover, Acknowledged, runVars, Parts, Boundary
<1>8. RaceIsWon'
    BY DEF RaceIsWon, Acknowledged, runVars, Parts, Boundary
<1>9. OneClosing'
    BY CloseKeeps DEF InputKept, OneClosing, Acknowledged, inputVars, Parts, Boundary
<1>10. ReturnAtMostOnce'
    BY CloseKeeps DEF InputKept, ReturnAtMostOnce, Acknowledged, inputVars, Parts, Boundary
<1>11. ReasonIsKept'
    BY DEF ReasonIsKept, Acknowledged, Goto, Parts
<1>12. QED
  BY <1>1, <1>2, <1>3, <1>4, <1>5, <1>6, <1>7, <1>8, <1>9, <1>10, <1>11 DEF Parts, Boundary

\* A rejected write throws the failure that has been recorded.
LEMMA WriteRejectedInv == Parts /\ WriteRejected => Parts'
<1> SUFFICES ASSUME Parts, WriteRejected PROVE Parts'
  OBVIOUS
<1>1. OutputTypeOK'
    BY DEF OutputTypeOK, WriteRejected, Parts
<1>2. InputTypeOK'
    BY ThrowsKeeps DEF InputKept, WriteRejected, Parts
<1>3. OpTypeOK'
    BY ThrowsKeeps DEF OpErrors, OutputTypeOK, OpTypeOK, WriteRejected, Parts
<1>4. RunTypeOK'
    BY DEF RunTypeOK, WriteRejected, runVars, Parts
<1>5. BoundaryHolds'
    BY ThrowsKeeps DEF InputKept, BoundaryHolds, WriteRejected, Parts, Boundary
<1>6. WriteIsAwaited'
    BY DEF WriteIsAwaited, WriteRejected, Parts, Boundary
<1>7. ListenersCover'
    BY DEF ListenersCover, WriteRejected, runVars, Parts, Boundary
<1>8. RaceIsWon'
    BY DEF RaceIsWon, WriteRejected, runVars, Parts, Boundary
<1>9. OneClosing'
    BY ThrowsKeeps DEF InputKept, OneClosing, WriteRejected, Parts, Boundary
<1>10. ReturnAtMostOnce'
    BY ThrowsKeeps DEF InputKept, ReturnAtMostOnce, WriteRejected, Parts, Boundary
<1>11. ReasonIsKept'
    BY ThrowsKeeps DEF OpErrors, OutputTypeOK, BoundaryHolds, ReasonIsKept, WriteRejected,
     Parts, Boundary
<1>12. QED
  BY <1>1, <1>2, <1>3, <1>4, <1>5, <1>6, <1>7, <1>8, <1>9, <1>10, <1>11 DEF Parts, Boundary

\* The operation goes on once the input has closed.
LEMMA ClosedInv == Parts /\ Closed => Parts'
<1> SUFFICES ASSUME Parts, Closed PROVE Parts'
  OBVIOUS
<1>1. OutputTypeOK'
    BY DEF OutputTypeOK, Closed, outputVars, Parts
<1>2. InputTypeOK'
    BY DEF InputTypeOK, Closed, inputVars, Parts
<1>3. OpTypeOK'
    BY DEF InputKept, OpErrors, OpTypeOK, Closed, Goto, Parts
<1>4. RunTypeOK'
    BY DEF RunTypeOK, Closed, runVars, Parts
<1>5. BoundaryHolds'
    BY DEF BoundaryHolds, Closed, outputVars, inputVars, Parts, Boundary
<1>6. WriteIsAwaited'
    BY DEF WriteIsAwaited, Closed, outputVars, Parts, Boundary
<1>7. ListenersCover'
    BY DEF ListenersCover, Closed, outputVars, runVars, Parts, Boundary
<1>8. RaceIsWon'
    BY DEF RaceIsWon, Closed, outputVars, runVars, Parts, Boundary
<1>9. OneClosing'
    BY DEF OneClosing, Closed, inputVars, Parts, Boundary
<1>10. ReturnAtMostOnce'
    BY DEF ReturnAtMostOnce, Closed, inputVars, Parts, Boundary
<1>11. ReasonIsKept'
    BY DEF InputKept, OpErrors, ReasonIsKept, Closed, Goto, Parts, Boundary
<1>12. QED
  BY <1>1, <1>2, <1>3, <1>4, <1>5, <1>6, <1>7, <1>8, <1>9, <1>10, <1>11 DEF Parts, Boundary

\* The write callback of a healthy write.
LEMMA AcksInv == Parts /\ Acks => Parts'
<1> SUFFICES ASSUME Parts, Acks PROVE Parts'
  OBVIOUS
<1>1. OutputTypeOK'
    BY DEF OutputTypeOK, Acks, AckWrite, Parts
<1>2. InputTypeOK'
    BY DEF InputTypeOK, Acks, inputVars, Parts
<1>3. OpTypeOK'
    BY DEF OpTypeOK, Acks, opVars, Parts
<1>4. RunTypeOK'
    BY DEF RunTypeOK, Acks, runVars, Parts
<1>5. BoundaryHolds'
    BY DEF BoundaryHolds, Acks, AckWrite, inputVars, Parts, Boundary
<1>6. WriteIsAwaited'
    BY DEF WriteIsAwaited, Acks, AckWrite, opVars, Parts, Boundary
<1>7. ListenersCover'
    BY DEF ListenersCover, Acks, AckWrite, runVars, Parts, Boundary
<1>8. RaceIsWon'
    BY DEF RaceIsWon, Acks, AckWrite, opVars, runVars, Parts, Boundary
<1>9. OneClosing'
    BY DEF OneClosing, Acks, inputVars, Parts, Boundary
<1>10. ReturnAtMostOnce'
    BY DEF ReturnAtMostOnce, Acks, inputVars, Parts, Boundary
<1>11. ReasonIsKept'
    BY DEF ReasonIsKept, Acks, opVars, Parts, Boundary
<1>12. QED
  BY <1>1, <1>2, <1>3, <1>4, <1>5, <1>6, <1>7, <1>8, <1>9, <1>10, <1>11 DEF Parts, Boundary

\* The write callback with an error finds a listening, unsettled run.
LEMMA WriteFailsInv == Parts /\ WriteFails => Parts'
<1> SUFFICES ASSUME Parts, WriteFails PROVE Parts'
  OBVIOUS
<1>1. OutputTypeOK'
    BY DEF Failures, OutputTypeOK, WriteFails, Fails, RecordFailure, Parts
<1>2. InputTypeOK'
    BY CancelKeeps DEF InputKept, BoundaryHolds, WriteFails, Fails, Parts, Boundary
<1>3. OpTypeOK'
    BY DEF OpTypeOK, WriteFails, opVars, Parts
<1>4. RunTypeOK'
    BY DEF RunTypeOK, WriteFails, runVars, Parts
<1>5. BoundaryHolds'
    BY CancelKeeps DEF BoundaryHolds, WriteFails, Fails, RecordFailure, Parts, Boundary
<1>6. WriteIsAwaited'
    BY DEF WriteIsAwaited, WriteFails, opVars, Parts, Boundary
<1>7. ListenersCover'
    BY DEF BoundaryHolds, WriteIsAwaited, ListenersCover, RaceIsWon, WriteFails, runVars, Parts,
     Boundary
<1>8. RaceIsWon'
    BY DEF WriteIsAwaited, RaceIsWon, WriteFails, Fails, RecordFailure, runVars, Parts, Boundary
<1>9. OneClosing'
    BY CancelKeeps DEF InputKept, BoundaryHolds, OneClosing, WriteFails, Fails, Parts, Boundary
<1>10. ReturnAtMostOnce'
    BY CancelKeeps DEF InputKept, BoundaryHolds, ReturnAtMostOnce, WriteFails, Fails, Parts,
     Boundary
<1>11. ReasonIsKept'
    BY DEF ReasonIsKept, WriteFails, opVars, Parts, Boundary
<1>12. QED
  BY <1>1, <1>2, <1>3, <1>4, <1>5, <1>6, <1>7, <1>8, <1>9, <1>10, <1>11 DEF Parts, Boundary

\* The owner of the stream takes it away.
LEMMA SinkGoneInv == Parts /\ SinkGone => Parts'
<1> SUFFICES ASSUME Parts, SinkGone PROVE Parts'
  OBVIOUS
<1>1. OutputTypeOK'
    BY DEF OutputTypeOK, SinkGone, SinkGoes, Parts
<1>2. InputTypeOK'
    BY DEF InputTypeOK, SinkGone, inputVars, Parts
<1>3. OpTypeOK'
    BY DEF OpTypeOK, SinkGone, opVars, Parts
<1>4. RunTypeOK'
    BY DEF RunTypeOK, SinkGone, runVars, Parts
<1>5. BoundaryHolds'
    BY DEF BoundaryHolds, SinkGone, SinkGoes, inputVars, Parts, Boundary
<1>6. WriteIsAwaited'
    BY DEF WriteIsAwaited, SinkGone, SinkGoes, opVars, Parts, Boundary
<1>7. ListenersCover'
    BY DEF ListenersCover, SinkGone, SinkGoes, runVars, Parts, Boundary
<1>8. RaceIsWon'
    BY DEF RaceIsWon, SinkGone, SinkGoes, opVars, runVars, Parts, Boundary
<1>9. OneClosing'
    BY DEF OneClosing, SinkGone, inputVars, Parts, Boundary
<1>10. ReturnAtMostOnce'
    BY DEF ReturnAtMostOnce, SinkGone, inputVars, Parts, Boundary
<1>11. ReasonIsKept'
    BY DEF ReasonIsKept, SinkGone, opVars, Parts, Boundary
<1>12. QED
  BY <1>1, <1>2, <1>3, <1>4, <1>5, <1>6, <1>7, <1>8, <1>9, <1>10, <1>11 DEF Parts, Boundary

\* An event fails a listening run; after that it can only be one of the owner.
LEMMA EmitInv == Parts /\ Emit => Parts'
<1> SUFFICES ASSUME Parts, Emit PROVE Parts'
  OBVIOUS
<1>1. OutputTypeOK'
    BY DEF Failures, OutputTypeOK, Emit, Fails, RecordFailure, Rejecting, EmitUnheard, Parts
<1>2. InputTypeOK'
    BY CancelKeeps DEF InputKept, InputTypeOK, BoundaryHolds, Emit, Fails, inputVars, Parts,
     Boundary
<1>3. OpTypeOK'
    BY DEF OpTypeOK, Emit, opVars, Parts
<1>4. RunTypeOK'
    BY DEF RunTypeOK, Emit, runVars, Parts
<1>5. BoundaryHolds'
    BY CancelKeeps DEF BoundaryHolds, Emit, Fails, RecordFailure, Rejecting, EmitUnheard,
     inputVars, Parts, Boundary
<1>6. WriteIsAwaited'
    BY DEF WriteIsAwaited, Emit, Fails, RecordFailure, Rejecting, EmitUnheard, opVars, Parts,
     Boundary
<1>7. ListenersCover'
    BY DEF OutputTypeOK, ListenersCover, Emit, EmitUnheard, runVars, Parts, Boundary
<1>8. RaceIsWon'
    BY DEF ListenersCover, RaceIsWon, Emit, Fails, RecordFailure, EmitUnheard, opVars, runVars,
     Parts, Boundary
<1>9. OneClosing'
    BY CancelKeeps DEF InputKept, BoundaryHolds, OneClosing, Emit, Fails, inputVars, Parts,
     Boundary
<1>10. ReturnAtMostOnce'
    BY CancelKeeps DEF InputKept, BoundaryHolds, ReturnAtMostOnce, Emit, Fails, inputVars,
     Parts, Boundary
<1>11. ReasonIsKept'
    BY DEF ReasonIsKept, Emit, opVars, Parts, Boundary
<1>12. QED
  BY <1>1, <1>2, <1>3, <1>4, <1>5, <1>6, <1>7, <1>8, <1>9, <1>10, <1>11 DEF Parts, Boundary

\* The race ends once.
LEMMA SettlesInv == Parts /\ Settles => Parts'
<1> SUFFICES ASSUME Parts, Settles PROVE Parts'
  OBVIOUS
<1>1. OutputTypeOK'
    BY DEF OutputTypeOK, Settles, outputVars, Parts
<1>2. InputTypeOK'
    BY CancelKeeps DEF InputKept, InputTypeOK, BoundaryHolds, Settles, inputVars, Parts,
     Boundary
<1>3. OpTypeOK'
    BY DEF OpTypeOK, Settles, opVars, Parts
<1>4. RunTypeOK'
    BY DEF OpErrors, OutputTypeOK, RunTypeOK, ReasonIsKept, Settles, Parts, Boundary
<1>5. BoundaryHolds'
    BY CancelKeeps DEF BoundaryHolds, Settles, outputVars, inputVars, Parts, Boundary
<1>6. WriteIsAwaited'
    BY DEF WriteIsAwaited, Settles, outputVars, opVars, Parts, Boundary
<1>7. ListenersCover'
    BY DEF ListenersCover, Settles, outputVars, Parts, Boundary
<1>8. RaceIsWon'
    BY DEF Failures, OpErrors, BoundaryHolds, RaceIsWon, ReasonIsKept, Settles, outputVars,
     opVars, Parts, Boundary
<1>9. OneClosing'
    BY CancelKeeps DEF InputKept, BoundaryHolds, OneClosing, Settles, inputVars, Parts, Boundary
<1>10. ReturnAtMostOnce'
    BY CancelKeeps DEF InputKept, BoundaryHolds, ReturnAtMostOnce, Settles, inputVars, Parts,
     Boundary
<1>11. ReasonIsKept'
    BY DEF ReasonIsKept, Settles, opVars, Parts, Boundary
<1>12. QED
  BY <1>1, <1>2, <1>3, <1>4, <1>5, <1>6, <1>7, <1>8, <1>9, <1>10, <1>11 DEF Parts, Boundary

\* The run settles with its first failure when there is one.
LEMMA ReleasesInv == Parts /\ Releases => Parts'
<1> SUFFICES ASSUME Parts, Releases PROVE Parts'
  OBVIOUS
<1>1. OutputTypeOK'
    BY DEF OutputTypeOK, Releases, Parts
<1>2. InputTypeOK'
    BY DEF InputTypeOK, Releases, inputVars, Parts
<1>3. OpTypeOK'
    BY DEF OpTypeOK, Releases, opVars, Parts
<1>4. RunTypeOK'
  <2>1. failed => failure \in OpErrors
    BY DEF Parts, OutputTypeOK, Boundary, BoundaryHolds, OpErrors
  <2>2. race \in OpErrors \union {"code"}
    BY DEF Parts, RunTypeOK, Boundary, RaceIsWon, Releases
  <2>3. QED
    BY <2>1, <2>2 DEF Parts, RunTypeOK, Releases
<1>5. BoundaryHolds'
    BY DEF BoundaryHolds, Releases, inputVars, Parts, Boundary
<1>6. WriteIsAwaited'
    BY DEF WriteIsAwaited, Releases, opVars, Parts, Boundary
<1>7. ListenersCover'
    BY DEF ListenersCover, Releases, Parts, Boundary
<1>8. RaceIsWon'
    BY DEF RaceIsWon, Releases, opVars, Parts, Boundary
<1>9. OneClosing'
    BY DEF OneClosing, Releases, inputVars, Parts, Boundary
<1>10. ReturnAtMostOnce'
    BY DEF ReturnAtMostOnce, Releases, inputVars, Parts, Boundary
<1>11. ReasonIsKept'
    BY DEF ReasonIsKept, Releases, opVars, Parts, Boundary
<1>12. QED
  BY <1>1, <1>2, <1>3, <1>4, <1>5, <1>6, <1>7, <1>8, <1>9, <1>10, <1>11 DEF Parts, Boundary

\* The microtasks of the input and the answer of return(): return() is called once,
\* by the one microtask that finds the close scheduled.
LEMMA InputTaskInv ==
  Parts /\ (InputTask(Destroy) \/ InputTask(RequestReturn) \/ InputTask(ReturnSettles)) => Parts'
<1> SUFFICES ASSUME Parts,
                    InputTask(Destroy) \/ InputTask(RequestReturn) \/ InputTask(ReturnSettles)
             PROVE  Parts'
  OBVIOUS
<1>1. UNCHANGED <<outputVars, opVars, runVars, stopped, canceled>>
  BY DEF InputTask, Destroy, RequestReturn, ReturnSettles
<1>2. InputTypeOK' /\ OneClosing' /\ ReturnAtMostOnce'
  BY DEF InputTask, Destroy, RequestReturn, ReturnSettles,
         Parts, Boundary, InputTypeOK, OneClosing, ReturnAtMostOnce
<1>3. OutputTypeOK' /\ OpTypeOK' /\ RunTypeOK'
  BY <1>1 DEF Parts, OutputTypeOK, OpTypeOK, RunTypeOK, outputVars, opVars, runVars
<1>4. BoundaryHolds' /\ WriteIsAwaited' /\ ListenersCover' /\ RaceIsWon' /\ ReasonIsKept'
  BY <1>1 DEF Parts, Boundary, BoundaryHolds, WriteIsAwaited, ListenersCover, RaceIsWon,
              ReasonIsKept, outputVars, opVars, runVars
<1>5. QED
  BY <1>2, <1>3, <1>4 DEF Parts, Boundary

\* A step that changes nothing.
LEMMA LifeStutterInv == Parts /\ UNCHANGED vars => Parts'
BY DEF Parts, Boundary, OutputTypeOK, InputTypeOK, OpTypeOK, RunTypeOK, BoundaryHolds,
       WriteIsAwaited, ListenersCover, RaceIsWon, OneClosing, ReturnAtMostOnce, ReasonIsKept,
       vars, outputVars, inputVars, opVars, runVars

\* A run starts with a healthy stream, or with one that has failed it already.
LEMMA LifeInitInv == Init => Parts
<1> SUFFICES ASSUME Init PROVE Parts
  OBVIOUS
<1> USE DEF Init, OutputInit, InputInit
<1>1. OutputTypeOK
  BY DEF OutputTypeOK, Failures
<1>2. InputTypeOK
  BY DEF InputTypeOK
<1>3. OpTypeOK
  <2>1. lines \in Seq(LineKinds \union {"oversized"})
    OBVIOUS
  <2>2. line \in LineKinds \union {"none"}
    <3>1. CASE iterator
      BY <3>1
    <3>2. CASE ~ iterator
      BY <3>2 DEF LineKinds
    <3>3. QED
      BY <3>1, <3>2
  <2>3. taken \in Nat
    OBVIOUS
  <2>4. refusals \in BOOLEAN
    OBVIOUS
  <2>5. /\ op \in {"asking", "working"}
        /\ tail = "none" /\ then = "none"
    OBVIOUS
  <2>6. code \in 0..2 /\ answered \in Nat
    OBVIOUS
  <2>7. draining \in BOOLEAN
    OBVIOUS
  <2> HIDE DEF Init, OutputInit, InputInit
  <2>8. QED
    BY <2>1, <2>2, <2>3, <2>4, <2>5, <2>6, <2>7, Zenon DEF OpTypeOK
<1>4. RunTypeOK
  BY DEF RunTypeOK
<1>5. Boundary
  BY DEF Boundary, BoundaryHolds, WriteIsAwaited, ListenersCover, RaceIsWon, OneClosing,
         ReturnAtMostOnce, ReasonIsKept
<1>6. QED
  BY <1>1, <1>2, <1>3, <1>4, <1>5 DEF Parts

\* LifeInv holds in every reachable state, for every set of chunks.
THEOREM LifeInvariant == Spec => []LifeInv
<1>1. Parts /\ [Next]_vars => Parts'
  BY DemandInv, TakeLineInv, DrainInv, InputAnswersInv, InputThrowsInv, WorkDoneInv,
     WriteInv, AcknowledgedInv, WriteRejectedInv, ClosedInv, AcksInv,
     WriteFailsInv, SinkGoneInv, EmitInv, SettlesInv, ReleasesInv,
     InputTaskInv, LifeStutterInv
     DEF Next, Operation, Tasks, Environment
<1>2. Spec => []Parts
  BY LifeInitInv, <1>1, PTL DEF Spec
<1>3. QED
  BY <1>2, InvParts, PTL

(***************************************************************************)
(* What a caller of run() relies on.                                       *)
(***************************************************************************)

\* A run whose output failed is rejected with its first failure.
THEOREM RunTellsItsFailure == Spec => []FailureDecides
<1>1. LifeInv => FailureDecides
  BY DEF LifeInv, RaceIsWon, FailureDecides
<1>2. QED
  BY LifeInvariant, <1>1, PTL

\* The caller's iterator is asked to return at most once.
THEOREM ReturnRequestedOnce == Spec => []ReturnAtMostOnce
<1>1. LifeInv => ReturnAtMostOnce
  BY DEF LifeInv
<1>2. QED
  BY LifeInvariant, <1>1, PTL

\* No error event of a write of the run goes unheard.
THEOREM ErrorsAreHeard == Spec => []NoUnheardError
<1>1. LifeInv => NoUnheardError
  BY DEF LifeInv, ListenersCover, NoUnheardError
<1>2. QED
  BY LifeInvariant, <1>1, PTL

\* A failed run tells its failure, asks the input to return once and misses no error event.
THEOREM RunIsTold == Spec => []FailureIsTold
<1>1. FailureDecides /\ ReturnAtMostOnce /\ NoUnheardError => FailureIsTold
  BY DEF FailureIsTold
<1>2. QED
  BY RunTellsItsFailure, ReturnRequestedOnce, ErrorsAreHeard, <1>1, PTL

\* No step replaces the first failure.
THEOREM FirstFailureIsKept == Spec => FirstFailureWins
<1>1. [Next]_vars => [failed => failed' /\ failure' = failure]_vars
  <2> SUFFICES ASSUME Next, failed PROVE failed' /\ failure' = failure
    OBVIOUS
  <2>1. CASE Operation
    BY <2>1 DEF Operation, Demand, TakeLine, Drain, Write, Acknowledged, WriteRejected, Closed, outputVars
  <2>2. CASE Tasks \/ Settles \/ Releases
    BY <2>2 DEF Tasks, InputTask, Settles, Releases, outputVars
  <2>3. CASE Emit
    BY <2>3 DEF Emit, Fails, RecordFailure, EmitUnheard
  <2>4. CASE Environment
    BY <2>4 DEF Environment, InputAnswers, InputThrows, WorkDone, InputTask, Acks, AckWrite,
                WriteFails, Fails, RecordFailure, SinkGone, SinkGoes, outputVars
  <2>5. QED
    BY <2>1, <2>2, <2>3, <2>4 DEF Next
<1>2. QED
  BY <1>1, PTL DEF Spec, FirstFailureWins

\* After a failure no step writes: the one place that submits a write has looked.
THEOREM FailureSilencesOutput == Spec => NoOutputAfterFailure
<1>1. [Next]_vars => [failed => writes' = writes]_vars
  <2> SUFFICES ASSUME Next, failed PROVE writes' = writes
    OBVIOUS
  <2>1. CASE Operation
    BY <2>1 DEF Operation, Demand, TakeLine, Drain, Write, Acknowledged, WriteRejected, Closed, outputVars
  <2>2. CASE Tasks \/ Settles \/ Releases
    BY <2>2 DEF Tasks, InputTask, Settles, Releases, outputVars
  <2>3. CASE Emit
    BY <2>3 DEF Emit, EmitUnheard
  <2>4. CASE Environment
    BY <2>4 DEF Environment, InputAnswers, InputThrows, WorkDone, InputTask, Acks, AckWrite,
                WriteFails, SinkGone, SinkGoes, outputVars
  <2>5. QED
    BY <2>1, <2>2, <2>3, <2>4 DEF Next
<1>2. QED
  BY <1>1, PTL DEF Spec, NoOutputAfterFailure

\* After a failure no step asks the input for another item: the failure has stopped
\* the input in the step that recorded it, and nothing starts it again.
THEOREM FailureSilencesInput == Spec => NoInputAfterFailure
<1>1. Parts /\ [Next]_vars => [failed => nexts' = nexts]_vars
  <2> SUFFICES ASSUME Parts, Next, failed PROVE nexts' = nexts
    OBVIOUS
  <2>1. stopped /\ InputTypeOK /\ (canceled => stopped)
    BY DEF Parts, Boundary, BoundaryHolds
  <2>2. CASE Demand
    BY <2>1, <2>2 DEF Demand, inputVars
  <2>3. CASE TakeLine \/ Drain \/ Acknowledged \/ Closed
    BY <2>3 DEF TakeLine, Drain, Acknowledged, Closed, Close, inputVars
  <2>4. CASE Write \/ WriteRejected \/ WorkDone
    BY <2>4, <2>1 DEF Write, WriteRejected, WorkDone, Throws, Close, inputVars
  <2>5. CASE InputTask(Destroy) \/ InputTask(RequestReturn) \/ InputTask(ReturnSettles)
    BY <2>5 DEF InputTask, Destroy, RequestReturn, ReturnSettles
  <2>6. CASE Emit \/ WriteFails \/ Settles
    BY <2>6 DEF Emit, WriteFails, Settles, Fails, Cancel, inputVars
  <2>7. CASE Releases \/ Acks \/ SinkGone \/ InputThrows \/ InputAnswers
    BY <2>7 DEF Releases, Acks, SinkGone, InputThrows, InputAnswers, Answered, inputVars
  <2>8. QED
    BY <2>2, <2>3, <2>4, <2>5, <2>6, <2>7 DEF Next, Operation, Tasks, Environment
<1>2. Spec => []Parts
  BY LifeInvariant, InvParts, PTL
<1>3. QED
  BY <1>1, <1>2, PTL DEF Spec, NoInputAfterFailure

--------------------------------------------------------------------------------

(***************************************************************************)
(* The end of a run.                                                        *)
(***************************************************************************)

(***************************************************************************)
(* Every action keeps it.                                                  *)
(***************************************************************************)

\* The generator drains only an input that has ended, or one that was cancelled.
LEMMA DemandEnding == Parts /\ Ending /\ Demand => Ending'
<1> SUFFICES ASSUME Parts, Ending, Demand PROVE Ending'
  OBVIOUS
<1> USE DEF Parts, Boundary, Ending
<1>1. CancelReaches'
  BY DEF CancelReaches, Closable, Demand, CallNext, outputVars, inputVars, runVars
<1>2. SettledIsQuiet'
  BY DEF SettledIsQuiet, Demand, CallNext, outputVars, inputVars, runVars
<1>3. CloseIsWaited'
  BY DEF CloseIsWaited, OversizedEnds, Demand, CallNext, inputVars
<1>4. OversizedEnds'
  BY DEF OversizedEnds, Demand, Goto
<1>5. CodeCounts'
  BY DEF CodeCounts, Demand, Goto
<1>6. DrainedIsEnd'
  BY DEF DrainedIsEnd, CloseIsWaited, OversizedEnds, Demand, Goto, inputVars
<1>7. QED
  BY <1>1, <1>2, <1>3, <1>4, <1>5, <1>6

\* A line is counted when it is yielded; one over the limit closes the input.
LEMMA TakeLineEnding == Parts /\ Ending /\ TakeLine => Ending'
<1> SUFFICES ASSUME Parts, Ending, TakeLine PROVE Ending'
  OBVIOUS
<1> USE DEF Parts, Boundary, Ending
<1>1. CancelReaches'
  BY DEF CancelReaches, Closable, TakeLine, Close, ClosingNext, outputVars, inputVars, runVars
<1>2. SettledIsQuiet'
  BY DEF SettledIsQuiet, CancelReaches, RaceIsWon, TakeLine, Close, ClosingNext, outputVars, inputVars,
         runVars
<1>3. CloseIsWaited'
  BY DEF CloseIsWaited, OversizedEnds, Closable, TakeLine, Close, ClosingNext, Goto, inputVars
<1>4. OversizedEnds'
  BY DEF OversizedEnds, TakeLine, Take, Goto
<1>5. CodeCounts'
  BY DEF CodeCounts, TakeLine, Take, Goto
<1>6. DrainedIsEnd'
  BY DEF DrainedIsEnd, TakeLine, Take, Close, Goto, inputVars
<1>7. QED
  BY <1>1, <1>2, <1>3, <1>4, <1>5, <1>6

\* The session resolves when no line and no unterminated bytes are left.
LEMMA DrainEnding == Parts /\ Ending /\ Drain => Ending'
<1> SUFFICES ASSUME Parts, Ending, Drain PROVE Ending'
  OBVIOUS
<1> USE DEF Parts, Boundary, Ending
<1>1. CancelReaches'
  BY DEF CancelReaches, Closable, Drain, outputVars, inputVars, runVars
<1>2. SettledIsQuiet'
  BY DEF SettledIsQuiet, Drain, outputVars, inputVars, runVars
<1>3. CloseIsWaited'
  BY DEF CloseIsWaited, OversizedEnds, Drain, inputVars
<1>4. OversizedEnds'
  BY DEF OversizedEnds, Drain, Take, Goto
<1>5. CodeCounts'
  BY DEF CodeCounts, Drain, Take, Goto
<1>6. DrainedIsEnd'
  BY DEF DrainedIsEnd, Drain, inputVars
<1>7. QED
  BY <1>1, <1>2, <1>3, <1>4, <1>5, <1>6

\* An answer that comes after a stop came after a cancel.
LEMMA InputAnswersEnding == Parts /\ Ending /\ InputAnswers => Ending'
<1> SUFFICES ASSUME Parts, Ending, InputAnswers PROVE Ending'
  OBVIOUS
<1> USE DEF Parts, Boundary, Ending
<1>1. CancelReaches'
  BY DEF CancelReaches, InputTypeOK, Closable, InputAnswers, Answered, outputVars, runVars
<1>2. SettledIsQuiet'
  BY DEF SettledIsQuiet, InputAnswers, Answered, outputVars, runVars
<1>3. CloseIsWaited'
  BY DEF CloseIsWaited, OversizedEnds, InputAnswers, Answered
<1>4. OversizedEnds'
  BY DEF OversizedEnds, InputAnswers, Goto
<1>5. CodeCounts'
  BY DEF CodeCounts, InputAnswers, Goto
<1>6. DrainedIsEnd'
  BY DEF DrainedIsEnd, CloseIsWaited, OversizedEnds, InputAnswers, Answered, Goto
<1>7. QED
  BY <1>1, <1>2, <1>3, <1>4, <1>5, <1>6

\* An error of the input closes nothing.
LEMMA InputThrowsEnding == Parts /\ Ending /\ InputThrows => Ending'
<1> SUFFICES ASSUME Parts, Ending, InputThrows PROVE Ending'
  OBVIOUS
<1> USE DEF Parts, Boundary, Ending
<1>1. CancelReaches'
  BY DEF CancelReaches, Closable, InputThrows, outputVars, inputVars, runVars
<1>2. SettledIsQuiet'
  BY DEF SettledIsQuiet, InputThrows, outputVars, inputVars, runVars
<1>3. CloseIsWaited'
  BY DEF CloseIsWaited, OversizedEnds, InputThrows, inputVars
<1>4. OversizedEnds'
  BY DEF OversizedEnds, InputThrows, Goto
<1>5. CodeCounts'
  BY DEF CodeCounts, InputThrows, Goto
<1>6. DrainedIsEnd'
  BY DEF DrainedIsEnd, InputThrows, Goto, inputVars
<1>7. QED
  BY <1>1, <1>2, <1>3, <1>4, <1>5, <1>6

\* The answer is worked out, or its error closes the input.
LEMMA WorkDoneEnding == Parts /\ Ending /\ WorkDone => Ending'
<1> SUFFICES ASSUME Parts, Ending, WorkDone PROVE Ending'
  OBVIOUS
<1> USE DEF Parts, Boundary, Ending
<1>1. CancelReaches'
  BY DEF CancelReaches, Closable, WorkDone, Throws, Close, ClosingNext, outputVars, inputVars, runVars
<1>2. SettledIsQuiet'
  BY DEF SettledIsQuiet, CancelReaches, RaceIsWon, WorkDone, Throws, Close, ClosingNext, outputVars,
         inputVars, runVars
<1>3. CloseIsWaited'
  BY DEF CloseIsWaited, Closable, WorkDone, Throws, Close, ClosingNext, Goto, inputVars
<1>4. OversizedEnds'
  BY DEF OversizedEnds, WorkDone, Throws, Goto
<1>5. CodeCounts'
  BY DEF CodeCounts, OutputTypeOK, Failures, WorkDone, Throws, Goto
<1>6. DrainedIsEnd'
  BY DEF DrainedIsEnd, WorkDone, Throws, Goto, inputVars
<1>7. QED
  BY <1>1, <1>2, <1>3, <1>4, <1>5, <1>6

\* A write is submitted, or its failure cancels the input.
LEMMA WriteEnding == Parts /\ Ending /\ Write => Ending'
<1> SUFFICES ASSUME Parts, Ending, Write PROVE Ending'
  OBVIOUS
<1> USE DEF Parts, Boundary, Ending
<1>1. CancelReaches'
  BY DEF CancelReaches, Closable, Write, SubmitWrite, Throws, Fails, RecordFailure, Cancel, Close,
         ClosingNext, outputVars, inputVars, runVars
<1>2. SettledIsQuiet'
  BY DEF SettledIsQuiet, CancelReaches, RaceIsWon, Write, Throws, Close, ClosingNext, outputVars,
         inputVars, runVars
<1>3. CloseIsWaited'
  BY DEF CloseIsWaited, Closable, Write, Throws, Fails, Cancel, Close, ClosingNext, Goto, inputVars,
         opVars
<1>4. OversizedEnds'
  BY DEF OversizedEnds, Write, Throws, Goto, opVars
<1>5. CodeCounts'
  BY DEF CodeCounts, OutputTypeOK, Failures, Write, Throws, Goto, opVars
<1>6. DrainedIsEnd'
  BY DEF DrainedIsEnd, Write, Throws, Fails, Cancel, Goto, inputVars, opVars
<1>7. QED
  BY <1>1, <1>2, <1>3, <1>4, <1>5, <1>6

\* An answer counts when it is acknowledged; after a malformed line the code is 2.
LEMMA AcknowledgedEnding == Parts /\ Ending /\ Acknowledged => Ending'
<1> SUFFICES ASSUME Parts, Ending, Acknowledged PROVE Ending'
  OBVIOUS
<1> USE DEF Parts, Boundary, Ending
<1>1. CancelReaches'
  BY DEF CancelReaches, Closable, Acknowledged, Close, ClosingNext, inputVars, runVars
<1>2. SettledIsQuiet'
  BY DEF SettledIsQuiet, CancelReaches, RaceIsWon, Acknowledged, Close, ClosingNext, inputVars, runVars
<1>3. CloseIsWaited'
  BY DEF CloseIsWaited, Closable, Acknowledged, Close, ClosingNext, Goto, inputVars
<1>4. OversizedEnds'
  BY DEF OversizedEnds, Acknowledged, Goto
<1>5. CodeCounts'
  BY DEF CodeCounts, OpTypeOK, Acknowledged, Larger, Goto
<1>6. DrainedIsEnd'
  BY DEF DrainedIsEnd, Acknowledged, Goto, inputVars
<1>7. QED
  BY <1>1, <1>2, <1>3, <1>4, <1>5, <1>6

\* A rejected write closes the input.
LEMMA WriteRejectedEnding == Parts /\ Ending /\ WriteRejected => Ending'
<1> SUFFICES ASSUME Parts, Ending, WriteRejected PROVE Ending'
  OBVIOUS
<1> USE DEF Parts, Boundary, Ending
<1>1. CancelReaches'
  BY DEF CancelReaches, Closable, WriteRejected, Throws, Close, ClosingNext, inputVars, runVars
<1>2. SettledIsQuiet'
  BY DEF SettledIsQuiet, CancelReaches, RaceIsWon, WriteRejected, Throws, Close, ClosingNext, inputVars,
         runVars
<1>3. CloseIsWaited'
  BY DEF CloseIsWaited, Closable, WriteRejected, Throws, Close, ClosingNext, Goto, inputVars
<1>4. OversizedEnds'
  BY DEF OversizedEnds, WriteRejected, Throws, Goto
<1>5. CodeCounts'
  BY DEF CodeCounts, OutputTypeOK, Failures, WriteRejected, Throws, Goto
<1>6. DrainedIsEnd'
  BY DEF DrainedIsEnd, WriteRejected, Throws, Goto, inputVars
<1>7. QED
  BY <1>1, <1>2, <1>3, <1>4, <1>5, <1>6

\* The operation goes on when its close has been answered.
LEMMA ClosedEnding == Parts /\ Ending /\ Closed => Ending'
<1> SUFFICES ASSUME Parts, Ending, Closed PROVE Ending'
  OBVIOUS
<1> USE DEF Parts, Boundary, Ending
<1>1. CancelReaches'
  BY DEF CancelReaches, Closable, Closed, outputVars, inputVars, runVars
<1>2. SettledIsQuiet'
  BY DEF SettledIsQuiet, Closed, outputVars, inputVars, runVars
<1>3. CloseIsWaited'
  BY DEF CloseIsWaited, Closed, Goto, inputVars
<1>4. OversizedEnds'
  BY DEF OversizedEnds, Closed, Goto
<1>5. CodeCounts'
  BY DEF CodeCounts, Closed, Goto
<1>6. DrainedIsEnd'
  BY DEF DrainedIsEnd, CodeCounts, Closed, Goto, inputVars
<1>7. QED
  BY <1>1, <1>2, <1>3, <1>4, <1>5, <1>6

\* The callback of a write moves only the write.
LEMMA AcksEnding == Parts /\ Ending /\ Acks => Ending'
<1> SUFFICES ASSUME Parts, Ending, Acks PROVE Ending'
  OBVIOUS
<1> USE DEF Parts, Boundary, Ending
<1>1. CancelReaches'
  BY DEF CancelReaches, Closable, Acks, AckWrite, inputVars, runVars
<1>2. SettledIsQuiet'
  BY DEF SettledIsQuiet, Acks, AckWrite, inputVars, runVars
<1>3. CloseIsWaited'
  BY DEF CloseIsWaited, Acks, inputVars, opVars
<1>4. OversizedEnds'
  BY DEF OversizedEnds, Acks, opVars
<1>5. CodeCounts'
  BY DEF CodeCounts, Acks, opVars
<1>6. DrainedIsEnd'
  BY DEF DrainedIsEnd, Acks, inputVars, opVars
<1>7. QED
  BY <1>1, <1>2, <1>3, <1>4, <1>5, <1>6

\* A write that fails cancels the input.
LEMMA WriteFailsEnding == Parts /\ Ending /\ WriteFails => Ending'
<1> SUFFICES ASSUME Parts, Ending, WriteFails PROVE Ending'
  OBVIOUS
<1> USE DEF Parts, Boundary, Ending
<1>1. CancelReaches'
  BY DEF CancelReaches, Closable, WriteFails, Fails, RecordFailure, Cancel, ClosingNext, inputVars
<1>2. SettledIsQuiet'
  BY DEF SettledIsQuiet, CancelReaches, WriteIsAwaited, RaceIsWon, WriteFails, Fails, RecordFailure,
         Cancel, inputVars, runVars
<1>3. CloseIsWaited'
  BY DEF CloseIsWaited, WriteFails, Fails, Cancel, inputVars
<1>4. OversizedEnds'
  BY DEF OversizedEnds, WriteFails, opVars
<1>5. CodeCounts'
  BY DEF CodeCounts, WriteFails, opVars
<1>6. DrainedIsEnd'
  BY DEF DrainedIsEnd, WriteFails, Fails, Cancel, inputVars
<1>7. QED
  BY <1>1, <1>2, <1>3, <1>4, <1>5, <1>6

\* The stream goes away without the run's doing.
LEMMA SinkGoneEnding == Parts /\ Ending /\ SinkGone => Ending'
<1> SUFFICES ASSUME Parts, Ending, SinkGone PROVE Ending'
  OBVIOUS
<1> USE DEF Parts, Boundary, Ending
<1>1. CancelReaches'
  BY DEF CancelReaches, Closable, SinkGone, SinkGoes, inputVars, runVars
<1>2. SettledIsQuiet'
  BY DEF SettledIsQuiet, SinkGone, SinkGoes, inputVars, runVars
<1>3. CloseIsWaited'
  BY DEF CloseIsWaited, SinkGone, inputVars, opVars
<1>4. OversizedEnds'
  BY DEF OversizedEnds, SinkGone, opVars
<1>5. CodeCounts'
  BY DEF CodeCounts, SinkGone, opVars
<1>6. DrainedIsEnd'
  BY DEF DrainedIsEnd, SinkGone, inputVars, opVars
<1>7. QED
  BY <1>1, <1>2, <1>3, <1>4, <1>5, <1>6

\* An event that is heard cancels the input; a settled run hears none.
LEMMA EmitEnding == Parts /\ Ending /\ Emit => Ending'
<1> SUFFICES ASSUME Parts, Ending, Emit PROVE Ending'
  OBVIOUS
<1> USE DEF Parts, Boundary, Ending
<1>1. CancelReaches'
  BY DEF CancelReaches, Closable, Emit, EmitUnheard, Fails, RecordFailure, Cancel, ClosingNext,
         inputVars, runVars
<1>2. SettledIsQuiet'
  BY DEF SettledIsQuiet, ListenersCover, Emit, EmitUnheard, inputVars, runVars
<1>3. CloseIsWaited'
  BY DEF CloseIsWaited, Emit, Fails, Cancel, inputVars, opVars
<1>4. OversizedEnds'
  BY DEF OversizedEnds, Emit, opVars
<1>5. CodeCounts'
  BY DEF CodeCounts, Emit, opVars
<1>6. DrainedIsEnd'
  BY DEF DrainedIsEnd, Emit, Fails, Cancel, inputVars, opVars
<1>7. QED
  BY <1>1, <1>2, <1>3, <1>4, <1>5, <1>6

\* A race lost to an error cancels the input.
LEMMA SettlesEnding == Parts /\ Ending /\ Settles => Ending'
<1> SUFFICES ASSUME Parts, Ending, Settles PROVE Ending'
  OBVIOUS
<1> USE DEF Parts, Boundary, Ending
<1>1. CancelReaches'
  BY DEF CancelReaches, ReasonIsKept, Closable, OpErrors, Failures, Settles, Cancel, ClosingNext,
         outputVars, inputVars
<1>2. SettledIsQuiet'
  BY DEF SettledIsQuiet, Settles
<1>3. CloseIsWaited'
  BY DEF CloseIsWaited, Settles, Cancel, inputVars, opVars
<1>4. OversizedEnds'
  BY DEF OversizedEnds, Settles, opVars
<1>5. CodeCounts'
  BY DEF CodeCounts, Settles, opVars
<1>6. DrainedIsEnd'
  BY DEF DrainedIsEnd, Settles, Cancel, inputVars, opVars
<1>7. QED
  BY <1>1, <1>2, <1>3, <1>4, <1>5, <1>6

\* The run settles when no microtask of its input is left, with the race's result or its failure.
LEMMA ReleasesEnding == Parts /\ Ending /\ Releases => Ending'
<1> SUFFICES ASSUME Parts, Ending, Releases PROVE Ending'
  OBVIOUS
<1> USE DEF Parts, Boundary, Ending
<1>1. CancelReaches'
  BY DEF CancelReaches, Closable, Releases, inputVars
<1>2. SettledIsQuiet'
  BY DEF SettledIsQuiet, Releases, inputVars
<1>3. CloseIsWaited'
  BY DEF CloseIsWaited, Releases, inputVars, opVars
<1>4. OversizedEnds'
  BY DEF OversizedEnds, Releases, opVars
<1>5. CodeCounts'
  BY DEF CodeCounts, Releases, opVars
<1>6. DrainedIsEnd'
  BY DEF DrainedIsEnd, Releases, inputVars, opVars
<1>7. QED
  BY <1>1, <1>2, <1>3, <1>4, <1>5, <1>6

\* The microtasks and the caller's answer move a close forwards.
LEMMA InputTaskEnding ==
  Parts /\ Ending /\ (InputTask(Destroy) \/ InputTask(RequestReturn) \/ InputTask(ReturnSettles)) => Ending'
<1> SUFFICES ASSUME Parts, Ending, (InputTask(Destroy) \/ InputTask(RequestReturn) \/ InputTask(ReturnSettles))
             PROVE  Ending'
  OBVIOUS
<1> USE DEF Parts, Boundary, Ending
<1>1. CancelReaches'
  BY DEF CancelReaches, Closable, InputTask, Destroy, RequestReturn, ReturnSettles, outputVars, runVars
<1>2. SettledIsQuiet'
  BY DEF SettledIsQuiet, InputTask, Destroy, RequestReturn, ReturnSettles, outputVars, runVars
<1>3. CloseIsWaited'
  BY DEF CloseIsWaited, InputTask, Destroy, RequestReturn, ReturnSettles, opVars
<1>4. OversizedEnds'
  BY DEF OversizedEnds, InputTask, opVars
<1>5. CodeCounts'
  BY DEF CodeCounts, InputTask, opVars
<1>6. DrainedIsEnd'
  BY DEF DrainedIsEnd, InputTask, Destroy, RequestReturn, ReturnSettles, opVars
<1>7. QED
  BY <1>1, <1>2, <1>3, <1>4, <1>5, <1>6
\* A step that changes nothing.
LEMMA EndingStutters == Ending /\ UNCHANGED vars => Ending'
BY DEF Ending, CancelReaches, SettledIsQuiet, CloseIsWaited, OversizedEnds, CodeCounts, DrainedIsEnd, Closable,
       vars, outputVars, inputVars, opVars, runVars

\* A run starts with nothing closed and nothing counted, or cancelled by a stream that had failed before.
LEMMA EndingInit == Init => Ending
<1> SUFFICES ASSUME Init PROVE Ending
  OBVIOUS
<1> USE DEF Init, OutputInit, InputInit
<1>1. CancelReaches
  BY DEF CancelReaches, Closable
<1>2. SettledIsQuiet /\ CloseIsWaited /\ OversizedEnds /\ DrainedIsEnd
  <2>1. op # "resolved"
    OBVIOUS
  <2>2. QED
    BY <2>1 DEF SettledIsQuiet, CloseIsWaited, OversizedEnds, DrainedIsEnd
<1>3. CodeCounts
  <2>1. CASE iterator
    BY <2>1 DEF CodeCounts
  <2>2. CASE ~ iterator
    <3>1. op = "working" /\ taken = 1 /\ answered = 0 /\ (refusals => line = "refused")
      BY <2>2
    <3>2. QED
      BY <3>1 DEF CodeCounts
  <2>3. QED
    BY <2>1, <2>2
<1>4. QED
  BY <1>1, <1>2, <1>3 DEF Ending

\* Ending holds in every reachable state, beside the parts of LifeInv.
THEOREM EndingInvariant == Spec => [](Parts /\ Ending)
<1>1. Parts /\ Ending /\ [Next]_vars => Ending'
  BY DemandEnding, TakeLineEnding, DrainEnding, InputAnswersEnding, InputThrowsEnding, WorkDoneEnding, WriteEnding,
     AcknowledgedEnding, WriteRejectedEnding, ClosedEnding, AcksEnding, WriteFailsEnding, SinkGoneEnding, EmitEnding,
     SettlesEnding, ReleasesEnding, InputTaskEnding, EndingStutters
     DEF Next, Operation, Tasks, Environment
<1>2. Spec => []Parts
  BY LifeInvariant, InvParts, PTL
<1>3. QED
  BY EndingInit, <1>1, <1>2, PTL DEF Spec

(***************************************************************************)
(* What a caller of run() relies on at its end.                            *)
(***************************************************************************)

\* While the output is healthy, a malformed line is diagnosed before the input is asked to close.
THEOREM DiagnosedFirst == Spec => []DiagnosticBeforeCleanup
<1>1. Parts /\ Ending => DiagnosticBeforeCleanup
  BY DEF Parts, Boundary, Ending, RaceIsWon, RunTypeOK, CancelReaches, CloseIsWaited, DiagnosticBeforeCleanup
<1>2. QED
  BY EndingInvariant, <1>1, PTL

\* A run that answers with a code has not failed, and nothing has cancelled its input.
LEMMA CodeIsHealthy ==
  ASSUME Parts, Ending, run = "settled", outcome = "code"
  PROVE  race = "code" /\ ~ canceled /\ op \in {"resolved", "rejected"}
<1>1. ~ failed
  BY DEF Parts, Boundary, BoundaryHolds, RaceIsWon, OutputTypeOK, Failures
<1>2. race = "code"
  BY <1>1 DEF Ending, SettledIsQuiet
<1>3. QED
  BY <1>1, <1>2 DEF Parts, Boundary, RaceIsWon, Ending, CancelReaches

\* A run that answers with a code has waited for the close it started.
THEOREM CloseIsAwaited == Spec => []HealthyCleanupIsAwaited
<1>1. Parts /\ Ending => HealthyCleanupIsAwaited
  BY CodeIsHealthy DEF Parts, InputTypeOK, Ending, CloseIsWaited, HealthyCleanupIsAwaited
<1>2. QED
  BY EndingInvariant, <1>1, PTL

\* A rejected session has asked its input to close and destroyed a Readable one, unless the input has ended.
THEOREM RejectionReleasesInput == Spec => []RejectedRunReleasesInput
<1>1. Parts /\ Ending => RejectedRunReleasesInput
  <2> SUFFICES ASSUME Parts, Ending, run = "settled", outcome # "code", iterator
               PROVE  /\ finished \/ closing \in {"requested", "returned", "threw"}
                      /\ readable => destroying = "run"
    BY DEF RejectedRunReleasesInput
  <2>1. canceled
    BY DEF Parts, Boundary, RaceIsWon, Ending, SettledIsQuiet, CancelReaches
  <2>2. QED
    BY <2>1 DEF Parts, InputTypeOK, Ending, SettledIsQuiet, CancelReaches, Closable
<1>2. QED
  BY EndingInvariant, <1>1, PTL

\* A race that ended with a code was won by an operation that has resolved, and that is its end.
RaceIsTheOperations == race = "code" => op = "resolved"

\* The race is settled by what the operation answered.
LEMMA RaceInvariant == Spec => []RaceIsTheOperations
<1>1. Init => RaceIsTheOperations
  BY DEF Init, RaceIsTheOperations
<1>2. Parts /\ RaceIsTheOperations /\ [Next]_vars => RaceIsTheOperations'
  <2> SUFFICES ASSUME Parts, RaceIsTheOperations, [Next]_vars, race' = "code" PROVE op' = "resolved"
    BY DEF RaceIsTheOperations
  <2>1. CASE Operation
    BY <2>1 DEF RaceIsTheOperations, Operation, Demand, TakeLine, Drain, Write, Acknowledged, WriteRejected, Closed,
                runVars
  <2>2. CASE Tasks \/ Emit \/ Releases
    BY <2>2 DEF RaceIsTheOperations, Tasks, InputTask, Emit, Releases, opVars, runVars
  <2>3. CASE Settles
    BY <2>3 DEF Settles, opVars, Parts, Boundary, BoundaryHolds, ReasonIsKept, OutputTypeOK, OpErrors, Failures
  <2>4. CASE Environment
    BY <2>4 DEF RaceIsTheOperations, Environment, InputAnswers, InputThrows, WorkDone, InputTask, Acks, WriteFails,
                SinkGone, opVars, runVars, Parts, Boundary, WriteIsAwaited
  <2>5. CASE UNCHANGED vars
    BY <2>5 DEF RaceIsTheOperations, vars, opVars, runVars
  <2>6. QED
    BY <2>1, <2>2, <2>3, <2>4, <2>5 DEF Next
<1>3. QED
  BY EndingInvariant, <1>1, <1>2, PTL DEF Spec

\* Exit code 0 means that the input ended and that every line of it was answered ready and acknowledged.
THEOREM ZeroIsEarned == Spec => []ExitZeroIsEarned
<1>1. Parts /\ Ending /\ RaceIsTheOperations => ExitZeroIsEarned
  <2> SUFFICES ASSUME Parts, Ending, RaceIsTheOperations, run = "settled", outcome = "code", code = 0
               PROVE  /\ ~ refusals /\ answered = taken
                      /\ iterator => finished /\ lines = <<>> /\ tail = "none"
    BY DEF ExitZeroIsEarned
  <2>1. op = "resolved" /\ ~ canceled
    BY CodeIsHealthy DEF RaceIsTheOperations
  <2>2. QED
    BY <2>1 DEF Ending, CodeCounts, DrainedIsEnd
<1>2. QED
  BY EndingInvariant, RaceInvariant, <1>1, PTL

\* A run with an input ends in the order, and with the release of the input, that its answer promises.
THEOREM CleanupComesInOrder == Spec => []CleanupIsOrdered
<1>1. DiagnosticBeforeCleanup /\ ExitZeroIsEarned /\ RejectedRunReleasesInput /\ HealthyCleanupIsAwaited
        => CleanupIsOrdered
  BY DEF CleanupIsOrdered
<1>2. QED
  BY DiagnosedFirst, ZeroIsEarned, RejectionReleasesInput, CloseIsAwaited, <1>1, PTL

\* Nothing that the abandoned operation, the input or the stream does later reaches a settled run.
THEOREM SettledStays == Spec => SettledIsFinal
<1>1. Parts /\ Ending /\ [Next]_vars =>
        [run = "settled" => UNCHANGED <<failed, failure, nexts, returns, writes, outcome>>]_vars
  <2> SUFFICES ASSUME Parts, Ending, Next, run = "settled"
               PROVE  UNCHANGED <<failed, failure, nexts, returns, writes, outcome>>
    OBVIOUS
  <2> USE DEF Parts, Boundary, RaceIsWon, BoundaryHolds
  <2>1. failed \/ op \in {"resolved", "rejected"}
    BY DEF RunTypeOK
  <2>2. ~ listening /\ closing # "scheduled"
    BY DEF ListenersCover, Ending, SettledIsQuiet
  <2>3. CASE Operation
    <3>1. UNCHANGED <<nexts, returns>>
      BY <2>1, <2>3 DEF Operation, Demand, TakeLine, Drain, Write, Acknowledged, WriteRejected, Closed, Throws, Close,
                        Fails, inputVars
    <3>2. UNCHANGED <<failed, failure, writes>>
      BY <2>1, <2>3 DEF Operation, Demand, TakeLine, Drain, Write, Acknowledged, WriteRejected, Closed, outputVars
    <3>3. outcome' = outcome
      BY <2>3 DEF Operation, Demand, TakeLine, Drain, Write, Acknowledged, WriteRejected, Closed, runVars
    <3>4. QED
      BY <3>1, <3>2, <3>3
  <2>4. CASE Tasks
    BY <2>2, <2>4 DEF Tasks, InputTask, Destroy, RequestReturn, outputVars, runVars
  <2>5. CASE Emit
    BY <2>2, <2>5 DEF Emit, EmitUnheard, inputVars, runVars
  <2>6. CASE Settles \/ Releases
    BY <2>6 DEF Settles, Releases
  <2>7. CASE Environment
    BY <2>1, <2>7 DEF WriteIsAwaited, Environment, InputAnswers, InputThrows, WorkDone, InputTask, ReturnSettles, Acks,
                      AckWrite, WriteFails, SinkGone, SinkGoes, Answered, Throws, Close, outputVars, inputVars, runVars
  <2>8. QED
    BY <2>3, <2>4, <2>5, <2>6, <2>7 DEF Next
<1>2. QED
  BY EndingInvariant, <1>1, PTL DEF Spec, SettledIsFinal

\* What no step does once the output has failed or the run is settled.
THEOREM FailureStaysFinal == Spec => FailureIsFinal
BY FirstFailureIsKept, FailureSilencesInput, FailureSilencesOutput, SettledStays DEF FailureIsFinal
================================================================================
