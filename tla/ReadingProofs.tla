----------------------------- MODULE ReadingProofs -----------------------------
(***************************************************************************)
(* Proofs about what is read: what a read session tells, for every number  *)
(* of lines, contents, handles and every length of the window; and what    *)
(* `validate --system` and `source-pack` report of an asset, for every     *)
(* number of judgments and relations.                                      *)
(***************************************************************************)
EXTENDS ReadSession, SystemChecks, WellFoundedInduction, SequenceTheorems, TLAPS

--------------------------------------------------------------------------------
(* A read session.                                                             *)


(***************************************************************************)
(* Answers and what they earn.                                             *)
(***************************************************************************)

LEMMA EarnedIsACode ==
  ASSUME NEW status
  PROVE  Earned(status) \in 0..2
BY DEF Earned

\* The worst of some exit codes.
LEMMA WorstIsMax ==
  ASSUME NEW S \in SUBSET (0..2), NEW c \in S, \A e \in S : e <= c
  PROVE  Max(S) = c
<1> DEFINE m == Max(S)
<1>1. S \subseteq Int /\ \A y \in S : c >= y
  OBVIOUS
<1>2. m \in S /\ \A y \in S : m >= y
  BY <1>1 DEF Max
<1> HIDE DEF m
<1>3. m = c
  BY <1>1, <1>2
<1>4. QED
  BY <1>3 DEF m

\* What a line earns is an exit code.
LEMMA EarnedAreCodes ==
  ASSUME NEW k
  PROVE  EarnedOf(k) \in SUBSET (0..2)
BY EarnedIsACode DEF EarnedOf

\* One answer more.
LEMMA AppendTells ==
  ASSUME ReadTypeInv, NEW a \in Told, answers' = Append(answers, a)
  PROVE  /\ answers' \in Seq(Told) /\ Len(answers) \in Nat /\ Len(answers') = Len(answers) + 1
         /\ DOMAIN answers = 1..Len(answers) /\ DOMAIN answers' = 1..(Len(answers) + 1)
         /\ \A i \in DOMAIN answers : answers'[i] = answers[i]
         /\ answers'[Len(answers) + 1] = a
         /\ Shown' = Shown \union a.minted
         /\ EarnedOf(Len(answers))' = EarnedOf(Len(answers)) \union {Earned(a.status)}
<1>1. /\ answers' \in Seq(Told) /\ Len(answers) \in Nat /\ Len(answers') = Len(answers) + 1
      /\ DOMAIN answers = 1..Len(answers) /\ DOMAIN answers' = 1..(Len(answers) + 1)
      /\ \A i \in DOMAIN answers : answers'[i] = answers[i]
      /\ answers'[Len(answers) + 1] = a
  BY DEF ReadTypeInv
<1>2. DOMAIN answers' = DOMAIN answers \union {Len(answers) + 1}
  BY <1>1
<1>3. Shown' = Shown \union a.minted
  BY <1>1, <1>2 DEF Shown
<1>4. EarnedOf(Len(answers))' = EarnedOf(Len(answers)) \union {Earned(a.status)}
  <2>1. 1..Len(answers') = 1..Len(answers) \union {Len(answers) + 1}
    BY <1>1
  <2>2. EarnedOf(Len(answers))' = {0} \union {Earned(answers'[i].status) : i \in 1..Len(answers')}
    BY DEF EarnedOf
  <2>3. QED
    BY <1>1, <2>1, <2>2 DEF EarnedOf
<1>5. QED
  BY <1>1, <1>3, <1>4

(***************************************************************************)
(* Steps that answer nothing.                                              *)
(***************************************************************************)

\* A step between the taking of a request and its answer.
LEMMA QuietKeepsInv ==
  ASSUME SessionTellsOneTruth, ReadTypeInv', ReadIsUnderWay', ResultIsOfTheView',
         UNCHANGED <<opt, answers, code, exit, kept>>, at # "end", at' # "end",
         at' = "line" => Len(answers) = line',
         JustAnswered' <=> JustAnswered, JustAnswered => Returned' = Returned,
         retained # Nil => retained' = retained /\ viewed' = viewed,
         \A h \in HandleId : issued[h] # Nil => issued'[h] = issued[h]
  PROVE  SessionTellsOneTruth'
<1>1. /\ ReadTypeInv /\ OneAnswerPerLine /\ OneSnapshotPerSession /\ KeptIsWhatWasShown /\ ExpansionInsideWindow
      /\ CodeIsTheWorst /\ ResultIsOfTheView /\ ReadIsUnderWay
  BY DEF SessionTellsOneTruth, SessionIsAnswered, SessionIsOneView
<1>2. OneAnswerPerLine' /\ ExitIsTheWorstAnswer'
  BY <1>1 DEF OneAnswerPerLine, ExitIsTheWorstAnswer, ReadIsUnderWay
<1>3. OneSnapshotPerSession'
  BY <1>1 DEF OneSnapshotPerSession, ReadTypeInv
<1>4. KeptIsWhatWasShown'
  <2>1. Shown' = Shown
    BY DEF Shown
  <2>2. at' = "line" => opt.session /\ ~JustAnswered'
    BY DEF ReadIsUnderWay, JustAnswered
  <2>3. QED
    BY <1>1, <2>1, <2>2 DEF KeptIsWhatWasShown, ResultIsOfTheView
<1>5. ExpansionInsideWindow'
  <2>1. \A i \in DOMAIN answers : answers[i].handle \in HandleId \union {Nil}
    <3>1. \A i \in DOMAIN answers : answers[i] \in Told
      BY <1>1 DEF ReadTypeInv
    <3>2. QED
      BY <3>1 DEF Told
  <2>2. QED
    BY <1>1, <2>1 DEF ExpansionInsideWindow, ResultIsOfTheView
<1>6. CodeIsTheWorst'
  BY <1>1 DEF CodeIsTheWorst, EarnedOf
<1>7. QED
  BY <1>2, <1>3, <1>4, <1>5, <1>6 DEF SessionTellsOneTruth, SessionIsAnswered, SessionIsOneView

\* The output fails, and the input ends.
LEMMA EndKeepsInv ==
  ASSUME SessionTellsOneTruth, OutputFails \/ EndOfInput
  PROVE  SessionTellsOneTruth'
<1>1. /\ ReadTypeInv /\ OneAnswerPerLine /\ OneSnapshotPerSession /\ KeptIsWhatWasShown /\ ExpansionInsideWindow
      /\ CodeIsTheWorst /\ ResultIsOfTheView /\ ReadIsUnderWay
  BY DEF SessionTellsOneTruth, SessionIsAnswered, SessionIsOneView
<1>2. /\ UNCHANGED <<opt, contents, now, line, request, retained, viewed, issued, registered, kept, result, delivered,
                     projectionFailure, answers, code>>
      /\ at' = "end" /\ exit' \in {"failed", "returned"} /\ (exit' = "returned" => at = "line")
  BY DEF OutputFails, EndOfInput, world, handles, flags
<1>3. ReadTypeInv' /\ OneAnswerPerLine' /\ OneSnapshotPerSession' /\ ExpansionInsideWindow'
  BY <1>1, <1>2 DEF ReadTypeInv, OneAnswerPerLine, OneSnapshotPerSession, ExpansionInsideWindow
<1>4. KeptIsWhatWasShown'
  BY <1>1, <1>2 DEF KeptIsWhatWasShown, Shown
<1>5. ExitIsTheWorstAnswer'
  <2>1. SUFFICES ASSUME at = "line" PROVE code = Max(EarnedOf(Len(answers)))
    BY <1>2 DEF ExitIsTheWorstAnswer, EarnedOf
  <2>2. code \in EarnedOf(Len(answers)) /\ \A e \in EarnedOf(Len(answers)) : e <= code
    BY <1>1, <2>1 DEF CodeIsTheWorst, JustAnswered
  <2>3. QED
    BY <2>2, EarnedAreCodes, WorstIsMax
<1>6. ReadIsUnderWay' /\ CodeIsTheWorst' /\ ResultIsOfTheView'
  BY <1>1, <1>2 DEF ReadIsUnderWay, Unanswered, JustAnswered, CodeIsTheWorst, ResultIsOfTheView
<1>7. QED
  BY <1>3, <1>4, <1>5, <1>6 DEF SessionTellsOneTruth, SessionIsAnswered, SessionIsOneView

(***************************************************************************)
(* Steps that answer.                                                      *)
(***************************************************************************)

\* A request is answered without a view, and the run goes on to its next line or ends.
LEMMA PlainKeepsInv ==
  ASSUME SessionTellsOneTruth, NEW status \in Status, Plain(status), at # "end", ~JustAnswered,
         UNCHANGED <<opt, contents, now, issued, registered, kept>>, result' = Unread, request' \in Request,
         delivered' \in BOOLEAN, projectionFailure' \in BOOLEAN,
         retained' \in Version \union {Nil}, viewed' \in BOOLEAN, viewed' => retained' # Nil,
         retained # Nil => retained' = retained /\ viewed' = viewed,
         line' = Len(answers) + 1, line' \in 0..(MaxLines + 1), code' \in {code, Earned(status)}, code <= code', Earned(status) <= code',
         \/ at' = "line" /\ opt.session /\ exit' = exit
         \/ at' = "end" /\ exit' = "returned"
  PROVE  SessionTellsOneTruth'
<1> DEFINE a == Answer(status, Nil, {})
<1>1. /\ ReadTypeInv /\ OneAnswerPerLine /\ OneSnapshotPerSession /\ KeptIsWhatWasShown /\ ExpansionInsideWindow
      /\ CodeIsTheWorst /\ ResultIsOfTheView /\ ReadIsUnderWay
  BY DEF SessionTellsOneTruth, SessionIsAnswered, SessionIsOneView
<1>2. a \in Told /\ a.line = line' /\ a.status = status /\ a.content = Nil /\ a.minted = {}
  <2>1. line' \in Nat /\ request'.handle \in HandleId \union {Nil} /\ result'.clock \in Nat
    BY DEF Request, Unread
  <2>2. QED
    BY <2>1 DEF Answer, Told
<1>3. answers' = Append(answers, a)
  BY DEF Plain, Emit
<1> HIDE DEF a
<1>4. /\ Len(answers) \in Nat /\ Len(answers') = Len(answers) + 1
      /\ DOMAIN answers = 1..Len(answers) /\ DOMAIN answers' = 1..(Len(answers) + 1)
      /\ \A i \in DOMAIN answers : answers'[i] = answers[i]
      /\ answers'[Len(answers) + 1] = a
      /\ Shown' = Shown
      /\ EarnedOf(Len(answers))' = EarnedOf(Len(answers)) \union {Earned(status)}
  <2>1. /\ Len(answers) \in Nat /\ Len(answers') = Len(answers) + 1
        /\ DOMAIN answers = 1..Len(answers) /\ DOMAIN answers' = 1..(Len(answers) + 1)
        /\ \A i \in DOMAIN answers : answers'[i] = answers[i]
        /\ answers'[Len(answers) + 1] = a
        /\ Shown' = Shown \union a.minted
        /\ EarnedOf(Len(answers))' = EarnedOf(Len(answers)) \union {Earned(a.status)}
    BY <1>1, <1>2, <1>3, AppendTells
  <2>2. QED
    BY <1>2, <2>1
<1>5. \A i \in DOMAIN answers' : i \in DOMAIN answers \/ i = Len(answers) + 1
  BY <1>4
<1>6. OneAnswerPerLine'
  BY <1>1, <1>2, <1>4, <1>5 DEF OneAnswerPerLine
<1>7. OneSnapshotPerSession'
  BY <1>1, <1>2, <1>4, <1>5 DEF OneSnapshotPerSession, ReadTypeInv
<1>8. ExpansionInsideWindow'
  BY <1>1, <1>2, <1>4, <1>5 DEF ExpansionInsideWindow
<1>9. KeptIsWhatWasShown'
  BY <1>1, <1>4 DEF KeptIsWhatWasShown, ResultIsOfTheView
<1>10. code' \in EarnedOf(Len(answers))' /\ \A e \in EarnedOf(Len(answers))' : e <= code'
  <2>1. code \in EarnedOf(Len(answers)) /\ \A e \in EarnedOf(Len(answers)) : e <= code
    BY <1>1 DEF CodeIsTheWorst
  <2>2. code \in 0..2 /\ code' \in 0..2 /\ EarnedOf(Len(answers)) \in SUBSET (0..2) /\ Earned(status) \in 0..2
    BY <1>1, EarnedAreCodes, EarnedIsACode DEF ReadTypeInv
  <2>3. QED
    BY <1>4, <2>1, <2>2
<1>11. ExitIsTheWorstAnswer'
  <2>1. EarnedOf(Len(answers))' \in SUBSET (0..2)
    BY EarnedIsACode DEF EarnedOf
  <2>2. code' = Max(EarnedOf(Len(answers))')
    BY <1>10, <2>1, WorstIsMax
  <2>3. QED
    BY <2>2 DEF ExitIsTheWorstAnswer, EarnedOf
<1>12. ReadIsUnderWay'
  BY <1>1 DEF ReadIsUnderWay, Unanswered, JustAnswered
<1>13. CodeIsTheWorst'
  BY <1>10 DEF CodeIsTheWorst, JustAnswered
<1>14. ReadTypeInv'
  <2>1. answers' \in Seq(Told)
    BY <1>1, <1>2, <1>3, AppendTells
  <2>2. code' \in 0..2
    BY <1>1, EarnedIsACode DEF ReadTypeInv
  <2>3. exit' \in {"pending", "returned", "failed"}
    BY <1>1 DEF ReadTypeInv
  <2>4. Unread \in Result
    BY DEF Unread, Result
  <2>5. QED
    BY <1>1, <2>1, <2>2, <2>3, <2>4 DEF ReadTypeInv
<1>15. ResultIsOfTheView'
  <2>1. Unread.status = "none" /\ Unread.content = Nil /\ Unread.minted = {}
    BY DEF Unread
  <2>2. \A i \in DOMAIN answers' : answers'[i].content # Nil /\ answers'[i].handle # Nil => issued'[answers'[i].handle] # Nil
    BY <1>1, <1>2, <1>4, <1>5 DEF ResultIsOfTheView
  <2>3. \A h \in registered' \union result'.minted : issued'[h] # Nil
    BY <1>1, <2>1 DEF ResultIsOfTheView
  <2>4. opt'.session /\ opt'.modelView = "collects" /\ at' # "end" => Shown' = kept'
    BY <1>1, <1>4 DEF ResultIsOfTheView
  <2>5. ~JustAnswered'
    BY DEF JustAnswered
  <2>6. QED
    BY <2>1, <2>2, <2>3, <2>4, <2>5 DEF ResultIsOfTheView
<1>16. QED
  BY <1>6, <1>7, <1>8, <1>9, <1>11, <1>12, <1>13, <1>14, <1>15 DEF SessionTellsOneTruth, SessionIsAnswered, SessionIsOneView

(***************************************************************************)
(* The steps of a session.                                                 *)
(***************************************************************************)

LEMMA Parts ==
  ASSUME SessionTellsOneTruth
  PROVE  /\ ReadTypeInv /\ OneAnswerPerLine /\ ReadIsUnderWay /\ CodeIsTheWorst /\ ResultIsOfTheView
         /\ Len(answers) \in Nat /\ Unread \in Result /\ Nothing \in Request /\ MaxLines \in Nat
<1>1. Unread \in Result /\ Nothing \in Request
  BY DEF Unread, Result, Nothing, Request
<1>2. QED
  BY <1>1, ReadAssumption DEF SessionTellsOneTruth, SessionIsAnswered, ReadTypeInv

\* Before a result there is nothing about the view that a step could spoil.
LEMMA ResultStays ==
  ASSUME ResultIsOfTheView, UNCHANGED <<opt, answers, kept, issued, registered, result>>, result = Unread,
         at' \notin {"deliver", "finish"}, at # "end", ~JustAnswered
  PROVE  ResultIsOfTheView'
<1>1. Unread.status = "none" /\ Unread.content = Nil /\ Unread.minted = {}
  BY DEF Unread
<1>2. ~JustAnswered' /\ Shown' = Shown
  BY DEF JustAnswered, Shown
<1>3. QED
  BY <1>1, <1>2 DEF ResultIsOfTheView

\* A read command that starts.
LEMMA StartKeepsInv ==
  ASSUME SessionTellsOneTruth, StartRead
  PROVE  SessionTellsOneTruth'
<1>1. /\ at = "start" /\ line = 0 /\ answers = <<>> /\ Len(answers) = 0 /\ result = Unread /\ exit = "pending" /\ code = 0
      /\ ~JustAnswered
  <2>1. at = "start" /\ line = 0 /\ answers = <<>> /\ Len(answers) = 0 /\ ~JustAnswered /\ exit = "pending" /\ result = Unread
    BY Parts DEF StartRead, ReadIsUnderWay, JustAnswered, ResultIsOfTheView
  <2>2. code \in EarnedOf(0)
    BY <2>1, Parts DEF CodeIsTheWorst
  <2>3. EarnedOf(0) = {0}
    BY DEF EarnedOf
  <2>4. QED
    BY <2>1, <2>2, <2>3
<1>2. UNCHANGED <<opt, contents, now, retained, viewed, issued, registered, kept, result, delivered, projectionFailure>>
  BY DEF StartRead, world, handles, flags
<1>3. ReadTypeInv /\ MaxLines \in Nat /\ 1 \in 0..(MaxLines + 1)
  BY Parts
<1>4. CASE line' = 1 /\ UNCHANGED request /\ Plain("rejected") /\ at' = "end" /\ exit' = "returned" /\ code' = 1
  <2>1. "rejected" \in Status /\ Earned("rejected") = 1
    BY DEF Status, Earned
  <2>2. QED
    BY <1>1, <1>2, <1>3, <1>4, <2>1, PlainKeepsInv DEF ReadTypeInv
<1>5. CASE line' = 1 /\ UNCHANGED request /\ Plain("aborted") /\ Abort
  <2>1. "aborted" \in Status /\ Earned("aborted") = 2
    BY DEF Status, Earned
  <2>2. QED
    BY <1>1, <1>2, <1>3, <1>5, <2>1, PlainKeepsInv DEF ReadTypeInv, Abort
<1>6. ASSUME UNCHANGED <<answers, code, exit>>, request' \in Request,
             \/ at' = "line" /\ line' = 0 /\ opt.session
             \/ at' = "read" /\ line' = 1
      PROVE  SessionTellsOneTruth'
  <2>1. ReadTypeInv'
    BY <1>2, <1>3, <1>6 DEF ReadTypeInv
  <2>2. ReadIsUnderWay' /\ ~JustAnswered'
    BY <1>1, <1>2, <1>6 DEF ReadIsUnderWay, Unanswered, JustAnswered
  <2>3. ResultIsOfTheView'
    BY <1>1, <1>2, <1>6, Parts, ResultStays
  <2>4. QED
    BY <1>1, <1>2, <1>6, <2>1, <2>2, <2>3, QuietKeepsInv
<1>7. \A ok \in BOOLEAN : [Nothing EXCEPT !.ok = ok] \in Request
  BY DEF Nothing, Request
<1>8. QED
  <2>1. request \in Request
    BY <1>3 DEF ReadTypeInv
  <2>2. QED
    BY <1>1, <1>4, <1>5, <1>6, <1>7, <2>1 DEF StartRead

\* What the end of a request does to the code.
LEMMA SettleCounts ==
  ASSUME ReadTypeInv, NEW own \in 0..2, Settle(own)
  PROVE  /\ code' \in {code, own} /\ code <= code' /\ own <= code'
         /\ \/ at' = "line" /\ opt.session /\ exit' = exit
            \/ at' = "end" /\ exit' = "returned"
<1>1. code \in 0..2
  BY DEF ReadTypeInv
<1>2. code' = IF own > code THEN own ELSE code
  BY DEF Settle
<1>3. QED
  BY <1>1, <1>2 DEF Settle

\* A line that is taken.
LEMMA LineKeepsInv ==
  ASSUME SessionTellsOneTruth, TakeLine \/ TakeUnusable
  PROVE  SessionTellsOneTruth'
<1>1. /\ at = "line" /\ line = Len(answers) /\ result = Unread /\ exit = "pending" /\ opt.session /\ ~JustAnswered
      /\ ReadTypeInv /\ MaxLines \in Nat /\ line \in 0..(MaxLines + 1) /\ Len(answers) \in Nat
  BY Parts DEF TakeLine, TakeUnusable, ReadIsUnderWay, JustAnswered, ResultIsOfTheView, OneAnswerPerLine, ReadTypeInv
<1>2. /\ UNCHANGED <<opt, contents, now, retained, viewed, issued, registered, kept, result, delivered, projectionFailure>>
      /\ line < MaxLines /\ line' = line + 1
  BY DEF TakeLine, TakeUnusable, world, handles, flags
<1>3. line' \in 0..(MaxLines + 1) /\ line' = Len(answers) + 1
  BY <1>1, <1>2
<1>4. CASE request' = Nothing /\ Plain("aborted") /\ Abort
  <2>1. "aborted" \in Status /\ Earned("aborted") = 2
    BY DEF Status, Earned
  <2>2. code \in 0..2 /\ code' = 2 /\ at' = "end" /\ exit' = "returned"
    BY <1>1, <1>4 DEF ReadTypeInv, Abort
  <2>3. QED
    BY <1>1, <1>2, <1>3, <1>4, <2>1, <2>2, PlainKeepsInv, Parts DEF ReadTypeInv
<1>5. CASE request' = Nothing /\ Plain("unresolved") /\ Settle(2)
  <2>1. "unresolved" \in Status /\ Earned("unresolved") = 2
    BY DEF Status, Earned
  <2>2. /\ code' \in {code, 2} /\ code <= code' /\ 2 <= code'
        /\ \/ at' = "line" /\ opt.session /\ exit' = exit
           \/ at' = "end" /\ exit' = "returned"
    BY <1>1, <1>5, SettleCounts
  <2>3. QED
    BY <1>1, <1>2, <1>3, <1>5, <2>1, <2>2, PlainKeepsInv, Parts DEF ReadTypeInv
<1>6. ASSUME request' \in Request, at' = "read", UNCHANGED <<answers, code, exit>>
      PROVE  SessionTellsOneTruth'
  <2>1. ReadTypeInv'
    BY <1>1, <1>2, <1>3, <1>6 DEF ReadTypeInv
  <2>2. ReadIsUnderWay' /\ ~JustAnswered'
    BY <1>1, <1>2, <1>3, <1>6 DEF ReadIsUnderWay, Unanswered, JustAnswered
  <2>3. ResultIsOfTheView'
    BY <1>1, <1>2, <1>6, Parts, ResultStays
  <2>4. QED
    BY <1>1, <1>2, <1>6, <2>1, <2>2, <2>3, QuietKeepsInv
<1>7. \A r \in Request : r.id # Nil => [r EXCEPT !.handle = r.id, !.id = Nil] \in Request
  BY DEF Request
<1>8. QED
  BY <1>4, <1>5, <1>6, <1>7 DEF TakeLine, TakeUnusable

\* Admission, the capture of the file, and preparation: each goes on or rejects the line.
LEMMA EarlyKeepsInv ==
  ASSUME SessionTellsOneTruth, Admit \/ Whole \/ Prepare
  PROVE  SessionTellsOneTruth'
<1>1. /\ at \in {"read", "whole", "prepare"} /\ line = Len(answers) + 1 /\ result = Unread /\ exit = "pending" /\ ~JustAnswered
      /\ ReadTypeInv /\ line \in 0..(MaxLines + 1) /\ Len(answers) \in Nat /\ (opt.session \/ line = 1)
      /\ (at = "whole" => retained = Nil)
  BY Parts DEF Admit, Whole, Prepare, ReadIsUnderWay, Unanswered, JustAnswered, ResultIsOfTheView, ReadTypeInv
<1>2. /\ UNCHANGED <<opt, contents, now, line, request, issued, registered, kept, result>>
      /\ delivered' \in BOOLEAN /\ projectionFailure' \in BOOLEAN
  BY <1>1 DEF Admit, Whole, Prepare, world, handles, flags, ReadTypeInv
<1>3. /\ retained' \in Version \union {Nil} /\ viewed' \in BOOLEAN /\ (viewed' => retained' # Nil)
      /\ (retained # Nil => retained' = retained /\ viewed' = viewed)
  <2>1. retained \in Version \union {Nil} /\ viewed \in BOOLEAN /\ (viewed => retained # Nil) /\ contents \in Version \union {Bad}
    BY <1>1 DEF ReadTypeInv
  <2>2. \/ retained' = retained /\ viewed' = viewed
        \/ at = "whole" /\ contents # Bad /\ retained' = contents /\ viewed' \in BOOLEAN
    BY <1>1 DEF Admit, Whole, Prepare
  <2>3. QED
    BY <1>1, <2>1, <2>2, ReadAssumption
<1>4. CASE Plain("rejected") /\ Settle(1)
  <2>1. "rejected" \in Status /\ Earned("rejected") = 1
    BY DEF Status, Earned
  <2>2. /\ code' \in {code, 1} /\ code <= code' /\ 1 <= code'
        /\ \/ at' = "line" /\ opt.session /\ exit' = exit
           \/ at' = "end" /\ exit' = "returned"
    BY <1>1, <1>4, SettleCounts
  <2>3. QED
    BY <1>1, <1>2, <1>3, <1>4, <2>1, <2>2, PlainKeepsInv DEF ReadTypeInv
<1>5. CASE /\ UNCHANGED <<answers, code, exit>> /\ at' \in {"whole", "prepare", "observe"}
           /\ (at' = "whole" => retained' = Nil) /\ (at' = "observe" => ~delivered' /\ ~projectionFailure')
  <2>1. ReadTypeInv'
    BY <1>1, <1>2, <1>3, <1>5 DEF ReadTypeInv
  <2>2. ReadIsUnderWay' /\ ~JustAnswered'
    BY <1>1, <1>2, <1>5 DEF ReadIsUnderWay, Unanswered, JustAnswered
  <2>3. ResultIsOfTheView'
    BY <1>1, <1>2, <1>5, Parts, ResultStays
  <2>4. QED
    BY <1>1, <1>2, <1>3, <1>5, <2>1, <2>2, <2>3, QuietKeepsInv
<1>6. CASE Admit
  BY <1>4, <1>5, <1>6 DEF Admit, NeedsSnapshot
<1>7. CASE Whole
  BY <1>4, <1>5, <1>7 DEF Whole
<1>8. CASE Prepare
  BY <1>4, <1>5, <1>8 DEF Prepare
<1>9. QED
  BY <1>6, <1>7, <1>8

\* A read that is refused has no content and mints nothing.
LEMMA RefusedIsEmpty ==
  ASSUME ReadTypeInv, NEW status \in {"rejected", "control", "transport"}
  PROVE  /\ [RefusedRead EXCEPT !.status = status] \in Result
         /\ [RefusedRead EXCEPT !.status = status].status = status
         /\ [RefusedRead EXCEPT !.status = status].content = Nil /\ [RefusedRead EXCEPT !.status = status].minted = {}
         /\ RefusedRead = [RefusedRead EXCEPT !.status = "rejected"]
<1> DEFINE clock == now
           first == [Unread EXCEPT !.status = "rejected"]
           second == [first EXCEPT !.time = clock]
           third == [second EXCEPT !.clock = clock]
<1>1. clock \in Nat /\ Unread \in Result /\ Unread.content = Nil /\ Unread.minted = {}
  BY ReadAssumption DEF ReadTypeInv, Unread, Result
<1> HIDE DEF clock
<1>2. first \in Result /\ first.status = "rejected" /\ first.content = Nil /\ first.minted = {}
  BY <1>1 DEF Result
<1> HIDE DEF first
<1>3. second \in Result /\ second.status = "rejected" /\ second.content = Nil /\ second.minted = {}
  BY <1>1, <1>2 DEF Result
<1> HIDE DEF second
<1>4. third \in Result /\ third.status = "rejected" /\ third.content = Nil /\ third.minted = {}
  BY <1>1, <1>3 DEF Result
<1>5. RefusedRead = third
  BY DEF RefusedRead, ObservedAt, third, second, first, clock
<1> HIDE DEF third
<1>6. [third EXCEPT !.status = status] \in Result /\ [third EXCEPT !.status = status].status = status
      /\ [third EXCEPT !.status = status].content = Nil /\ [third EXCEPT !.status = status].minted = {}
  BY <1>4 DEF Result
<1>7. third = [third EXCEPT !.status = "rejected"]
  BY <1>4 DEF Result
<1>8. QED
  BY <1>5, <1>6, <1>7

\* The two looks of the host at its clock and at the handle.
LEMMA ObserveKeepsInv ==
  ASSUME SessionTellsOneTruth, Observe \/ ObserveAgain
  PROVE  SessionTellsOneTruth'
<1>1. /\ at \in {"observe", "observeAgain"} /\ line = Len(answers) + 1 /\ result = Unread /\ exit = "pending" /\ ~JustAnswered
      /\ ReadTypeInv /\ ReadIsUnderWay /\ ResultIsOfTheView /\ (opt.session \/ line = 1) /\ ~delivered /\ ~projectionFailure
      /\ at' \in {"observeAgain", "deliver"} /\ ~JustAnswered'
  BY Parts DEF Observe, ObserveAgain, ReadIsUnderWay, Unanswered, JustAnswered, ResultIsOfTheView
<1>2. UNCHANGED <<opt, contents, now, line, request, retained, viewed, registered, kept, delivered, projectionFailure,
                  answers, code, exit>>
  BY DEF Observe, ObserveAgain, world, handles, flags
<1>3. ReadIsUnderWay'
  BY <1>1, <1>2 DEF ReadIsUnderWay, Unanswered, JustAnswered
<1>4. Shown' = Shown
  BY <1>2 DEF Shown
<1>5. CASE at' = "observeAgain" /\ UNCHANGED <<result, issued>>
  <2>1. ReadTypeInv'
    BY <1>1, <1>2, <1>5 DEF ReadTypeInv
  <2>2. ResultIsOfTheView'
    BY <1>1, <1>2, <1>5, ResultStays
  <2>3. QED
    BY <1>1, <1>2, <1>3, <1>5, <2>1, <2>2, QuietKeepsInv
<1>6. ASSUME NEW status \in {"rejected", "control", "transport"}, result' = [RefusedRead EXCEPT !.status = status],
             at' = "deliver", issued' = issued
      PROVE  SessionTellsOneTruth'
  <2>1. result' \in Result /\ result'.status = status /\ result'.content = Nil /\ result'.minted = {}
    BY <1>1, <1>6, RefusedIsEmpty
  <2>2. ReadTypeInv'
    BY <1>1, <1>2, <1>6, <2>1 DEF ReadTypeInv
  <2>3. ResultIsOfTheView'
    BY <1>1, <1>2, <1>4, <1>6, <2>1 DEF ResultIsOfTheView
  <2>4. QED
    BY <1>1, <1>2, <1>3, <1>6, <2>2, <2>3, QuietKeepsInv
<1>7. ASSUME HostAllows, NEW minted \in SUBSET {h \in HandleId : issued[h] = Nil}, at' = "deliver",
             result' = [status |-> "ready", content |-> retained, minted |-> minted, time |-> now, clock |-> now],
             issued' = [h \in HandleId |-> IF h \in minted
                          THEN [content |-> retained, issued |-> now, expires |-> now + Window] ELSE issued[h]]
      PROVE  SessionTellsOneTruth'
  <2> DEFINE handle == [content |-> retained, issued |-> now, expires |-> now + Window]
  <2>1. viewed /\ retained \in Version /\ now \in Nat /\ now + Window \in Nat /\ issued \in [HandleId -> {Nil} \union Handle]
    BY <1>1, <1>7, ReadAssumption DEF HostAllows, ReadTypeInv
  <2>2. handle \in Handle /\ handle # Nil
    <3>1. handle \in [content : Version, issued : Nat, expires : Nat]
      BY <2>1
    <3>2. QED
      BY <3>1, ReadAssumption DEF Handle
  <2>3. /\ issued' \in [HandleId -> {Nil} \union Handle] /\ \A h \in minted : issued'[h] # Nil
        /\ \A h \in HandleId : issued[h] # Nil => issued'[h] = issued[h]
    BY <1>7, <2>1, <2>2
  <2>4. /\ result' \in Result /\ result'.status = "ready" /\ result'.content = retained /\ result'.minted = minted
        /\ result'.clock = now
    BY <1>7, <2>1 DEF Result
  <2>5. ReadTypeInv'
    BY <1>1, <1>2, <1>7, <2>3, <2>4 DEF ReadTypeInv
  <2>6. request.handle # Nil =>
          /\ issued'[request.handle] # Nil /\ issued'[request.handle].issued <= now /\ now < issued'[request.handle].expires
    BY <1>1, <1>7, <2>3 DEF HostAllows, ObservedAt, ResultIsOfTheView, ReadTypeInv
  <2>7. \A i \in DOMAIN answers : answers[i].content # Nil /\ answers[i].handle # Nil => issued'[answers[i].handle] # Nil
    <3>1. \A i \in DOMAIN answers : answers[i] \in Told
      BY <1>1 DEF ReadTypeInv
    <3>2. \A i \in DOMAIN answers : answers[i].handle \in HandleId \union {Nil}
      BY <3>1 DEF Told
    <3>3. QED
      BY <1>1, <2>3, <3>2 DEF ResultIsOfTheView
  <2>8. \A h \in registered \union minted : issued'[h] # Nil
    BY <1>1, <2>3 DEF ResultIsOfTheView, ReadTypeInv
  <2>9. ResultIsOfTheView'
    BY <1>1, <1>2, <1>4, <1>7, <2>1, <2>4, <2>6, <2>7, <2>8 DEF ResultIsOfTheView
  <2>10. QED
    BY <1>1, <1>2, <1>3, <1>7, <2>3, <2>5, <2>9, QuietKeepsInv
<1>8. CASE Observe
  BY <1>1, <1>5, <1>6, <1>8, RefusedIsEmpty DEF Observe, handles
<1>9. CASE ObserveAgain
  BY <1>6, <1>7, <1>9 DEF ObserveAgain, ObservedAt
<1>10. QED
  BY <1>8, <1>9

\* The answer is delivered, or the transport has failed.
LEMMA DeliverKeepsInv ==
  ASSUME SessionTellsOneTruth, Deliver
  PROVE  SessionTellsOneTruth'
<1>1. /\ at = "deliver" /\ at' = "finish" /\ line = Len(answers) + 1 /\ exit = "pending" /\ ~JustAnswered
      /\ ReadTypeInv /\ OneAnswerPerLine /\ OneSnapshotPerSession /\ KeptIsWhatWasShown /\ ExpansionInsideWindow
      /\ CodeIsTheWorst /\ ReadIsUnderWay /\ ResultIsOfTheView /\ (opt.session \/ line = 1) /\ ~delivered /\ ~projectionFailure
      /\ result.status # "none" /\ Len(answers) \in Nat
  BY Parts DEF Deliver, ReadIsUnderWay, Unanswered, JustAnswered, ResultIsOfTheView, SessionTellsOneTruth, SessionIsOneView
<1>2. UNCHANGED <<opt, contents, now, line, request, retained, viewed, issued, kept, result, code, exit>>
  BY DEF Deliver, world
<1>3. CASE result.status = "transport"
  <2>1. UNCHANGED <<delivered, projectionFailure, registered, answers>>
    BY <1>3 DEF Deliver, flags
  <2>2. ReadTypeInv' /\ ~JustAnswered'
    BY <1>1, <1>2, <2>1 DEF ReadTypeInv, JustAnswered
  <2>3. ReadIsUnderWay'
    BY <1>1, <1>2, <1>3, <2>1 DEF ReadIsUnderWay, Unanswered, JustAnswered
  <2>4. ResultIsOfTheView'
    BY <1>1, <1>2, <2>1, <2>2 DEF ResultIsOfTheView, Shown
  <2>5. QED
    BY <1>1, <1>2, <2>1, <2>2, <2>3, <2>4, QuietKeepsInv
<1>4. CASE result.status # "transport"
  <2> DEFINE a == IF projectionFailure' THEN Answer("refused", Nil, {}) ELSE Answer(result.status, result.content, result.minted)
  <2>1. /\ delivered' = TRUE /\ projectionFailure' \in BOOLEAN /\ answers' = Append(answers, a)
        /\ registered' = IF result.status = "ready"
               THEN {h \in registered : issued[h].expires > result.time} \union result.minted
               ELSE registered
    <3> DEFINE told == Answer(result.status, result.content, result.minted)
               refused == Answer("refused", Nil, {})
    <3>1. projectionFailure = FALSE
      BY <1>1 DEF ReadTypeInv
    <3>2. \/ projectionFailure' = FALSE /\ answers' = Append(answers, told)
          \/ projectionFailure' = TRUE /\ answers' = Append(answers, refused)
      BY <1>4, <3>1 DEF Deliver, Emit, Plain
    <3> HIDE DEF told, refused
    <3>3. projectionFailure' \in BOOLEAN /\ answers' = Append(answers, IF projectionFailure' THEN refused ELSE told)
      BY <3>2
    <3>4. QED
      BY <1>4, <3>3 DEF Deliver, told, refused
  <2>2. result.status \in Status /\ result.status \in {"ready", "rejected", "control"} /\ result.content \in Version \union {Nil} /\ result.minted \in SUBSET HandleId
        /\ result.clock \in Nat /\ request.handle \in HandleId \union {Nil} /\ line \in Nat
    BY <1>1, <1>4 DEF ReadTypeInv, Result, Request, Status
  <2>3. /\ a \in Told /\ a.line = line /\ a.handle = request.handle /\ a.clock = result.clock
        /\ a.status = (IF projectionFailure' THEN "refused" ELSE result.status)
        /\ a.content = (IF projectionFailure' THEN Nil ELSE result.content)
        /\ a.minted = (IF projectionFailure' THEN {} ELSE result.minted)
    BY <1>2, <2>1, <2>2 DEF Answer, Told, Status
  <2> HIDE DEF a
  <2>4. /\ answers' \in Seq(Told) /\ Len(answers') = Len(answers) + 1
        /\ DOMAIN answers = 1..Len(answers) /\ DOMAIN answers' = 1..(Len(answers) + 1)
        /\ \A i \in DOMAIN answers : answers'[i] = answers[i]
        /\ answers'[Len(answers) + 1] = a
        /\ Shown' = Shown \union a.minted
    BY <1>1, <2>1, <2>3, AppendTells
  <2>5. \A i \in DOMAIN answers' : i \in DOMAIN answers \/ i = Len(answers) + 1
    BY <1>1, <2>4
  <2>6. registered' \subseteq registered \union result.minted
    BY <2>1
  <2>7. ReadTypeInv'
    BY <1>1, <1>2, <2>1, <2>2, <2>4, <2>6 DEF ReadTypeInv
  <2>8. OneAnswerPerLine' /\ ExitIsTheWorstAnswer'
    BY <1>1, <1>2, <2>3, <2>4, <2>5 DEF OneAnswerPerLine, ExitIsTheWorstAnswer
  <2>9. result.content # Nil =>
          /\ result.content = retained /\ viewed
          /\ request.handle # Nil =>
               /\ issued[request.handle] # Nil /\ issued[request.handle].issued <= result.clock
               /\ result.clock < issued[request.handle].expires
    BY <1>1 DEF ResultIsOfTheView
  <2>10. OneSnapshotPerSession'
    BY <1>1, <1>2, <2>3, <2>4, <2>5, <2>9 DEF OneSnapshotPerSession
  <2>11. ExpansionInsideWindow'
    BY <1>1, <1>2, <2>3, <2>4, <2>5, <2>9 DEF ExpansionInsideWindow
  <2>12. KeptIsWhatWasShown'
    BY <1>1, <1>2, <2>4 DEF KeptIsWhatWasShown
  <2>13. JustAnswered' /\ ReadIsUnderWay'
    BY <1>1, <1>2, <2>1, <2>4 DEF ReadIsUnderWay, Unanswered, JustAnswered
  <2>14. CodeIsTheWorst'
    <3>1. code \in EarnedOf(Len(answers)) /\ \A e \in EarnedOf(Len(answers)) : e <= code
      BY <1>1 DEF CodeIsTheWorst
    <3>2. \A i \in 1..Len(answers) : answers'[i] = answers[i]
      BY <2>4
    <3>3. Len(answers') - 1 = Len(answers)
      BY <1>1, <2>4
    <3>4. EarnedOf(Len(answers) - 1)' = EarnedOf(Len(answers))
      BY <3>2, <3>3 DEF EarnedOf
    <3>5. Earned(a.status) = Returned'
      <4>1. CASE projectionFailure'
        BY <2>3, <4>1 DEF Earned, Returned
      <4>2. CASE ~projectionFailure'
        BY <1>2, <2>2, <2>3, <4>2 DEF Earned, Returned
      <4>3. QED
        BY <4>1, <4>2
    <3>6. Earned(answers[Len(answers)].status)' = Returned'
      BY <2>4, <3>5
    <3>7. QED
      BY <1>2, <2>13, <3>1, <3>4, <3>6 DEF CodeIsTheWorst
  <2>15. ResultIsOfTheView'
    <3>1. \A i \in DOMAIN answers' : answers'[i].content # Nil /\ answers'[i].handle # Nil => issued[answers'[i].handle] # Nil
      BY <1>1, <2>3, <2>4, <2>5, <2>9 DEF ResultIsOfTheView
    <3>2. \A h \in registered' \union result.minted : issued[h] # Nil
      BY <1>1, <2>6 DEF ResultIsOfTheView
    <3>3. opt.session /\ opt.modelView = "collects" =>
            Shown' = kept \union (IF ~projectionFailure' THEN result.minted ELSE {})
      BY <1>1, <2>3, <2>4 DEF ResultIsOfTheView
    <3>4. QED
      BY <1>1, <1>2, <2>9, <2>13, <3>1, <3>2, <3>3 DEF ResultIsOfTheView
  <2>16. QED
    BY <2>7, <2>8, <2>10, <2>11, <2>12, <2>13, <2>14, <2>15 DEF SessionTellsOneTruth, SessionIsAnswered, SessionIsOneView
<1>5. QED
  BY <1>3, <1>4

\* The end of a read: an answer that was not delivered is given, the handles of one that was are kept.
LEMMA FinishKeepsInv ==
  ASSUME SessionTellsOneTruth, FinishRead
  PROVE  SessionTellsOneTruth'
<1>1. /\ at = "finish" /\ exit = "pending" /\ ReadTypeInv /\ OneAnswerPerLine /\ OneSnapshotPerSession /\ KeptIsWhatWasShown
      /\ ExpansionInsideWindow /\ CodeIsTheWorst /\ ReadIsUnderWay /\ ResultIsOfTheView
      /\ Len(answers) \in Nat /\ Unread \in Result /\ Nothing \in Request
  BY Parts DEF FinishRead, ReadIsUnderWay, SessionTellsOneTruth, SessionIsOneView
<1>2. /\ UNCHANGED <<opt, contents, now, line, retained, viewed, issued, registered, delivered, projectionFailure>>
      /\ result' = Unread /\ request' = Nothing
  BY DEF FinishRead, world, flags
<1>3. /\ Returned \in 0..2 /\ code' \in {code, Returned} /\ code <= code' /\ Returned <= code'
      /\ \/ at' = "line" /\ opt.session /\ exit' = exit
         \/ at' = "end" /\ exit' = "returned"
  <2>1. Returned \in 0..2 /\ Settle(Returned)
    BY DEF Returned, FinishRead
  <2> HIDE DEF Returned
  <2>2. QED
    BY <1>1, <2>1, SettleCounts
<1>4. CASE ~delivered
  <2>1. result.status = "transport" /\ ~projectionFailure /\ result.minted = {} /\ ~JustAnswered /\ line = Len(answers) + 1
    BY <1>1, <1>4 DEF ReadIsUnderWay, ResultIsOfTheView, JustAnswered, Unanswered
  <2>2. Plain("transport") /\ "transport" \in Status /\ Earned("transport") = 1 /\ Returned = 1
    BY <1>4, <2>1 DEF FinishRead, Status, Earned, Returned
  <2>3. kept' = kept
    BY <2>1 DEF FinishRead, Collect
  <2>4. QED
    BY <1>1, <1>2, <1>3, <2>1, <2>2, <2>3, PlainKeepsInv DEF ReadTypeInv
<1>5. CASE delivered
  <2>1. JustAnswered /\ answers' = answers /\ line = Len(answers) /\ line > 0 /\ Shown' = Shown /\ ~JustAnswered'
    BY <1>1, <1>3, <1>5 DEF JustAnswered, FinishRead, ReadIsUnderWay, Shown
  <2>2. kept' = IF opt.session /\ opt.modelView = "collects" /\ ~projectionFailure THEN kept \union result.minted ELSE kept
    BY DEF FinishRead, Collect
  <2>3. kept' \subseteq HandleId
    BY <1>1, <2>2 DEF ReadTypeInv, Result
  <2>4. ReadTypeInv'
    BY <1>1, <1>2, <1>3, <2>1, <2>3 DEF ReadTypeInv
  <2>5. OneAnswerPerLine' /\ OneSnapshotPerSession' /\ ExpansionInsideWindow'
    BY <1>1, <1>2, <2>1 DEF OneAnswerPerLine, OneSnapshotPerSession, ExpansionInsideWindow
  <2>6. /\ kept' \subseteq Shown
        /\ opt.session /\ opt.modelView = "collects" => Shown = kept'
    BY <1>1, <2>1, <2>2 DEF KeptIsWhatWasShown, ResultIsOfTheView
  <2>7. KeptIsWhatWasShown'
    BY <1>2, <1>3, <2>1, <2>6 DEF KeptIsWhatWasShown
  <2>8. code' \in EarnedOf(Len(answers)) /\ \A e \in EarnedOf(Len(answers)) : e <= code'
    <3>1. /\ code \in EarnedOf(Len(answers) - 1) /\ \A e \in EarnedOf(Len(answers) - 1) : e <= code
          /\ Earned(answers[Len(answers)].status) = Returned
      BY <1>1, <2>1 DEF CodeIsTheWorst
    <3>2. 1..Len(answers) = 1..(Len(answers) - 1) \union {Len(answers)}
      BY <1>1, <2>1
    <3>3. EarnedOf(Len(answers)) = EarnedOf(Len(answers) - 1) \union {Returned}
      BY <3>1, <3>2 DEF EarnedOf
    <3>4. EarnedOf(Len(answers) - 1) \in SUBSET (0..2) /\ code \in 0..2 /\ code' \in 0..2
      BY <1>1, <1>3, EarnedAreCodes DEF ReadTypeInv
    <3> HIDE DEF Returned
    <3>5. QED
      BY <1>3, <3>1, <3>3, <3>4
  <2>9. ExitIsTheWorstAnswer'
    <3>1. code' = Max(EarnedOf(Len(answers)))
      BY <2>8, EarnedAreCodes, WorstIsMax
    <3>2. QED
      BY <2>1, <3>1 DEF ExitIsTheWorstAnswer, EarnedOf
  <2>10. ReadIsUnderWay'
    BY <1>1, <1>2, <1>3, <2>1 DEF ReadIsUnderWay, Unanswered, JustAnswered
  <2>11. CodeIsTheWorst'
    BY <2>1, <2>8 DEF CodeIsTheWorst, EarnedOf
  <2>12. ResultIsOfTheView'
    <3>1. Unread.status = "none" /\ Unread.content = Nil /\ Unread.minted = {}
      BY DEF Unread
    <3>2. QED
      BY <1>1, <1>2, <1>3, <2>1, <2>6, <3>1 DEF ResultIsOfTheView
  <2>13. QED
    BY <2>4, <2>5, <2>7, <2>9, <2>10, <2>11, <2>12 DEF SessionTellsOneTruth, SessionIsAnswered, SessionIsOneView
<1>6. QED
  BY <1>4, <1>5

\* The file is rewritten, the clock moves, or nothing happens.
LEMMA WorldKeepsInv ==
  ASSUME SessionTellsOneTruth, Rewrite \/ ClockMoves \/ UNCHANGED readVars
  PROVE  SessionTellsOneTruth'
<1>1. /\ UNCHANGED <<opt, at, line, request, retained, viewed, issued, registered, kept, result, delivered, projectionFailure,
                     answers, code, exit>>
      /\ contents' \in Version \union {Bad} /\ now' \in 0..MaxTime
  BY Parts DEF Rewrite, ClockMoves, readVars, handles, flags, world, ReadTypeInv
<1>2. ReadTypeInv'
  BY <1>1, Parts DEF ReadTypeInv
<1>3. SessionIsAnswered' /\ SessionIsOneView'
  BY <1>1, <1>2 DEF SessionTellsOneTruth, SessionIsAnswered, SessionIsOneView, OneAnswerPerLine, ExitIsTheWorstAnswer, EarnedOf,
     OneSnapshotPerSession, KeptIsWhatWasShown, Shown, ExpansionInsideWindow
<1>4. ReadIsUnderWay' /\ CodeIsTheWorst' /\ ResultIsOfTheView'
  BY <1>1, Parts DEF ReadIsUnderWay, CodeIsTheWorst, ResultIsOfTheView, Unanswered, JustAnswered, EarnedOf, Returned, Shown
<1>5. QED
  BY <1>3, <1>4 DEF SessionTellsOneTruth

\* Every step keeps the invariant.
LEMMA ReadStepInv ==
  ASSUME SessionTellsOneTruth, [ReadNext]_readVars
  PROVE  SessionTellsOneTruth'
BY StartKeepsInv, LineKeepsInv, EarlyKeepsInv, ObserveKeepsInv, DeliverKeepsInv, FinishKeepsInv, EndKeepsInv, WorldKeepsInv
   DEF ReadNext, ReadFails, ReadDone

\* No command has been read.
LEMMA ReadInitInv ==
  ASSUME ReadInit
  PROVE  SessionTellsOneTruth
<1>1. Unread \in Result /\ Unread.status = "none" /\ Unread.content = Nil /\ Unread.minted = {} /\ Nothing \in Request
  BY DEF Unread, Result, Nothing, Request
<1>2. answers = <<>> /\ <<>> \in Seq(Told) /\ Len(answers) = 0 /\ DOMAIN answers = {}
  BY DEF ReadInit
<1>3. ReadTypeInv
  <2>1. opt \in Option /\ contents \in Version \union {Bad} /\ now \in 0..MaxTime /\ line \in 0..(MaxLines + 1)
    BY ReadAssumption DEF ReadInit
  <2>2. retained \in Version \union {Nil}
    BY DEF ReadInit
  <2>3. viewed \in BOOLEAN /\ (viewed => retained # Nil)
    BY Zenon DEF ReadInit
  <2>4. issued \in [HandleId -> {Nil} \union Handle] /\ registered \subseteq HandleId /\ kept \subseteq HandleId
    BY DEF ReadInit
  <2>5. result \in Result /\ request \in Request /\ answers \in Seq(Told)
    BY <1>1, <1>2 DEF ReadInit
  <2>6. delivered \in BOOLEAN /\ projectionFailure \in BOOLEAN
    BY Zenon DEF ReadInit
  <2>7. /\ at \in {"start", "line", "read", "whole", "prepare", "observe", "observeAgain", "deliver", "finish", "end"}
        /\ code \in 0..2 /\ exit \in {"pending", "returned", "failed"}
    BY DEF ReadInit
  <2>8. QED
    BY <2>1, <2>2, <2>3, <2>4, <2>5, <2>6, <2>7 DEF ReadTypeInv
<1>4. SessionIsAnswered
  BY <1>2, <1>3 DEF ReadInit, SessionIsAnswered, OneAnswerPerLine, ExitIsTheWorstAnswer
<1>5. SessionIsOneView
  BY <1>2 DEF ReadInit, SessionIsOneView, OneSnapshotPerSession, KeptIsWhatWasShown, ExpansionInsideWindow
<1>6. ReadIsUnderWay
  BY <1>2 DEF ReadInit, ReadIsUnderWay, Unanswered, JustAnswered
<1>7. CodeIsTheWorst
  <2>1. EarnedOf(0) = {0}
    BY DEF EarnedOf
  <2>2. QED
    BY <1>2, <2>1 DEF ReadInit, CodeIsTheWorst, JustAnswered
<1>8. ResultIsOfTheView
  <2>1. Shown = {}
    BY <1>2 DEF Shown
  <2>2. QED
    BY <1>1, <1>2, <2>1 DEF ReadInit, ResultIsOfTheView, JustAnswered
<1>9. QED
  BY <1>4, <1>5, <1>6, <1>7, <1>8 DEF SessionTellsOneTruth

\* Every request a session has taken is answered once and in order, and the exit code is the worst of the answers; all
\* they say of the asset is of the one snapshot that was attested, whatever happens to the file; an expansion is answered
\* inside the window of its handle, whatever happens to the clock; and what has been shown, and only that, is kept.
THEOREM SessionIsTrue == ReadSpec => []SessionTellsOneTruth
<1>1. ReadInit => SessionTellsOneTruth
  BY ReadInitInv
<1>2. SessionTellsOneTruth /\ [ReadNext]_readVars => SessionTellsOneTruth'
  BY ReadStepInv
<1>3. QED
  BY <1>1, <1>2, PTL DEF ReadSpec

--------------------------------------------------------------------------------
(* The search for support cycles.                                              *)

\* The path leads from its judgments to those after them.
PathSupports == \A i, j \in DOMAIN stack : i < j => Supports(stack[i], stack[j])

\* A judgment that supports something is still to be tried or has been entered.
RootsRemain == \A n \in Node : Targets(n) # {} => n \in roots \/ colour[n] # 0

\* The relation of the i-th judgment of the path to t has been followed.
Followed(i, t) == t \in Targets(stack[i]) /\ <<t, 1>> \notin todo[i]

\* What was followed has been entered: a judgment on the path that is not further on than the follower was noticed.
FollowedAreEntered ==
  /\ \A i \in DOMAIN stack : \A t \in Node : Followed(i, t) =>
       /\ colour[t] # 0
       /\ \A j \in DOMAIN stack : stack[j] = t => i < j \/ Noticed(t)
  /\ \A n \in Node : \A t \in Targets(n) : colour[n] = 2 =>
       /\ colour[t] # 0
       /\ colour[t] = 1 => Noticed(t)

\* A judgment that was left and rests on itself was noticed, or is in one circle with one on the path.
LeftAreNoticed ==
  \A n \in Node : colour[n] = 2 /\ Supports(n, n) =>
    Noticed(n) \/ \E g \in Node : colour[g] = 1 /\ InOneCircle(n, g)

\* The warnings are cycles, each led by its least judgment and no two the same.
LedByTheLeast(cycle) == \A i \in DOMAIN cycle : cycle[1] <= cycle[i]
WarningsAreLed ==
  /\ warnings \in Seq(Seq(Node)) /\ CyclesAreReal
  /\ \A cycle \in ToSet(warnings) : LedByTheLeast(cycle)
  /\ IsInjective(warnings)

CyclesInv == SearchInv /\ PathSupports /\ RootsRemain /\ FollowedAreEntered /\ LeftAreNoticed /\ WarningsAreLed

\* A set of numbers that is not empty has a least member, and Min is it.
LEMMA LeastNumber ==
  ASSUME NEW T \in SUBSET Nat, T # {} PROVE Min(T) \in T /\ \A m \in T : Min(T) <= m
<1> DEFINE R == OpToRel(<, Nat)
<1>1. IsWellFoundedOn(R, Nat)
  BY NatLessThanWellFounded
<1>2. \A n, m \in Nat : m < n => <<m, n>> \in R
  BY DEF OpToRel
<1> HIDE DEF R
<1>3. PICK n \in T : \A m \in T : ~(<<m, n>> \in R)
  BY <1>1, WFMin
<1>4. \A m \in T : n <= m
  <2>1. TAKE m \in T
  <2>2. n \in Nat /\ m \in Nat /\ ~(m < n)
    BY <1>2, <1>3
  <2>3. QED
    BY <2>2
<1>5. QED
  BY <1>4 DEF Min

\* A sequence with one more at its end, and without its last.
LEMMA Pushed ==
  ASSUME NEW S, NEW s \in Seq(S), NEW x \in S
  PROVE  /\ Append(s, x) \in Seq(S) /\ Len(Append(s, x)) = Len(s) + 1
         /\ \A i \in 1..Len(s) : Append(s, x)[i] = s[i]
         /\ Append(s, x)[Len(s) + 1] = x
OBVIOUS

LEMMA Popped ==
  ASSUME NEW S, NEW s \in Seq(S), s # <<>>
  PROVE  /\ Front(s) \in Seq(S) /\ Len(Front(s)) = Len(s) - 1 /\ Len(s) \in Nat \ {0}
         /\ \A i \in 1..(Len(s) - 1) : Front(s)[i] = s[i]
<1>1. PICK n \in Nat : n + 1 = Len(s) /\ \A i \in 1..n : s[i] \in S
  <2>1. Len(s) \in Nat \ {0} /\ \A i \in 1..(Len(s) - 1) : s[i] \in S
    OBVIOUS
  <2>2. WITNESS Len(s) - 1 \in Nat
  <2>3. QED
    BY <2>1
<1>2. PICK f : f = SubSeq(s, 1, n)
  OBVIOUS
<1>3. f \in Seq(S) /\ (Len(f) = IF 1 <= n THEN n - 1 + 1 ELSE 0) /\ \A i \in 1..(n - 1 + 1) : f[i] = s[1 + i - 1]
  BY <1>1, <1>2, SubSeqProperties
<1>4. f = Front(s)
  BY <1>1, <1>2 DEF Front
<1>5. f \in Seq(S) /\ Len(f) = n /\ \A i \in 1..n : f[i] = s[i]
  BY <1>1, <1>3
<1>6. QED
  BY <1>1, <1>4, <1>5

(***************************************************************************)
(* What supports what, through others.                                     *)
(***************************************************************************)

LEMMA TargetIsSupported == ASSUME NEW n, NEW m \in Targets(n) PROVE Supports(n, m)
BY DEF Supports

LEMMA SupportIsTransitive ==
  ASSUME NEW a, NEW b \in Node, NEW c, Supports(a, b), Supports(b, c)
  PROVE  Supports(a, c)
<1> SUFFICES ASSUME NEW S \in SUBSET Node, Targets(a) \subseteq S, Closed(S) PROVE c \in S
  BY DEF Supports
<1>1. b \in S
  BY DEF Supports
<1>2. Targets(b) \subseteq S
  BY <1>1 DEF Closed
<1>3. QED
  BY <1>2 DEF Supports

\* Whoever rests on itself supports something.
LEMMA CircleHasTargets == ASSUME NEW n, Supports(n, n) PROVE Targets(n) # {}
<1> SUFFICES ASSUME Targets(n) = {} PROVE FALSE
  OBVIOUS
<1>1. {} \in SUBSET Node /\ Targets(n) \subseteq {} /\ Closed({})
  BY DEF Closed
<1>2. QED
  BY <1>1 DEF Supports

LEMMA CircleIsTransitive ==
  ASSUME NEW a \in Node, NEW b \in Node, NEW c \in Node, InOneCircle(a, b), InOneCircle(b, c)
  PROVE  InOneCircle(a, c)
BY SupportIsTransitive DEF InOneCircle

\* The edges stay, and with them all of this.
LEMMA SupportStays ==
  ASSUME edges' = edges
  PROVE  /\ \A n : Targets(n)' = Targets(n)
         /\ \A n, m : Supports(n, m)' <=> Supports(n, m)
         /\ \A n, m : InOneCircle(n, m)' <=> InOneCircle(n, m)
<1>1. \A n : Targets(n)' = Targets(n)
  BY DEF Targets
<1>2. \A S : Closed(S)' <=> Closed(S)
  BY <1>1 DEF Closed
<1>3. \A n, m : Supports(n, m)' <=> Supports(n, m)
  BY <1>1, <1>2 DEF Supports
<1>4. QED
  BY <1>1, <1>3 DEF InOneCircle

\* What was noticed stays noticed.
LEMMA NoticeStays ==
  ASSUME edges' = edges, ToSet(warnings) \subseteq ToSet(warnings')
  PROVE  \A n : Noticed(n) => Noticed(n)'
<1>1. \A n, m : InOneCircle(n, m)' <=> InOneCircle(n, m)
  BY SupportStays
<1>2. QED
  BY <1>1 DEF Noticed

\* Who is in one circle with a noticed judgment is noticed.
LEMMA NoticeSpreads ==
  ASSUME \A cycle \in ToSet(warnings) : ToSet(cycle) \subseteq Node,
         NEW n \in Node, NEW g \in Node, InOneCircle(n, g), Noticed(g)
  PROVE  Noticed(n)
<1>1. PICK cycle \in ToSet(warnings) : \A m \in ToSet(cycle) : InOneCircle(g, m)
  BY DEF Noticed
<1>2. \A m \in ToSet(cycle) : InOneCircle(n, m)
  BY <1>1, CircleIsTransitive
<1>3. QED
  BY <1>2 DEF Noticed

(***************************************************************************)
(* Cycles and how they are turned.                                         *)
(***************************************************************************)

\* The cycle read from its p-th judgment on.
Turned(c, p) == SubSeq(c, p, Len(c)) \o SubSeq(c, 1, p - 1)

\* Its first q judgments are the last q of c, and the others the first of c.
IsTurned(d, c, p, q) ==
  /\ p + q = Len(c) + 1 /\ Len(d) = Len(c)
  /\ \A i \in 1..q : d[i] = c[p + i - 1]
  /\ \A i \in (q + 1)..Len(c) : d[i] = c[i - q]

LEMMA TurnedIs ==
  ASSUME NEW S, NEW c \in Seq(S), c # <<>>, NEW p \in 1..Len(c)
  PROVE  Turned(c, p) \in Seq(S) /\ \E q \in 1..Len(c) : IsTurned(Turned(c, p), c, p, q)
<1>1. PICK n \in Nat : n = Len(c) /\ p \in 1..n /\ \A i \in 1..n : c[i] \in S
  OBVIOUS
<1>2. PICK a, b : a = SubSeq(c, p, n) /\ b = SubSeq(c, 1, p - 1)
  OBVIOUS
<1>3. a \in Seq(S) /\ (Len(a) = IF p <= n THEN n - p + 1 ELSE 0) /\ \A i \in 1..(n - p + 1) : a[i] = c[p + i - 1]
  BY <1>1, <1>2, SubSeqProperties
<1>4. b \in Seq(S) /\ (Len(b) = IF 1 <= p - 1 THEN p - 1 - 1 + 1 ELSE 0) /\ \A i \in 1..(p - 1 - 1 + 1) : b[i] = c[1 + i - 1]
  <2>1. 1 \in Int /\ p - 1 \in Int /\ \A i \in 1..(p - 1) : c[i] \in S
    BY <1>1
  <2>2. QED
    BY <2>1, <1>2, SubSeqProperties
<1>5. PICK q \in 1..n : q = n - p + 1
  BY <1>1
<1>6. a \in Seq(S) /\ Len(a) = q /\ \A i \in 1..q : a[i] = c[p + i - 1]
  BY <1>5, <1>1, <1>3
<1>7. b \in Seq(S) /\ Len(b) = p - 1 /\ \A i \in 1..(p - 1) : b[i] = c[i]
  BY <1>1, <1>4
<1>8. PICK d : d = a \o b
  OBVIOUS
<1>9. /\ d \in Seq(S) /\ Len(d) = Len(a) + Len(b)
      /\ \A i \in 1..(Len(a) + Len(b)) : d[i] = IF i <= Len(a) THEN a[i] ELSE b[i - Len(a)]
  <2>1. a \in Seq(S) /\ b \in Seq(S)
    BY <1>6, <1>7
  <2>2. QED
    BY <2>1, <1>8, ConcatProperties
<1>10. Len(a) + Len(b) = n
  BY <1>5, <1>1, <1>6, <1>7
<1>11. \A i \in 1..q : d[i] = c[p + i - 1]
  <2>1. TAKE i \in 1..q
  <2>2. i \in 1..n /\ i <= Len(a)
    BY <1>5, <1>1, <1>6
  <2>3. d[i] = a[i]
    BY <1>9, <1>10, <2>2
  <2>4. QED
    BY <1>6, <2>3
<1>12. \A i \in (q + 1)..n : d[i] = c[i - q]
  <2>1. TAKE i \in (q + 1)..n
  <2>2. i \in 1..n /\ ~(i <= Len(a)) /\ i - q \in 1..(p - 1)
    BY <1>5, <1>1, <1>6
  <2>3. d[i] = b[i - q]
    BY <1>6, <1>9, <1>10, <2>2
  <2>4. QED
    BY <1>7, <2>2, <2>3
<1>13. d = Turned(c, p)
  BY <1>1, <1>2, <1>8 DEF Turned
<1>14. p + q = n + 1
  BY <1>5, <1>1
<1>15. IsTurned(d, c, p, q)
  BY <1>1, <1>9, <1>10, <1>11, <1>12, <1>14 DEF IsTurned
<1>16. QED
  BY <1>1, <1>9, <1>13, <1>15

\* Read from its beginning a cycle is itself.
LEMMA TurnedFromOne == ASSUME NEW S, NEW c \in Seq(S), c # <<>> PROVE Turned(c, 1) = c
<1>1. 1 \in 1..Len(c)
  OBVIOUS
<1>2. PICK d : d = Turned(c, 1)
  OBVIOUS
<1> d \in Seq(S)
  BY <1>1, <1>2, TurnedIs
<1>3. PICK q \in 1..Len(c) : IsTurned(d, c, 1, q)
  BY <1>1, <1>2, TurnedIs
<1>4. Len(d) = Len(c) /\ \A i \in 1..Len(c) : d[i] = c[i]
  <2>1. q = Len(c)
    BY <1>3 DEF IsTurned
  <2>2. Len(d) = Len(c) /\ \A i \in 1..q : d[i] = c[1 + i - 1]
    BY <1>3 DEF IsTurned
  <2>3. QED
    BY <2>1, <2>2
<1>5. QED
  BY <1>2, <1>3, <1>4

\* Turning a cycle moves its judgments, by a step of `back` or of `on`, and leaves none out.
LEMMA TurnedSame ==
  ASSUME NEW S, NEW c \in Seq(S), c # <<>>, NEW p \in 1..Len(c)
  PROVE  ToSet(Turned(c, p)) = ToSet(c) /\ (IsInjective(c) => IsInjective(Turned(c, p)))
<1>1. PICK n \in Nat : n = Len(c) /\ p \in 1..n /\ DOMAIN c = 1..n
  OBVIOUS
<1>2. PICK d : d = Turned(c, p)
  OBVIOUS
<1> d \in Seq(S)
  BY <1>1, <1>2, TurnedIs
<1>3. PICK q \in 1..Len(c) : IsTurned(d, c, p, q)
  BY <1>1, <1>2, TurnedIs
<1>4. /\ p + q = n + 1 /\ q \in 1..n
      /\ d \in Seq(S) /\ Len(d) = n
      /\ \A i \in 1..q : d[i] = c[p + i - 1]
      /\ \A i \in (q + 1)..n : d[i] = c[i - q]
  BY <1>3, <1>1 DEF IsTurned
<1>5. DOMAIN d = 1..n
  BY <1>4
<1>6. \A i \in 1..n : \E j \in 1..n : d[i] = c[j]
  <2>1. TAKE i \in 1..n
  <2>2. CASE i <= q
    BY <1>1, <1>4, <2>2
  <2>3. CASE i > q
    <3>1. i \in (q + 1)..n /\ i - q \in 1..n
      BY <1>1, <1>4, <2>3
    <3>2. QED
      BY <1>4, <3>1
  <2>4. QED
    BY <1>1, <1>4, <2>2, <2>3
<1>7. \A j \in 1..n : \E i \in 1..n : d[i] = c[j]
  <2>1. TAKE j \in 1..n
  <2>2. CASE j >= p
    <3>1. j - p + 1 \in 1..q /\ p + (j - p + 1) - 1 = j /\ j - p + 1 \in 1..n
      BY <1>1, <1>4, <2>2
    <3>2. QED
      BY <1>4, <3>1
  <2>3. CASE j < p
    <3>1. j + q \in (q + 1)..n /\ (j + q) - q = j /\ j + q \in 1..n
      BY <1>1, <1>4, <2>3
    <3>2. QED
      BY <1>4, <3>1
  <2>4. QED
    BY <1>1, <1>4, <2>2, <2>3
<1>8. ToSet(d) = ToSet(c)
  <2>1. \A m : m \in ToSet(d) <=> \E i \in 1..n : m = d[i]
    BY <1>5 DEF ToSet
  <2>2. \A m : m \in ToSet(c) <=> \E i \in 1..n : m = c[i]
    BY <1>1 DEF ToSet
  <2>3. ToSet(d) \subseteq ToSet(c)
    BY <1>6, <2>1, <2>2
  <2>4. ToSet(c) \subseteq ToSet(d)
    BY <1>7, <2>1, <2>2
  <2>5. QED
    BY <2>3, <2>4
<1>9. ASSUME IsInjective(c), NEW i \in 1..n, NEW j \in 1..n, d[i] = d[j] PROVE i = j
  <2>1. \A k, l \in 1..n : c[k] = c[l] => k = l
    BY <1>1, <1>9 DEF IsInjective
  <2>2. CASE i <= q /\ j <= q
    <3>1. c[p + i - 1] = c[p + j - 1] /\ p + i - 1 \in 1..n /\ p + j - 1 \in 1..n
      BY <1>1, <1>4, <1>9, <2>2
    <3>2. QED
      BY <2>1, <3>1, <1>1, <1>4
  <2>3. CASE i > q /\ j > q
    <3>1. c[i - q] = c[j - q] /\ i - q \in 1..n /\ j - q \in 1..n
      BY <1>1, <1>4, <1>9, <2>3
    <3>2. i - q = j - q
      BY <2>1, <3>1
    <3>3. QED
      BY <3>2
  <2>4. CASE i <= q /\ j > q
    <3>1. c[p + i - 1] = c[j - q] /\ p + i - 1 \in 1..n /\ j - q \in 1..n
      BY <1>1, <1>4, <1>9, <2>4
    <3>2. p + i - 1 = j - q
      BY <2>1, <3>1
    <3>3. QED
      BY <1>1, <1>4, <3>2
  <2>5. CASE i > q /\ j <= q
    <3>1. c[i - q] = c[p + j - 1] /\ i - q \in 1..n /\ p + j - 1 \in 1..n
      BY <1>1, <1>4, <1>9, <2>5
    <3>2. i - q = p + j - 1
      BY <2>1, <3>1
    <3>3. QED
      BY <1>1, <1>4, <3>2
  <2>6. QED
    BY <1>1, <1>4, <2>2, <2>3, <2>4, <2>5
<1>10. IsInjective(c) => IsInjective(d)
  BY <1>5, <1>9 DEF IsInjective
<1>11. QED
  BY <1>2, <1>8, <1>10

\* A cycle is one wherever it is entered.
LEMMA TurnedIsCycle ==
  ASSUME NEW c, IsCycle(c), NEW p \in 1..Len(c) PROVE IsCycle(Turned(c, p))
<1>1. /\ c \in Seq(Node) /\ c # <<>> /\ IsInjective(c)
      /\ \A i \in 1..(Len(c) - 1) : c[i + 1] \in Targets(c[i])
      /\ c[1] \in Targets(c[Len(c)])
  BY DEF IsCycle, Last
<1>2. PICK n \in Nat : n = Len(c) /\ p \in 1..n /\ n > 0
  BY <1>1
<1>3. PICK d : d = Turned(c, p)
  OBVIOUS
<1> d \in Seq(Node)
  BY <1>1, <1>2, <1>3, TurnedIs
<1>4. PICK q \in 1..Len(c) : IsTurned(d, c, p, q)
  BY <1>1, <1>2, <1>3, TurnedIs
<1>5. /\ p + q = n + 1 /\ q \in 1..n
      /\ d \in Seq(Node) /\ Len(d) = n
      /\ \A i \in 1..q : d[i] = c[p + i - 1]
      /\ \A i \in (q + 1)..n : d[i] = c[i - q]
  BY <1>4, <1>2 DEF IsTurned
<1>6. p + q = n + 1 /\ q \in 1..n /\ p \in 1..n /\ n \in Nat
  BY <1>2, <1>5
<1>7. IsInjective(d)
  BY <1>1, <1>3, TurnedSame
<1>8. d # <<>>
  BY <1>2, <1>5
<1>9. \A i \in 1..(n - 1) : d[i + 1] \in Targets(d[i])
  <2>1. TAKE i \in 1..(n - 1)
  <2>2. CASE i < q
    <3>1. i \in 1..q /\ i + 1 \in 1..q /\ p + (i + 1) - 1 = (p + i - 1) + 1 /\ p + i - 1 \in 1..(n - 1)
      BY <1>6, <2>2
    <3>2. d[i] = c[p + i - 1] /\ d[i + 1] = c[p + (i + 1) - 1]
      BY <1>5, <3>1
    <3>3. QED
      BY <1>1, <1>2, <3>1, <3>2
  <2>3. CASE i = q
    <3>1. i \in 1..q /\ p + i - 1 = n /\ i + 1 \in (q + 1)..n /\ (i + 1) - q = 1
      BY <1>6, <2>3
    <3>2. d[i] = c[n] /\ d[i + 1] = c[1]
      BY <1>5, <3>1
    <3>3. QED
      BY <1>1, <1>2, <3>2
  <2>4. CASE i > q
    <3>1. /\ i \in (q + 1)..n /\ i + 1 \in (q + 1)..n /\ (i + 1) - q = (i - q) + 1
          /\ i - q \in 1..(n - 1)
      BY <1>6, <2>4
    <3>2. d[i] = c[i - q] /\ d[i + 1] = c[(i + 1) - q]
      BY <1>5, <3>1
    <3>3. QED
      BY <1>1, <1>2, <3>1, <3>2
  <2>5. QED
    BY <1>2, <1>5, <2>2, <2>3, <2>4
<1>10. d[1] \in Targets(d[n])
  <2>1. d[1] = c[p]
    BY <1>2, <1>5
  <2>2. CASE p = 1
    <3>1. d[n] = c[n]
      BY <1>2, <1>5, <2>2
    <3>2. QED
      BY <1>1, <1>2, <2>1, <2>2, <3>1
  <2>3. CASE p > 1
    <3>1. n \in (q + 1)..n /\ n - q = p - 1 /\ p - 1 \in 1..(n - 1) /\ (p - 1) + 1 = p
      BY <1>6, <2>3
    <3>2. d[n] = c[p - 1]
      BY <1>5, <3>1
    <3>3. QED
      BY <1>1, <1>2, <2>1, <3>1, <3>2
  <2>4. QED
    BY <1>2, <2>2, <2>3
<1>11. QED
  BY <1>3, <1>5, <1>7, <1>8, <1>9, <1>10 DEF IsCycle, Last

\* Rotated turns a cycle to its least judgment.
LEMMA RotatedIsTurned ==
  ASSUME NEW c \in Seq(Node), c # <<>>, IsInjective(c)
  PROVE  \E p \in 1..Len(c) : Rotated(c) = Turned(c, p) /\ \A i \in 1..Len(c) : c[p] <= c[i]
<1>1. PICK n \in Nat : n = Len(c) /\ DOMAIN c = 1..n /\ n > 0 /\ \A i \in 1..n : c[i] \in Node
  OBVIOUS
<1>2. ToSet(c) \in SUBSET Nat /\ ToSet(c) # {}
  <2>1. \A m \in ToSet(c) : m \in Nat
    BY <1>1, NodeAssumption DEF ToSet
  <2>2. c[1] \in ToSet(c)
    BY <1>1 DEF ToSet
  <2>3. QED
    BY <2>1, <2>2
<1>3. PICK least : least = Min(ToSet(c))
  OBVIOUS
<1>4. least \in ToSet(c) /\ \A m \in ToSet(c) : least <= m
  BY <1>2, <1>3, LeastNumber
<1>5. PICK p \in 1..n : c[p] = least
  BY <1>1, <1>4 DEF ToSet
<1>6. {i \in 1..n : c[i] = least} = {p}
  BY <1>1, <1>5 DEF IsInjective
<1>7. Min({p}) = p
  BY <1>5 DEF Min
<1>8. SelectInSeq(c, LAMBDA m : m = Min(ToSet(c))) = p
  BY <1>1, <1>3, <1>6, <1>7 DEF SelectInSeq
<1>9. Rotated(c) = Turned(c, p)
  BY <1>1, <1>8 DEF Rotated, Turned
<1>10. \A i \in 1..n : c[p] <= c[i]
  BY <1>1, <1>4, <1>5 DEF ToSet
<1>11. QED
  BY <1>1, <1>9, <1>10

\* So what it makes of a cycle is one, with the same judgments, led by the least.
LEMMA RotatedIsLed ==
  ASSUME NEW c, IsCycle(c)
  PROVE  IsCycle(Rotated(c)) /\ ToSet(Rotated(c)) = ToSet(c) /\ LedByTheLeast(Rotated(c))
<1>1. c \in Seq(Node) /\ c # <<>> /\ IsInjective(c)
  BY DEF IsCycle
<1>2. PICK p \in 1..Len(c) : Rotated(c) = Turned(c, p) /\ \A i \in 1..Len(c) : c[p] <= c[i]
  BY <1>1, RotatedIsTurned
<1>3. PICK d : d = Rotated(c)
  OBVIOUS
<1>4. IsCycle(d) /\ ToSet(d) = ToSet(c)
  BY <1>1, <1>2, <1>3, TurnedIsCycle, TurnedSame
<1>5. d[1] = c[p]
  <2>1. PICK q \in 1..Len(c) : IsTurned(d, c, p, q)
    BY <1>1, <1>2, <1>3, TurnedIs
  <2>2. 1 \in 1..q /\ p + 1 - 1 = p
    OBVIOUS
  <2>3. QED
    BY <2>1, <2>2 DEF IsTurned
<1>6. \A m \in ToSet(c) : c[p] <= m
  BY <1>1, <1>2 DEF ToSet
<1>7. LedByTheLeast(d)
  <2>1. \A i \in DOMAIN d : d[i] \in ToSet(d)
    BY DEF ToSet
  <2>2. QED
    BY <1>4, <1>5, <1>6, <2>1 DEF LedByTheLeast
<1>8. QED
  BY <1>3, <1>4, <1>7

\* Two turns of one cycle that are both led by its least judgment are the same.
LEMMA OneTurnIsLed ==
  ASSUME NEW a, IsCycle(a), LedByTheLeast(a), NEW k \in 1..Len(a), LedByTheLeast(Turned(a, k))
  PROVE  Turned(a, k) = a
<1>1. a \in Seq(Node) /\ a # <<>> /\ IsInjective(a)
  BY DEF IsCycle
<1>2. PICK d : d = Turned(a, k)
  OBVIOUS
<1>3. PICK q \in 1..Len(a) : d \in Seq(Node) /\ IsTurned(d, a, k, q)
  BY <1>1, <1>2, TurnedIs
<1>4. d[1] = a[k]
  <2>1. 1 \in 1..q /\ k + 1 - 1 = k
    OBVIOUS
  <2>2. QED
    BY <1>3, <2>1 DEF IsTurned
<1>5. ToSet(d) = ToSet(a)
  BY <1>1, <1>2, TurnedSame
<1>6. PICK i \in DOMAIN d : d[i] = a[1]
  <2>1. a[1] \in ToSet(a)
    BY <1>1 DEF ToSet
  <2>2. a[1] \in ToSet(d)
    BY <1>5, <2>1
  <2>3. QED
    BY <2>2 DEF ToSet
<1>7. a[k] <= a[1]
  BY <1>2, <1>4, <1>6 DEF LedByTheLeast
<1>8. a[1] <= a[k]
  BY <1>1 DEF LedByTheLeast
<1>9. a[1] \in Nat /\ a[k] \in Nat /\ 1 \in DOMAIN a /\ k \in DOMAIN a
  <2>1. a[1] \in Node /\ a[k] \in Node /\ 1 \in DOMAIN a /\ k \in DOMAIN a
    BY <1>1
  <2>2. QED
    BY <2>1, NodeAssumption
<1>10. k = 1
  BY <1>1, <1>7, <1>8, <1>9 DEF IsInjective
<1>11. QED
  BY <1>1, <1>10, TurnedFromOne

(***************************************************************************)
(* The steps of the search.                                                *)
(***************************************************************************)

LEMMA CycleStays ==
  ASSUME edges' = edges PROVE \A c : IsCycle(c)' <=> IsCycle(c)
<1>1. \A n : Targets(n)' = Targets(n)
  BY SupportStays
<1>2. QED
  BY <1>1 DEF IsCycle

\* The path from the judgment that is reached again is a cycle, and its judgments are in one circle with it.
LEMMA CycleToIsCycle ==
  ASSUME SearchInv, PathSupports, NEW j \in DOMAIN stack, stack[j] \in Targets(Last(stack))
  PROVE  /\ IsCycle(CycleTo(stack[j]))
         /\ \A m \in ToSet(CycleTo(stack[j])) : InOneCircle(stack[j], m)
<1>1. PICK n \in Nat : n = Len(stack) /\ DOMAIN stack = 1..n /\ j \in 1..n
  BY DEF SearchInv
<1>2. /\ stack \in Seq(Node) /\ \A a, b \in 1..n : stack[a] = stack[b] => a = b
      /\ \A i \in 1..(n - 1) : stack[i + 1] \in Targets(stack[i])
  BY <1>1 DEF SearchInv, IsInjective
<1>3. PICK c : c = CycleTo(stack[j])
  OBVIOUS
<1>4. c = SubSeq(stack, j, n)
  <2>1. {i \in 1..n : stack[i] = stack[j]} = {j}
    BY <1>1, <1>2
  <2>2. Min({j}) = j
    BY <1>1 DEF Min
  <2>3. SelectInSeq(stack, LAMBDA m : m = stack[j]) = j
    BY <1>1, <2>1, <2>2 DEF SelectInSeq
  <2>4. QED
    BY <1>1, <1>3, <2>3 DEF CycleTo
<1>5. PICK q \in 1..n : q = n - j + 1
  BY <1>1
<1>6. c \in Seq(Node) /\ Len(c) = q /\ \A i \in 1..q : c[i] = stack[j + i - 1]
  <2>1. j \in Int /\ n \in Int /\ \A i \in j..n : stack[i] \in Node
    BY <1>1, <1>2
  <2>2. /\ c \in Seq(Node) /\ Len(c) = IF j <= n THEN n - j + 1 ELSE 0
        /\ \A i \in 1..(n - j + 1) : c[i] = stack[j + i - 1]
    BY <1>4, <2>1, SubSeqProperties
  <2>3. QED
    BY <1>1, <1>5, <2>2
<1>7. DOMAIN c = 1..q /\ c # <<>>
  BY <1>6
<1>8. IsInjective(c)
  <2>1. SUFFICES ASSUME NEW a \in 1..q, NEW b \in 1..q, c[a] = c[b] PROVE a = b
    BY <1>7 DEF IsInjective
  <2>2. stack[j + a - 1] = stack[j + b - 1] /\ j + a - 1 \in 1..n /\ j + b - 1 \in 1..n
    BY <1>1, <1>5, <1>6, <2>1
  <2>3. j + a - 1 = j + b - 1
    BY <1>2, <2>2
  <2>4. QED
    BY <1>1, <2>3
<1>9. \A i \in 1..(q - 1) : c[i + 1] \in Targets(c[i])
  <2>1. TAKE i \in 1..(q - 1)
  <2>2. /\ i \in 1..q /\ i + 1 \in 1..q /\ j + (i + 1) - 1 = (j + i - 1) + 1
        /\ j + i - 1 \in 1..(n - 1)
    BY <1>1, <1>5
  <2>3. c[i] = stack[j + i - 1] /\ c[i + 1] = stack[j + (i + 1) - 1]
    BY <1>6, <2>2
  <2>4. QED
    BY <1>2, <2>2, <2>3
<1>10. c[1] = stack[j] /\ c[q] = stack[n]
  <2>1. 1 \in 1..q /\ q \in 1..q /\ j + 1 - 1 = j /\ j + q - 1 = n
    BY <1>1, <1>5
  <2>2. QED
    BY <1>6, <2>1
<1>11. IsCycle(c)
  BY <1>1, <1>6, <1>7, <1>8, <1>9, <1>10 DEF IsCycle, Last
<1>12. stack[n] \in Node /\ stack[j] \in Node /\ Supports(stack[n], stack[j])
  BY <1>1, <1>2, TargetIsSupported DEF Last
<1>13. Supports(stack[j], stack[j])
  <2>1. CASE j = n
    BY <1>12, <2>1
  <2>2. CASE j # n
    <3>1. Supports(stack[j], stack[n])
      BY <1>1, <2>2 DEF PathSupports
    <3>2. QED
      BY <1>12, <3>1, SupportIsTransitive
  <2>3. QED
    BY <2>1, <2>2
<1>14. ASSUME NEW m \in ToSet(c) PROVE InOneCircle(stack[j], m)
  <2>1. PICK i \in 1..q : m = stack[j + i - 1]
    BY <1>6, <1>7 DEF ToSet
  <2>2. PICK k \in 1..n : k = j + i - 1 /\ j <= k /\ m = stack[k] /\ m \in Node
    BY <1>1, <1>2, <1>5, <2>1
  <2>3. Supports(stack[j], m)
    <3>1. CASE j = k
      BY <1>13, <2>2, <3>1
    <3>2. CASE j # k
      BY <1>1, <2>2, <3>2 DEF PathSupports
    <3>3. QED
      BY <3>1, <3>2
  <2>4. Supports(m, stack[j])
    <3>1. CASE k = n
      BY <1>12, <2>2, <3>1
    <3>2. CASE k # n
      <4>1. Supports(stack[k], stack[n])
        BY <1>1, <2>2, <3>2 DEF PathSupports
      <4>2. QED
        BY <1>12, <2>2, <4>1, SupportIsTransitive
    <3>3. QED
      BY <3>1, <3>2
  <2>5. QED
    BY <2>3, <2>4 DEF InOneCircle
<1>15. QED
  BY <1>3, <1>11, <1>14

\* A warning more, or the same again.
LEMMA WarnedIsLed ==
  ASSUME WarningsAreLed, edges' = edges, NEW c, IsCycle(c), warnings' = Warned(Rotated(c))
  PROVE  /\ WarningsAreLed'
         /\ ToSet(warnings) \subseteq ToSet(warnings') /\ Rotated(c) \in ToSet(warnings')
<1>1. PICK d : d = Rotated(c)
  OBVIOUS
<1>2. IsCycle(d) /\ LedByTheLeast(d) /\ d \in Seq(Node)
  BY <1>1, RotatedIsLed DEF IsCycle
<1>3. /\ warnings \in Seq(Seq(Node)) /\ IsInjective(warnings)
      /\ \A w \in ToSet(warnings) : IsCycle(w) /\ LedByTheLeast(w)
  BY DEF WarningsAreLed, CyclesAreReal
<1>4. \A w : IsCycle(w)' <=> IsCycle(w)
  BY CycleStays
<1>5. CASE Contains(warnings, d)
  <2>1. warnings' = warnings
    BY <1>1, <1>5 DEF Warned
  <2>2. d \in ToSet(warnings)
    BY <1>3, <1>5 DEF Contains, ToSet
  <2>3. WarningsAreLed'
    BY <1>3, <1>4, <2>1 DEF WarningsAreLed, CyclesAreReal, LedByTheLeast
  <2>4. QED
    BY <1>1, <2>1, <2>2, <2>3
<1>6. CASE ~Contains(warnings, d)
  <2>1. PICK v, n : v = warnings' /\ n = Len(warnings)
    OBVIOUS
  <2>2. v = Append(warnings, d)
    BY <1>1, <1>6, <2>1 DEF Warned
  <2>3. /\ v \in Seq(Seq(Node)) /\ Len(v) = n + 1 /\ n \in Nat
        /\ \A i \in 1..n : v[i] = warnings[i]
        /\ v[n + 1] = d
    BY <1>2, <1>3, <2>1, <2>2, Pushed
  <2>4. \A i \in 1..n : warnings[i] # d
    BY <1>6, <2>1 DEF Contains
  <2>5. DOMAIN v = 1..(n + 1) /\ DOMAIN warnings = 1..n
    BY <1>3, <2>1, <2>3
  <2>6. IsInjective(v)
    <3>1. SUFFICES ASSUME NEW i \in 1..(n + 1), NEW j \in 1..(n + 1), v[i] = v[j] PROVE i = j
      BY <2>5 DEF IsInjective
    <3>2. CASE i \in 1..n /\ j \in 1..n
      BY <1>3, <2>3, <2>5, <3>1, <3>2 DEF IsInjective
    <3>3. CASE i \notin 1..n \/ j \notin 1..n
      BY <2>3, <2>4, <3>1, <3>3
    <3>4. QED
      BY <3>2, <3>3
  <2>7. \A w \in ToSet(v) : w \in ToSet(warnings) \/ w = d
    <3>1. TAKE w \in ToSet(v)
    <3>2. PICK i \in 1..(n + 1) : w = v[i]
      BY <2>5 DEF ToSet
    <3>3. CASE i \in 1..n
      BY <2>3, <2>5, <3>2, <3>3 DEF ToSet
    <3>4. CASE i = n + 1
      BY <2>3, <3>2, <3>4
    <3>5. QED
      BY <2>3, <3>3, <3>4
  <2>8. ToSet(warnings) \subseteq ToSet(v)
    <3>1. SUFFICES ASSUME NEW w \in ToSet(warnings) PROVE w \in ToSet(v)
      OBVIOUS
    <3>2. PICK i \in 1..n : w = warnings[i]
      BY <2>5 DEF ToSet
    <3>3. i \in 1..(n + 1) /\ w = v[i]
      BY <2>3, <3>2
    <3>4. QED
      BY <2>5, <3>3 DEF ToSet
  <2>9. d \in ToSet(v)
    <3>1. n + 1 \in 1..(n + 1)
      BY <2>3
    <3>2. QED
      BY <2>3, <2>5, <3>1 DEF ToSet
  <2>10. \A w \in ToSet(v) : IsCycle(w) /\ LedByTheLeast(w)
    BY <1>2, <1>3, <2>7
  <2>11. WarningsAreLed'
    BY <1>4, <2>1, <2>3, <2>6, <2>10 DEF WarningsAreLed, CyclesAreReal, LedByTheLeast
  <2>12. QED
    BY <1>1, <2>1, <2>8, <2>9, <2>11
<1>7. QED
  BY <1>5, <1>6

LEMMA RelationIs ==
  ASSUME NEW n, NEW r \in Relations(n)
  PROVE  /\ r \in Node \X {1, 2} /\ <<n, r[1]>> \in edges
         /\ r[2] = 1 \/ <<n, r[1]>> \in twice
<1>1. r \in Targets(n) \X {1, 2} /\ (r[2] = 1 \/ <<n, r[1]>> \in twice)
  BY DEF Relations
<1>2. \A t \in Targets(n) : t \in Node /\ <<n, t>> \in edges
  BY DEF Targets
<1>3. QED
  BY <1>1, <1>2

\* What the steps that change no warning leave as it was.
LEMMA QuietStep ==
  ASSUME WarningsAreLed, edges' = edges, warnings' = warnings
  PROVE  WarningsAreLed' /\ \A n : Noticed(n) => Noticed(n)'
<1>1. \A c : IsCycle(c)' <=> IsCycle(c)
  BY CycleStays
<1>2. \A n : Noticed(n) => Noticed(n)'
  BY NoticeStays
<1>3. QED
  BY <1>1, <1>2 DEF WarningsAreLed, CyclesAreReal, LedByTheLeast

\* A judgment that was not visited is entered, from the end of the path or from nowhere. Before, `rest` takes
\* from the relations to follow none but those to it.
LEMMA EnterKeeps ==
  ASSUME CyclesInv, NEW n \in Node, colour[n] = 0,
         NEW rest \in Seq(SUBSET (Node \X {1, 2})), Len(rest) = Len(stack),
         \A i \in DOMAIN stack : rest[i] \subseteq todo[i],
         \A i \in DOMAIN stack : \A t \in Node : <<t, 1>> \in todo[i] /\ <<t, 1>> \notin rest[i] => t = n /\ i = Len(stack),
         stack # <<>> => n \in Targets(Last(stack)),
         Enter(n, rest), roots' \subseteq Node, roots \subseteq roots' \union {n}
  PROVE  CyclesInv'
<1>1. PICK k \in Nat : k = Len(stack) /\ DOMAIN stack = 1..k /\ DOMAIN todo = 1..k /\ DOMAIN rest = 1..k
  BY DEF CyclesInv, SearchInv
<1>2. /\ edges' = edges /\ twice' = twice /\ warnings' = warnings
      /\ colour' = [colour EXCEPT ![n] = 1] /\ stack' = Append(stack, n) /\ todo' = Append(rest, Relations(n))
  BY DEF Enter
<1>3. /\ edges \subseteq Node \X Node /\ colour \in [Node -> 0..2] /\ stack \in Seq(Node)
      /\ todo \in Seq(SUBSET (Node \X {1, 2}))
  BY DEF CyclesInv, SearchInv
<1>4. /\ colour' \in [Node -> 0..2] /\ colour'[n] = 1
      /\ \A m \in Node : m # n => colour'[m] = colour[m]
  BY <1>2, <1>3
<1>5. Relations(n) \in SUBSET (Node \X {1, 2})
  BY DEF Relations, Targets
<1>6. /\ stack' \in Seq(Node) /\ Len(stack') = k + 1 /\ DOMAIN stack' = 1..(k + 1)
      /\ \A i \in 1..k : stack'[i] = stack[i]
      /\ stack'[k + 1] = n
  BY <1>1, <1>2, <1>3, Pushed
<1>7. /\ todo' \in Seq(SUBSET (Node \X {1, 2})) /\ Len(todo') = k + 1 /\ DOMAIN todo' = 1..(k + 1)
      /\ \A i \in 1..k : todo'[i] = rest[i]
      /\ todo'[k + 1] = Relations(n)
  BY <1>1, <1>2, <1>5, Pushed
<1>8. /\ \A m : Targets(m)' = Targets(m)
      /\ \A m, q : Supports(m, q)' <=> Supports(m, q)
      /\ \A m, q : InOneCircle(m, q)' <=> InOneCircle(m, q)
  BY <1>2, SupportStays
<1>9. \A m : Relations(m)' = Relations(m)
  BY <1>2, <1>8 DEF Relations
<1>10. WarningsAreLed' /\ \A m : Noticed(m) => Noticed(m)'
  BY <1>2, QuietStep DEF CyclesInv
<1>11. ToSet(stack) = {m \in Node : colour[m] = 1} /\ n \notin ToSet(stack)
  BY DEF CyclesInv, SearchInv
<1>12. \A i \in 1..k : stack[i] \in Node /\ colour[stack[i]] = 1 /\ stack[i] # n
  BY <1>1, <1>11 DEF ToSet
<1>13. SearchInv'
  <2>1. IsInjective(stack')
    <3>1. SUFFICES ASSUME NEW i \in 1..(k + 1), NEW j \in 1..(k + 1), stack'[i] = stack'[j] PROVE i = j
      BY <1>6 DEF IsInjective
    <3>2. CASE i \in 1..k /\ j \in 1..k
      BY <1>1, <1>6, <3>1, <3>2 DEF IsInjective, CyclesInv, SearchInv
    <3>3. CASE i \notin 1..k \/ j \notin 1..k
      BY <1>6, <1>12, <3>1, <3>3
    <3>4. QED
      BY <3>2, <3>3
  <2>2. ToSet(stack') = {m \in Node : colour'[m] = 1}
    <3>1. \A m : m \in ToSet(stack') <=> m \in ToSet(stack) \/ m = n
      <4>1. \A m : m \in ToSet(stack') <=> \E i \in 1..(k + 1) : m = stack'[i]
        BY <1>6 DEF ToSet
      <4>2. \A m : m \in ToSet(stack) <=> \E i \in 1..k : m = stack[i]
        BY <1>1 DEF ToSet
      <4>3. \A i \in 1..(k + 1) : i \in 1..k \/ i = k + 1
        OBVIOUS
      <4>4. 1..k \subseteq 1..(k + 1) /\ k + 1 \in 1..(k + 1)
        OBVIOUS
      <4>5. QED
        BY <1>6, <4>1, <4>2, <4>3, <4>4
    <3>2. QED
      BY <1>4, <1>11, <3>1
  <2>3. (\A i \in 1..(Len(stack) - 1) : stack[i + 1] \in Targets(stack[i]))'
    <3>1. ASSUME NEW i \in 1..k PROVE stack'[i + 1] \in Targets(stack[i])
      <4>1. CASE i = k
        <5>1. n \in Targets(stack[k])
          BY <1>1, <4>1 DEF Last
        <5>2. QED
          BY <1>6, <4>1, <5>1
      <4>2. CASE i # k
        <5>1. i \in 1..(k - 1) /\ i + 1 \in 1..k
          BY <4>2
        <5>2. stack[i + 1] \in Targets(stack[i])
          BY <1>1, <5>1 DEF CyclesInv, SearchInv
        <5>3. QED
          BY <1>6, <5>1, <5>2
      <4>3. QED
        BY <4>1, <4>2
    <3>2. \A i \in 1..k : <<stack'[i], stack'[i + 1]>> \in edges /\ stack'[i + 1] \in Node
      BY <1>6, <3>1 DEF Targets
    <3>3. Len(stack') - 1 = k /\ edges' = edges
      BY <1>2, <1>6
    <3>4. QED
      BY <3>2, <3>3 DEF Targets
  <2>4. (\A i \in DOMAIN todo : todo[i] \subseteq Relations(stack[i]))'
    <3>1. ASSUME NEW i \in 1..(k + 1) PROVE todo'[i] \subseteq Relations(stack'[i])
      <4>1. CASE i = k + 1
        BY <1>6, <1>7, <4>1
      <4>2. CASE i # k + 1
        <5>1. i \in 1..k
          BY <4>2
        <5>2. rest[i] \subseteq todo[i] /\ todo[i] \subseteq Relations(stack[i])
          BY <1>1, <5>1 DEF CyclesInv, SearchInv
        <5>3. QED
          BY <1>6, <1>7, <5>1, <5>2
      <4>3. QED
        BY <4>1, <4>2
    <3>2. \A i \in 1..(k + 1) : \A r \in todo'[i] :
            /\ r \in Node \X {1, 2} /\ <<stack'[i], r[1]>> \in edges
            /\ r[2] = 1 \/ <<stack'[i], r[1]>> \in twice
      BY <3>1, RelationIs
    <3>3. edges' = edges /\ twice' = twice /\ DOMAIN todo' = 1..(k + 1)
      BY <1>2, <1>7
    <3>4. QED
      BY <3>2, <3>3 DEF Relations, Targets
  <2>5. (edges \subseteq Node \X Node /\ roots \subseteq Node)'
    BY <1>2, <1>3
  <2>6. (ToSet(stack) = {m \in Node : colour[m] = 1})'
    BY <2>2
  <2>7. QED
    BY <1>4, <1>6, <1>7, <2>1, <2>3, <2>4, <2>5, <2>6 DEF SearchInv
<1>14. PathSupports'
  <2>1. SUFFICES ASSUME NEW i \in 1..(k + 1), NEW j \in 1..(k + 1), i < j PROVE Supports(stack'[i], stack'[j])
    BY <1>6, <1>8 DEF PathSupports
  <2>2. CASE j \in 1..k
    <3>1. i \in 1..k
      BY <2>1, <2>2
    <3>2. Supports(stack[i], stack[j])
      BY <1>1, <2>1, <2>2, <3>1 DEF CyclesInv, PathSupports
    <3>3. QED
      BY <1>6, <2>2, <3>1, <3>2
  <2>3. CASE j = k + 1
    <3>1. i \in 1..k /\ k \in 1..k /\ stack # <<>>
      BY <1>1, <2>1, <2>3
    <3>2. Supports(stack[k], n)
      BY <1>1, <3>1, TargetIsSupported DEF Last
    <3>3. CASE i = k
      BY <1>6, <2>3, <3>1, <3>2, <3>3
    <3>4. CASE i # k
      <4>1. i < k
        BY <3>1, <3>4
      <4>2. Supports(stack[i], stack[k])
        BY <1>1, <3>1, <4>1 DEF CyclesInv, PathSupports
      <4>3. Supports(stack[i], n)
        BY <1>12, <3>1, <3>2, <4>2, SupportIsTransitive
      <4>4. QED
        BY <1>6, <2>3, <3>1, <4>3
    <3>5. QED
      BY <3>3, <3>4
  <2>4. QED
    BY <2>2, <2>3
<1>15. RootsRemain'
  BY <1>4, <1>8 DEF CyclesInv, RootsRemain
<1>16. FollowedAreEntered'
  <2>1. ASSUME NEW i \in 1..(k + 1), NEW t \in Node, Followed(i, t)'
        PROVE  /\ colour'[t] # 0
               /\ \A j \in 1..(k + 1) : stack'[j] = t => i < j \/ Noticed(t)'
    <3>1. t \in Targets(stack'[i]) /\ <<t, 1>> \notin todo'[i]
      BY <1>8, <2>1 DEF Followed
    <3>2. i \in 1..k
      <4>1. SUFFICES ASSUME i = k + 1 PROVE FALSE
        OBVIOUS
      <4>2. t \in Targets(n) /\ <<t, 1>> \notin Relations(n)
        BY <1>6, <1>7, <3>1, <4>1
      <4>3. QED
        BY <4>2 DEF Relations
    <3>3. t \in Targets(stack[i]) /\ <<t, 1>> \notin rest[i]
      BY <1>6, <1>7, <3>1, <3>2
    <3>4. CASE <<t, 1>> \in todo[i]
      <4>1. t = n /\ i = k
        BY <1>1, <3>2, <3>3, <3>4
      <4>2. \A j \in 1..(k + 1) : stack'[j] = n => j = k + 1
        BY <1>6, <1>12
      <4>3. QED
        BY <1>4, <3>2, <4>1, <4>2
    <3>5. CASE <<t, 1>> \notin todo[i]
      <4>1. Followed(i, t)
        BY <3>3, <3>5 DEF Followed
      <4>2. colour[t] # 0 /\ \A j \in 1..k : stack[j] = t => i < j \/ Noticed(t)
        BY <1>1, <3>2, <4>1 DEF CyclesInv, FollowedAreEntered
      <4>3. t # n
        BY <4>2
      <4>4. \A j \in 1..(k + 1) : stack'[j] = t => j \in 1..k /\ stack[j] = t
        BY <1>6, <4>3
      <4>5. QED
        BY <1>4, <1>10, <4>2, <4>3, <4>4
    <3>6. QED
      BY <3>4, <3>5
  <2>2. ASSUME NEW m \in Node, NEW t \in Targets(m), colour'[m] = 2
        PROVE  colour'[t] # 0 /\ (colour'[t] = 1 => Noticed(t)')
    <3>1. m # n /\ colour[m] = 2
      BY <1>4, <2>2
    <3>2. t \in Node
      BY DEF Targets
    <3>3. colour[t] # 0 /\ (colour[t] = 1 => Noticed(t))
      BY <2>2, <3>1 DEF CyclesInv, FollowedAreEntered
    <3>4. t # n
      BY <3>3
    <3>5. QED
      BY <1>4, <1>10, <3>2, <3>3, <3>4
  <2>3. QED
    BY <1>6, <1>8, <2>1, <2>2 DEF FollowedAreEntered
<1>17. LeftAreNoticed'
  <2>1. SUFFICES ASSUME NEW m \in Node, colour'[m] = 2, Supports(m, m)
                 PROVE  Noticed(m)' \/ \E g \in Node : colour'[g] = 1 /\ InOneCircle(m, g)
    BY <1>8 DEF LeftAreNoticed
  <2>2. colour[m] = 2
    BY <1>4, <2>1
  <2>3. Noticed(m) \/ \E g \in Node : colour[g] = 1 /\ InOneCircle(m, g)
    BY <2>1, <2>2 DEF CyclesInv, LeftAreNoticed
  <2>4. QED
    BY <1>4, <1>10, <2>3
<1>18. QED
  BY <1>10, <1>13, <1>14, <1>15, <1>16, <1>17 DEF CyclesInv

\* A relation is followed to a judgment that was entered before; if it is on the path, it is noticed now.
LEMMA FollowingKeeps ==
  ASSUME CyclesInv, stack # <<>>, NEW r \in Last(todo), colour[r[1]] # 0, todo' = Rest(r),
         edges' = edges, twice' = twice, colour' = colour, stack' = stack, roots' = roots,
         WarningsAreLed', ToSet(warnings) \subseteq ToSet(warnings'), colour[r[1]] = 1 => Noticed(r[1])'
  PROVE  CyclesInv'
<1>1. PICK k \in Nat : k = Len(stack) /\ k > 0 /\ DOMAIN stack = 1..k /\ DOMAIN todo = 1..k /\ Len(todo) = k
  BY DEF CyclesInv, SearchInv
<1>2. todo \in Seq(SUBSET (Node \X {1, 2})) /\ k \in 1..k
  BY <1>1 DEF CyclesInv, SearchInv
<1>3. todo' = [todo EXCEPT ![k] = todo[k] \ {r}]
  BY <1>1 DEF Rest
<1>4. todo[k] \ {r} \in SUBSET (Node \X {1, 2})
  BY <1>1, <1>2
<1>5. /\ todo' \in Seq(SUBSET (Node \X {1, 2})) /\ Len(todo') = k /\ DOMAIN todo' = 1..k
      /\ \A i \in 1..k : i # k => todo'[i] = todo[i]
      /\ todo'[k] = todo[k] \ {r}
  BY <1>1, <1>2, <1>3, <1>4
<1>6. \A n : Noticed(n) => Noticed(n)'
  BY NoticeStays
<1>7. /\ \A m : Targets(m)' = Targets(m)
      /\ \A m, q : Supports(m, q)' <=> Supports(m, q)
      /\ \A m, q : InOneCircle(m, q)' <=> InOneCircle(m, q)
  BY SupportStays
<1>8. SearchInv'
  <2>1. (\A i \in DOMAIN todo : todo[i] \subseteq Relations(stack[i]))'
    <3>1. ASSUME NEW i \in 1..k PROVE todo'[i] \subseteq Relations(stack[i])
      <4>1. todo[i] \subseteq Relations(stack[i])
        BY <1>1 DEF CyclesInv, SearchInv
      <4>2. QED
        BY <1>5, <4>1
    <3>2. QED
      BY <1>5, <3>1 DEF Relations, Targets
  <2>2. (\A i \in 1..(Len(stack) - 1) : stack[i + 1] \in Targets(stack[i]))'
    <3>1. \A i \in 1..(Len(stack) - 1) : stack[i + 1] \in Targets(stack[i])
      BY DEF CyclesInv, SearchInv
    <3>2. QED
      BY <3>1 DEF Targets
  <2>3. (ToSet(stack) = {n \in Node : colour[n] = 1})'
    BY DEF CyclesInv, SearchInv
  <2>4. (/\ edges \subseteq Node \X Node /\ roots \subseteq Node /\ colour \in [Node -> 0..2]
         /\ stack \in Seq(Node) /\ IsInjective(stack))'
    BY DEF CyclesInv, SearchInv
  <2>5. (todo \in Seq(SUBSET (Node \X {1, 2})) /\ Len(todo) = Len(stack))'
    BY <1>1, <1>5
  <2>6. QED
    BY <2>1, <2>2, <2>3, <2>4, <2>5 DEF SearchInv
<1>9. PathSupports' /\ RootsRemain'
  BY <1>7 DEF CyclesInv, PathSupports, RootsRemain
<1>10. FollowedAreEntered'
  <2>1. ASSUME NEW i \in 1..k, NEW t \in Node, Followed(i, t)'
        PROVE  /\ colour[t] # 0
               /\ \A j \in 1..k : stack[j] = t => i < j \/ Noticed(t)'
    <3>1. t \in Targets(stack[i]) /\ <<t, 1>> \notin todo'[i]
      BY <1>7, <2>1 DEF Followed
    <3>2. CASE <<t, 1>> \in todo[i]
      <4>1. t = r[1]
        BY <1>5, <3>1, <3>2
      <4>2. \A j \in 1..k : stack[j] = t => colour[t] = 1
        BY <1>1 DEF CyclesInv, SearchInv, ToSet
      <4>3. QED
        BY <4>1, <4>2
    <3>3. CASE <<t, 1>> \notin todo[i]
      <4>1. Followed(i, t)
        BY <3>1, <3>3 DEF Followed
      <4>2. QED
        BY <1>1, <1>6, <4>1 DEF CyclesInv, FollowedAreEntered
    <3>4. QED
      BY <3>2, <3>3
  <2>2. \A m \in Node : \A t \in Targets(m) : colour[m] = 2 => colour[t] # 0 /\ (colour[t] = 1 => Noticed(t)')
    BY <1>6 DEF CyclesInv, FollowedAreEntered
  <2>3. QED
    BY <1>1, <1>7, <2>1, <2>2 DEF FollowedAreEntered
<1>11. LeftAreNoticed'
  BY <1>6, <1>7 DEF CyclesInv, LeftAreNoticed
<1>12. QED
  BY <1>8, <1>9, <1>10, <1>11 DEF CyclesInv

\* The judgment that is left rests on itself: then it was noticed, or another judgment of its circle is on the path.
\* For if not, what it leads to without coming back to the path would be closed, and the judgment is not in it.
LEMMA LastOfCircle ==
  ASSUME CyclesInv, stack # <<>>, Last(todo) = {}, NEW g, g = Last(stack), Supports(g, g), ~Noticed(g),
         \A h \in Node : colour[h] = 1 /\ InOneCircle(g, h) => h = g
  PROVE  FALSE
<1>1. PICK k \in Nat : k = Len(stack) /\ k \in 1..k /\ DOMAIN stack = 1..k /\ Len(todo) = k /\ g = stack[k]
  BY DEF CyclesInv, SearchInv, Last
<1>2. g \in Node /\ colour[g] = 1 /\ colour \in [Node -> 0..2]
  BY <1>1 DEF CyclesInv, SearchInv, ToSet
<1>3. \A t \in Targets(g) : t \in Node /\ Supports(g, t) /\ colour[t] # 0 /\ t # g
  <2>1. TAKE t \in Targets(g)
  <2>2. t \in Node
    BY DEF Targets
  <2>3. Followed(k, t)
    BY <1>1 DEF Followed, Last
  <2>4. colour[t] # 0 /\ \A j \in DOMAIN stack : stack[j] = t => k < j \/ Noticed(t)
    BY <1>1, <2>2, <2>3 DEF CyclesInv, FollowedAreEntered
  <2>5. t # g
    BY <1>1, <2>4
  <2>6. QED
    BY <2>2, <2>4, <2>5, TargetIsSupported
<1> DEFINE S == {m \in Node : Supports(g, m) /\ m # g /\ (Supports(m, g) => colour[m] = 2)}
<1>4. Targets(g) \subseteq S
  <2>1. SUFFICES ASSUME NEW t \in Targets(g), Supports(t, g) PROVE colour[t] = 2
    BY <1>3
  <2>2. t \in Node /\ colour[t] # 0 /\ t # g /\ InOneCircle(g, t)
    BY <1>3, <2>1 DEF InOneCircle
  <2>3. colour[t] # 1
    BY <2>2
  <2>4. QED
    BY <1>2, <2>2, <2>3
<1>5. Closed(S)
  <2>1. SUFFICES ASSUME NEW m \in S, NEW t \in Targets(m) PROVE t \in S
    BY DEF Closed
  <2>2. m \in Node /\ Supports(g, m) /\ m # g /\ (Supports(m, g) => colour[m] = 2)
    OBVIOUS
  <2>3. t \in Node /\ Supports(m, t) /\ Supports(g, t)
    <3>1. t \in Node
      BY DEF Targets
    <3>2. Supports(m, t)
      BY TargetIsSupported
    <3>3. QED
      BY <2>2, <3>1, <3>2, SupportIsTransitive
  <2>4. colour[m] = 2 => colour[t] # 0 /\ (colour[t] = 1 => Noticed(t))
    BY <2>2 DEF CyclesInv, FollowedAreEntered
  <2>5. t # g
    BY <1>2, <2>2, <2>3, <2>4
  <2>6. ASSUME Supports(t, g) PROVE colour[t] = 2
    <3>1. Supports(m, g)
      BY <2>3, <2>6, SupportIsTransitive
    <3>2. colour[t] # 0
      BY <2>2, <2>4, <3>1
    <3>3. colour[t] # 1
      BY <2>3, <2>5, <2>6 DEF InOneCircle
    <3>4. QED
      BY <1>2, <2>3, <3>2, <3>3
  <2>7. QED
    BY <2>3, <2>5, <2>6
<1>6. S \in SUBSET Node /\ g \notin S
  OBVIOUS
<1> HIDE DEF S
<1>7. g \in S
  BY <1>4, <1>5, <1>6 DEF Supports
<1>8. QED
  BY <1>6, <1>7

LEMMA LeaveKeeps == ASSUME CyclesInv, Leave PROVE CyclesInv'
<1>1. PICK k \in Nat :
        /\ k = Len(stack) /\ k \in 1..k /\ DOMAIN stack = 1..k /\ Len(todo) = k /\ DOMAIN todo = 1..k
        /\ stack # <<>> /\ todo # <<>>
  BY DEF CyclesInv, SearchInv, Leave
<1>2. PICK g : g = stack[k]
  OBVIOUS
<1>3. /\ edges' = edges /\ twice' = twice /\ warnings' = warnings /\ roots' = roots
      /\ colour' = [colour EXCEPT ![g] = 2] /\ todo[k] = {}
      /\ stack' = Front(stack) /\ todo' = Front(todo)
  BY <1>1, <1>2 DEF Leave, Last
<1>4. /\ edges \subseteq Node \X Node /\ colour \in [Node -> 0..2] /\ stack \in Seq(Node)
      /\ todo \in Seq(SUBSET (Node \X {1, 2})) /\ roots \subseteq Node
      /\ \A i, j \in 1..k : stack[i] = stack[j] => i = j
      /\ ToSet(stack) = {n \in Node : colour[n] = 1}
  BY <1>1 DEF CyclesInv, SearchInv, IsInjective
<1>5. \A i \in 1..k : stack[i] \in Node /\ colour[stack[i]] = 1
  BY <1>1, <1>4 DEF ToSet
<1>6. g \in Node /\ colour[g] = 1
  BY <1>1, <1>2, <1>5
<1>7. colour' \in [Node -> 0..2] /\ colour'[g] = 2 /\ \A m \in Node : m # g => colour'[m] = colour[m]
  BY <1>3, <1>4, <1>6
<1>8. /\ stack' \in Seq(Node) /\ Len(stack') = k - 1 /\ DOMAIN stack' = 1..(k - 1)
      /\ \A i \in 1..(k - 1) : stack'[i] = stack[i]
  BY <1>1, <1>3, <1>4, Popped
<1>9. /\ todo' \in Seq(SUBSET (Node \X {1, 2})) /\ Len(todo') = k - 1 /\ DOMAIN todo' = 1..(k - 1)
      /\ \A i \in 1..(k - 1) : todo'[i] = todo[i]
  BY <1>1, <1>3, <1>4, Popped
<1>10. /\ \A m : Targets(m)' = Targets(m)
       /\ \A m, q : Supports(m, q)' <=> Supports(m, q)
       /\ \A m, q : InOneCircle(m, q)' <=> InOneCircle(m, q)
  BY <1>3, SupportStays
<1>11. WarningsAreLed' /\ \A m : Noticed(m) => Noticed(m)'
  BY <1>3, QuietStep DEF CyclesInv
<1>12. 1..(k - 1) \subseteq 1..k /\ k \notin 1..(k - 1) /\ \A i \in 1..k : i \in 1..(k - 1) \/ i = k
  BY <1>1
<1>13. \A m \in Node : colour'[m] = 1 <=> \E i \in 1..(k - 1) : m = stack[i]
  <2>1. TAKE m \in Node
  <2>2. CASE m = g
    BY <1>1, <1>2, <1>4, <1>7, <1>12, <2>2
  <2>3. CASE m # g
    <3>1. colour'[m] = 1 <=> \E i \in 1..k : m = stack[i]
      BY <1>1, <1>4, <1>7, <2>3 DEF ToSet
    <3>2. QED
      BY <1>2, <1>12, <2>3, <3>1
  <2>4. QED
    BY <2>2, <2>3
<1>14. SearchInv'
  <2>1. (\A i \in DOMAIN todo : todo[i] \subseteq Relations(stack[i]))'
    <3>1. ASSUME NEW i \in 1..(k - 1) PROVE todo'[i] \subseteq Relations(stack'[i])
      <4>1. todo[i] \subseteq Relations(stack[i])
        BY <1>1, <1>12 DEF CyclesInv, SearchInv
      <4>2. QED
        BY <1>8, <1>9, <4>1
    <3>2. \A i \in 1..(k - 1) : \A r \in todo'[i] :
            /\ r \in Node \X {1, 2} /\ <<stack'[i], r[1]>> \in edges
            /\ r[2] = 1 \/ <<stack'[i], r[1]>> \in twice
      BY <3>1, RelationIs
    <3>3. edges' = edges /\ twice' = twice /\ DOMAIN todo' = 1..(k - 1)
      BY <1>3, <1>9
    <3>4. QED
      BY <3>2, <3>3 DEF Relations, Targets
  <2>2. (\A i \in 1..(Len(stack) - 1) : stack[i + 1] \in Targets(stack[i]))'
    <3>1. ASSUME NEW i \in 1..(k - 1 - 1) PROVE stack'[i + 1] \in Targets(stack'[i])
      <4>1. i \in 1..(k - 1) /\ i + 1 \in 1..(k - 1)
        BY <1>1
      <4>2. stack[i + 1] \in Targets(stack[i])
        BY <1>1, <4>1 DEF CyclesInv, SearchInv
      <4>3. QED
        BY <1>8, <4>1, <4>2
    <3>2. \A i \in 1..(k - 1 - 1) : <<stack'[i], stack'[i + 1]>> \in edges /\ stack'[i + 1] \in Node
      BY <3>1 DEF Targets
    <3>3. Len(stack') - 1 = k - 1 - 1 /\ edges' = edges
      BY <1>3, <1>8
    <3>4. QED
      BY <3>2, <3>3 DEF Targets
  <2>3. (ToSet(stack) = {n \in Node : colour[n] = 1})'
    <3>1. \A m : m \in ToSet(stack') <=> \E i \in 1..(k - 1) : m = stack[i]
      BY <1>8 DEF ToSet
    <3>2. \A i \in 1..(k - 1) : stack[i] \in Node
      BY <1>5, <1>12
    <3>3. QED
      BY <1>13, <3>1, <3>2
  <2>4. IsInjective(stack')
    BY <1>4, <1>8, <1>12 DEF IsInjective
  <2>5. (edges \subseteq Node \X Node /\ roots \subseteq Node)'
    BY <1>3, <1>4
  <2>6. QED
    BY <1>7, <1>8, <1>9, <2>1, <2>2, <2>3, <2>4, <2>5 DEF SearchInv
<1>15. PathSupports'
  <2>1. \A i, j \in 1..(k - 1) : i < j => Supports(stack'[i], stack'[j])
    BY <1>1, <1>8, <1>12 DEF CyclesInv, PathSupports
  <2>2. QED
    BY <1>8, <1>10, <2>1 DEF PathSupports
<1>16. RootsRemain'
  BY <1>3, <1>7, <1>10 DEF CyclesInv, RootsRemain
<1>17. \A t \in Node : (colour[t] # 0 => colour'[t] # 0) /\ (colour'[t] = 1 => colour[t] = 1 /\ t # g)
  BY <1>7
<1>18. FollowedAreEntered'
  <2>1. ASSUME NEW i \in 1..(k - 1), NEW t \in Node, Followed(i, t)'
        PROVE  /\ colour'[t] # 0
               /\ \A j \in 1..(k - 1) : stack'[j] = t => i < j \/ Noticed(t)'
    <3>1. t \in Targets(stack[i]) /\ <<t, 1>> \notin todo[i]
      BY <1>8, <1>9, <1>10, <2>1 DEF Followed
    <3>2. colour[t] # 0 /\ \A j \in 1..k : stack[j] = t => i < j \/ Noticed(t)
      BY <1>1, <1>12, <3>1 DEF Followed, CyclesInv, FollowedAreEntered
    <3>3. QED
      BY <1>8, <1>11, <1>12, <1>17, <3>2
  <2>2. ASSUME NEW m \in Node, NEW t \in Targets(m), colour'[m] = 2
        PROVE  colour'[t] # 0 /\ (colour'[t] = 1 => Noticed(t)')
    <3>1. t \in Node
      BY DEF Targets
    <3>2. CASE m # g
      <4>1. colour[m] = 2
        BY <1>7, <2>2, <3>2
      <4>2. colour[t] # 0 /\ (colour[t] = 1 => Noticed(t))
        BY <4>1 DEF CyclesInv, FollowedAreEntered
      <4>3. QED
        BY <1>11, <1>17, <3>1, <4>2
    <3>3. CASE m = g
      <4>1. Followed(k, t)
        BY <1>2, <1>3, <3>3 DEF Followed
      <4>2. colour[t] # 0 /\ \A j \in 1..k : stack[j] = t => k < j \/ Noticed(t)
        BY <1>1, <3>1, <4>1 DEF CyclesInv, FollowedAreEntered
      <4>3. ASSUME colour'[t] = 1 PROVE Noticed(t)
        <5>1. PICK j \in 1..(k - 1) : t = stack[j]
          BY <1>13, <3>1, <4>3
        <5>2. j \in 1..k /\ ~(k < j)
          BY <1>1
        <5>3. QED
          BY <4>2, <5>1, <5>2
      <4>4. QED
        BY <1>11, <1>17, <3>1, <4>2, <4>3
    <3>4. QED
      BY <3>2, <3>3
  <2>3. QED
    BY <1>8, <1>10, <2>1, <2>2 DEF FollowedAreEntered
<1>19. Supports(g, g) => Noticed(g) \/ \E h \in Node : colour'[h] = 1 /\ InOneCircle(g, h)
  <2>1. SUFFICES ASSUME Supports(g, g), ~Noticed(g), \A h \in Node : colour'[h] = 1 => ~InOneCircle(g, h)
                 PROVE  FALSE
    OBVIOUS
  <2>2. \A h \in Node : colour[h] = 1 /\ InOneCircle(g, h) => h = g
    BY <1>7, <2>1
  <2>3. Last(todo) = {} /\ g = Last(stack) /\ stack # <<>>
    BY <1>1, <1>2, <1>3 DEF Last
  <2>4. QED
    BY <2>1, <2>2, <2>3, LastOfCircle
<1>20. \A w \in ToSet(warnings) : ToSet(w) \subseteq Node
  <2>1. TAKE w \in ToSet(warnings)
  <2>2. w \in Seq(Node)
    BY DEF CyclesInv, WarningsAreLed, CyclesAreReal, IsCycle
  <2>3. QED
    BY <2>2 DEF ToSet
<1>21. LeftAreNoticed'
  <2>1. SUFFICES ASSUME NEW m \in Node, colour'[m] = 2, Supports(m, m)
                 PROVE  Noticed(m) \/ \E h \in Node : colour'[h] = 1 /\ InOneCircle(m, h)
    BY <1>10, <1>11 DEF LeftAreNoticed
  <2>2. CASE m = g
    BY <1>19, <2>1, <2>2
  <2>3. CASE m # g
    <3>1. colour[m] = 2
      BY <1>7, <2>1, <2>3
    <3>2. Noticed(m) \/ \E h \in Node : colour[h] = 1 /\ InOneCircle(m, h)
      BY <2>1, <3>1 DEF CyclesInv, LeftAreNoticed
    <3>3. CASE InOneCircle(m, g)
      <4>1. Supports(g, g)
        BY <1>6, <3>3, SupportIsTransitive DEF InOneCircle
      <4>2. CASE Noticed(g)
        BY <1>6, <1>20, <3>3, <4>2, NoticeSpreads
      <4>3. CASE ~Noticed(g)
        <5>1. PICK h \in Node : colour'[h] = 1 /\ InOneCircle(g, h)
          BY <1>19, <4>1, <4>3
        <5>2. InOneCircle(m, h)
          BY <1>6, <3>3, <5>1, CircleIsTransitive
        <5>3. QED
          BY <5>1, <5>2
      <4>4. QED
        BY <4>2, <4>3
    <3>4. CASE ~InOneCircle(m, g)
      BY <1>7, <3>2, <3>4
    <3>5. QED
      BY <3>3, <3>4
  <2>4. QED
    BY <2>2, <2>3
<1>22. QED
  BY <1>11, <1>14, <1>15, <1>16, <1>18, <1>21 DEF CyclesInv

LEMMA NextRootKeeps == ASSUME CyclesInv, NextRoot PROVE CyclesInv'
<1>1. /\ roots \subseteq Node /\ stack = <<>> /\ stack \in Seq(Node) /\ todo \in Seq(SUBSET (Node \X {1, 2}))
      /\ Len(todo) = Len(stack)
  BY DEF CyclesInv, SearchInv, NextRoot
<1>2. PICK r : r = Min(roots)
  OBVIOUS
<1>3. r \in roots /\ r \in Node
  <2>1. roots \in SUBSET Nat /\ roots # {}
    BY <1>1, NodeAssumption DEF NextRoot
  <2>2. QED
    BY <1>1, <1>2, <2>1, LeastNumber
<1>4. roots' = roots \ {r}
  BY <1>2 DEF NextRoot
<1>5. CASE colour[r] = 0
  <2>1. Enter(r, todo)
    BY <1>2, <1>5 DEF NextRoot
  <2>2. DOMAIN stack = {}
    BY <1>1
  <2>3. roots' \subseteq Node /\ roots \subseteq roots' \union {r}
    BY <1>1, <1>4
  <2>4. QED
    BY <1>1, <1>3, <1>5, <2>1, <2>2, <2>3, EnterKeeps
<1>6. CASE colour[r] # 0
  <2>1. /\ edges' = edges /\ twice' = twice /\ colour' = colour /\ stack' = stack /\ todo' = todo
        /\ warnings' = warnings
    BY <1>2, <1>6 DEF NextRoot
  <2>2. WarningsAreLed' /\ \A n : Noticed(n) => Noticed(n)'
    BY <2>1, QuietStep DEF CyclesInv
  <2>3. /\ \A m : Targets(m)' = Targets(m)
        /\ \A m, q : Supports(m, q)' <=> Supports(m, q)
        /\ \A m, q : InOneCircle(m, q)' <=> InOneCircle(m, q)
    BY <2>1, SupportStays
  <2>4. SearchInv'
    <3>1. (\A i \in DOMAIN todo : todo[i] \subseteq Relations(stack[i]))'
      <4>1. \A i \in DOMAIN todo : todo[i] \subseteq Relations(stack[i])
        BY DEF CyclesInv, SearchInv
      <4>2. QED
        BY <2>1, <4>1 DEF Relations, Targets
    <3>2. (\A i \in 1..(Len(stack) - 1) : stack[i + 1] \in Targets(stack[i]))'
      <4>1. \A i \in 1..(Len(stack) - 1) : stack[i + 1] \in Targets(stack[i])
        BY DEF CyclesInv, SearchInv
      <4>2. QED
        BY <2>1, <4>1 DEF Targets
    <3>3. roots' \subseteq Node
      BY <1>1, <1>4
    <3>4. QED
      BY <2>1, <3>1, <3>2, <3>3 DEF CyclesInv, SearchInv
  <2>5. PathSupports'
    BY <2>1, <2>3 DEF CyclesInv, PathSupports
  <2>6. RootsRemain'
    BY <1>4, <1>6, <2>1, <2>3 DEF CyclesInv, RootsRemain
  <2>7. FollowedAreEntered'
    <3>1. \A i, t : Followed(i, t)' <=> Followed(i, t)
      BY <2>1 DEF Followed, Targets
    <3>2. QED
      BY <2>1, <2>2, <2>3, <3>1 DEF CyclesInv, FollowedAreEntered
  <2>8. LeftAreNoticed'
    BY <2>1, <2>2, <2>3 DEF CyclesInv, LeftAreNoticed
  <2>9. QED
    BY <2>2, <2>4, <2>5, <2>6, <2>7, <2>8 DEF CyclesInv
<1>7. QED
  BY <1>5, <1>6

LEMMA FollowKeeps == ASSUME CyclesInv, Follow PROVE CyclesInv'
<1>1. PICK r \in Last(todo) :
        \/ /\ colour[r[1]] = 1 /\ warnings' = Warned(Rotated(CycleTo(r[1])))
           /\ todo' = Rest(r) /\ UNCHANGED <<edges, twice, colour, stack>>
        \/ colour[r[1]] = 0 /\ Enter(r[1], Rest(r))
        \/ colour[r[1]] = 2 /\ todo' = Rest(r) /\ UNCHANGED <<edges, twice, colour, stack, warnings>>
  BY DEF Follow
<1>2. stack # <<>> /\ roots' = roots
  BY DEF Follow
<1>3. PICK k \in Nat :
        /\ k = Len(stack) /\ k \in 1..k /\ DOMAIN stack = 1..k /\ Len(todo) = k /\ DOMAIN todo = 1..k
        /\ todo \in Seq(SUBSET (Node \X {1, 2}))
  BY <1>2 DEF CyclesInv, SearchInv
<1>4. r \in todo[k] /\ r \in Relations(stack[k])
  BY <1>3 DEF CyclesInv, SearchInv, Last
<1>5. r[1] \in Node /\ r[1] \in Targets(Last(stack))
  BY <1>3, <1>4, RelationIs DEF Targets, Last
<1>6. CASE colour[r[1]] = 1 /\ warnings' = Warned(Rotated(CycleTo(r[1])))
           /\ todo' = Rest(r) /\ UNCHANGED <<edges, twice, colour, stack>>
  <2>1. PICK j \in DOMAIN stack : stack[j] = r[1]
    BY <1>5, <1>6 DEF CyclesInv, SearchInv, ToSet
  <2>2. PICK c : c = CycleTo(r[1])
    OBVIOUS
  <2>3. IsCycle(c) /\ \A m \in ToSet(c) : InOneCircle(r[1], m)
    BY <1>5, <2>1, <2>2, CycleToIsCycle DEF CyclesInv
  <2>4. /\ WarningsAreLed'
        /\ ToSet(warnings) \subseteq ToSet(warnings') /\ Rotated(c) \in ToSet(warnings')
    BY <1>6, <2>2, <2>3, WarnedIsLed DEF CyclesInv
  <2>5. ToSet(Rotated(c)) = ToSet(c)
    BY <2>3, RotatedIsLed
  <2>6. Noticed(r[1])'
    <3>1. \A m, q : InOneCircle(m, q)' <=> InOneCircle(m, q)
      BY <1>6, SupportStays
    <3>2. PICK d : d = Rotated(c)
      OBVIOUS
    <3>3. d \in ToSet(warnings') /\ \A m \in ToSet(d) : InOneCircle(r[1], m)
      BY <2>3, <2>4, <2>5, <3>2
    <3>4. QED
      BY <3>1, <3>3 DEF Noticed
  <2>7. QED
    BY <1>2, <1>6, <2>4, <2>6, FollowingKeeps
<1>7. CASE colour[r[1]] = 0 /\ Enter(r[1], Rest(r))
  <2>1. PICK rest : rest = Rest(r)
    OBVIOUS
  <2>2. rest = [todo EXCEPT ![k] = todo[k] \ {r}]
    BY <1>3, <2>1 DEF Rest
  <2>3. todo[k] \ {r} \in SUBSET (Node \X {1, 2})
    BY <1>3
  <2>4. /\ rest \in Seq(SUBSET (Node \X {1, 2})) /\ Len(rest) = k
        /\ \A i \in 1..k : i # k => rest[i] = todo[i]
        /\ rest[k] = todo[k] \ {r}
    BY <1>3, <2>2, <2>3
  <2>5. \A i \in 1..k : rest[i] \subseteq todo[i]
    BY <2>4
  <2>6. ASSUME NEW i \in 1..k, NEW t \in Node, <<t, 1>> \in todo[i], <<t, 1>> \notin rest[i]
        PROVE  t = r[1] /\ i = k
    <3>1. i = k
      BY <2>4, <2>6
    <3>2. <<t, 1>> = r
      BY <2>4, <2>6, <3>1
    <3>3. QED
      BY <3>1, <3>2
  <2>7. roots' \subseteq Node /\ roots \subseteq roots' \union {r[1]}
    BY <1>2 DEF CyclesInv, SearchInv
  <2>8. PICK n \in Node : n = r[1]
    BY <1>5
  <2>9. QED
    BY <1>3, <1>5, <1>7, <2>1, <2>4, <2>5, <2>6, <2>7, <2>8, EnterKeeps
<1>8. CASE colour[r[1]] = 2 /\ todo' = Rest(r) /\ UNCHANGED <<edges, twice, colour, stack, warnings>>
  <2>1. WarningsAreLed' /\ ToSet(warnings) \subseteq ToSet(warnings')
    BY <1>8, QuietStep DEF CyclesInv
  <2>2. QED
    BY <1>2, <1>8, <2>1, FollowingKeeps
<1>9. QED
  BY <1>1, <1>6, <1>7, <1>8

\* Where nothing is on the path, nothing was noticed and nothing that was left supports anything, all is well.
LEMMA CyclesBegin ==
  ASSUME edges \subseteq Node \X Node, roots = Roots, stack = <<>>, todo = <<>>, warnings = <<>>,
         colour \in [Node -> 0..2], \A n \in Node : colour[n] = 0 \/ (colour[n] = 2 /\ edges = {})
  PROVE  CyclesInv
<1>1. \A n \in Node : colour[n] = 2 => Targets(n) = {}
  BY DEF Targets
<1>2. SearchInv
  <2>1. ToSet(stack) = {n \in Node : colour[n] = 1}
    BY DEF ToSet
  <2>2. IsInjective(stack)
    BY DEF IsInjective
  <2>3. roots \subseteq Node
    BY DEF Roots
  <2>4. QED
    BY <2>1, <2>2, <2>3 DEF SearchInv
<1>3. PathSupports
  BY DEF PathSupports
<1>4. RootsRemain
  BY DEF RootsRemain, Roots
<1>5. FollowedAreEntered
  BY <1>1 DEF FollowedAreEntered
<1>6. LeftAreNoticed
  BY <1>1, CircleHasTargets DEF LeftAreNoticed
<1>7. WarningsAreLed
  <2>1. warnings \in Seq(Seq(Node)) /\ ToSet(warnings) = {} /\ IsInjective(warnings)
    BY DEF ToSet, IsInjective
  <2>2. QED
    BY <2>1 DEF WarningsAreLed, CyclesAreReal
<1>8. QED
  BY <1>2, <1>3, <1>4, <1>5, <1>6, <1>7 DEF CyclesInv

LEMMA CyclesStep == ASSUME CyclesInv, SearchNext \/ UNCHANGED cycleVars PROVE CyclesInv'
<1>1. CASE NextRoot
  BY <1>1, NextRootKeeps
<1>2. CASE Follow
  BY <1>2, FollowKeeps
<1>3. CASE Leave
  BY <1>3, LeaveKeeps
<1>4. CASE UNCHANGED cycleVars
  <2>1. /\ edges' = edges /\ twice' = twice /\ colour' = colour /\ stack' = stack /\ todo' = todo
        /\ warnings' = warnings /\ roots' = roots
    BY <1>4 DEF cycleVars
  <2>2. WarningsAreLed' /\ \A n : Noticed(n) => Noticed(n)'
    BY <2>1, QuietStep DEF CyclesInv
  <2>3. /\ \A m : Targets(m)' = Targets(m)
        /\ \A m, q : Supports(m, q)' <=> Supports(m, q)
        /\ \A m, q : InOneCircle(m, q)' <=> InOneCircle(m, q)
    BY <2>1, SupportStays
  <2>4. SearchInv'
    <3>1. (\A i \in DOMAIN todo : todo[i] \subseteq Relations(stack[i]))'
      <4>1. \A i \in DOMAIN todo : todo[i] \subseteq Relations(stack[i])
        BY DEF CyclesInv, SearchInv
      <4>2. QED
        BY <2>1, <4>1 DEF Relations, Targets
    <3>2. (\A i \in 1..(Len(stack) - 1) : stack[i + 1] \in Targets(stack[i]))'
      <4>1. \A i \in 1..(Len(stack) - 1) : stack[i + 1] \in Targets(stack[i])
        BY DEF CyclesInv, SearchInv
      <4>2. QED
        BY <2>1, <4>1 DEF Targets
    <3>3. QED
      BY <2>1, <3>1, <3>2 DEF CyclesInv, SearchInv
  <2>5. PathSupports' /\ RootsRemain'
    BY <2>1, <2>3 DEF CyclesInv, PathSupports, RootsRemain
  <2>6. FollowedAreEntered'
    <3>1. \A i, t : Followed(i, t)' <=> Followed(i, t)
      BY <2>1 DEF Followed, Targets
    <3>2. QED
      BY <2>1, <2>2, <2>3, <3>1 DEF CyclesInv, FollowedAreEntered
  <2>7. LeftAreNoticed'
    BY <2>1, <2>2, <2>3 DEF CyclesInv, LeftAreNoticed
  <2>8. QED
    BY <2>2, <2>4, <2>5, <2>6, <2>7 DEF CyclesInv
<1>5. QED
  BY <1>1, <1>2, <1>3, <1>4 DEF SearchNext, SearchEnded

\* What the invariant says of the warnings.
LEMMA CyclesConclude == ASSUME CyclesInv PROVE WarningsAreTheCycles
<1>1. SearchInv /\ CyclesAreReal
  BY DEF CyclesInv, WarningsAreLed
<1>2. OneCycleOneWarning
  <2>1. SUFFICES ASSUME NEW i \in DOMAIN warnings, NEW j \in DOMAIN warnings, NEW k \in DOMAIN warnings[i],
                        warnings[j] = Turned(warnings[i], k)
                 PROVE  i = j
    BY DEF OneCycleOneWarning, Turned
  <2>2. PICK a : a = warnings[i]
    OBVIOUS
  <2>3. /\ IsCycle(a) /\ LedByTheLeast(a) /\ LedByTheLeast(Turned(a, k))
    BY <2>1, <2>2 DEF CyclesInv, WarningsAreLed, CyclesAreReal, ToSet
  <2>4. k \in 1..Len(a)
    BY <2>2, <2>3 DEF IsCycle
  <2>5. warnings[j] = warnings[i]
    BY <2>1, <2>2, <2>3, <2>4, OneTurnIsLed
  <2>6. QED
    BY <2>5 DEF CyclesInv, WarningsAreLed, IsInjective
<1>3. EveryCircleIsNoticed
  <2>1. SUFFICES ASSUME roots = {}, stack = <<>>, NEW n \in Node, Supports(n, n) PROVE Noticed(n)
    BY DEF EveryCircleIsNoticed, Searched
  <2>2. \A m \in Node : colour[m] # 1
    BY <2>1 DEF CyclesInv, SearchInv, ToSet
  <2>3. colour[n] # 0
    BY <2>1, CircleHasTargets DEF CyclesInv, RootsRemain
  <2>4. colour[n] = 2
    BY <2>2, <2>3 DEF CyclesInv, SearchInv
  <2>5. QED
    BY <2>1, <2>2, <2>4 DEF CyclesInv, LeftAreNoticed
<1>4. QED
  BY <1>1, <1>2, <1>3 DEF WarningsAreTheCycles

--------------------------------------------------------------------------------
(* The other findings about the system of an asset.                            *)

\* The row of a relation.
RowOf(payload, i) ==
  [id |-> i, kind |-> payload.relations[i].kind, source |-> payload.relations[i].source,
   target |-> payload.relations[i].target]

LEMMA NormalizedIs ==
  ASSUME NEW payload
  PROVE  \A r : r \in Normalized(payload) <=> \E i \in Relation : payload.relations[i] # Void /\ r = RowOf(payload, i)
BY DEF Normalized, RowOf

\* The payload without its complement relations.
Bare(payload) ==
  [payload EXCEPT !.relations = [i \in Relation |-> IF @[i] # Void /\ @[i].kind = "complement" THEN Void ELSE @[i]]]

APayload(payload) == payload \in Payloads({1, 2}, RelationRecords, Relation)

LEMMA BareIs ==
  ASSUME NEW payload, APayload(payload), NEW i \in Relation
  PROVE  Bare(payload).relations[i] =
           IF payload.relations[i] # Void /\ payload.relations[i].kind = "complement" THEN Void ELSE payload.relations[i]
BY DEF APayload, Payloads, Bare

LEMMA BareRows ==
  ASSUME NEW payload, APayload(payload)
  PROVE  Normalized(Bare(payload)) = {r \in Normalized(payload) : r.kind # "complement"}
<1>1. PICK bare : bare = Bare(payload)
  OBVIOUS
<1>2. \A i \in Relation : bare.relations[i] =
        IF payload.relations[i] # Void /\ payload.relations[i].kind = "complement" THEN Void ELSE payload.relations[i]
  BY <1>1, BareIs
<1>3. \A r : r \in Normalized(bare) <=> \E i \in Relation : bare.relations[i] # Void /\ r = RowOf(bare, i)
  BY NormalizedIs
<1>4. \A r : r \in Normalized(payload) <=> \E i \in Relation : payload.relations[i] # Void /\ r = RowOf(payload, i)
  BY NormalizedIs
<1>5. \A i : RowOf(payload, i).kind = payload.relations[i].kind
  BY DEF RowOf
<1>6. \A i \in Relation : bare.relations[i] = payload.relations[i] => RowOf(bare, i) = RowOf(payload, i)
  BY DEF RowOf
<1>7. ASSUME NEW r \in Normalized(bare) PROVE r \in Normalized(payload) /\ r.kind # "complement"
  <2>1. PICK i \in Relation : bare.relations[i] # Void /\ r = RowOf(bare, i)
    BY <1>3
  <2>2. bare.relations[i] = payload.relations[i] /\ payload.relations[i] # Void /\ payload.relations[i].kind # "complement"
    BY <1>2, <2>1
  <2>3. QED
    BY <1>4, <1>5, <1>6, <2>1, <2>2
<1>8. ASSUME NEW r \in Normalized(payload), r.kind # "complement" PROVE r \in Normalized(bare)
  <2>1. PICK i \in Relation : payload.relations[i] # Void /\ r = RowOf(payload, i)
    BY <1>4
  <2>2. payload.relations[i].kind # "complement"
    BY <1>5, <1>8, <2>1
  <2>3. bare.relations[i] = payload.relations[i]
    BY <1>2, <2>2
  <2>4. QED
    BY <1>3, <1>6, <2>1, <2>3
<1>9. QED
  BY <1>1, <1>7, <1>8

\* What is warned about does not depend on the complement rows.
LEMMA ComplementIsUnread ==
  ASSUME NEW rows, NEW fewer, fewer = {r \in rows : r.kind # "complement"}
  PROVE  Warnings(rows) = Warnings(fewer)
<1>1. \A kind \in {"support", "conflict"} :
        {q \in rows : q.kind = kind /\ q.target # Void} = {q \in fewer : q.kind = kind /\ q.target # Void}
  OBVIOUS
<1>2. ConflictPairs(rows) = ConflictPairs(fewer)
  BY <1>1 DEF ConflictPairs
<1>3. {r \in rows : r.kind \in {"support", "qualify"}} = {r \in fewer : r.kind \in {"support", "qualify"}}
  OBVIOUS
<1>4. WithdrawnUpstream(rows) = WithdrawnUpstream(fewer)
  BY <1>3 DEF WithdrawnUpstream
<1>5. QED
  BY <1>2, <1>4 DEF Warnings

LEMMA CleanOrder ==
  ASSUME order \in Orders, OrderWarnings = {} PROVE order.n - order.repeated >= order.scope
<1>1. order.n \in 0..3 /\ order.repeated \in 0..1 /\ order.scope \in 0..3
  BY DEF Orders
<1>2. order.repeated = 0
  <2>1. SUFFICES ASSUME order.repeated = 1 PROVE FALSE
    BY <1>1
  <2>2. "duplicate" \in {"duplicate" : x \in 1..order.repeated}
    <3>1. 1 \in 1..order.repeated
      BY <2>1
    <3>2. QED
      BY <3>1
  <2>3. QED
    BY <2>2 DEF OrderWarnings
<1>3. ~(order.n < order.scope)
  BY DEF OrderWarnings
<1>4. QED
  BY <1>1, <1>2, <1>3

\* The edges that lead from what changed to what did not.
Via(before, after) ==
  {e \in Considered(before, after) : e.from \in Changed(before, after) /\ e.to \notin Changed(before, after)}

Affected(before, after) == {d.judgment : d \in Downstream(before, after)}

LEMMA DownstreamIs ==
  ASSUME NEW before, NEW after
  PROVE  Affected(before, after) = {e.to : e \in Via(before, after)}
<1> DEFINE state(e) == IF e \in DependencyEdges(Normalized(after)) THEN "in_produced_asset"
                       ELSE "changed_by_this_revision"
           entry(j) == [judgment |-> j, via |-> {<<e, state(e)>> : e \in {d \in Via(before, after) : d.to = j}}]
<1>1. Downstream(before, after) = {entry(j) : j \in {e.to : e \in Via(before, after)}}
  BY DEF Downstream, Via
<1>2. \A j : entry(j).judgment = j
  OBVIOUS
<1> HIDE DEF entry
<1>3. \A j : j \in Affected(before, after) <=> \E d \in Downstream(before, after) : j = d.judgment
  BY DEF Affected
<1>4. \A d : d \in Downstream(before, after) <=> \E e \in Via(before, after) : d = entry(e.to)
  BY <1>1
<1>5. \A j : j \in Affected(before, after) <=> \E e \in Via(before, after) : j = e.to
  BY <1>2, <1>3, <1>4
<1>6. QED
  BY <1>5

LEMMA ViaUndone == ASSUME NEW before, NEW after PROVE Via(before, after) = Via(after, before)
<1>1. Changed(before, after) = Changed(after, before)
  BY DEF Changed
<1>2. Considered(before, after) = Considered(after, before)
  BY DEF Considered
<1>3. QED
  BY <1>1, <1>2 DEF Via

\* Every row but a complement is an edge, and a conflict is one both ways.
LEMMA EdgesOf ==
  ASSUME NEW payload, NEW i \in Relation, payload.relations[i] # Void, payload.relations[i].target # Void,
         payload.relations[i].kind # "complement"
  PROVE  LET r == payload.relations[i] edges_ == DependencyEdges(Normalized(payload)) IN
         /\ \E e \in edges_ : e.from = r.source /\ e.to = r.target
         /\ r.kind = "conflict" => \E e \in edges_ : e.from = r.target /\ e.to = r.source
<1>1. PICK row : row = RowOf(payload, i)
  OBVIOUS
<1>2. /\ row.kind = payload.relations[i].kind /\ row.source = payload.relations[i].source
      /\ row.target = payload.relations[i].target
  BY <1>1 DEF RowOf
<1>3. row \in Normalized(payload)
  BY <1>1, NormalizedIs
<1>4. Edge(row, row.source, row.target) \in DependencyEdges(Normalized(payload))
  BY <1>2, <1>3 DEF DependencyEdges
<1>5. row.kind = "conflict" => Edge(row, row.target, row.source) \in DependencyEdges(Normalized(payload))
  BY <1>2, <1>3 DEF DependencyEdges
<1>6. \A a, b : Edge(row, a, b).from = a /\ Edge(row, a, b).to = b
  BY DEF Edge
<1>7. QED
  BY <1>2, <1>4, <1>5, <1>6

LEMMA NobodyIsMissed ==
  ASSUME NEW before, NEW after, NEW j \in Judgment, j \notin Changed(before, after),
         j \notin Affected(before, after),
         NEW payload \in {before, after}, NEW i \in Relation, payload.relations[i] # Void,
         payload.relations[i].target # Void, payload.relations[i].kind # "complement"
  PROVE  /\ payload.relations[i].target = j => payload.relations[i].source \notin Changed(before, after)
         /\ payload.relations[i].kind = "conflict" /\ payload.relations[i].source = j
              => payload.relations[i].target \notin Changed(before, after)
<1>1. DependencyEdges(Normalized(payload)) \subseteq Considered(before, after)
  BY DEF Considered
<1>2. \A e \in Considered(before, after) : e.to = j => e.from \notin Changed(before, after)
  <2>1. SUFFICES ASSUME NEW e \in Considered(before, after), e.to = j, e.from \in Changed(before, after)
                 PROVE  FALSE
    OBVIOUS
  <2>2. e \in Via(before, after)
    BY <2>1 DEF Via
  <2>3. QED
    BY <2>1, <2>2, DownstreamIs
<1>3. PICK r, all : r = payload.relations[i] /\ all = DependencyEdges(Normalized(payload))
  OBVIOUS
<1>4. /\ \E e \in all : e.from = r.source /\ e.to = r.target
      /\ r.kind = "conflict" => \E e \in all : e.from = r.target /\ e.to = r.source
  BY <1>3, EdgesOf
<1>5. QED
  BY <1>1, <1>2, <1>3, <1>4

(***************************************************************************)
(* Both together.                                                          *)
(***************************************************************************)

\* Two payloads and an order, the search as it should be, and what was computed is what was asked for.
SystemInv ==
  /\ APayload(original) /\ APayload(edited) /\ order \in Orders
  /\ CyclesInv
  /\ stage = "checked" => findings = Warnings(Normalized(original))
  /\ stage = "reported" => findings = Downstream(original, edited)

LEMMA SystemBegins == SystemInit => SystemInv
<1> SUFFICES ASSUME SystemInit PROVE SystemInv
  OBVIOUS
<1>1. APayload(Empty)
  BY DEF APayload, Payloads, Empty
<1>2. Unordered \in Orders
  BY DEF Unordered, Orders
<1>3. CASE Search
  <2>1. edges \subseteq Node \X Node /\ colour = [n \in Node |-> 0]
    BY <1>3 DEF Search, SearchInit
  <2>2. /\ roots = Roots /\ stack = <<>> /\ todo = <<>> /\ warnings = <<>>
        /\ colour \in [Node -> 0..2] /\ \A n \in Node : colour[n] = 0
    BY <1>3, <2>1 DEF Search, SearchInit
  <2> CyclesInv
    BY <2>1, <2>2, CyclesBegin
  <2>3. QED
    BY <1>1, <1>2, <1>3 DEF SystemInv, Search
<1>4. CASE Given
  <2>1. edges = {} /\ roots = {} /\ colour = [n \in Node |-> 2] /\ stack = <<>> /\ todo = <<>> /\ warnings = <<>>
    BY <1>4 DEF Given
  <2>2. Roots = {}
    BY <2>1 DEF Roots, Targets
  <2>3. CyclesInv
    BY <2>1, <2>2, CyclesBegin
  <2>4. \A texts \in {{1}, {1, 2}} : \A ids \in {Relation, Revised} :
          \A p \in Payloads(texts, RelationRecords, ids) : APayload(p)
    BY DEF APayload, Payloads
  <2>5. APayload(original) /\ APayload(edited) /\ order \in Orders /\ stage = "given"
    BY <1>1, <1>2, <1>4, <2>4 DEF Given
  <2>6. QED
    BY <2>3, <2>5 DEF SystemInv
<1>5. QED
  BY <1>3, <1>4 DEF SystemInit

LEMMA SystemStep == SystemInv /\ [SystemNext]_<<cycleVars, checkVars>> => SystemInv'
<1> SUFFICES ASSUME SystemInv, [SystemNext]_<<cycleVars, checkVars>> PROVE SystemInv'
  OBVIOUS
<1>1. CASE SearchStep
  <2>1. CyclesInv'
    BY <1>1, CyclesStep DEF SystemInv, SearchStep
  <2>2. original' = original /\ edited' = edited /\ order' = order /\ stage' = stage /\ findings' = findings /\ stage = "search"
    BY <1>1 DEF SearchStep, checkVars
  <2>3. QED
    BY <2>1, <2>2 DEF SystemInv, APayload
<1>2. CASE Check
  <2>1. CyclesInv'
    BY <1>2, CyclesStep DEF SystemInv, Check
  <2>2. /\ original' = original /\ edited' = edited /\ order' = order /\ lifecycle' = lifecycle
        /\ stage' = "checked" /\ findings' = Warnings(Normalized(original))
    BY <1>2 DEF Check
  <2>3. Warnings(Normalized(original))' = Warnings(Normalized(original))
    BY <2>2 DEF Warnings, Normalized, ConflictPairs, WithdrawnUpstream, OrderWarnings
  <2>4. QED
    BY <2>1, <2>2, <2>3 DEF SystemInv, APayload
<1>3. CASE ReportChange
  <2>1. CyclesInv'
    BY <1>3, CyclesStep DEF SystemInv, ReportChange
  <2>2. /\ original' = original /\ edited' = edited /\ order' = order
        /\ stage' = "reported" /\ findings' = Downstream(original, edited)
    BY <1>3 DEF ReportChange
  <2>3. QED
    BY <2>1, <2>2 DEF SystemInv, APayload
<1>4. CASE Computed \/ UNCHANGED <<cycleVars, checkVars>>
  <2>1. CyclesInv'
    BY <1>4, CyclesStep DEF SystemInv, Computed
  <2>2. /\ original' = original /\ edited' = edited /\ order' = order /\ lifecycle' = lifecycle
        /\ stage' = stage /\ findings' = findings
    BY <1>4 DEF Computed, checkVars
  <2>3. Warnings(Normalized(original))' = Warnings(Normalized(original))
    BY <2>2 DEF Warnings, Normalized, ConflictPairs, WithdrawnUpstream, OrderWarnings
  <2>4. QED
    BY <2>1, <2>2, <2>3 DEF SystemInv, APayload
<1>5. QED
  BY <1>1, <1>2, <1>3, <1>4 DEF SystemNext

LEMMA SystemConclude == SystemInv => SystemIsReported
<1> SUFFICES ASSUME SystemInv PROVE SystemIsReported
  OBVIOUS
<1>1. WarningsAreTheCycles
  BY CyclesConclude DEF SystemInv
<1>2. ComplementIsNeutral
  <2>1. Warnings(Normalized(original)) = Warnings(Normalized(Bare(original)))
    BY BareRows, ComplementIsUnread DEF SystemInv
  <2>2. QED
    BY <2>1 DEF SystemInv, ComplementIsNeutral, Bare
<1>3. CleanOrderIsLongEnough
  <2>1. Warnings(Normalized(original)).order = OrderWarnings
    BY DEF Warnings
  <2>2. QED
    BY <2>1, CleanOrder DEF SystemInv, CleanOrderIsLongEnough
<1>4. UndoAffectsTheSame
  <2>1. Affected(original, edited) = Affected(edited, original)
    BY DownstreamIs, ViaUndone
  <2>2. QED
    BY <2>1 DEF SystemInv, UndoAffectsTheSame, Affected
<1>5. NobodyAffectedIsMissed
  <2>1. SUFFICES ASSUME stage = "reported",
                        NEW j \in Judgment \ (Changed(original, edited) \union Affected(original, edited)),
                        NEW payload \in {original, edited}, NEW i \in Relation, payload.relations[i] # Void,
                        payload.relations[i].target # Void, payload.relations[i].kind # "complement"
                 PROVE  /\ payload.relations[i].target = j => payload.relations[i].source \notin Changed(original, edited)
                        /\ payload.relations[i].kind = "conflict" /\ payload.relations[i].source = j
                             => payload.relations[i].target \notin Changed(original, edited)
    BY DEF SystemInv, NobodyAffectedIsMissed, Affected
  <2>2. QED
    BY <2>1, NobodyIsMissed
<1>6. QED
  BY <1>1, <1>2, <1>3, <1>4, <1>5 DEF SystemIsReported, WarningsFollowTheKinds, ReportIsWhole

\* For every asset, with any number of judgments and of relations followed in any order: the cycles that
\* `validate --system` warns about are cycles, each is named once however the search came to it, and no circle
\* of support is passed over.
THEOREM CyclesAreReported == SystemSpec => []WarningsAreTheCycles
<1>1. SystemInit => SystemInv
  BY SystemBegins
<1>2. SystemInv /\ [SystemNext]_<<cycleVars, checkVars>> => SystemInv'
  BY SystemStep
<1>3. SystemInv => WarningsAreTheCycles
  BY CyclesConclude DEF SystemInv
<1>4. QED
  BY <1>1, <1>2, <1>3, PTL DEF SystemSpec

\* All that is said about an asset's system: those cycles, the other warnings, which follow the kinds of its relations,
\* and the report of a revision, which passes over nobody whom the revision or its undoing touches.
THEOREM RevisionsAreReported == SystemSpec => []SystemIsReported
<1>1. SystemInit => SystemInv
  BY SystemBegins
<1>2. SystemInv /\ [SystemNext]_<<cycleVars, checkVars>> => SystemInv'
  BY SystemStep
<1>3. SystemInv => SystemIsReported
  BY SystemConclude
<1>4. QED
  BY <1>1, <1>2, <1>3, PTL DEF SystemSpec
================================================================================
