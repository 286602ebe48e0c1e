------------------------------- MODULE ReadSession -------------------------------
(***************************************************************************)
(* The read command of runWithOutput in src/public-cli.js: its consent and *)
(* view options, the loop over session lines, the snapshot retained from   *)
(* the first admitted line, the host provider, the delivered answer and    *)
(* the expansion handles kept for later lines.                             *)
(*                                                                         *)
(* The asset file may be rewritten between any two steps and the clock is  *)
(* read anew wherever the code calls now().  Core and Read are external:   *)
(* they may refuse what they are given; of Read's readRetainedSection the  *)
(* model keeps what the caller can see: it asks the host twice, refuses a  *)
(* handle it did not register or whose window is over, delivers its result *)
(* through the host unless it is a transport failure, and registers the    *)
(* handles of a delivered ready result.                                    *)
(***************************************************************************)
EXTENDS Naturals, Sequences, FiniteSets, FiniteSetsExt

CONSTANTS
  Version,     \* the admissible contents the asset file may have
  Bad,         \* contents that Core does not admit
  Nil,        \* no snapshot, no content, no handle
  HandleId,    \* the handles Read may issue
  Window,      \* 60000 ms, the life of a host decision, in clock steps
  MaxTime,     \* bound: the clock stops there
  MaxLines     \* bound: the lines a client sends

ASSUME ReadAssumption ==
  /\ Bad \notin Version \union {Nil}
  /\ Nil \notin Version \union HandleId \union [content : Version, issued : Nat, expires : Nat]
  /\ Window \in Nat \ {0} /\ MaxTime \in Nat /\ MaxLines \in Nat

VARIABLES
  opt,        \* the parsed options, and what the installed Read package offers
  contents,   \* the contents of the asset file now
  now,        \* the clock
  at,         \* what the operation does next
  line,       \* the requests taken: session lines, or the one request
  request,    \* the request being answered
  retained,   \* retainedSnapshot: the contents it was admitted from
  viewed,     \* retainedView is not null
  issued,     \* issued[h]: the handle, once Read has minted it
  registered, \* the handles Read has registered with the host provider
  kept,       \* sessionHandles
  result,     \* what readRetainedSection ends with, and (for the properties) the true clock then
  delivered, projectionFailure,  \* the two flags of one read
  answers,    \* the answers written, in order
  code,       \* the exit code so far
  exit        \* how the run has ended

readVars == <<opt, contents, now, at, line, request, retained, viewed, issued,
          registered, kept, result, delivered, projectionFailure, answers, code, exit>>

world == <<contents, now>>
handles == <<issued, registered, kept>>
flags == <<delivered, projectionFailure>>

Option == [allow : BOOLEAN, session : BOOLEAN, accept : BOOLEAN, args : BOOLEAN,
           view : {"none", "body", "full", "raw", "bad"},
           modelView : {"none", "projects", "collects"}]

\* `id` is a compact handle_id, `handle` a handle object, `ok` whether Core admits the request.
Request == [mode : {"content", "expand"}, id : HandleId \union {Nil},
            handle : HandleId \union {Nil}, ok : BOOLEAN]

Nothing == [mode |-> "content", id |-> Nil, handle |-> Nil, ok |-> FALSE]
Unread == [status |-> "none", content |-> Nil, minted |-> {}, time |-> 0, clock |-> 0]

ReadInit ==
  /\ opt \in {o \in Option : o.session => o.args}
  /\ contents \in Version \union {Bad} /\ now = 0
  /\ at = "start" /\ line = 0 /\ request = Nothing
  /\ retained = Nil /\ viewed = FALSE
  /\ issued = [h \in HandleId |-> Nil] /\ registered = {} /\ kept = {}
  /\ result = Unread /\ delivered = FALSE /\ projectionFailure = FALSE
  /\ answers = <<>> /\ code = 0 /\ exit = "pending"

--------------------------------------------------------------------------------
(* Answers.  Writing one either succeeds or ends the run: the output has       *)
(* failed, and every later write throws that failure.                          *)

Answer(status, content, minted) ==
  [line |-> line', status |-> status, content |-> content, minted |-> minted,
   handle |-> request'.handle, clock |-> result'.clock]

Emit(answer) == answers' = Append(answers, answer)

OutputFails ==
  /\ at' = "end" /\ exit' = "failed"
  /\ UNCHANGED <<opt, world, line, request, retained, viewed, handles, result, flags, answers, code>>

Plain(status) == Emit(Answer(status, Nil, {}))

\* Mutant of Settle: the code of the last line alone is returned.
SettleLast(own) ==
  /\ code' = own
  /\ IF opt.session THEN at' = "line" /\ UNCHANGED exit
     ELSE at' = "end" /\ exit' = "returned"

\* The end of one request: code = Math.max(code, ...) and the next line, or the one-shot exit.
Settle(own) ==
  /\ code' = IF own > code THEN own ELSE code
  /\ IF opt.session THEN at' = "line" /\ UNCHANGED exit
     ELSE at' = "end" /\ exit' = "returned"

\* return unavailable(...): whatever the lines before it returned, the run exits with 2.
Abort == at' = "end" /\ exit' = "returned" /\ code' = 2

--------------------------------------------------------------------------------
(* Consent, options and the line that asks.                                    *)

OptionsRefused ==
  \/ opt.view = "bad"
  \/ opt.view = "raw" /\ opt.accept
  \/ opt.view = "body" /\ opt.modelView = "none"
  \/ opt.accept /\ opt.modelView = "none"
  \/ ~opt.session /\ ~opt.args   \* budget, mode expand, or a selection the mode does not take

StartRead ==
  /\ at = "start"
  /\ UNCHANGED <<opt, world, retained, viewed, handles, result, flags>>
  /\ \/ /\ ~opt.allow
        /\ line' = 1 /\ UNCHANGED request
        /\ Plain("rejected") /\ at' = "end" /\ exit' = "returned" /\ code' = 1
     \/ /\ opt.allow /\ OptionsRefused
        /\ line' = 1 /\ UNCHANGED request /\ Plain("aborted") /\ Abort
     \/ /\ opt.allow /\ ~OptionsRefused /\ opt.session
        /\ at' = "line" /\ UNCHANGED <<line, request, answers, code, exit>>
     \/ /\ opt.allow /\ ~OptionsRefused /\ ~opt.session
        /\ \E ok \in BOOLEAN : request' = [Nothing EXCEPT !.ok = ok]
        /\ line' = 1 /\ at' = "read" /\ UNCHANGED <<answers, code, exit>>

\* sessionHandles exists, and it holds the id as a handle of this snapshot that is not past its window.
Resolves(h) ==
  /\ opt.modelView = "collects" /\ h \in kept
  /\ viewed => issued[h].content = retained
  /\ now < issued[h].expires

TakeLine ==
  /\ at = "line" /\ line < MaxLines
  /\ line' = line + 1
  /\ UNCHANGED <<opt, world, retained, viewed, handles, result, flags>>
  /\ \E r \in Request :
       \/ /\ r.id = Nil
          /\ request' = r /\ at' = "read" /\ UNCHANGED <<answers, code, exit>>
       \/ /\ r.id # Nil /\ (r.mode # "expand" \/ r.handle # Nil)
          /\ request' = Nothing /\ Plain("aborted") /\ Abort
       \/ /\ r.id # Nil /\ r.mode = "expand" /\ r.handle = Nil
          /\ IF Resolves(r.id)
             THEN /\ request' = [r EXCEPT !.handle = r.id, !.id = Nil]
                  /\ at' = "read" /\ UNCHANGED <<answers, code, exit>>
             ELSE request' = Nothing /\ Plain("unresolved") /\ Settle(2)

\* A line that is not JSON, or too long: the generator throws and the loop ends.
TakeUnusable ==
  /\ at = "line" /\ line < MaxLines
  /\ line' = line + 1 /\ request' = Nothing
  /\ UNCHANGED <<opt, world, retained, viewed, handles, result, flags>>
  /\ Plain("aborted") /\ Abort

EndOfInput ==
  /\ at = "line"
  /\ at' = "end" /\ exit' = "returned"
  /\ UNCHANGED <<opt, world, line, request, retained, viewed, handles, result, flags, answers, code>>

--------------------------------------------------------------------------------
(* read(): admission, the retained snapshot, preparation.                      *)

\* Mutant of NeedsSnapshot: the file is captured again for every line.
NeedsSnapshotAlways == TRUE

NeedsSnapshot == retained = Nil

Admit ==
  /\ at = "read"
  /\ UNCHANGED <<opt, world, line, request, retained, viewed, handles, result, flags>>
  /\ IF request.ok
     THEN at' = (IF NeedsSnapshot THEN "whole" ELSE "prepare") /\ UNCHANGED <<answers, code, exit>>
     ELSE Plain("rejected") /\ Settle(1)

\* Mutant of Whole: the view is taken for attested before it is looked at.
WholeUnattested ==
  /\ at = "whole"
  /\ UNCHANGED <<opt, world, line, request, handles, result, flags>>
  /\ \/ viewed' = TRUE /\ UNCHANGED retained /\ Plain("rejected") /\ Settle(1)
     \/ /\ contents # Bad /\ retained' = contents /\ viewed' = TRUE
        /\ at' = "prepare" /\ UNCHANGED <<answers, code, exit>>

\* whole(): the file is captured and admitted.  Only an accepted admission is retained.
Whole ==
  /\ at = "whole"
  /\ UNCHANGED <<opt, world, line, request, handles, result, flags>>
  /\ \/ /\ Plain("rejected") /\ Settle(1) /\ UNCHANGED <<retained, viewed>>
     \/ /\ contents # Bad /\ retained' = contents
        /\ \/ viewed' = TRUE /\ at' = "prepare" /\ UNCHANGED <<answers, code, exit>>
           \/ viewed' = FALSE /\ Plain("rejected") /\ Settle(1)

\* Mutant of Prepare: no `delivered = false`
PrepareKeepsDelivered ==
  /\ at = "prepare"
  /\ UNCHANGED <<opt, world, line, request, retained, viewed, handles, result>>
  /\ \/ Plain("rejected") /\ Settle(1) /\ UNCHANGED flags
     \/ /\ projectionFailure' = FALSE /\ UNCHANGED delivered
        /\ at' = "observe" /\ UNCHANGED <<answers, code, exit>>

\* Mutant of Prepare: no `projectionFailure = null`
PrepareKeepsFailure ==
  /\ at = "prepare"
  /\ UNCHANGED <<opt, world, line, request, retained, viewed, handles, result>>
  /\ \/ Plain("rejected") /\ Settle(1) /\ UNCHANGED flags
     \/ /\ delivered' = FALSE /\ UNCHANGED projectionFailure
        /\ at' = "observe" /\ UNCHANGED <<answers, code, exit>>

Prepare ==
  /\ at = "prepare"
  /\ UNCHANGED <<opt, world, line, request, retained, viewed, handles, result>>
  /\ \/ Plain("rejected") /\ Settle(1) /\ UNCHANGED flags
     \/ /\ delivered' = FALSE /\ projectionFailure' = FALSE
        /\ at' = "observe" /\ UNCHANGED <<answers, code, exit>>

--------------------------------------------------------------------------------
(* readRetainedSection with this host provider.                                *)

\* Mutant of ObservedAt: now() is taken once, when the run starts.
ObservedAtStart == 0

\* observe(): the host states its clock; with no view its scope cannot be read and it throws.
ObservedAt == now

HostAllows ==
  /\ viewed
  /\ request.handle # Nil =>
       /\ request.handle \in registered
       /\ issued[request.handle].issued <= ObservedAt
       /\ ObservedAt < issued[request.handle].expires

RefusedRead == [Unread EXCEPT !.status = "rejected", !.time = ObservedAt, !.clock = now]

Observe ==
  /\ at = "observe"
  /\ \/ HostAllows /\ at' = "observeAgain" /\ UNCHANGED result
     \/ result' = RefusedRead /\ at' = "deliver"
  /\ UNCHANGED <<opt, world, line, request, retained, viewed, handles, flags, answers, code, exit>>

\* The second observation is the one the answer is stamped with, and handles are issued under it.
ObserveAgain ==
  /\ at = "observeAgain"
  /\ \/ /\ HostAllows
        /\ \E minted \in SUBSET {h \in HandleId : issued[h] = Nil} :
             /\ Cardinality(minted) <= 1
             /\ result' = [status |-> "ready", content |-> retained, minted |-> minted,
                           time |-> ObservedAt, clock |-> now]
             /\ issued' = [h \in HandleId |->
                  IF h \in minted
                  THEN [content |-> retained, issued |-> ObservedAt, expires |-> ObservedAt + Window]
                  ELSE issued[h]]
     \/ /\ \E status \in {"rejected", "control", "transport"} :
             result' = [RefusedRead EXCEPT !.status = status]
        /\ UNCHANGED issued
  /\ at' = "deliver"
  /\ UNCHANGED <<opt, world, line, request, retained, viewed, registered, kept, flags,
                 answers, code, exit>>

\* projected(): raw, and every surface without the capability, is the library's own result.
Projects == opt.view # "raw" /\ opt.modelView # "none"

\* deliver(): the projected result is written, then the delivered handles are registered.
Deliver ==
  /\ at = "deliver"
  /\ at' = "finish"
  /\ UNCHANGED <<opt, world, line, request, retained, viewed, issued, kept, result, code, exit>>
  /\ IF result.status = "transport" THEN UNCHANGED <<flags, registered, answers>>
     ELSE /\ delivered' = TRUE
          /\ \/ projectionFailure' = projectionFailure
                /\ Emit(Answer(result.status, result.content, result.minted))
             \/ Projects /\ projectionFailure' = TRUE /\ Plain("refused")
          /\ registered' = IF result.status = "ready"
               THEN {h \in registered : issued[h].expires > result.time} \union result.minted
               ELSE registered

\* if (projectionFailure) return 2 comes before the handles are collected.
Collect ==
  IF opt.session /\ opt.modelView = "collects" /\ ~projectionFailure
  THEN kept' = kept \union result.minted ELSE UNCHANGED kept

\* What read() returns: the failure of the projection before the result.
Returned == IF projectionFailure THEN 2 ELSE IF result.status = "ready" THEN 0 ELSE 1

FinishRead ==
  /\ at = "finish"
  /\ result' = Unread /\ request' = Nothing
  /\ UNCHANGED <<opt, world, line, retained, viewed, issued, registered, flags>>
  /\ IF delivered THEN UNCHANGED answers ELSE Plain(result.status)
  /\ Collect
  /\ Settle(Returned)

--------------------------------------------------------------------------------
(* The environment: the file is rewritten, the clock moves, the output fails.  *)

Rewrite ==
  /\ at # "end" /\ contents' \in (Version \union {Bad}) \ {contents}
  /\ UNCHANGED <<opt, now, at, line, request, retained, viewed, handles, result, flags, answers, code, exit>>

\* Date.now() may be set back as well.
ClockMoves ==
  /\ at # "end" /\ now' \in (0..MaxTime) \ {now}
  /\ UNCHANGED <<opt, contents, at, line, request, retained, viewed, handles, result, flags, answers, code, exit>>

ReadFails == at \notin {"end"} /\ OutputFails

--------------------------------------------------------------------------------
ReadDone == at = "end" /\ UNCHANGED readVars

ReadNext ==
  \/ StartRead \/ TakeLine \/ TakeUnusable \/ EndOfInput \/ Admit \/ Whole \/ Prepare
  \/ Observe \/ ObserveAgain \/ Deliver \/ FinishRead \/ Rewrite \/ ClockMoves \/ ReadFails \/ ReadDone

ReadSpec == ReadInit /\ [][ReadNext]_readVars

--------------------------------------------------------------------------------
(* Properties.                                                                 *)

Status == {"ready", "rejected", "control", "transport", "refused", "unresolved", "aborted"}
Told == [line : Nat, status : Status, content : Version \union {Nil}, minted : SUBSET HandleId,
         handle : HandleId \union {Nil}, clock : Nat]
Result == [status : {"none", "ready", "rejected", "control", "transport"}, content : Version \union {Nil},
           minted : SUBSET HandleId, time : Nat, clock : Nat]
Handle == [content : Version, issued : Nat, expires : Nat]

\* The variables keep their shape, and a view exists only beside a retained snapshot.
ReadTypeInv ==
  /\ opt \in Option /\ contents \in Version \union {Bad} /\ now \in 0..MaxTime
  /\ at \in {"start", "line", "read", "whole", "prepare", "observe", "observeAgain",
             "deliver", "finish", "end"}
  /\ line \in 0..(MaxLines + 1) /\ request \in Request
  /\ retained \in Version \union {Nil} /\ viewed \in BOOLEAN /\ (viewed => retained # Nil)
  /\ issued \in [HandleId -> {Nil} \union Handle]
  /\ registered \subseteq HandleId /\ kept \subseteq HandleId
  /\ result \in Result
  /\ delivered \in BOOLEAN /\ projectionFailure \in BOOLEAN
  /\ answers \in Seq(Told)
  /\ code \in 0..2 /\ exit \in {"pending", "returned", "failed"}

\* "One public result per output line": when the run waits for the next line, or has ended with
\* its output alive, every request taken has exactly one answer, and they are in their order.
OneAnswerPerLine ==
  /\ \A i \in DOMAIN answers : answers[i].line = i
  /\ (at = "line" \/ (at = "end" /\ exit # "failed")) => Len(answers) = line

\* Whatever happens to the file, everything a session is told about the asset comes from the one
\* snapshot it retained, and from a snapshot whose view was attested.
OneSnapshotPerSession ==
  \A i \in DOMAIN answers : answers[i].content # Nil => answers[i].content = retained /\ viewed

\* A compact id can be resolved exactly if an answer of this session has shown it: the handles of
\* a result that was replaced by a projection refusal are not kept, and those of a later answer
\* are kept although an earlier one was refused.
Shown == UNION {answers[i].minted : i \in DOMAIN answers}

KeptIsWhatWasShown ==
  kept \subseteq Shown /\ (at = "line" /\ opt.modelView = "collects" => kept = Shown)

\* An expansion is answered only inside the window of its handle, by the clock at the moment Read
\* makes the answer, however long ago the id was resolved.
ExpansionInsideWindow ==
  \A i \in DOMAIN answers :
    answers[i].content # Nil /\ answers[i].handle # Nil =>
      /\ issued[answers[i].handle].issued <= answers[i].clock
      /\ answers[i].clock < issued[answers[i].handle].expires

\* The code a status earns for its own line.
Earned(status) ==
  CASE status = "ready" -> 0
    [] status \in {"refused", "unresolved", "aborted"} -> 2
    [] OTHER -> 1

\* What the first k answers have earned.
EarnedOf(k) == {0} \union {Earned(answers[i].status) : i \in 1..k}

\* The exit code is the worst of the answers given: no line inherits the failure of an earlier
\* one, and none is forgotten.
ExitIsTheWorstAnswer == exit = "returned" => code = Max(EarnedOf(Len(answers)))

\* Each line is answered once, in its order, and the exit code is the worst of the answers.
SessionIsAnswered == ReadTypeInv /\ OneAnswerPerLine /\ ExitIsTheWorstAnswer

\* All answers of a session come from one snapshot, from handles it has shown and inside their window.
SessionIsOneView == OneSnapshotPerSession /\ KeptIsWhatWasShown /\ ExpansionInsideWindow

\* The steps between the taking of a request and its answer, and those after it.
Unanswered == at \in {"read", "whole", "prepare", "observe", "observeAgain", "deliver"} \/ (at = "finish" /\ ~delivered)
JustAnswered == at = "finish" /\ delivered

\* How many lines are answered at a step of a read, and when the two flags of the read are down.
ReadIsUnderWay ==
  /\ at = "start" => line = 0 /\ answers = <<>>
  /\ Unanswered => line = Len(answers) + 1
  /\ JustAnswered => line = Len(answers) /\ line > 0
  /\ at \notin {"start", "end"} => opt.session \/ (at # "line" /\ line = 1)
  /\ at \in {"observe", "observeAgain", "deliver"} => ~delivered /\ ~projectionFailure
  /\ at = "finish" /\ projectionFailure => delivered
  /\ at = "finish" /\ ~delivered => result.status = "transport"
  /\ at = "whole" => retained = Nil
  /\ exit = "pending" <=> at # "end"

\* The code so far is the worst of the lines before this one.
CodeIsTheWorst ==
  at # "end" =>
    LET before == IF JustAnswered THEN Len(answers) - 1 ELSE Len(answers) IN
    /\ code \in EarnedOf(before) /\ \A e \in EarnedOf(before) : e <= code
    /\ JustAnswered => Earned(answers[Len(answers)].status) = Returned

\* A result is of the retained snapshot and inside the window of its handle; the handles that were asked for are minted
\* for good; what has been shown is kept, but for the handles of the answer just delivered.
ResultIsOfTheView ==
  /\ result.status # "ready" => result.content = Nil /\ result.minted = {}
  /\ IF at \in {"deliver", "finish"} THEN result.status # "none" ELSE at # "end" => result = Unread
  /\ result.content # Nil =>
       /\ result.content = retained /\ viewed
       /\ request.handle # Nil =>
            /\ issued[request.handle] # Nil /\ issued[request.handle].issued <= result.clock
            /\ result.clock < issued[request.handle].expires
  /\ \A h \in registered \union result.minted : issued[h] # Nil
  /\ \A i \in DOMAIN answers : answers[i].content # Nil /\ answers[i].handle # Nil => issued[answers[i].handle] # Nil
  /\ opt.session /\ opt.modelView = "collects" /\ at # "end" =>
       Shown = kept \union (IF JustAnswered /\ ~projectionFailure THEN result.minted ELSE {})

\* Each request of a session is answered once and in order, all answers are of the one snapshot it retained, from
\* handles it has shown and inside their window; with what is known of every read on its way.
SessionTellsOneTruth ==
  SessionIsAnswered /\ SessionIsOneView /\ ReadIsUnderWay /\ CodeIsTheWorst /\ ResultIsOfTheView
================================================================================
