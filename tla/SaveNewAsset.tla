------------------------------ MODULE SaveNewAsset ------------------------------
(***************************************************************************)
(* saveNewAsset of src/authored-input.js: several concurrent kdna runs,    *)
(* each writing its asset to a private temporary file, flushing it, and    *)
(* committing it with one link() to its output path.                       *)
(*                                                                         *)
(* Every await of the function is a point where other runs, the output     *)
(* stream of the run, other programs or the machine may act, so an action  *)
(* below is the code between two awaits: it takes the completion of one    *)
(* file operation and starts the next.  assertActive() and the operation   *)
(* after it are in one step because the code does not yield between them.  *)
(***************************************************************************)
EXTENDS Naturals

CONSTANTS Saver, Path, Dest, Absent, Foreign, Torn

ASSUME DestAssumption == Dest \in [Saver -> Path]
ASSUME ContentAssumption ==
  /\ Absent # Foreign /\ Torn \notin {Absent, Foreign}
  /\ Saver \intersect {Absent, Foreign, Torn} = {}

VARIABLES
  pc,          \* pc[s]: the file operation the run is waiting for
  handle,      \* handle[s]: the variable `handle` is not null
  owned,       \* owned[s]: `owned`, the temporary file was created by this run
  published,   \* published[s]: `published`, link() returned
  raised,      \* raised[s]: the error the catch block rethrows, or "none"
  outcome,     \* outcome[s]: how the promise of saveNewAsset settled
  silenced,    \* silenced[s]: output failure observed, assertActive() throws
  temp,        \* temp[s]: the directory has the entry of the temporary file
  data,        \* data[s]: what the bytes of the run's file are now
  synced,      \* synced[s]: sync() returned
  entry,       \* entry[p]: Absent, Foreign, or the run whose file is linked at p
  past         \* past[p]: every value entry[p] has had (for PowerLoss)

local == <<handle, owned, published>>
files == <<temp, data, synced>>
names == <<entry, past>>
vars == <<pc, handle, owned, published, raised, outcome, silenced,
          temp, data, synced, entry, past>>

Running(s) == pc[s] \notin {"idle", "settled", "crashed"}

Init ==
  /\ pc = [s \in Saver |-> "idle"]
  /\ handle = [s \in Saver |-> FALSE]
  /\ owned = [s \in Saver |-> FALSE]
  /\ published = [s \in Saver |-> FALSE]
  /\ raised = [s \in Saver |-> "none"]
  /\ outcome = [s \in Saver |-> "pending"]
  /\ silenced = [s \in Saver |-> FALSE]
  /\ temp = [s \in Saver |-> FALSE]
  /\ data = [s \in Saver |-> "none"]
  /\ synced = [s \in Saver |-> FALSE]
  /\ entry \in [Path -> {Absent, Foreign}]
  /\ past = [p \in Path |-> {entry[p]}]

--------------------------------------------------------------------------------
(* Control: the catch block and the finally block.                            *)

\* The finally block: an open handle is closed, an owned temporary file is
\* unlinked, and only then does the promise settle.
Finally(s, open, mine, result) ==
  /\ pc' = [pc EXCEPT ![s] = IF open THEN "closing"
                             ELSE IF mine THEN "unlinking" ELSE "settled"]
  /\ outcome' = [outcome EXCEPT ![s] = IF open \/ mine THEN @ ELSE result]

\* The catch block names the error, then the finally block runs.
Throw(s, open, mine, error) ==
  /\ raised' = [raised EXCEPT ![s] = error]
  /\ Finally(s, open, mine, error)

Await(s, operation) ==
  /\ pc' = [pc EXCEPT ![s] = operation]
  /\ UNCHANGED <<raised, outcome>>

--------------------------------------------------------------------------------
(* The try block.                                                             *)

\* assertActive() and the start of open(temporary, 'wx').
Begin(s) ==
  /\ pc[s] = "idle"
  /\ IF silenced[s] THEN Throw(s, FALSE, FALSE, "KDNA_SAVE_FAILED")
                    ELSE Await(s, "opening")
  /\ UNCHANGED <<local, silenced, files, names>>

\* The exclusive create of a fresh random name; the error case has no effect.
Open(s) ==
  /\ pc[s] = "opening"
  /\ \/ /\ Await(s, "writing")
        /\ handle' = [handle EXCEPT ![s] = TRUE]
        /\ owned' = [owned EXCEPT ![s] = TRUE]
        /\ temp' = [temp EXCEPT ![s] = TRUE]
        /\ data' = [data EXCEPT ![s] = "partial"]
     \/ /\ Throw(s, FALSE, FALSE, "KDNA_SAVE_FAILED")
        /\ UNCHANGED <<handle, owned, temp, data>>
  /\ UNCHANGED <<published, silenced, synced, names>>

\* Mutant of Write: a short write goes unnoticed.
WriteUnchecked(s) ==
  /\ pc[s] = "writing"
  /\ Await(s, "syncing") /\ data' \in {data, [data EXCEPT ![s] = "whole"]}
  /\ UNCHANGED <<local, silenced, temp, synced, names>>

\* writeFile(): all bytes are in, or an error leaves some of them.
Write(s) ==
  /\ pc[s] = "writing"
  /\ \/ Await(s, "syncing") /\ data' = [data EXCEPT ![s] = "whole"]
     \/ Throw(s, TRUE, TRUE, "KDNA_SAVE_FAILED") /\ UNCHANGED data
  /\ UNCHANGED <<local, silenced, temp, synced, names>>

\* Mutant of Sync: the flush before the commit is dropped.
SyncSkipped(s) ==
  /\ pc[s] = "syncing"
  /\ Await(s, "finishing")
  /\ UNCHANGED <<local, silenced, files, names>>

Sync(s) ==
  /\ pc[s] = "syncing"
  /\ \/ Await(s, "finishing") /\ synced' = [synced EXCEPT ![s] = TRUE]
     \/ Throw(s, TRUE, TRUE, "KDNA_SAVE_FAILED") /\ UNCHANGED synced
  /\ UNCHANGED <<local, silenced, temp, data, names>>

\* Mutant of Close: no assertActive() between close() and link().
CloseUnguarded(s) ==
  /\ pc[s] = "finishing"
  /\ handle' = [handle EXCEPT ![s] = FALSE]
  /\ Await(s, "linking")
  /\ UNCHANGED <<owned, published, silenced, files, names>>

\* close() succeeds: handle = null, assertActive(), and the start of link().
\* close() fails: `handle` keeps its value and the finally block closes again.
Close(s) ==
  /\ pc[s] = "finishing"
  /\ \/ /\ handle' = [handle EXCEPT ![s] = FALSE]
        /\ IF silenced[s] THEN Throw(s, FALSE, TRUE, "KDNA_SAVE_FAILED")
                          ELSE Await(s, "linking")
     \/ /\ Throw(s, TRUE, TRUE, "KDNA_SAVE_FAILED")
        /\ UNCHANGED handle
  /\ UNCHANGED <<owned, published, silenced, files, names>>

\* Mutant of LinkNew: rename() in place of link(), which replaces its target.
RenameOver(s) ==
  /\ temp[s]
  /\ entry' = [entry EXCEPT ![Dest[s]] = s]
  /\ past' = [past EXCEPT ![Dest[s]] = @ \union {s}]

\* link(temporary, file): one atomic step that fails on an occupied path.
LinkNew(s) ==
  /\ temp[s]
  /\ entry[Dest[s]] = Absent
  /\ entry' = [entry EXCEPT ![Dest[s]] = s]
  /\ past' = [past EXCEPT ![Dest[s]] = @ \union {s}]

Link(s) ==
  /\ pc[s] = "linking"
  /\ \/ /\ LinkNew(s)
        /\ published' = [published EXCEPT ![s] = TRUE]
        /\ Finally(s, FALSE, TRUE, "complete")
        /\ UNCHANGED raised
     \/ /\ entry[Dest[s]] # Absent
        /\ Throw(s, FALSE, TRUE, "KDNA_OUTPUT_EXISTS")
        /\ UNCHANGED <<published, names>>
     \/ /\ Throw(s, FALSE, TRUE, "KDNA_SAVE_FAILED")
        /\ UNCHANGED <<published, names>>
  /\ UNCHANGED <<handle, owned, silenced, files>>

--------------------------------------------------------------------------------
(* The awaits of the finally block.                                           *)

\* Mutant of CloseAgain: only a published run removes its temporary file.
CloseAgainKeeps(s) ==
  /\ pc[s] = "closing"
  /\ Finally(s, FALSE, published[s], raised[s])
  /\ UNCHANGED <<local, raised, silenced, files, names>>

\* Mutant of CloseAgain: the close is retried until it succeeds.
CloseAgainForever(s) ==
  /\ pc[s] = "closing"
  /\ Finally(s, handle[s], owned[s], raised[s])
  /\ UNCHANGED <<local, raised, silenced, files, names>>

\* handle.close().catch(): its own error is dropped.
CloseAgain(s) ==
  /\ pc[s] = "closing"
  /\ Finally(s, FALSE, owned[s], raised[s])
  /\ UNCHANGED <<local, raised, silenced, files, names>>

\* Mutant of Result: the function falls off its end without a value.
ResultMissing(s) == raised[s]

\* The value of the call once the temporary file is gone.
Result(s) == IF raised[s] = "none" THEN "complete" ELSE raised[s]

\* Mutant of Unlink: the catch of the finally block returns without asking
\* whether the run has published.
UnlinkReturns(s) ==
  /\ pc[s] = "unlinking"
  /\ \/ /\ temp[s]
        /\ temp' = [temp EXCEPT ![s] = FALSE]
        /\ outcome' = [outcome EXCEPT ![s] = Result(s)]
     \/ /\ UNCHANGED temp
        /\ outcome' = [outcome EXCEPT ![s] = "temporary_retained"]
  /\ pc' = [pc EXCEPT ![s] = "settled"]
  /\ UNCHANGED <<local, raised, silenced, data, synced, names>>

\* Mutant of Unlink: the failure to remove the temporary file is swallowed.
UnlinkSwallows(s) ==
  /\ pc[s] = "unlinking"
  /\ temp' \in {temp, [temp EXCEPT ![s] = FALSE]}
  /\ outcome' = [outcome EXCEPT ![s] = Result(s)]
  /\ pc' = [pc EXCEPT ![s] = "settled"]
  /\ UNCHANGED <<local, raised, silenced, data, synced, names>>

\* unlink(temporary): a failure is reported only by a run that has published.
Unlink(s) ==
  /\ pc[s] = "unlinking"
  /\ \/ /\ temp[s]
        /\ temp' = [temp EXCEPT ![s] = FALSE]
        /\ outcome' = [outcome EXCEPT ![s] = Result(s)]
     \/ /\ UNCHANGED temp
        /\ outcome' = [outcome EXCEPT ![s] = IF published[s]
                                             THEN "temporary_retained" ELSE Result(s)]
  /\ pc' = [pc EXCEPT ![s] = "settled"]
  /\ UNCHANGED <<local, raised, silenced, data, synced, names>>

--------------------------------------------------------------------------------
(* The environment.                                                           *)

\* The run's standard output fails; check() of outputWriter throws from now on.
OutputFails(s) ==
  /\ ~ silenced[s]
  /\ silenced' = [silenced EXCEPT ![s] = TRUE]
  /\ UNCHANGED <<pc, local, raised, outcome, files, names>>

\* Another program creates or removes a file at an output path.
Outside(p) ==
  /\ LET c == IF entry[p] = Absent THEN Foreign ELSE Absent
     IN  /\ entry' = [entry EXCEPT ![p] = c]
         /\ past' = [past EXCEPT ![p] = @ \union {c}]
  /\ UNCHANGED <<pc, local, raised, outcome, silenced, files>>

\* Another program sweeps a temporary file away.
Sweep(s) ==
  /\ temp[s]
  /\ temp' = [temp EXCEPT ![s] = FALSE]
  /\ UNCHANGED <<pc, local, raised, outcome, silenced, data, synced, names>>

\* The process is killed: whatever it started and has not finished stays.
Crash(s) ==
  /\ Running(s)
  /\ pc' = [pc EXCEPT ![s] = "crashed"]
  /\ outcome' = [outcome EXCEPT ![s] = "lost"]
  /\ UNCHANGED <<local, raised, silenced, files, names>>

\* The machine stops.  Bytes that were not synced may be gone, and since no
\* directory is synced each entry may be back at any value it has had.
PowerLoss ==
  /\ pc' = [s \in Saver |-> IF Running(s) THEN "crashed" ELSE pc[s]]
  /\ outcome' = [s \in Saver |-> IF Running(s) THEN "lost" ELSE outcome[s]]
  /\ temp' \in {t \in [Saver -> BOOLEAN] : \A s \in Saver : t[s] => owned[s]}
  /\ data' \in {d \in [Saver -> {"none", "partial", "whole"}] :
                  \A s \in Saver : d[s] # data[s] => d[s] = "partial" /\ ~ synced[s] /\ owned[s]}
  /\ entry' \in {e \in [Path -> Saver \union {Absent, Foreign}] :
                  \A p \in Path : e[p] \in past[p]}
  /\ UNCHANGED <<local, raised, silenced, synced, past>>

--------------------------------------------------------------------------------
\* What the code of one run does.
SaverStep(s) ==
  \/ Begin(s) \/ Open(s) \/ Write(s) \/ Sync(s) \/ Close(s) \/ Link(s)
  \/ CloseAgain(s) \/ Unlink(s)

Environment ==
  \/ \E s \in Saver : OutputFails(s) \/ Sweep(s) \/ Crash(s)
  \/ \E p \in Path : Outside(p)
  \/ PowerLoss

Next == (\E s \in Saver : SaverStep(s)) \/ Environment

Spec == Init /\ [][Next]_vars

\* A file operation in flight completes, with success or an error; nothing is
\* assumed of the environment, and a run may stay idle for ever.
Fairness == \A s \in Saver : WF_vars(SaverStep(s) /\ pc[s] # "idle")

FairSpec == Spec /\ Fairness

--------------------------------------------------------------------------------
(* Properties.                                                                *)

Errors == {"KDNA_OUTPUT_EXISTS", "KDNA_SAVE_FAILED"}

TypeOK ==
  /\ pc \in [Saver -> {"idle", "opening", "writing", "syncing", "finishing", "linking",
                       "closing", "unlinking", "settled", "crashed"}]
  /\ handle \in [Saver -> BOOLEAN]
  /\ owned \in [Saver -> BOOLEAN]
  /\ published \in [Saver -> BOOLEAN]
  /\ raised \in [Saver -> Errors \union {"none"}]
  /\ outcome \in [Saver -> Errors \union {"pending", "complete", "temporary_retained", "lost"}]
  /\ silenced \in [Saver -> BOOLEAN]
  /\ temp \in [Saver -> BOOLEAN]
  /\ data \in [Saver -> {"none", "partial", "whole"}]
  /\ synced \in [Saver -> BOOLEAN]
  /\ entry \in [Path -> Saver \union {Absent, Foreign}]
  /\ past \in [Path -> SUBSET (Saver \union {Absent, Foreign})]

\* The run's file has been committed at its output path at some time.
Committed(s) == s \in past[Dest[s]]

\* A reader of an output path finds either no asset or all bytes of one,
\* whenever it looks: during a save, after a kill and after a power loss.
PublishedIsWhole == \A p \in Path : entry[p] \in Saver => data[entry[p]] = "whole"

\* The answer of the call is true: success is answered only by a run whose
\* asset was committed, and no error is answered by a run whose asset was.
OutcomeIsTrue ==
  \A s \in Saver :
    /\ outcome[s] \in {"complete", "temporary_retained"} => Committed(s)
    /\ outcome[s] \in Errors => ~ Committed(s)

\* "complete" is never answered while the temporary file is still there.
CompleteMeansClean ==
  [][\A s \in Saver : outcome'[s] = "complete" /\ outcome[s] # "complete" => ~ temp'[s]]_vars

\* No step of a run replaces or removes what another program, another run or
\* the run itself has put at an output path.
NeverReplaces ==
  [][\A s \in Saver : SaverStep(s) => \A p \in Path : entry[p] # Absent => entry'[p] = entry[p]]_vars

\* Once an output failure is observed a run starts neither its temporary file
\* nor its commit; a link already in flight may still finish.
NothingStartsSilenced ==
  [][\A s \in Saver : silenced[s] /\ pc'[s] \in {"opening", "linking"} => pc[s] = pc'[s]]_vars

\* A run that created its temporary file does not settle without having tried
\* to remove it, whatever failed before.
AlwaysTriesToUnlink ==
  [][\A s \in Saver : pc[s] # pc'[s] /\ pc'[s] = "settled" /\ owned[s] => pc[s] = "unlinking"]_vars

\* What a reader of the directory and the caller are told, together.
SaveTellsTruth == PublishedIsWhole /\ OutcomeIsTrue

\* What no step of a save does: report a clean end over a temporary file, touch what it did not
\* put there, start work for a failed output, settle without trying to clean up.
SaveDiscipline == CompleteMeansClean /\ NeverReplaces /\ NothingStartsSilenced /\ AlwaysTriesToUnlink

\* A call that has started settles, unless its process is killed.
EventuallySettles ==
  \A s \in Saver : Running(s) ~> pc[s] \in {"settled", "crashed"}

--------------------------------------------------------------------------------
(* The inductive invariant behind them.                                       *)

\* Each place of the code comes with what has been done to the file before it.
StageIsReached ==
  \A s \in Saver :
    /\ pc[s] \in {"idle", "opening", "writing"} => ~ synced[s]
    /\ pc[s] = "syncing" => data[s] = "whole"
    /\ pc[s] \in {"finishing", "linking"} => synced[s]
    /\ synced[s] => data[s] = "whole"

\* Before the link nothing is published or raised; in the finally block exactly
\* one of the two has happened.
OneVerdict ==
  \A s \in Saver :
    /\ pc[s] \in {"idle", "opening", "writing", "syncing", "finishing", "linking"} =>
         ~ published[s] /\ raised[s] = "none"
    /\ pc[s] = "closing" => ~ published[s] /\ raised[s] # "none"
    /\ pc[s] = "unlinking" => (published[s] <=> raised[s] = "none")

\* The call is answered when its code has ended, and as published says.
AnswerFollows ==
  \A s \in Saver :
    /\ outcome[s] = "pending" <=> pc[s] \notin {"settled", "crashed"}
    /\ outcome[s] \in {"complete", "temporary_retained"} => published[s]
    /\ outcome[s] \in Errors => ~ published[s]

\* `published` is the truth about the directory, and only synced files get there.
HistoryIsPublished ==
  /\ \A p \in Path : entry[p] \in past[p]
  /\ \A p \in Path, s \in Saver :
       s \in past[p] <=> p = Dest[s] /\ published[s]
  /\ \A s \in Saver : published[s] => synced[s]

SaveInv == TypeOK /\ StageIsReached /\ OneVerdict /\ AnswerFollows /\ HistoryIsPublished

--------------------------------------------------------------------------------
\* The refinement: a torn file at an output path is told apart from a whole one,
\* and the settled answers are grouped into what they say about the commit.
ReportOf(o) ==
  IF o \in {"complete", "temporary_retained"} THEN "saved"
  ELSE IF o \in Errors THEN "refused" ELSE o

ContentAt(p) ==
  IF entry[p] \in Saver /\ data[entry[p]] # "whole" THEN Torn ELSE entry[p]

Abstract == INSTANCE ExclusiveOutput WITH
  content <- [p \in Path |-> ContentAt(p)],
  held <- past,
  report <- [s \in Saver |-> ReportOf(outcome[s])]

\* Saving a new asset is an exclusive, all-or-nothing, truthfully answered commit.
ImplementsExclusiveOutput == Abstract!Spec
================================================================================
