-------------------------- MODULE SaveCommandsProofs ---------------------------
(***************************************************************************)
(* Proofs about SaveNewAsset and the commands that call it, for every set   *)
(* of runs, of output paths and of contents of the source asset.            *)
(*                                                                          *)
(* SaveInv is inductive; what readers of the output directory and callers   *)
(* of the function rely on follows from it, and with it every step is a     *)
(* step of ExclusiveOutput or a stutter. Every step of a command is a step  *)
(* of SaveNewAsset or leaves it alone, so all of that holds inside the      *)
(* commands; with it CommandInv is inductive, and what commands answer      *)
(* follows.                                                                 *)
(***************************************************************************)
EXTENDS SaveCommands, TLAPS

(***************************************************************************)
(* The invariant holds initially and every action keeps it.                *)
(***************************************************************************)

\* No run has started: nothing is owned, synced, raised or published.
LEMMA InitSaveInv == Init => SaveInv
BY DestAssumption, ContentAssumption
   DEF Init, SaveInv, TypeOK, StageIsReached, OneVerdict, AnswerFollows, HistoryIsPublished, Errors

\* An action of the code of one run keeps the invariant.
LEMMA SaverStepInv == SaveInv /\ (\E s \in Saver : SaverStep(s)) => SaveInv'
<1> SUFFICES ASSUME TypeOK, StageIsReached, OneVerdict, AnswerFollows, HistoryIsPublished,
                    NEW s \in Saver, SaverStep(s)
             PROVE  TypeOK' /\ StageIsReached' /\ OneVerdict' /\ AnswerFollows' /\ HistoryIsPublished'
  BY DEF SaveInv
<1> USE DestAssumption, ContentAssumption DEF Errors, local, files, names
<1>1. CASE Begin(s)
  <2> USE <1>1 DEF Begin, Throw, Finally, Await
  <2>1. TypeOK'
    <3>1. /\ \/ pc' = [pc EXCEPT ![s] = "settled"]
             \/ pc' = [pc EXCEPT ![s] = "opening"]
          /\ \/ outcome' = [outcome EXCEPT ![s] = "KDNA_SAVE_FAILED"]
             \/ outcome' = outcome
          /\ raised' \in [Saver -> Errors \union {"none"}]
      BY DEF TypeOK
    <3>2. QED
      BY <3>1 DEF TypeOK
  <2>2. StageIsReached'
    BY DEF TypeOK, StageIsReached
  <2>3. OneVerdict'
    BY DEF TypeOK, OneVerdict
  <2>4. AnswerFollows'
    BY DEF TypeOK, OneVerdict, AnswerFollows
  <2>5. HistoryIsPublished'
    BY DEF TypeOK, StageIsReached, OneVerdict, HistoryIsPublished
  <2>6. QED
    BY <2>1, <2>2, <2>3, <2>4, <2>5
<1>2. CASE Open(s)
  <2> USE <1>2 DEF Open, Throw, Finally, Await
  <2>1. TypeOK'
    <3>1. /\ \/ pc' = [pc EXCEPT ![s] = "writing"]
             \/ pc' = [pc EXCEPT ![s] = "settled"]
          /\ \/ outcome' = [outcome EXCEPT ![s] = "KDNA_SAVE_FAILED"]
             \/ outcome' = outcome
          /\ raised' \in [Saver -> Errors \union {"none"}]
      BY DEF TypeOK
    <3>2. /\ handle' = [handle EXCEPT ![s] = TRUE] \/ handle' = handle
          /\ owned' = [owned EXCEPT ![s] = TRUE] \/ owned' = owned
          /\ temp' = [temp EXCEPT ![s] = TRUE] \/ temp' = temp
          /\ data' = [data EXCEPT ![s] = "partial"] \/ data' = data
      OBVIOUS
    <3>3. UNCHANGED <<published, silenced, synced, entry, past>>
      OBVIOUS
    <3> HIDE <1>2 DEF Open, Throw, Finally, Await
    <3>4. QED
      BY <3>1, <3>2, <3>3, ZenonT(40) DEF TypeOK
  <2>2. StageIsReached'
    BY DEF TypeOK, StageIsReached
  <2>3. OneVerdict'
    BY DEF TypeOK, OneVerdict
  <2>4. AnswerFollows'
    BY DEF TypeOK, OneVerdict, AnswerFollows
  <2>5. HistoryIsPublished'
    BY DEF TypeOK, StageIsReached, OneVerdict, HistoryIsPublished
  <2>6. QED
    BY <2>1, <2>2, <2>3, <2>4, <2>5
<1>3. CASE Write(s)
  <2> USE <1>3 DEF Write, Throw, Finally, Await
  <2>1. TypeOK'
    BY DEF TypeOK
  <2>2. StageIsReached'
    BY DEF TypeOK, StageIsReached
  <2>3. OneVerdict'
    BY DEF TypeOK, OneVerdict
  <2>4. AnswerFollows'
    BY DEF TypeOK, OneVerdict, AnswerFollows
  <2>5. HistoryIsPublished'
    BY DEF TypeOK, StageIsReached, OneVerdict, HistoryIsPublished
  <2>6. QED
    BY <2>1, <2>2, <2>3, <2>4, <2>5
<1>4. CASE Sync(s)
  <2> USE <1>4 DEF Sync, Throw, Finally, Await
  <2>1. TypeOK'
    BY DEF TypeOK
  <2>2. StageIsReached'
    BY DEF TypeOK, StageIsReached
  <2>3. OneVerdict'
    BY DEF TypeOK, OneVerdict
  <2>4. AnswerFollows'
    BY DEF TypeOK, OneVerdict, AnswerFollows
  <2>5. HistoryIsPublished'
    BY DEF TypeOK, StageIsReached, OneVerdict, HistoryIsPublished
  <2>6. QED
    BY <2>1, <2>2, <2>3, <2>4, <2>5
<1>5. CASE Close(s)
  <2> USE <1>5 DEF Close, Throw, Finally, Await
  <2>1. TypeOK'
    BY ZenonT(40) DEF TypeOK
  <2>2. StageIsReached'
    BY DEF TypeOK, StageIsReached
  <2>3. OneVerdict'
    BY DEF TypeOK, OneVerdict
  <2>4. AnswerFollows'
    BY DEF TypeOK, OneVerdict, AnswerFollows
  <2>5. HistoryIsPublished'
    BY DEF TypeOK, StageIsReached, OneVerdict, HistoryIsPublished
  <2>6. QED
    BY <2>1, <2>2, <2>3, <2>4, <2>5
<1>6. CASE Link(s)
  <2> USE <1>6 DEF Link, LinkNew, Throw, Finally
  <2> DEFINE d == Dest[s]
  <2>1. d \in Path /\ past[d] \in SUBSET (Saver \union {Absent, Foreign})
    BY DEF TypeOK
  <2>2. \/ entry' = [entry EXCEPT ![d] = s] /\ past' = [past EXCEPT ![d] = past[d] \union {s}]
        \/ entry' = entry /\ past' = past
    OBVIOUS
  <2>3. /\ entry' \in [Path -> Saver \union {Absent, Foreign}]
        /\ past' \in [Path -> SUBSET (Saver \union {Absent, Foreign})]
    <3>1. past[d] \union {s} \in SUBSET (Saver \union {Absent, Foreign})
      BY <2>1
    <3>2. QED
      BY <2>1, <2>2, <3>1 DEF TypeOK
  <2>4. /\ pc' = [pc EXCEPT ![s] = "unlinking"]
        /\ outcome' = outcome
        /\ handle' = handle /\ owned' = owned /\ silenced' = silenced
        /\ temp' = temp /\ data' = data /\ synced' = synced
        /\ published' \in [Saver -> BOOLEAN]
        /\ raised' \in [Saver -> Errors \union {"none"}]
    BY ZenonT(40) DEF TypeOK
  <2>5. TypeOK'
    BY <2>3, <2>4 DEF TypeOK
  <2>6. StageIsReached'
    BY <2>4 DEF TypeOK, StageIsReached
  <2>7. OneVerdict'
    BY DEF TypeOK, OneVerdict
  <2>8. AnswerFollows'
    BY DEF TypeOK, OneVerdict, AnswerFollows
  <2>9. HistoryIsPublished'
    <3>1. CASE LinkNew(s) /\ published' = [published EXCEPT ![s] = TRUE]
      <4>1. synced[s]
        BY DEF StageIsReached
      <4>2. \A p \in Path : entry'[p] \in past'[p]
        BY <3>1, <2>1 DEF TypeOK, HistoryIsPublished
      <4>3. \A p \in Path, t \in Saver : t \in past'[p] <=> p = Dest[t] /\ published'[t]
        BY <3>1, <2>1 DEF TypeOK, HistoryIsPublished
      <4>4. QED
        BY <3>1, <4>1, <4>2, <4>3, <2>4 DEF TypeOK, HistoryIsPublished
    <3>2. CASE UNCHANGED <<published, names>>
      BY <3>2, <2>4 DEF HistoryIsPublished
    <3>3. QED
      BY <3>1, <3>2
  <2>10. QED
    BY <2>5, <2>6, <2>7, <2>8, <2>9
<1>7. CASE CloseAgain(s)
  <2> USE <1>7 DEF CloseAgain, Finally
  <2>1. TypeOK'
    <3>1. raised[s] \in Errors
      BY DEF TypeOK, OneVerdict
    <3>2. /\ \/ pc' = [pc EXCEPT ![s] = "unlinking"]
             \/ pc' = [pc EXCEPT ![s] = "settled"]
          /\ \/ outcome' = [outcome EXCEPT ![s] = raised[s]]
             \/ outcome' = outcome
      BY DEF TypeOK
    <3>3. QED
      BY <3>1, <3>2 DEF TypeOK
  <2>2. StageIsReached'
    BY DEF TypeOK, StageIsReached
  <2>3. OneVerdict'
    BY DEF TypeOK, OneVerdict
  <2>4. AnswerFollows'
    BY DEF TypeOK, OneVerdict, AnswerFollows
  <2>5. HistoryIsPublished'
    BY DEF TypeOK, StageIsReached, OneVerdict, HistoryIsPublished
  <2>6. QED
    BY <2>1, <2>2, <2>3, <2>4, <2>5
<1>8. CASE Unlink(s)
  <2> USE <1>8 DEF Unlink, Result
  <2>1. TypeOK'
    BY DEF TypeOK
  <2>2. StageIsReached'
    BY DEF TypeOK, StageIsReached
  <2>3. OneVerdict'
    BY DEF TypeOK, OneVerdict
  <2>4. AnswerFollows'
    BY DEF TypeOK, OneVerdict, AnswerFollows
  <2>5. HistoryIsPublished'
    BY DEF TypeOK, StageIsReached, OneVerdict, HistoryIsPublished
  <2>6. QED
    BY <2>1, <2>2, <2>3, <2>4, <2>5
<1>9. QED
  BY <1>1, <1>2, <1>3, <1>4, <1>5, <1>6, <1>7, <1>8 DEF SaverStep

\* What the outside world does keeps the invariant: a power loss may undo directory
\* entries and unsynced bytes, but neither `synced` nor what a path has held.
LEMMA EnvironmentInv == SaveInv /\ Environment => SaveInv'
<1> SUFFICES ASSUME TypeOK, StageIsReached, OneVerdict, AnswerFollows, HistoryIsPublished,
                    Environment
             PROVE  TypeOK' /\ StageIsReached' /\ OneVerdict' /\ AnswerFollows' /\ HistoryIsPublished'
  BY DEF SaveInv
<1> USE DestAssumption, ContentAssumption DEF Errors, local, files, names
<1>1. ASSUME NEW s \in Saver, OutputFails(s)
      PROVE  TypeOK' /\ StageIsReached' /\ OneVerdict' /\ AnswerFollows' /\ HistoryIsPublished'
  BY <1>1 DEF OutputFails, TypeOK, StageIsReached, OneVerdict, AnswerFollows, HistoryIsPublished
<1>2. ASSUME NEW s \in Saver, Sweep(s)
      PROVE  TypeOK' /\ StageIsReached' /\ OneVerdict' /\ AnswerFollows' /\ HistoryIsPublished'
  BY <1>2 DEF Sweep, TypeOK, StageIsReached, OneVerdict, AnswerFollows, HistoryIsPublished
<1>3. ASSUME NEW s \in Saver, Crash(s)
      PROVE  TypeOK' /\ StageIsReached' /\ OneVerdict' /\ AnswerFollows' /\ HistoryIsPublished'
  BY <1>3 DEF Crash, Running, TypeOK, StageIsReached, OneVerdict, AnswerFollows, HistoryIsPublished
<1>4. ASSUME NEW p \in Path, Outside(p)
      PROVE  TypeOK' /\ StageIsReached' /\ OneVerdict' /\ AnswerFollows' /\ HistoryIsPublished'
  <2> USE <1>4 DEF Outside
  <2> DEFINE c == IF entry[p] = Absent THEN Foreign ELSE Absent
  <2>1. /\ entry' = [entry EXCEPT ![p] = c]
        /\ past' = [past EXCEPT ![p] = past[p] \union {c}]
        /\ c \in {Absent, Foreign}
    OBVIOUS
  <2>2. past[p] \union {c} \in SUBSET (Saver \union {Absent, Foreign})
    BY <2>1 DEF TypeOK
  <2>3. TypeOK'
    BY <2>1, <2>2 DEF TypeOK
  <2>4. StageIsReached' /\ OneVerdict' /\ AnswerFollows'
    BY DEF StageIsReached, OneVerdict, AnswerFollows
  <2>5. HistoryIsPublished'
    BY <2>1 DEF TypeOK, HistoryIsPublished
  <2>6. QED
    BY <2>3, <2>4, <2>5
<1>5. CASE PowerLoss
  <2> USE <1>5 DEF PowerLoss, Running
  <2>1. TypeOK'
    BY DEF TypeOK
  <2>2. StageIsReached'
    BY DEF TypeOK, StageIsReached
  <2>3. OneVerdict'
    BY DEF TypeOK, OneVerdict
  <2>4. AnswerFollows'
    BY DEF TypeOK, AnswerFollows
  <2>5. HistoryIsPublished'
    BY DEF TypeOK, HistoryIsPublished
  <2>6. QED
    BY <2>1, <2>2, <2>3, <2>4, <2>5
<1>6. QED
  BY <1>1, <1>2, <1>3, <1>4, <1>5 DEF Environment

\* Steps that change nothing keep the invariant.
LEMMA StutterInv == SaveInv /\ UNCHANGED vars => SaveInv'
BY DEF vars, SaveInv, TypeOK, StageIsReached, OneVerdict, AnswerFollows, HistoryIsPublished

\* SaveInv holds in every reachable state, for every set of runs and paths.
THEOREM SaveInvariant == Spec => []SaveInv
<1>1. SaveInv /\ [Next]_vars => SaveInv'
  BY SaverStepInv, EnvironmentInv, StutterInv DEF Next
<1>2. QED
  BY InitSaveInv, <1>1, PTL DEF Spec

(***************************************************************************)
(* What readers of the directory and callers of the function rely on.      *)
(***************************************************************************)

\* A file of a run at an output path has been synced, so it is whole.
LEMMA InvPublishedIsWhole == SaveInv => PublishedIsWhole
BY DestAssumption, ContentAssumption
   DEF SaveInv, TypeOK, StageIsReached, HistoryIsPublished, PublishedIsWhole

\* An output path never shows a part of an asset: not while several runs save, not
\* after a kill and not after a power loss.
THEOREM OutputIsWhole == Spec => []PublishedIsWhole
BY SaveInvariant, InvPublishedIsWhole, PTL

\* The answer of saveNewAsset says truly whether the asset was committed.
THEOREM AnswerIsTrue == Spec => []OutcomeIsTrue
<1>1. SaveInv => OutcomeIsTrue
  BY DestAssumption
     DEF SaveInv, TypeOK, AnswerFollows, HistoryIsPublished, OutcomeIsTrue, Committed, Errors
<1>2. QED
  BY SaveInvariant, <1>1, PTL

\* A reader of the directory and the caller are told the truth, for every set of runs and output paths.
THEOREM SaveIsTruthful == Spec => []SaveTellsTruth
<1>1. PublishedIsWhole /\ OutcomeIsTrue => SaveTellsTruth
  BY DEF SaveTellsTruth
<1>2. QED
  BY OutputIsWhole, AnswerIsTrue, <1>1, PTL

\* No run replaces or removes what it finds at an output path.
THEOREM SavesNeverReplace == Spec => NeverReplaces
<1>1. [Next]_vars => [\A s \in Saver : SaverStep(s) =>
                       \A p \in Path : entry[p] # Absent => entry'[p] = entry[p]]_vars
  <2> SUFFICES ASSUME NEW s \in Saver, SaverStep(s), NEW p \in Path, entry[p] # Absent
               PROVE  entry'[p] = entry[p]
    OBVIOUS
  <2>1. entry' = entry \/ LinkNew(s)
    BY DEF SaverStep, Begin, Open, Write, Sync, Close, Link, CloseAgain, Unlink, names
  <2>2. CASE LinkNew(s)
    BY <2>2 DEF LinkNew
  <2>3. QED
    BY <2>1, <2>2
<1>2. QED
  BY <1>1, PTL DEF Spec, NeverReplaces

\* What a step of the code of run r does to the awaits of any run: it moves only its own.
LEMMA OthersWait ==
  ASSUME SaveInv, NEW r \in Saver, SaverStep(r), NEW s \in Saver, s # r
  PROVE  pc'[s] = pc[s] /\ outcome'[s] = outcome[s]
BY DEF SaveInv, TypeOK, SaverStep, Begin, Open, Write, Sync, Close, Link, CloseAgain, Unlink, Throw, Finally, Await

\* After an output failure no run starts its temporary file or its commit.
THEOREM NoStartSilenced == Spec => NothingStartsSilenced
<1>1. SaveInv /\ [Next]_vars =>
        [\A s \in Saver : silenced[s] /\ pc'[s] \in {"opening", "linking"} => pc[s] = pc'[s]]_vars
  <2> SUFFICES ASSUME SaveInv, Next, NEW s \in Saver, silenced[s], pc'[s] \in {"opening", "linking"}
               PROVE  pc[s] = pc'[s]
    OBVIOUS
  <2>1. ASSUME NEW r \in Saver, SaverStep(r) PROVE pc[s] = pc'[s]
    <3>1. CASE r = s
      BY <2>1, <3>1 DEF SaveInv, TypeOK, SaverStep, Begin, Open, Write, Sync, Close, Link, CloseAgain, Unlink,
                        Throw, Finally, Await
    <3>2. CASE r # s
      BY <2>1, <3>2, OthersWait
    <3>3. QED
      BY <3>1, <3>2
  <2>2. CASE Environment
    BY <2>2 DEF SaveInv, TypeOK, Environment, OutputFails, Sweep, Crash, Outside, PowerLoss
  <2>3. QED
    BY <2>1, <2>2 DEF Next
<1>2. QED
  BY SaveInvariant, <1>1, PTL DEF Spec, NothingStartsSilenced

\* "complete" is answered only over a temporary file that has been removed.
THEOREM CompleteIsClean == Spec => CompleteMeansClean
<1>1. SaveInv /\ [Next]_vars =>
        [\A s \in Saver : outcome'[s] = "complete" /\ outcome[s] # "complete" => ~ temp'[s]]_vars
  <2> SUFFICES ASSUME SaveInv, Next, NEW s \in Saver, outcome'[s] = "complete", outcome[s] # "complete"
               PROVE  ~ temp'[s]
    OBVIOUS
  <2>1. ASSUME NEW r \in Saver, SaverStep(r) PROVE ~ temp'[s]
    <3>1. r = s
      BY <2>1, OthersWait
    <3>2. raised[s] # "complete"
      BY DEF SaveInv, TypeOK, Errors
    <3>3. Unlink(s)
      BY <2>1, <3>1, <3>2 DEF SaveInv, TypeOK, SaverStep, Begin, Open, Write, Sync, Close, Link, CloseAgain,
                              Throw, Finally, Await
    <3>4. pc[s] = "unlinking" /\ (published[s] <=> raised[s] = "none")
      BY <3>3 DEF Unlink, SaveInv, OneVerdict
    <3>5. QED
      BY <3>2, <3>3, <3>4 DEF Unlink, Result, SaveInv, TypeOK
  <2>2. CASE Environment
    BY <2>2 DEF SaveInv, TypeOK, Environment, OutputFails, Sweep, Crash, Outside, PowerLoss
  <2>3. QED
    BY <2>1, <2>2 DEF Next
<1>2. QED
  BY SaveInvariant, <1>1, PTL DEF Spec, CompleteMeansClean

\* A run owns no temporary file before open() has returned.
OwnsWhatItOpened == \A s \in Saver : pc[s] \in {"idle", "opening"} => ~ owned[s]

\* A run owns the temporary file it has opened.
LEMMA OwnershipInvariant == Spec => []OwnsWhatItOpened
<1>1. Init => OwnsWhatItOpened
  BY DEF Init, OwnsWhatItOpened
<1>2. SaveInv /\ OwnsWhatItOpened /\ [Next]_vars => OwnsWhatItOpened'
  <2> SUFFICES ASSUME SaveInv, OwnsWhatItOpened, [Next]_vars, NEW s \in Saver, pc'[s] \in {"idle", "opening"}
               PROVE  ~ owned'[s]
    BY DEF OwnsWhatItOpened
  <2>1. ASSUME NEW r \in Saver, SaverStep(r) PROVE ~ owned'[s]
    <3>1. CASE r = s
      BY <2>1, <3>1 DEF OwnsWhatItOpened, SaveInv, TypeOK, SaverStep, Begin, Open, Write, Sync, Close, Link, CloseAgain,
                        Unlink, Throw, Finally, Await, local
    <3>2. CASE r # s
      <4>1. owned'[s] = owned[s]
        BY <2>1, <3>2 DEF SaveInv, TypeOK, SaverStep, Begin, Open, Write, Sync, Close, Link, CloseAgain, Unlink, local
      <4>2. QED
        BY <2>1, <3>2, <4>1, OthersWait DEF OwnsWhatItOpened
    <3>3. QED
      BY <3>1, <3>2
  <2>2. CASE Environment
    BY <2>2 DEF OwnsWhatItOpened, SaveInv, TypeOK, Environment, OutputFails, Sweep, Crash, Outside, PowerLoss, local
  <2>3. CASE UNCHANGED vars
    BY <2>3 DEF OwnsWhatItOpened, vars
  <2>4. QED
    BY <2>1, <2>2, <2>3 DEF Next
<1>3. QED
  BY SaveInvariant, <1>1, <1>2, PTL DEF Spec

\* Only unlink() settles a run that has created its temporary file.
THEOREM UnlinkIsTried == Spec => AlwaysTriesToUnlink
<1>1. SaveInv /\ OwnsWhatItOpened /\ [Next]_vars =>
        [\A s \in Saver : pc[s] # pc'[s] /\ pc'[s] = "settled" /\ owned[s] => pc[s] = "unlinking"]_vars
  <2> SUFFICES ASSUME SaveInv, OwnsWhatItOpened, Next, NEW s \in Saver,
                      pc[s] # pc'[s], pc'[s] = "settled", owned[s]
               PROVE  pc[s] = "unlinking"
    OBVIOUS
  <2>1. ASSUME NEW r \in Saver, SaverStep(r) PROVE pc[s] = "unlinking"
    <3>1. r = s
      BY <2>1, OthersWait
    <3>2. QED
      BY <2>1, <3>1 DEF OwnsWhatItOpened, SaveInv, TypeOK, SaverStep, Begin, Open, Write, Sync, Close, Link, CloseAgain,
                        Unlink, Throw, Finally, Await
  <2>2. CASE Environment
    BY <2>2 DEF SaveInv, TypeOK, Environment, OutputFails, Sweep, Crash, Outside, PowerLoss
  <2>3. QED
    BY <2>1, <2>2 DEF Next
<1>2. QED
  BY SaveInvariant, OwnershipInvariant, <1>1, PTL DEF Spec, AlwaysTriesToUnlink

\* What no step of a save does, for every set of runs and output paths.
THEOREM SaveIsDisciplined == Spec => SaveDiscipline
BY CompleteIsClean, SavesNeverReplace, NoStartSilenced, UnlinkIsTried DEF SaveDiscipline

(***************************************************************************)
(* The refinement.                                                         *)
(***************************************************************************)

\* Under the invariant no path holds a torn file: the abstract content is the entry.
LEMMA ContentIsEntry == SaveInv => [p \in Path |-> ContentAt(p)] = entry
BY InvPublishedIsWhole DEF SaveInv, TypeOK, PublishedIsWhole, ContentAt

\* The same after a step.
LEMMA ContentIsEntryNext == SaveInv' => [p \in Path |-> ContentAt(p)]' = entry'
BY DestAssumption, ContentAssumption
   DEF SaveInv, TypeOK, StageIsReached, HistoryIsPublished, ContentAt

\* A step of the code that is not the link leaves the directory's output entries
\* alone and answers at most for its own run, once, without calling it lost.
LEMMA AnswersOnce ==
  ASSUME SaveInv, NEW s \in Saver, SaverStep(s), ~ LinkNew(s)
  PROVE  /\ entry' = entry /\ past' = past
         /\ \/ outcome' = outcome
            \/ /\ outcome[s] = "pending"
               /\ \E o \in Errors \union {"complete", "temporary_retained"} :
                    outcome' = [outcome EXCEPT ![s] = o]
<1> USE DEF SaveInv, TypeOK, Errors
<1>1. entry' = entry /\ past' = past
  BY DEF SaverStep, Begin, Open, Write, Sync, Close, Link, CloseAgain, Unlink, names
<1>2. \/ outcome' = outcome
      \/ \E o \in Errors \union {"complete", "temporary_retained"} :
           outcome' = [outcome EXCEPT ![s] = o]
  <2>1. CASE Begin(s) \/ Open(s) \/ Write(s) \/ Sync(s) \/ Close(s) \/ Link(s)
    BY <2>1 DEF Begin, Open, Write, Sync, Close, Link, Throw, Finally, Await
  <2>2. CASE CloseAgain(s)
    BY <2>2 DEF CloseAgain, Finally, OneVerdict
  <2>3. CASE Unlink(s)
    BY <2>3 DEF Unlink, Result
  <2>4. QED
    BY <2>1, <2>2, <2>3 DEF SaverStep
<1>3. outcome[s] = "pending"
  BY DEF SaverStep, Begin, Open, Write, Sync, Close, Link, CloseAgain, Unlink, AnswerFollows
<1>4. QED
  BY <1>1, <1>2, <1>3

\* The initial directory is any mix of free paths and files of others.
LEMMA RefinesInit == Init => Abstract!Init
<1> SUFFICES ASSUME Init PROVE Abstract!Init
  OBVIOUS
<1>1. [p \in Path |-> ContentAt(p)] = entry
  BY InitSaveInv, ContentIsEntry
<1>2. [s \in Saver |-> ReportOf(outcome[s])] = [s \in Saver |-> "pending"]
  BY DEF Init, ReportOf, Errors
<1>3. QED
  BY <1>1, <1>2 DEF Init, Abstract!Init

\* Every step of the detailed specification is one of the abstract one or none.
LEMMA RefinesNext == SaveInv /\ SaveInv' /\ [Next]_vars => [Abstract!Next]_(Abstract!vars)
<1> SUFFICES ASSUME SaveInv, SaveInv', [Next]_vars
             PROVE  [Abstract!Next]_(Abstract!vars)
  OBVIOUS
<1> DEFINE content == [p \in Path |-> ContentAt(p)]
           report == [t \in Saver |-> ReportOf(outcome[t])]
<1>1. content = entry /\ content' = entry'
  BY ContentIsEntry, ContentIsEntryNext
<1>2. UNCHANGED <<entry, past, outcome>> => UNCHANGED Abstract!vars
  <2>1. UNCHANGED outcome => report' = report
    OBVIOUS
  <2>2. QED
    BY <1>1, <2>1 DEF Abstract!vars
<1>3. ASSUME NEW s \in Saver, SaverStep(s), ~ LinkNew(s)
      PROVE  [Abstract!Next]_(Abstract!vars)
  <2>1. PICK o \in Errors \union {"complete", "temporary_retained"} :
          \/ outcome' = outcome
          \/ outcome[s] = "pending" /\ outcome' = [outcome EXCEPT ![s] = o]
    BY <1>3, AnswersOnce DEF Errors
  <2>2. entry' = entry /\ past' = past
    BY <1>3, AnswersOnce
  <2>3. CASE outcome' = outcome
    BY <2>2, <2>3, <1>2
  <2>4. CASE outcome[s] = "pending" /\ outcome' = [outcome EXCEPT ![s] = o]
    <3>1. outcome'[s] = o /\ \A t \in Saver : t # s => outcome'[t] = outcome[t]
      BY <2>4 DEF SaveInv, TypeOK
    <3>2. ReportOf(o) = IF s \in past[Dest[s]] THEN "saved" ELSE "refused"
      BY <3>1, <2>2, DestAssumption
         DEF SaveInv, TypeOK, AnswerFollows, HistoryIsPublished, ReportOf, Errors
    <3>3. report[s] = "pending" /\ report' = [report EXCEPT ![s] = ReportOf(o)]
      BY <2>4, <3>1 DEF ReportOf, Errors
    <3>4. Abstract!Answer(s)
      BY <3>2, <3>3, <2>2, <1>1 DEF Abstract!Answer, Abstract!Committed
    <3>5. QED
      BY <3>4 DEF Abstract!Next
  <2>5. QED
    BY <2>1, <2>3, <2>4
<1>4. ASSUME NEW s \in Saver, SaverStep(s), LinkNew(s)
      PROVE  Abstract!Commit(s)
  <2>1. pc[s] = "linking" /\ outcome' = outcome
    BY <1>4, ContentAssumption, DestAssumption
       DEF SaverStep, Begin, Open, Write, Sync, Close, Link, CloseAgain, Unlink, LinkNew,
           Throw, Finally, names, SaveInv, TypeOK
  <2>2. report[s] = "pending" /\ report' = report
    BY <2>1 DEF SaveInv, AnswerFollows, ReportOf, Errors
  <2>3. s \notin past[Dest[s]]
    BY <2>1, DestAssumption DEF SaveInv, OneVerdict, HistoryIsPublished
  <2>4. QED
    BY <1>1, <1>4, <2>2, <2>3 DEF LinkNew, Abstract!Commit, Abstract!Committed, Abstract!Put
<1>5. ASSUME NEW s \in Saver, OutputFails(s) \/ Sweep(s)
      PROVE  UNCHANGED Abstract!vars
  BY <1>5, <1>2 DEF OutputFails, Sweep, names
<1>6. ASSUME NEW s \in Saver, Crash(s)
      PROVE  Abstract!Lose(s)
  <2>1. outcome[s] = "pending" /\ outcome' = [outcome EXCEPT ![s] = "lost"]
    BY <1>6 DEF Crash, Running, SaveInv, AnswerFollows
  <2>2. report[s] = "pending" /\ report' = [report EXCEPT ![s] = "lost"]
    <3>1. \A t \in Saver : outcome'[t] = IF t = s THEN "lost" ELSE outcome[t]
      BY <2>1 DEF SaveInv, TypeOK
    <3>2. ReportOf("lost") = "lost" /\ ReportOf("pending") = "pending"
      BY DEF ReportOf, Errors
    <3>3. report[s] = "pending"
      BY <2>1, <3>2
    <3>4. \A t \in Saver : report'[t] = IF t = s THEN "lost" ELSE report[t]
      BY <3>1, <3>2
    <3>5. QED
      BY <3>3, <3>4
  <2>3. QED
    BY <1>1, <1>6, <2>2 DEF Crash, names, Abstract!Lose
<1>7. ASSUME NEW p \in Path, Outside(p)
      PROVE  Abstract!Outside(p)
  <2>1. report' = report
    BY <1>7 DEF Outside
  <2>2. QED
    BY <1>1, <1>7, <2>1 DEF Outside, Abstract!Outside, Abstract!Put
<1>8. CASE PowerLoss
  <2> DEFINE R == {t \in Saver : Running(t) /\ outcome[t] = "pending"}
  <2>1. R \in SUBSET {t \in Saver : report[t] = "pending"}
    BY DEF ReportOf, Errors
  <2>2. report' = [t \in Saver |-> IF t \in R THEN "lost" ELSE report[t]]
    <3>1. outcome' = [t \in Saver |-> IF Running(t) THEN "lost" ELSE outcome[t]]
      BY <1>8 DEF PowerLoss
    <3>2. \A t \in Saver : Running(t) => outcome[t] = "pending"
      BY DEF Running, SaveInv, AnswerFollows
    <3>3. QED
      BY <3>1, <3>2 DEF ReportOf, Errors
  <2>3. past' = past /\ entry' \in {e \in [Path -> Saver \union {Absent, Foreign}] :
                                     \A p \in Path : e[p] \in past[p]}
    BY <1>8 DEF PowerLoss
  <2>4. Abstract!PowerLoss
    BY <1>1, <2>1, <2>2, <2>3 DEF Abstract!PowerLoss
  <2>5. QED
    BY <2>4 DEF Abstract!Next
<1>9. QED
  <2>1. CASE UNCHANGED vars
    BY <2>1, <1>2 DEF vars
  <2>2. CASE Next
    BY <2>2, <1>3, <1>4, <1>5, <1>6, <1>7, <1>8 DEF Next, Environment, Abstract!Next
  <2>3. QED
    BY <2>1, <2>2

\* saveNewAsset implements an exclusive, all-or-nothing, truthfully answered commit,
\* for every number of runs and output paths.
THEOREM SaveRefinesExclusiveOutput == Spec => ImplementsExclusiveOutput
<1>1. Spec => Abstract!Init /\ [][Abstract!Next]_(Abstract!vars)
  BY SaveInvariant, RefinesInit, RefinesNext, PTL DEF Spec
<1>2. QED
  BY <1>1 DEF ImplementsExclusiveOutput, Abstract!Spec

--------------------------------------------------------------------------------

(***************************************************************************)
(* The commands use saveNewAsset as it is specified.                       *)
(***************************************************************************)

\* A step of a command is a step of the save, or a stutter of it.
LEMMA CommandStepIsSaveStep == [CommandNext]_commandVars => [Next]_vars
<1> SUFFICES ASSUME [CommandNext]_commandVars PROVE [Next]_vars
  OBVIOUS
<1>1. CASE UNCHANGED vars
  BY <1>1
<1>2. ASSUME NEW s \in Saver, SaverStep(s) \/ Crash(s) PROVE Next
  BY <1>2 DEF Next, Environment
<1>3. ASSUME NEW s \in Saver, CommandStep(s) \/ Killed(s) PROVE UNCHANGED vars \/ Next
  <2>1. CASE Produced(s)
    BY <1>2, <2>1 DEF Produced, Hands, SaverStep
  <2>2. CASE Saves(s)
    BY <1>2, <2>2 DEF Saves
  <2>3. CASE Killed(s)
    BY <1>2, <2>3 DEF Killed
  <2>4. CASE UNCHANGED vars
    BY <2>4
  <2>5. QED
    BY <1>3, <2>1, <2>2, <2>3, <2>4
       DEF CommandStep, Operation, Starts, EditsCaptured, InputCaptured, AssetCaptured,
           Disclosed, SaveAnswered, Acknowledged, Settles
<1>4. CASE Disturbed
  BY <1>4 DEF Disturbed, Next, Environment
<1>5. QED
  BY <1>1, <1>3, <1>4 DEF CommandNext, Rewritten, commandVars

\* saveNewAsset inside the commands behaves as SaveNewAsset says: it is called at most
\* once in a run, and nothing but its own steps touches what it has made.
THEOREM CommandsUseSaveNewAsset == CommandSpec => CommandsUseSave
<1>1. CommandInit => Init
  BY DEF CommandInit
<1>2. QED
  BY <1>1, CommandStepIsSaveStep, PTL DEF CommandSpec, CommandsUseSave, Spec

(***************************************************************************)
(* What the save leaves alone.                                             *)
(***************************************************************************)

Settled == Errors \union {"complete", "temporary_retained"}

\* What a step of one run of the save does to its place and its answer.
LEMMA SaverStepFacts ==
  ASSUME SaveInv, NEW r \in Saver, SaverStep(r)
  PROVE  /\ pc[r] \notin {"settled", "crashed"}
         /\ \E p \in {"opening", "writing", "syncing", "finishing", "linking", "closing",
                      "unlinking", "settled"} : pc' = [pc EXCEPT ![r] = p]
         /\ \/ outcome' = outcome
            \/ \E o \in Settled : outcome' = [outcome EXCEPT ![r] = o]
         /\ pc'[r] = "settled" => outcome'[r] \in Settled
         /\ \A s \in Saver \ {r} : owned'[s] = owned[s]
         /\ UNCHANGED silenced
<1> USE DEF SaveInv, TypeOK, OneVerdict, Settled, Errors, Throw, Finally, Await, local, files, names
<1>1. CASE Begin(r)
  BY <1>1 DEF Begin
<1>2. CASE Open(r)
  BY <1>2 DEF Open
<1>3. CASE Write(r)
  BY <1>3 DEF Write
<1>4. CASE Sync(r)
  BY <1>4 DEF Sync
<1>5. CASE Close(r)
  BY <1>5 DEF Close
<1>6. CASE Link(r)
  BY <1>6 DEF Link
<1>7. CASE CloseAgain(r)
  BY <1>7 DEF CloseAgain
<1>8. CASE Unlink(r)
  BY <1>8 DEF Unlink, Result
<1>9. QED
  BY <1>1, <1>2, <1>3, <1>4, <1>5, <1>6, <1>7, <1>8 DEF SaverStep

\* What the environment of the save does to places and answers: it ends running saves.
LEMMA EnvironmentFacts ==
  ASSUME SaveInv, Environment
  PROVE  /\ \A s \in Saver : \/ pc'[s] = pc[s] /\ outcome'[s] = outcome[s]
                             \/ Running(s) /\ pc'[s] = "crashed" /\ outcome'[s] = "lost"
         /\ UNCHANGED owned
BY DEF Environment, OutputFails, Sweep, Crash, Outside, PowerLoss, SaveInv, TypeOK,
       Running, local, files, names

\* A step of the save or of its environment keeps SaveInv.
LEMMA SaveInvStep == SaveInv /\ [Next]_vars => SaveInv'
BY SaverStepInv, EnvironmentInv, StutterInv DEF Next

(***************************************************************************)
(* The invariant of the commands.                                          *)
(***************************************************************************)

\* No command has started.
LEMMA InitCommandInv == CommandInit => CommandInv
<1> SUFFICES ASSUME CommandInit PROVE CommandInv
  OBVIOUS
<1>1. SaveInv
  BY InitSaveInv DEF CommandInit
<1>2. CommandTypeOK
  BY VersionAssumption DEF CommandInit, CommandTypeOK, Waiting
<1>3. AnswerComesLast
  BY <1>1 DEF CommandInit, Init, AnswerComesLast, Waiting, SaveInv, TypeOK
<1>4. CodeFollowsAnswer
  BY DEF CommandInit, CodeFollowsAnswer
<1>5. ProductIsExpected
  BY DEF CommandInit, ProductIsExpected
<1>6. NothingUnpermitted
  BY DEF CommandInit, Init, NothingUnpermitted, Waiting
<1>7. QED
  BY <1>1, <1>2, <1>3, <1>4, <1>5, <1>6 DEF CommandInv

\* A step of an operation outside saveNewAsset and its call.
Plain(s) ==
  \/ Starts(s) \/ EditsCaptured(s) \/ InputCaptured(s) \/ AssetCaptured(s)
  \/ Disclosed(s) \/ SaveAnswered(s) \/ Acknowledged(s)
  \/ Produced(s) /\ UNCHANGED vars

\* The steps of a command outside the save keep the invariant.
LEMMA PlainStepInv == CommandInv /\ (\E s \in Saver : Plain(s)) => CommandInv'
<1> SUFFICES ASSUME SaveInv, CommandTypeOK, AnswerComesLast, CodeFollowsAnswer,
                    ProductIsExpected, NothingUnpermitted, NEW r \in Saver, Plain(r)
             PROVE  CommandInv'
  BY DEF CommandInv
<1> USE VersionAssumption
<1>1. UNCHANGED vars /\ UNCHANGED <<asset, cmd, permitted, exit>>
  BY DEF Plain, Starts, EditsCaptured, InputCaptured, AssetCaptured, Disclosed,
         SaveAnswered, Acknowledged, Produced
<1>2. SaveInv'
  BY <1>1, StutterInv
<1>3. CommandTypeOK'
  BY <1>1 DEF Plain, Starts, EditsCaptured, InputCaptured, AssetCaptured, Disclosed, Hands,
         SaveAnswered, Acknowledged, Produced, CommandTypeOK, Goto, Enter, Emit, Waiting, Answers
<1>4. AnswerComesLast'
  <2> USE <1>1 DEF CommandTypeOK, Goto, Enter, Emit, Waiting, Answers, AnswerComesLast, vars,
                   SaveCommand
  <2>1. CASE Starts(r)
    BY <2>1 DEF Starts
  <2>2. CASE EditsCaptured(r)
    BY <2>2 DEF EditsCaptured
  <2>3. CASE InputCaptured(r)
    BY <2>3 DEF InputCaptured
  <2>4. CASE AssetCaptured(r)
    BY <2>4 DEF AssetCaptured
  <2>5. CASE Disclosed(r)
    BY <2>5 DEF Disclosed
  <2>6. CASE SaveAnswered(r)
    <3>1. outcome[r] \in Errors \union {"complete", "temporary_retained"}
      BY <2>6 DEF SaveAnswered, SaveInv, TypeOK, AnswerFollows
    <3>2. QED
      BY <2>6, <3>1 DEF SaveAnswered, Errors
  <2>7. CASE Acknowledged(r)
    BY <2>7 DEF Acknowledged
  <2>8. CASE Produced(r)
    <3>1. ~ Begin(r)
      BY <1>1 DEF Begin, Throw, Finally, Await, SaveInv, TypeOK
    <3>2. QED
      BY <2>8, <3>1 DEF Produced, Hands
  <2>9. QED
    BY <2>1, <2>2, <2>3, <2>4, <2>5, <2>6, <2>7, <2>8 DEF Plain
<1>5. CodeFollowsAnswer'
  BY <1>1 DEF Plain, Starts, EditsCaptured, InputCaptured, AssetCaptured, Disclosed, Hands,
         SaveAnswered, Acknowledged, Produced, CommandTypeOK, Goto, Enter, Emit, Waiting, Answers,
         CodeFollowsAnswer, CodeOf
<1>6. ProductIsExpected'
  BY <1>1 DEF Plain, Starts, EditsCaptured, InputCaptured, AssetCaptured, Disclosed, Hands,
         SaveAnswered, Acknowledged, Produced, CommandTypeOK, Goto, Enter, Emit, Waiting, Answers,
         ProductIsExpected
<1>7. NothingUnpermitted'
  BY <1>1 DEF Plain, Starts, EditsCaptured, InputCaptured, AssetCaptured, Disclosed, Hands,
         SaveAnswered, Acknowledged, Produced, CommandTypeOK, Goto, Enter, Emit, Waiting, Answers,
         NothingUnpermitted, vars
<1>8. QED
  BY <1>2, <1>3, <1>4, <1>5, <1>6, <1>7 DEF CommandInv

\* The call of saveNewAsset, and its steps.
LEMMA SavingStepInv ==
  CommandInv /\ (\E s \in Saver : Saves(s) \/ (Produced(s) /\ Hands(s) /\ Begin(s))) => CommandInv'
<1> SUFFICES ASSUME SaveInv, CommandTypeOK, AnswerComesLast, CodeFollowsAnswer,
                    ProductIsExpected, NothingUnpermitted, NEW r \in Saver,
                    Saves(r) \/ (Produced(r) /\ Hands(r) /\ Begin(r))
             PROVE  CommandInv'
  BY DEF CommandInv
<1>1. SaverStep(r)
  BY DEF Saves, SaverStep
<1>2. SaveInv'
  BY <1>1, SaverStepInv
<1>3. /\ \/ UNCHANGED <<at, product>> /\ at[r] = "saving"
         \/ /\ at[r] = "producing"
            /\ at' = [at EXCEPT ![r] = "saving"]
            /\ product' = [product EXCEPT ![r] = captured[r]]
            /\ SaveCommand(r) /\ (cmd[r] = "create" \/ captured[r] = Expected)
      /\ UNCHANGED <<asset, cmd, permitted, exit, captured, disclosed, row>>
  <2>1. CASE Saves(r)
    BY <2>1 DEF Saves, progress
  <2>2. CASE Produced(r) /\ Hands(r) /\ Begin(r)
    <3>1. ~ UNCHANGED vars
      BY <2>2 DEF Begin, Throw, Finally, Await, SaveInv, TypeOK, vars
    <3>2. QED
      BY <2>2, <3>1 DEF Produced, Hands, Goto
  <2>3. QED
    BY <2>1, <2>2
<1> HIDE DEF Saves, Produced, Hands, Begin
<1>4. CommandTypeOK'
  BY <1>3 DEF CommandTypeOK
<1>5. AnswerComesLast'
  <2> SUFFICES ASSUME NEW s \in Saver PROVE AnswerComesLast!(s)'
    BY DEF AnswerComesLast
  <2>1. CASE s = r
    <3>1. row'[s] = "none" /\ at'[s] = "saving"
      BY <1>3, <2>1 DEF AnswerComesLast, CommandTypeOK, Waiting
    <3>2. pc'[s] # "idle" /\ (pc'[s] = "settled" => outcome'[s] # "lost")
      BY <1>1, <2>1, SaverStepFacts DEF SaveInv, TypeOK, Settled, Errors
    <3>3. QED
      BY <3>1, <3>2 DEF Waiting
  <2>2. CASE s # r
    <3>1. pc'[s] = pc[s] /\ outcome'[s] = outcome[s]
      BY <1>1, <2>2, SaverStepFacts DEF SaveInv, TypeOK
    <3>2. at'[s] = at[s] /\ UNCHANGED <<row, cmd>>
      BY <1>3, <2>2 DEF CommandTypeOK
    <3>3. QED
      BY <3>1, <3>2 DEF AnswerComesLast, SaveCommand
  <2>3. QED
    BY <2>1, <2>2
<1>6. CodeFollowsAnswer'
  BY <1>3 DEF CodeFollowsAnswer, CommandTypeOK, CodeOf
<1>7. ProductIsExpected'
  BY <1>3 DEF ProductIsExpected, CommandTypeOK
<1>8. NothingUnpermitted'
  BY <1>1, <1>3, SaverStepFacts
     DEF NothingUnpermitted, CommandTypeOK, Waiting, SaveInv, TypeOK
<1>9. QED
  BY <1>2, <1>4, <1>5, <1>6, <1>7, <1>8 DEF CommandInv

\* run() settles, other programs act, processes die.
LEMMA OtherStepInv ==
  CommandInv /\ ((\E s \in Saver : Settles(s) \/ Killed(s)) \/ Rewritten \/ Disturbed)
    => CommandInv'
<1> SUFFICES ASSUME SaveInv, CommandTypeOK, AnswerComesLast, CodeFollowsAnswer,
                    ProductIsExpected, NothingUnpermitted,
                    (\E s \in Saver : Settles(s) \/ Killed(s)) \/ Rewritten \/ Disturbed
             PROVE  CommandInv'
  BY DEF CommandInv
<1>1. /\ \A s \in Saver : \/ pc'[s] = pc[s] /\ outcome'[s] = outcome[s]
                          \/ Running(s) /\ pc'[s] = "crashed" /\ outcome'[s] = "lost"
      /\ UNCHANGED owned
  BY EnvironmentFacts
     DEF Settles, Killed, Rewritten, Disturbed, Environment, vars, local
<1>2. SaveInv'
  BY SaveInvStep DEF Settles, Killed, Rewritten, Disturbed, Environment, Next
<1>3. /\ \A s \in Saver : at'[s] = at[s] \/ (~ Ended(s) /\ at'[s] = "crashed")
      /\ \A s \in Saver : \/ exit'[s] = exit[s]
                          \/ exit'[s] \in {"failure", "error", "lost"}
                          \/ at[s] = "resolved" /\ at'[s] = at[s] /\ exit'[s] = CodeOf(row[s])
      /\ asset' \in Version
      /\ at' \in [Saver -> Waiting \union {"start", "saving", "writing", "resolved", "rejected", "crashed"}]
      /\ exit' \in [Saver -> {"pending", "0", "1", "2", "failure", "error", "lost"}]
      /\ UNCHANGED <<cmd, permitted, captured, disclosed, product, row>>
  BY DEF Settles, Killed, Rewritten, Disturbed, Goto, AtAfter, ExitAfter, CommandTypeOK,
         progress, Ended, CodeOf, Answers, AnswerComesLast
<1>4. CommandTypeOK'
  BY <1>3 DEF CommandTypeOK
<1>5. AnswerComesLast'
  BY <1>1, <1>2, <1>3, SMTT(30)
     DEF AnswerComesLast, Waiting, SaveCommand, Running, SaveInv, AnswerFollows, TypeOK, Errors, Ended
<1>6. CodeFollowsAnswer'
  <2>1. SUFFICES ASSUME NEW s \in Saver, exit'[s] \in {"0", "1", "2"}
                 PROVE  row[s] # "none" /\ at'[s] = "resolved" /\ exit'[s] = CodeOf(row[s])
    BY <1>3 DEF CodeFollowsAnswer, CodeOf
  <2>2. CASE exit'[s] = exit[s]
    <3>1. row[s] # "none" /\ at[s] = "resolved" /\ exit[s] = CodeOf(row[s])
      BY <2>1, <2>2 DEF CodeFollowsAnswer
    <3>2. at'[s] = at[s]
      BY <1>3, <3>1 DEF Ended
    <3>3. QED
      BY <2>2, <3>1, <3>2
  <2>3. CASE at[s] = "resolved" /\ at'[s] = at[s] /\ exit'[s] = CodeOf(row[s])
    BY <2>1, <2>3 DEF AnswerComesLast
  <2>4. QED
    BY <1>3, <2>1, <2>2, <2>3
<1>7. ProductIsExpected'
  BY <1>3 DEF ProductIsExpected, Ended
<1>8. NothingUnpermitted'
  BY <1>1, <1>3 DEF NothingUnpermitted, Running, Waiting, Ended
<1>9. QED
  BY <1>2, <1>4, <1>5, <1>6, <1>7, <1>8 DEF CommandInv

\* CommandInv holds in every reachable state.
THEOREM CommandInvariant == CommandSpec => []CommandInv
<1>1. CommandInv /\ [CommandNext]_commandVars => CommandInv'
  <2> SUFFICES ASSUME CommandInv, [CommandNext]_commandVars PROVE CommandInv'
    OBVIOUS
  <2>1. ASSUME NEW s \in Saver, Operation(s) PROVE CommandInv'
    <3>1. CASE Produced(s)
      <4>1. Plain(s) \/ (Produced(s) /\ Hands(s) /\ Begin(s))
        BY <3>1 DEF Produced, Hands, Plain
      <4>2. QED
        BY <4>1, PlainStepInv, SavingStepInv
    <3>2. CASE ~ Produced(s)
      BY <2>1, <3>2, PlainStepInv, SavingStepInv DEF Operation, Plain
    <3>3. QED
      BY <3>1, <3>2
  <2>2. CASE UNCHANGED commandVars
    <3>1. SaveInv'
      BY <2>2, StutterInv DEF CommandInv, commandVars
    <3>2. QED
      BY <2>2, <3>1
         DEF CommandInv, CommandTypeOK, AnswerComesLast, CodeFollowsAnswer, ProductIsExpected,
             NothingUnpermitted, commandVars, progress, vars, local, Ended, SaveCommand
  <2>3. QED
    BY <2>1, <2>2, OtherStepInv DEF CommandNext, CommandStep
<1>2. QED
  BY <1>1, InitCommandInv, PTL DEF CommandSpec

(***************************************************************************)
(* What follows from it.                                                   *)
(***************************************************************************)

\* An answer and the commit agree.
LEMMA InvRowIsTrue == CommandInv => RowIsTrue
<1> SUFFICES ASSUME CommandInv, NEW s \in Saver, row[s] # "none"
             PROVE  row[s] = "saved" <=> Committed(s)
  BY DEF RowIsTrue
<1>1. Committed(s) <=> published[s]
  BY DestAssumption DEF CommandInv, SaveInv, HistoryIsPublished, Committed
<1>2. /\ row[s] = "saved" => published[s]
      /\ row[s] # "saved" => ~ published[s]
  BY DEF CommandInv, AnswerComesLast, SaveInv, AnswerFollows, OneVerdict, Errors
<1>3. QED
  BY <1>1, <1>2

\* The answer of every command says truly whether it has committed an asset.
THEOREM CommandAnswersTruly == CommandSpec => []RowIsTrue
BY CommandInvariant, InvRowIsTrue, PTL

\* So does its exit code, whatever fails and whoever else acts in between.
THEOREM ExitCodeTellsTruly == CommandSpec => []ExitIsTrue
<1>1. CommandInv => ExitIsTrue
  <2> SUFFICES ASSUME CommandInv, NEW s \in Saver
               PROVE  /\ exit[s] = "0" /\ SaveCommand(s) => Committed(s)
                      /\ exit[s] \in {"1", "2"} => ~ Committed(s)
    BY DEF ExitIsTrue
  <2>1. exit[s] \in {"0", "1", "2"} => row[s] \in Answers /\ exit[s] = CodeOf(row[s])
    BY DEF CommandInv, CodeFollowsAnswer, CommandTypeOK
  <2>2. row[s] \in Answers => (row[s] = "saved" <=> Committed(s))
    BY InvRowIsTrue DEF RowIsTrue, Answers
  <2>3. row[s] \in {"accepted", "source_opened"} => ~ SaveCommand(s)
    BY DEF CommandInv, AnswerComesLast
  <2>4. QED
    BY <2>1, <2>2, <2>3 DEF CodeOf, Answers
<1>2. QED
  BY CommandInvariant, <1>1, PTL

\* Without permission no file is opened, no Core operation runs, nothing is saved.
THEOREM NothingWithoutPermission == CommandSpec => []PermissionComesFirst
<1>1. CommandInv => PermissionComesFirst
  BY DEF CommandInv, NothingUnpermitted, PermissionComesFirst
<1>2. QED
  BY CommandInvariant, <1>1, PTL

\* Only the content named by the caller is revised or converted.
THEOREM SavesWhatWasNamed == CommandSpec => []SavedFromExpected
<1>1. CommandInv => SavedFromExpected
  BY DEF CommandInv, ProductIsExpected, SavedFromExpected
<1>2. QED
  BY CommandInvariant, <1>1, PTL

\* A command's answer and exit code are true, and what it saved was permitted and named.
THEOREM CommandIsTruthful == CommandSpec => []CommandTellsTruth
<1>1. RowIsTrue /\ ExitIsTrue /\ PermissionComesFirst /\ SavedFromExpected => CommandTellsTruth
  BY DEF CommandTellsTruth
<1>2. QED
  BY CommandAnswersTruly, ExitCodeTellsTruly, NothingWithoutPermission, SavesWhatWasNamed, <1>1, PTL

\* An output failure lets a command start no capture and no Core operation.
THEOREM SilencedCommandsStartNothing == CommandSpec => NoWorkSilenced
<1>1. CommandInv /\ [CommandNext]_commandVars =>
        [\A s \in Saver : silenced[s] /\ at'[s] \in Waiting \ {"input"} => at'[s] = at[s]]_commandVars
  <2> SUFFICES ASSUME CommandInv, CommandNext, NEW s \in Saver, silenced[s],
                      at'[s] \in Waiting \ {"input"}
               PROVE  at'[s] = at[s]
    OBVIOUS
  <2>1. at \in [Saver -> Waiting \union {"start", "saving", "writing", "resolved", "rejected", "crashed"}]
    BY DEF CommandInv, CommandTypeOK
  <2>2. ASSUME NEW r \in Saver, Operation(r) PROVE at'[s] = at[s]
    BY <2>1, <2>2 DEF Operation, Starts, EditsCaptured, InputCaptured, AssetCaptured, Disclosed,
       Produced, Hands, Saves, SaveAnswered, Acknowledged, Goto, Enter, Emit, Waiting, progress
  <2>3. ASSUME NEW r \in Saver, Settles(r) \/ Killed(r) PROVE at'[s] = at[s]
    BY <2>1, <2>3 DEF Settles, Killed, Goto, AtAfter, Waiting, progress
  <2>4. CASE Rewritten \/ Disturbed
    BY <2>1, <2>4 DEF Rewritten, Disturbed, AtAfter, Waiting, progress
  <2>5. QED
    BY <2>2, <2>3, <2>4 DEF CommandNext, CommandStep
<1>2. QED
  BY CommandInvariant, <1>1, PTL DEF CommandSpec, NoWorkSilenced
================================================================================
