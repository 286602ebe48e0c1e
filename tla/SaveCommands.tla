------------------------------ MODULE SaveCommands ------------------------------
(***************************************************************************)
(* The commands over one asset file in runWithOutput of src/public-cli.js: *)
(* inspect (which stands for validate too), source-open, source-pack,      *)
(* convert and create, from their permission to their exit code.  The last *)
(* three end in saveNewAsset, whose variables and actions are those of     *)
(* SaveNewAsset; here they are driven by the command that calls it.        *)
(*                                                                         *)
(* An action is the code between two awaits of the operation: the capture  *)
(* of a file (BoundedFile), one call into Core, saveNewAsset, or the write *)
(* of the answer.  Core is external: it accepts the bytes it is given if   *)
(* they are the asset the caller named by its digest, and may refuse them. *)
(***************************************************************************)
EXTENDS SaveNewAsset

CONSTANTS
  Version,    \* the contents the source asset may have
  Mixed,      \* bytes of two contents: the asset was rewritten during its capture
  None,       \* nothing captured
  Expected    \* the content whose digest is given as --expected-a

ASSUME VersionAssumption ==
  Expected \in Version /\ Mixed \notin Version /\ None \notin Version \union {Mixed}

VARIABLES
  asset,       \* the content of the source asset now
  cmd,         \* cmd[s]: the command of the run
  permitted,   \* permitted[s]: its --allow option is given, or none is needed
  at,          \* at[s]: what the operation waits for, or how it has ended
  captured,    \* captured[s]: `bytes`
  disclosed,   \* disclosed[s]: the content `sourcePayload` is taken from
  product,     \* product[s]: the content the bytes to save are made from
  row,         \* row[s]: the answer handed to write()
  exit         \* exit[s]: how run() has settled

progress == <<at, captured, disclosed, product, row>>
commandVars == <<vars, asset, cmd, permitted, progress, exit>>

Commands == {"inspect", "source-open", "source-pack", "convert", "create"}

SaveCommand(s) == cmd[s] \in {"source-pack", "convert", "create"}

Waiting == {"edits", "input", "asset", "disclosing", "producing"}

CommandInit ==
  /\ Init
  /\ asset \in Version
  /\ cmd \in [Saver -> Commands]
  /\ permitted \in {p \in [Saver -> BOOLEAN] : \A s \in Saver : cmd[s] = "inspect" => p[s]}
  /\ at = [s \in Saver |-> "start"]
  /\ captured = [s \in Saver |-> None]
  /\ disclosed = [s \in Saver |-> None]
  /\ product = [s \in Saver |-> None]
  /\ row = [s \in Saver |-> "none"]
  /\ exit = [s \in Saver |-> "pending"]

--------------------------------------------------------------------------------
(* How the operation goes on.                                                 *)

Goto(s, place) == at' = [at EXCEPT ![s] = place] /\ UNCHANGED row

\* assertActive() and the start of the next file or Core operation.
Enter(s, place) == Goto(s, IF silenced[s] THEN "rejected" ELSE place)

\* emit(): write() throws the failure it knows of, or the answer is under way.
Emit(s, answer) ==
  IF silenced[s] THEN Goto(s, "rejected")
  ELSE /\ at' = [at EXCEPT ![s] = "writing"]
       /\ row' = [row EXCEPT ![s] = answer]

--------------------------------------------------------------------------------
(* The operation.                                                             *)

\* Mutant of Starts: the files are read before the permission is asked for.
StartsReading(s) ==
  /\ at[s] = "start"
  /\ IF cmd[s] = "create" THEN Goto(s, "input")
     ELSE Enter(s, IF cmd[s] = "source-pack" THEN "edits" ELSE "asset")
  /\ UNCHANGED <<vars, asset, cmd, permitted, captured, disclosed, product, exit>>

\* Permission, then the first file.  The authored input of create is captured
\* without assertActive().
Starts(s) ==
  /\ at[s] = "start"
  /\ IF ~ permitted[s] THEN Emit(s, "rejected")
     ELSE IF cmd[s] = "create" THEN Goto(s, "input")
     ELSE Enter(s, IF cmd[s] = "source-pack" THEN "edits" ELSE "asset")
  /\ UNCHANGED <<vars, asset, cmd, permitted, captured, disclosed, product, exit>>

EditsCaptured(s) ==
  /\ at[s] = "edits"
  /\ Enter(s, "asset") \/ Emit(s, "unavailable")
  /\ UNCHANGED <<vars, asset, cmd, permitted, captured, disclosed, product, exit>>

\* The authored input is refused, or Core refuses the request, or Core starts.
InputCaptured(s) ==
  /\ at[s] = "input"
  /\ Enter(s, "producing") \/ Emit(s, "unavailable") \/ Emit(s, "rejected")
  /\ UNCHANGED <<vars, asset, cmd, permitted, captured, disclosed, product, exit>>

\* Mutant of AssetCaptured: the output is not looked at before Core is called.
AssetCapturedOn(s) ==
  /\ at[s] = "asset"
  /\ captured' \in {[captured EXCEPT ![s] = v] : v \in {asset, Mixed}}
  /\ \/ cmd[s] = "source-pack" /\ Goto(s, "disclosing")
     \/ Goto(s, "producing")
     \/ Emit(s, "rejected")
  /\ UNCHANGED <<vars, asset, cmd, permitted, disclosed, product, exit>>

\* source-pack opens the captured bytes before it packs them, unless Core refuses
\* the request to open.
AssetCaptured(s) ==
  /\ at[s] = "asset"
  /\ \/ /\ captured' \in {[captured EXCEPT ![s] = v] : v \in {asset, Mixed}}
        /\ \/ cmd[s] = "source-pack" /\ Enter(s, "disclosing")
           \/ Enter(s, "producing")
           \/ cmd[s] # "inspect" /\ Emit(s, "rejected")
     \/ /\ Emit(s, IF cmd[s] = "inspect" THEN "rejected" ELSE "unavailable")
        /\ UNCHANGED captured
  /\ UNCHANGED <<vars, asset, cmd, permitted, disclosed, product, exit>>

\* Mutant of Disclosed: the source is captured a second time for the comparison.
DisclosedAnew(s) ==
  /\ at[s] = "disclosing"
  /\ disclosed' = [disclosed EXCEPT ![s] = asset]
  /\ Enter(s, "producing")
  /\ UNCHANGED <<vars, asset, cmd, permitted, captured, product, exit>>

\* openSectionSourceNode answers source-pack: opened, refused, or an error.
Disclosed(s) ==
  /\ at[s] = "disclosing"
  /\ \/ /\ captured[s] = Expected
        /\ disclosed' = [disclosed EXCEPT ![s] = captured[s]]
        /\ Enter(s, "producing")
     \/ Enter(s, "producing") /\ UNCHANGED disclosed
     \/ Goto(s, "rejected") /\ UNCHANGED disclosed
  /\ UNCHANGED <<vars, asset, cmd, permitted, captured, product, exit>>

\* Core made bytes to save: saveNewAsset is called and starts at once.  Only create
\* comes here without its own assertActive(); saveNewAsset asks it too.
Hands(s) ==
  /\ SaveCommand(s)
  /\ cmd[s] = "create" \/ captured[s] = Expected
  /\ IF cmd[s] # "create" /\ silenced[s]
     THEN Goto(s, "rejected") /\ UNCHANGED <<vars, product>>
     ELSE /\ product' = [product EXCEPT ![s] = captured[s]]
          /\ Goto(s, "saving")
          /\ Begin(s)

\* Core answers the command: bytes to save, a result to print, a refusal, an error.
Produced(s) ==
  /\ at[s] = "producing"
  /\ \/ Hands(s)
     \/ /\ \/ cmd[s] = "inspect" /\ captured[s] # Mixed /\ Emit(s, "accepted")
           \/ cmd[s] = "source-open" /\ captured[s] = Expected /\ Emit(s, "source_opened")
           \/ Emit(s, "rejected")
           \/ Goto(s, "rejected")
        /\ UNCHANGED <<vars, product>>
  /\ UNCHANGED <<asset, cmd, permitted, captured, disclosed, exit>>

\* The steps of saveNewAsset after its first.
Saves(s) ==
  /\ at[s] = "saving"
  /\ SaverStep(s)
  /\ UNCHANGED <<asset, cmd, permitted, progress, exit>>

\* Mutant of SaveAnswered: only an occupied output path counts as a failed save.
SaveAnsweredByCode(s) ==
  /\ at[s] = "saving" /\ pc[s] = "settled"
  /\ Emit(s, IF outcome[s] = "KDNA_OUTPUT_EXISTS" THEN "save_failed" ELSE "saved")
  /\ UNCHANGED <<vars, asset, cmd, permitted, captured, disclosed, product, exit>>

\* Mutant of SaveAnswered: a save that failed is tried once more.
SaveAnsweredRetrying(s) ==
  /\ at[s] = "saving" /\ pc[s] = "settled"
  /\ IF outcome[s] = "KDNA_SAVE_FAILED"
     THEN /\ pc' = [pc EXCEPT ![s] = "opening"]
          /\ outcome' = [outcome EXCEPT ![s] = "pending"]
          /\ UNCHANGED <<local, raised, silenced, files, names, at, row>>
     ELSE Emit(s, IF outcome[s] \in Errors THEN "save_failed" ELSE "saved") /\ UNCHANGED vars
  /\ UNCHANGED <<asset, cmd, permitted, captured, disclosed, product, exit>>

\* saveNewAsset has settled: its value is reported as saved, its error as a failed save.
SaveAnswered(s) ==
  /\ at[s] = "saving" /\ pc[s] = "settled"
  /\ Emit(s, IF outcome[s] \in Errors THEN "save_failed" ELSE "saved")
  /\ UNCHANGED <<vars, asset, cmd, permitted, captured, disclosed, product, exit>>

\* Mutant of Acknowledged: a write under way is not rejected by a failure.
AcknowledgedOnly(s) ==
  /\ at[s] = "writing"
  /\ ~ silenced[s] /\ Goto(s, "resolved")
  /\ UNCHANGED <<vars, asset, cmd, permitted, captured, disclosed, product, exit>>

\* write() resolves in the callback of the stream, or is rejected by the failure.
Acknowledged(s) ==
  /\ at[s] = "writing"
  /\ Enter(s, "resolved")
  /\ UNCHANGED <<vars, asset, cmd, permitted, captured, disclosed, product, exit>>

\* Mutant of CodeOf: an answer was printed, so the command has succeeded.
CodeOfAnswer(answer) == IF answer = "unavailable" THEN "2" ELSE "0"

\* The exit code each answer is returned with.
CodeOf(answer) ==
  CASE answer \in {"saved", "source_opened", "accepted"} -> "0"
    [] answer \in {"rejected", "save_failed"} -> "1"
    [] answer = "unavailable" -> "2"

\* run() settles: with the output failure as soon as there is one, although the
\* operation may still be at work; otherwise as the operation has ended.
Settles(s) ==
  /\ exit[s] = "pending"
  /\ \/ silenced[s] /\ exit' = [exit EXCEPT ![s] = "failure"]
     \/ /\ ~ silenced[s] /\ at[s] = "resolved"
        /\ exit' = [exit EXCEPT ![s] = CodeOf(row[s])]
     \/ /\ ~ silenced[s] /\ at[s] = "rejected"
        /\ exit' = [exit EXCEPT ![s] = "error"]
  /\ UNCHANGED <<vars, asset, cmd, permitted, progress>>

--------------------------------------------------------------------------------
(* The environment.                                                           *)

Ended(s) == at[s] \in {"resolved", "rejected", "crashed"}

\* Another program saves the source asset anew.
Rewritten ==
  /\ asset' \in Version
  /\ UNCHANGED <<vars, cmd, permitted, progress, exit>>

\* What is left of a command whose process is gone.
AtAfter(s) == IF Ended(s) THEN at[s] ELSE "crashed"
ExitAfter(s) == IF exit[s] = "pending" THEN "lost" ELSE exit[s]

\* The process is killed, in saveNewAsset or elsewhere in the command.
Killed(s) ==
  /\ ~ Ended(s) \/ exit[s] = "pending"
  /\ IF Running(s) THEN Crash(s) ELSE UNCHANGED vars
  /\ Goto(s, AtAfter(s))
  /\ exit' = [exit EXCEPT ![s] = ExitAfter(s)]
  /\ UNCHANGED <<asset, cmd, permitted, captured, disclosed, product>>

\* What OutputFails, Outside, Sweep and PowerLoss of SaveNewAsset do to the commands.
Disturbed ==
  \/ /\ \/ \E s \in Saver : (exit[s] = "pending" /\ OutputFails(s)) \/ Sweep(s)
        \/ \E p \in Path : Outside(p)
     /\ UNCHANGED <<asset, cmd, permitted, progress, exit>>
  \/ /\ PowerLoss
     /\ at' = [s \in Saver |-> AtAfter(s)]
     /\ exit' = [s \in Saver |-> ExitAfter(s)]
     /\ UNCHANGED <<asset, cmd, permitted, captured, disclosed, product, row>>

--------------------------------------------------------------------------------
Operation(s) ==
  \/ Starts(s) \/ EditsCaptured(s) \/ InputCaptured(s) \/ AssetCaptured(s)
  \/ Disclosed(s) \/ Produced(s) \/ Saves(s) \/ SaveAnswered(s) \/ Acknowledged(s)

CommandStep(s) == Operation(s) \/ Settles(s)

CommandNext ==
  \/ \E s \in Saver : CommandStep(s) \/ Killed(s)
  \/ Rewritten
  \/ Disturbed

CommandSpec == CommandInit /\ [][CommandNext]_commandVars

\* Captures, Core, the file system and the write callback answer in the end; run()
\* is told of the end of its operation and of an output failure.
CommandFairness == \A s \in Saver : WF_commandVars(Operation(s)) /\ WF_commandVars(Settles(s))

CommandFairSpec == CommandSpec /\ CommandFairness

--------------------------------------------------------------------------------
(* Properties.                                                                *)

Answers == {"accepted", "source_opened", "rejected", "unavailable", "save_failed", "saved"}

CommandTypeOK ==
  /\ asset \in Version
  /\ cmd \in [Saver -> Commands]
  /\ permitted \in [Saver -> BOOLEAN]
  /\ at \in [Saver -> Waiting \union {"start", "saving", "writing", "resolved", "rejected", "crashed"}]
  /\ captured \in [Saver -> Version \union {Mixed, None}]
  /\ disclosed \in [Saver -> Version \union {Mixed, None}]
  /\ product \in [Saver -> Version \union {Mixed, None}]
  /\ row \in [Saver -> Answers \union {"none"}]
  /\ exit \in [Saver -> {"pending", "0", "1", "2", "failure", "error", "lost"}]

\* The answer of a command tells what happened to the output path: "saved" is written
\* only for a committed asset, and every other answer only if nothing was committed.
RowIsTrue ==
  \A s \in Saver : row[s] # "none" => (row[s] = "saved" <=> Committed(s))

\* So does the exit code: 0 of a command that saves means a committed asset, 1 and 2
\* mean none.  Only a failure of the output, or a kill, leaves it open.
ExitIsTrue ==
  \A s \in Saver :
    /\ exit[s] = "0" /\ SaveCommand(s) => Committed(s)
    /\ exit[s] \in {"1", "2"} => ~ Committed(s)

\* Without its --allow option a command opens no file, calls no Core operation and
\* saves nothing.
PermissionComesFirst ==
  \A s \in Saver :
    ~ permitted[s] => at[s] \notin Waiting \union {"saving"} /\ captured[s] = None /\ ~ owned[s]

\* What source-pack and convert save is made from the content the caller named, however
\* often the source asset is saved anew meanwhile, and the change report of source-pack
\* compares with that same content.
SavedFromExpected ==
  \A s \in Saver :
    row[s] = "saved" /\ cmd[s] # "create" =>
      product[s] = Expected /\ disclosed[s] \in {product[s], None}

\* Its answer and its exit code are true, and what it saved was permitted and named.
CommandTellsTruth == RowIsTrue /\ ExitIsTrue /\ PermissionComesFirst /\ SavedFromExpected

\* Once the output has failed a command starts no capture and no Core operation,
\* except that create still captures its authored input.
NoWorkSilenced ==
  [][\A s \in Saver : silenced[s] /\ at'[s] \in Waiting \ {"input"} => at'[s] = at[s]]_commandVars

\* The commands call saveNewAsset as it is meant to be called: at most once in a run,
\* never again after it has settled.
CommandsUseSave == Spec

\* A command ends and its run settles, although the output may fail and the run may
\* have been answered with that failure while the operation was still at work.
CommandEnds == \A s \in Saver : <>(Ended(s) /\ exit[s] # "pending")

--------------------------------------------------------------------------------
(* The inductive invariant behind them.                                       *)

\* saveNewAsset has not been called before the operation comes to it, and an answer is
\* written after it, as it has settled.
AnswerComesLast ==
  \A s \in Saver :
    /\ at[s] \in Waiting \union {"start"} => pc[s] = "idle" /\ row[s] = "none"
    /\ at[s] = "saving" => pc[s] # "idle" /\ row[s] = "none"
    /\ at[s] \in {"writing", "resolved"} => row[s] # "none"
    /\ pc[s] = "settled" => outcome[s] # "lost"
    /\ row[s] = "saved" => outcome[s] \in {"complete", "temporary_retained"}
    /\ row[s] \notin {"none", "saved"} => pc[s] = "idle" \/ outcome[s] \in Errors
    /\ row[s] \in {"accepted", "source_opened"} => ~ SaveCommand(s)

CodeFollowsAnswer ==
  \A s \in Saver : exit[s] \in {"0", "1", "2"} => row[s] # "none" /\ at[s] = "resolved" /\ exit[s] = CodeOf(row[s])

\* Only captured bytes are worked on, and only those the caller named are saved.
ProductIsExpected ==
  \A s \in Saver :
    /\ disclosed[s] \in {Expected, None}
    /\ at[s] = "saving" \/ row[s] = "saved" => cmd[s] = "create" \/ product[s] = Expected

NothingUnpermitted ==
  \A s \in Saver :
    ~ permitted[s] => at[s] \notin Waiting \union {"saving"} /\ captured[s] = None /\ pc[s] = "idle" /\ ~ owned[s]

CommandInv ==
  SaveInv /\ CommandTypeOK /\ AnswerComesLast /\ CodeFollowsAnswer /\ ProductIsExpected /\ NothingUnpermitted
================================================================================
