--------------------------------- MODULE WorkPack ---------------------------------
(***************************************************************************)
(* Work packs, retired/src/cmds/workpack.js: init writes the directory and *)
(* its files one after the other, without a lock and without a temporary   *)
(* name; plan, dry run, validate and report read whatever is there.        *)
(***************************************************************************)
EXTENDS Naturals, FiniteSets, SequencesExt

CONSTANTS
  Packer,      \* processes that run work pack commands
  MaxPacks,    \* bound on the commands run
  MaxTroubled  \* bound on crashes, failed writes and edits by the author

ASSUME PackAssumption == MaxPacks \in Nat /\ MaxTroubled \in Nat

VARIABLES
  folder,   \* whether the directory is there
  written,  \* written[f]: what file f holds: the domain its init was given where it names one, "edited", what does not
            \* parse, or nothing
  packer,   \* packer[p]: the command under way
  skill,    \* the skill that the manifest declares: required, not required or silent, with a fallback or not
  run,      \* the gate results that the last report read, none when there is no file
  told,     \* the last answer
  packs, troubled

packVars == <<folder, written, packer, skill, run, told, packs, troubled>>

\* The files of a pack in the order in which init writes them.
PackFiles == <<"workpack.json", "gate", "risk-policy", "trace-policy", "skill-bindings", "references", "cases", "sample",
               "task-template", "output-template", ".gitignore">>

File == ToSet(PackFiles)

\* The files that the manifest names.
NamedFiles == {"gate", "risk-policy", "trace-policy", "cases", "task-template", "output-template"}

\* What init writes into a file: only the manifest and the references name the domain.
Content(file, topic) == IF file \in {"workpack.json", "references"} THEN topic ELSE "as made"

Topic == {"code_review", "writing"}

Absent == "absent"

\* What does not parse: half a write, or a mistake of the author.
Broken == "broken"

Unoccupied == [verb |-> "none", topic |-> Absent, next |-> 0, alone |-> TRUE]

NothingTold == [verb |-> "none", answer |-> "none", files |-> {}, parsed |-> {}, gates |-> {}, risks |-> FALSE, trace |-> FALSE,
                fallback |-> FALSE, required |-> FALSE, counts |-> <<0, 0, 0>>]

PackInit ==
  /\ folder = FALSE /\ written = [f \in File |-> Absent] /\ packer = [p \in Packer |-> Unoccupied]
  /\ skill = [required |-> "yes", fallback |-> FALSE] /\ run = <<>> /\ told = NothingTold /\ packs = 0 /\ troubled = 0

--------------------------------------------------------------------------------

\* A reading changes nothing: a behaviour ends with it.
Writing == told.verb \in {"none", "init"}

Busy == {p \in Packer : packer[p] # Unoccupied}

\* Mutant of MayInit: a directory that is there is filled.
MayInitOver == TRUE

MayInit == ~folder

StartInit(p) ==
  /\ Writing /\ packer[p] = Unoccupied /\ packs < MaxPacks /\ packs' = packs + 1
  /\ IF MayInit
     THEN \E topic \in Topic :
            packer' = [q \in Packer |-> IF q = p THEN [verb |-> "init", topic |-> topic, next |-> 0, alone |-> Busy = {}]
                                        ELSE [packer[q] EXCEPT !.alone = packer[q] = Unoccupied]]
     ELSE packer' = packer
  /\ told' = [NothingTold EXCEPT !.verb = "init", !.answer = IF MayInit THEN "begun" ELSE "exists"]
  /\ UNCHANGED <<folder, written, skill, run, troubled>>

MakeFolders(p) ==
  /\ Writing /\ packer[p].verb = "init" /\ packer[p].next = 0 /\ folder' = TRUE /\ packer' = [packer EXCEPT ![p].next = 1]
  /\ UNCHANGED <<written, skill, run, told, packs, troubled>>

\* Mutant of WriteNext: the templates are left to the author.
WriteNextButTemplates(p) ==
  /\ Writing /\ packer[p].verb = "init" /\ packer[p].next \in 1..Len(PackFiles)
  /\ written' = IF packer[p].next \in 9..10 THEN written
                ELSE [written EXCEPT ![PackFiles[packer[p].next]] = Content(PackFiles[packer[p].next], packer[p].topic)]
  /\ packer' = [packer EXCEPT ![p].next = @ + 1]
  /\ UNCHANGED <<folder, skill, run, told, packs, troubled>>

\* mkdir and writeFileSync take what is there for granted.
WriteNext(p) ==
  /\ Writing /\ packer[p].verb = "init" /\ packer[p].next \in 1..Len(PackFiles)
  /\ written' = [written EXCEPT ![PackFiles[packer[p].next]] = Content(PackFiles[packer[p].next], packer[p].topic)]
  /\ packer' = [packer EXCEPT ![p].next = @ + 1]
  /\ UNCHANGED <<folder, skill, run, told, packs, troubled>>

EndInit(p) ==
  /\ Writing /\ packer[p].verb = "init" /\ packer[p].next > Len(PackFiles) /\ packer' = [packer EXCEPT ![p] = Unoccupied]
  /\ told' = [NothingTold EXCEPT !.verb = "init", !.answer = IF packer[p].alone THEN "created" ELSE "created with others"]
  /\ UNCHANGED <<folder, written, skill, run, packs, troubled>>

\* A crash, or a write that fails: nothing is undone, and the file under way may be half written.
BreakOff(p) ==
  /\ Writing /\ packer[p].verb = "init" /\ troubled < MaxTroubled /\ troubled' = troubled + 1
  /\ packer' = [packer EXCEPT ![p] = Unoccupied]
  /\ \/ written' = written
     \/ packer[p].next \in 1..Len(PackFiles) /\ written' = [written EXCEPT ![PackFiles[packer[p].next]] = Broken]
  /\ told' = NothingTold
  /\ UNCHANGED <<folder, skill, run, packs>>

\* The author edits or removes one file of a pack nobody is writing.
EditPack ==
  /\ Writing /\ Busy = {} /\ folder /\ troubled < MaxTroubled /\ troubled' = troubled + 1
  /\ \E f \in File, to \in {"edited", Broken, Absent} :
       /\ written[f] # to /\ written' = [written EXCEPT ![f] = to]
       /\ IF f = "workpack.json" /\ to = "edited" THEN skill' \in [required : {"yes", "no", "silent"}, fallback : BOOLEAN]
          ELSE skill' = skill
  /\ told' = NothingTold
  /\ UNCHANGED <<folder, packer, run, packs>>

--------------------------------------------------------------------------------

\* The files that are there.
There == {f \in File : written[f] # Absent}

\* Those that readJsonSafe and loadWorkPack can parse.
Parsed == {f \in There : written[f] # Broken}

\* s.required !== false
Required == skill.required # "no"

\* Mutant of FallbackUsed: required or not.
FallbackUsedAnyway == skill.fallback

\* !s.required && s.fallback
FallbackUsed == skill.required # "yes" /\ skill.fallback

\* A plan resolves references syntactically; what it cannot read it leaves out, and the gates of a dry run pass.
PlanOf(files) ==
  IF "workpack.json" \notin files THEN [NothingTold EXCEPT !.verb = "plan", !.answer = "no manifest"]
  ELSE [NothingTold EXCEPT !.verb = "plan", !.answer = "completed", !.gates = {"gate"} \intersect files,
                           !.risks = "risk-policy" \in files, !.trace = "trace-policy" \in files]

PlanPack(p) ==
  /\ Writing /\ packer[p] = Unoccupied /\ packs < MaxPacks /\ packs' = packs + 1
  /\ told' = [PlanOf(Parsed) EXCEPT !.files = There, !.parsed = Parsed, !.fallback = FallbackUsed, !.required = Required]
  /\ UNCHANGED <<folder, written, packer, skill, run, troubled>>

\* Mutant of IsWhole: the gates are not looked for.
IsWholeButGates(files) == (NamedFiles \ {"gate"}) \subseteq files

\* checkWorkPackStructure
IsWhole(files) == NamedFiles \subseteq files

\* Core checks the manifest, which is valid here, and that the files it names are there, unless only the schema counts.
Validate(p) ==
  /\ Writing /\ packer[p] = Unoccupied /\ packs < MaxPacks /\ packs' = packs + 1
  /\ \E schemaOnly \in BOOLEAN :
       told' = [NothingTold EXCEPT !.verb = IF schemaOnly THEN "validate schema" ELSE "validate", !.files = There, !.parsed = Parsed,
                                   !.answer = IF "workpack.json" \in Parsed /\ (schemaOnly \/ IsWhole(There))
                                              THEN "valid" ELSE "invalid"]
  /\ UNCHANGED <<folder, written, packer, skill, run, troubled>>

\* Mutant of GateCounts: what is not a pass is not counted.
GateCountsPassed(gates) ==
  <<Len(gates), Cardinality({i \in DOMAIN gates : gates[i] = "pass"}), 0>>

\* Two filters, one for the passes and one for the rest.
GateCounts(gates) ==
  <<Len(gates), Cardinality({i \in DOMAIN gates : gates[i] = "pass"}), Cardinality({i \in DOMAIN gates : gates[i] # "pass"})>>

ReportRun(p) ==
  /\ Writing /\ packer[p] = Unoccupied /\ packs < MaxPacks /\ packs' = packs + 1
  /\ run' \in {<<>>} \union [1..2 -> {"pass", "redo"}]
  /\ told' = IF folder /\ run' # <<>>
             THEN [NothingTold EXCEPT !.verb = "report", !.answer = "of run", !.counts = GateCounts(run')]
             ELSE [NothingTold EXCEPT !.verb = "report", !.answer = "skeleton"]
  /\ UNCHANGED <<folder, written, packer, skill, troubled>>

PackNext ==
  \/ \E p \in Packer :
       \/ StartInit(p) \/ MakeFolders(p) \/ WriteNext(p) \/ EndInit(p) \/ BreakOff(p)
       \/ PlanPack(p) \/ Validate(p) \/ ReportRun(p)
  \/ EditPack

--------------------------------------------------------------------------------

\* A pack that its init says it created, alone, is whole and of one domain.
CreatedPacksAreWhole ==
  told.verb = "init" /\ told.answer = "created" =>
    /\ Parsed = File /\ written["references"] = written["workpack.json"]
    /\ IsWhole(There)

\* A valid pack can be planned with its gate, its risk policy and its trace, so that one whose init broke off before them
\* is never valid, but a file that does not parse is left out of the plan without a word; a skill told to be required is
\* only replaced when its manifest does not say whether it is; a report counts every gate once.
PacksAreReadTruly ==
  /\ told.verb = "validate" /\ told.answer = "valid" =>
       LET planned == PlanOf(told.parsed)
           unparsed == told.files \ told.parsed IN
       /\ planned.answer = "completed"
       /\ planned.gates = {"gate"} \/ "gate" \in unparsed
       /\ planned.risks \/ "risk-policy" \in unparsed
       /\ planned.trace \/ "trace-policy" \in unparsed
  /\ told.verb = "plan" /\ told.required /\ told.fallback => skill.required = "silent"
  /\ told.verb = "report" =>
       /\ told.counts[1] = told.counts[2] + told.counts[3]
       /\ told.answer = "of run" => told.counts[1] = Len(run)

PacksAreTrue == CreatedPacksAreWhole /\ PacksAreReadTruly
================================================================================
