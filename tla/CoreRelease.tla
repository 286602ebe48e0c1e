------------------------------- MODULE CoreRelease -------------------------------
(***************************************************************************)
(* The commands of core-release-authority.js: check, prepare, smoke,       *)
(* guard, publish and invariant.  Each is a sequence of separate git and   *)
(* npm calls over a checkout, two retained files and a registry that       *)
(* others change in between.  A commit stands for its tree and for what    *)
(* npm packs of it; objects are named by their content and never change.   *)
(* No workflow reaches the commands at this commit: main throws (2890) and *)
(* only the primitives they are made of are exported.                      *)
(***************************************************************************)
EXTENDS Naturals, Sequences, TLC

CONSTANTS
  Job,       \* processes, one command each
  Commit,
  Sha,       \* GITHUB_SHA, the commit of the release event
  Torn,      \* content that is no commit's: half written
  None,
  MaxFaults  \* bound on the interference

ASSUME CoreAssumption ==
  /\ Sha \in Commit /\ Torn \notin Commit /\ MaxFaults \in Nat
  /\ Job \intersect {"before", "other"} = {}   \* who else makes files and publications

VARIABLES
  job,       \* job[p]: its command, where it stands and how it ended
  repo,      \* HEAD, the release tag, the index and the worktree
  saw,       \* saw[p]: what the inspection under way has read
  source,    \* source[p]: the two materialized sources
  held,      \* held[p]: evidence and artifact in memory
  retained,  \* evidence and artifact at their destinations: None or [by, of]
  created,   \* created[p]: which of them prepare has created
  registry,  \* the published version: None or [by, of, head]
  decision,  \* decision[p]: "none", "publish", "skip-identical"
  private,   \* private[p]: its directories, "temp" and "npm"
  approved,  \* approved[p]: the tag has been at Sha since p's lookup (history)
  faults

coreVars == <<job, repo, saw, source, held, retained, created, registry, decision, private, approved, faults>>

\* inspectAuthoritativeRelease.
Inspect == <<"head", "tree", "tag", "status", "index", "bind">>

\* Mutant of Rebind: the binding is not looked at again after the lookup.
RebindNever == <<>>

\* publishCandidate binds the evidence again once the registry has answered.
Rebind == Inspect \o <<"bound">>

ReadCandidate == <<"evidence", "artifact">> \o Inspect \o <<"bound">>

Program ==
  [check |-> Inspect,
   prepare |-> <<"dests">> \o Inspect \o <<"temp", "npm", "source", "gates", "pack", "build", "keepArtifact", "keepEvidence">> \o Inspect,
   guard |-> <<"npm">> \o ReadCandidate \o Inspect \o <<"bound", "lookup">>,
   publish |-> <<"temp", "npm">> \o ReadCandidate \o <<"source", "secure">> \o Inspect
                 \o <<"bound", "lookup">> \o Rebind \o <<"publish">>,
   smoke |-> <<"temp", "npm">> \o ReadCandidate \o <<"secure", "install">>,
   invariant |-> <<"temp", "npm", "source", "packs">>]

NoSight == [head |-> None, tag |-> None, clean |-> FALSE, index |-> None]
NoFiles == [evidence |-> None, artifact |-> None]

CoreInit ==
  /\ \E command \in [Job -> DOMAIN Program] : job = [p \in Job |-> [command |-> command[p], at |-> 1, end |-> "running"]]
  /\ repo = [head |-> Sha, tag |-> Sha, index |-> Sha, work |-> Sha]
  /\ saw = [p \in Job |-> NoSight] /\ source = [p \in Job |-> None]
  /\ held = [p \in Job |-> NoFiles]
  /\ retained \in {NoFiles, [evidence |-> [by |-> "before", of |-> Sha], artifact |-> [by |-> "before", of |-> Sha]]}
  /\ created = [p \in Job |-> {}] /\ registry = None /\ decision = [p \in Job |-> "none"]
  /\ private = [p \in Job |-> {}] /\ approved = [p \in Job |-> FALSE] /\ faults = 0

--------------------------------------------------------------------------------

Steps(p) == Program[job[p].command]

At(p, step) == job[p].end = "running" /\ job[p].at \in DOMAIN Steps(p) /\ Steps(p)[job[p].at] = step

Goes(p) == job' = [job EXCEPT ![p].at = @ + 1]

Ended(p) == job[p].end # "running"

\* Mutant of Cleanup: prepare keeps the artifact when the evidence fails.
CleanupOfEvidence(p) ==
  /\ private' = [private EXCEPT ![p] = {}]
  /\ retained' = [retained EXCEPT !.evidence = IF "evidence" \in created[p] THEN None ELSE @]

\* The finally blocks of a command that fails; prepare removes what it created.
Cleanup(p) ==
  /\ private' = [private EXCEPT ![p] = {}]
  /\ retained' = [file \in {"evidence", "artifact"} |-> IF file \in created[p] THEN None ELSE retained[file]]

\* What a command has in memory ends with it.
Forgets(p) ==
  /\ saw' = [saw EXCEPT ![p] = NoSight] /\ source' = [source EXCEPT ![p] = None]
  /\ held' = [held EXCEPT ![p] = NoFiles]

\* assert and fail: any call may fail; a step whose assertion does not hold can only fail.
Fails(p) ==
  /\ ~Ended(p)
  /\ job' = [job EXCEPT ![p].end = "failed"] /\ Cleanup(p) /\ Forgets(p)
  /\ UNCHANGED <<repo, created, registry, decision, approved, faults>>

Done(p) ==
  /\ ~Ended(p) /\ job[p].at > Len(Steps(p))
  /\ job' = [job EXCEPT ![p].end = "done"] /\ private' = [private EXCEPT ![p] = {}] /\ Forgets(p)
  /\ UNCHANGED <<repo, retained, created, registry, decision, approved, faults>>

--------------------------------------------------------------------------------
(* The inspection.                                                             *)

Sees(p, sight) == saw' = [saw EXCEPT ![p] = sight] /\ Goes(p)

ReadHead(p) == At(p, "head") /\ Sees(p, [NoSight EXCEPT !.head = repo.head])

\* The tree and the package are read by the id of the commit, not through HEAD.
ReadTree(p) == At(p, "tree") /\ Sees(p, saw[p])

ReadTag(p) == At(p, "tag") /\ Sees(p, [saw[p] EXCEPT !.tag = repo.tag])

\* git status compares HEAD, index and worktree as they are now.
ReadStatus(p) == At(p, "status") /\ Sees(p, [saw[p] EXCEPT !.clean = (repo.head = repo.index /\ repo.index = repo.work)])

ReadIndex(p) == At(p, "index") /\ repo.index = saw[p].head /\ Sees(p, [saw[p] EXCEPT !.index = repo.index])

\* Mutant of Agrees: the event's commit is compared with the tag only.
AgreesWithTag(sight) == sight.clean /\ Sha = sight.tag

\* tagCommit === head, GITHUB_SHA === head and a clean worktree.
Agrees(sight) == sight.clean /\ sight.tag = sight.head /\ Sha = sight.head

\* The documents of the commit are read by its id, and bound to the context of the run.
Bind(p) == At(p, "bind") /\ Agrees(saw[p]) /\ Sees(p, saw[p])

Inspects(p) ==
  /\ ReadHead(p) \/ ReadTree(p) \/ ReadTag(p) \/ ReadStatus(p) \/ ReadIndex(p) \/ Bind(p)
  /\ UNCHANGED <<repo, source, held, retained, created, registry, decision, private, approved, faults>>

--------------------------------------------------------------------------------
(* prepare.                                                                    *)

Destinations(p) ==
  /\ At(p, "dests") /\ retained = NoFiles /\ Goes(p)
  /\ UNCHANGED <<repo, saw, source, held, retained, created, registry, decision, private, approved, faults>>

MakeTemp(p) ==
  /\ At(p, "temp") /\ private' = [private EXCEPT ![p] = @ \union {"temp"}] /\ Goes(p)
  /\ UNCHANGED <<repo, saw, source, held, retained, created, registry, decision, approved, faults>>

ResolveNpm(p) ==
  /\ At(p, "npm") /\ private' = [private EXCEPT ![p] = @ \union {"npm"}] /\ Goes(p)
  /\ UNCHANGED <<repo, saw, source, held, retained, created, registry, decision, approved, faults>>

\* materializeTree and initializeIsolatedGateRepository: from the blobs of the bound commit. Publish
\* takes the commit of the evidence; invariant two commits of its arguments.
Materialize(p) ==
  /\ At(p, "source")
  /\ source' = [source EXCEPT ![p] = [one |-> saw[p].head, two |-> saw[p].head]] /\ Goes(p)
  /\ UNCHANGED <<repo, saw, held, retained, created, registry, decision, private, approved, faults>>

\* The gates run scripts of the release in its first source, which they may change.
Gates(p) ==
  /\ At(p, "gates") /\ Goes(p)
  /\ \E one \in {source[p].one, "altered"} : source' = [source EXCEPT ![p].one = one]
  /\ UNCHANGED <<repo, saw, held, retained, created, registry, decision, private, approved, faults>>

\* Mutant of SamePacks: one pack is trusted.
SamePacksOne(p) == TRUE

SamePacks(p) == source[p].one = source[p].two

\* packMaterializedSource twice; the first pack is the artifact.
Pack(p) ==
  /\ At(p, "pack") /\ SamePacks(p) /\ Goes(p)
  /\ held' = [held EXCEPT ![p].artifact = source[p].one]
  /\ UNCHANGED <<repo, saw, source, retained, created, registry, decision, private, approved, faults>>

BuildEvidence(p) ==
  /\ At(p, "build") /\ Goes(p)
  /\ held' = [held EXCEPT ![p].evidence = saw[p].head]
  /\ UNCHANGED <<repo, saw, source, retained, created, registry, decision, private, approved, faults>>

\* writeFileSync with wx.
Keep(p, file) ==
  /\ retained[file] = None
  /\ retained' = [retained EXCEPT ![file] = [by |-> p, of |-> held[p][file]]]
  /\ created' = [created EXCEPT ![p] = @ \union {file}]

KeepArtifact(p) ==
  /\ At(p, "keepArtifact") /\ Keep(p, "artifact") /\ Goes(p)
  /\ UNCHANGED <<repo, saw, source, held, registry, decision, private, approved, faults>>

KeepEvidence(p) ==
  /\ At(p, "keepEvidence") /\ Keep(p, "evidence") /\ Goes(p)
  /\ UNCHANGED <<repo, saw, source, held, registry, decision, private, approved, faults>>

\* A write that fails after it has created the file: the flag is not set, the file stays.
KeepHalf(p) ==
  /\ \E file \in {"evidence", "artifact"} :
       /\ At(p, IF file = "artifact" THEN "keepArtifact" ELSE "keepEvidence") /\ retained[file] = None
       /\ retained' = [f \in {"evidence", "artifact"} |->
                         IF f = file THEN [by |-> p, of |-> Torn] ELSE IF f \in created[p] THEN None ELSE retained[f]]
  /\ job' = [job EXCEPT ![p].end = "failed"] /\ private' = [private EXCEPT ![p] = {}] /\ Forgets(p)
  /\ UNCHANGED <<repo, created, registry, decision, approved, faults>>

Prepares(p) ==
  \/ Destinations(p) \/ MakeTemp(p) \/ ResolveNpm(p) \/ Materialize(p) \/ Gates(p) \/ Pack(p) \/ BuildEvidence(p)
  \/ KeepArtifact(p) \/ KeepEvidence(p) \/ KeepHalf(p)

--------------------------------------------------------------------------------
(* guard, publish, smoke and invariant.                                        *)

\* validateReleaseEvidence: one whole document, made of one commit.
IsEvidence(content) == content \in Commit

\* readCandidate reads the files once, one after the other.
ReadFile(p) ==
  /\ \E file \in {"evidence", "artifact"} :
       /\ At(p, file) /\ retained[file] # None
       /\ file = "evidence" => IsEvidence(retained[file].of)
       /\ held' = [held EXCEPT ![p][file] = retained[file].of]
  /\ Goes(p)
  /\ UNCHANGED <<repo, saw, source, retained, created, registry, decision, private, approved, faults>>

\* Mutant of IsBound: the artifact is taken as it is.
IsBoundEvidence(p) == held[p].evidence = saw[p].head

\* bindCurrentEvidence and validateEvidenceArtifact.
IsBound(p) == held[p].evidence = saw[p].head /\ held[p].artifact = held[p].evidence

Bound(p) ==
  /\ At(p, "bound") /\ IsBound(p) /\ Goes(p)
  /\ UNCHANGED <<repo, saw, source, held, retained, created, registry, decision, private, approved, faults>>

\* writeVerifiedArtifactCopy into the private directory, and the registry manifest.
Secure(p) ==
  /\ At(p, "secure") /\ IsBound(p) /\ Goes(p)
  /\ UNCHANGED <<repo, saw, source, held, retained, created, registry, decision, private, approved, faults>>

\* npm install of the copy and its probe; the packs of two commits and their comparison.
Uses(p) ==
  /\ At(p, "install") \/ At(p, "packs")
  /\ Goes(p)
  /\ UNCHANGED <<repo, saw, source, held, retained, created, registry, decision, private, approved, faults>>

\* Mutant of Decision: the version alone makes a publication the same.
DecisionOfVersion(p, answer) == IF answer = None THEN "publish" ELSE "skip-identical"

\* evaluateRegistryResult: E404, or the exact bytes and commit of the evidence; all else fails.
Decision(p, answer) ==
  IF answer = None THEN "publish"
  ELSE IF answer.of = held[p].artifact /\ answer.head = held[p].evidence THEN "skip-identical"
  ELSE "collision"

\* npm view, whose answer may be behind. A version that is there ends a publication.
Lookup(p) ==
  /\ At(p, "lookup")
  /\ \E answer \in {registry, None} :
       /\ Decision(p, answer) # "collision"
       /\ decision' = [decision EXCEPT ![p] = Decision(p, answer)]
       /\ job' = [job EXCEPT ![p].at = IF Decision(p, answer) = "publish" THEN @ + 1 ELSE Len(Steps(p)) + 1]
  /\ approved' = [approved EXCEPT ![p] = (repo.tag = Sha)]
  /\ UNCHANGED <<repo, saw, source, held, retained, created, registry, private, faults>>

\* The publisher of the materialized commit; its answer may be lost.
Publish(p) ==
  /\ At(p, "publish") /\ registry = None
  /\ registry' = [by |-> p, of |-> held[p].artifact, head |-> held[p].evidence]
  /\ \/ Goes(p) /\ UNCHANGED <<private, saw, source, held>>
     \/ job' = [job EXCEPT ![p].end = "failed"] /\ private' = [private EXCEPT ![p] = {}] /\ Forgets(p)
  /\ UNCHANGED <<repo, retained, created, decision, approved, faults>>

Publishes(p) == ReadFile(p) \/ Bound(p) \/ Secure(p) \/ Uses(p) \/ Lookup(p) \/ Publish(p)

--------------------------------------------------------------------------------
(* What others do meanwhile.                                                   *)

Fault == faults < MaxFaults /\ faults' = faults + 1

Checkout ==
  /\ Fault
  /\ \E c \in Commit : repo' = [repo EXCEPT !.head = c, !.index = c, !.work = c]
  /\ UNCHANGED <<job, saw, source, held, retained, created, registry, decision, private, approved>>

Edit ==
  /\ Fault
  /\ \E c \in Commit \union {Torn} :
       repo' = [repo EXCEPT !.work = c] \/ repo' = [repo EXCEPT !.work = c, !.index = c]
  /\ UNCHANGED <<job, saw, source, held, retained, created, registry, decision, private, approved>>

MoveTag ==
  /\ Fault
  /\ \E c \in Commit :
       /\ repo' = [repo EXCEPT !.tag = c]
       /\ approved' = [p \in Job |-> approved[p] \/ c = Sha]
  /\ UNCHANGED <<job, saw, source, held, retained, created, registry, decision, private>>

\* The retained files are mixed up with those of other runs: evidence is some run's whole evidence.
MixFiles ==
  /\ Fault
  /\ \/ \E c \in Commit : retained' = [retained EXCEPT !.evidence = [by |-> "other", of |-> c]]
     \/ \E c \in Commit \union {Torn} : retained' = [retained EXCEPT !.artifact = [by |-> "other", of |-> c]]
  /\ UNCHANGED <<job, repo, saw, source, held, created, registry, decision, private, approved>>

OtherPublishes ==
  /\ Fault /\ registry = None
  /\ \E c \in Commit \union {Torn} : registry' = [by |-> "other", of |-> c, head |-> Sha]
  /\ UNCHANGED <<job, repo, saw, source, held, retained, created, decision, private, approved>>

AllEnded == (\A p \in Job : Ended(p)) /\ UNCHANGED coreVars

CoreNext ==
  \/ \E p \in Job : Inspects(p) \/ Prepares(p) \/ Publishes(p) \/ Fails(p) \/ Done(p)
  \/ Checkout \/ Edit \/ MoveTag \/ MixFiles \/ OtherPublishes
  \/ AllEnded

CoreSpec == CoreInit /\ [][CoreNext]_coreVars

JobSymmetry == Permutations(Job)

--------------------------------------------------------------------------------
(* Properties.                                                                 *)

\* What prepare has created, and what publish has published, is the release's commit, whatever was
\* checked out, tagged, edited or mixed up between the many calls that read it.
ReleaseIsTheCommit ==
  \A p \in Job :
    /\ \A file \in {"evidence", "artifact"} : retained[file] # None /\ retained[file].by = p => retained[file].of \in {Sha, Torn}
    /\ registry # None /\ registry.by = p => registry.of = Sha /\ registry.head = Sha
    /\ job[p].end = "done" /\ job[p].command = "prepare" => created[p] = {"evidence", "artifact"}
    /\ job[p].end = "done" /\ decision[p] = "skip-identical" => registry.of = Sha /\ registry.head = Sha

\* A command that ends leaves none of its directories; a prepare that fails leaves no whole file of
\* its own, and never a half-written one beside a whole one.
CommandLeavesNothing ==
  \A p \in Job :
    /\ Ended(p) => private[p] = {}
    /\ job[p].end = "failed" =>
         \A file \in {"evidence", "artifact"} : retained[file] # None /\ retained[file].by = p => retained[file].of = Torn

File == {"evidence", "artifact"}

Content == Commit \union {Torn, None, "altered"}

CoreTypeOK ==
  /\ job \in [Job -> [command : DOMAIN Program, at : Nat \ {0}, end : {"running", "failed", "done"}]]
  /\ repo \in [head : Content, tag : Content, index : Content, work : Content]
  /\ saw \in [Job -> [head : Content, tag : Content, clean : BOOLEAN, index : Content]]
  /\ source \in [Job -> {None} \union [one : Content, two : Content]]
  /\ held \in [Job -> [evidence : Content, artifact : Content]]
  /\ retained \in [File -> {None} \union [by : Job \union {"before", "other"}, of : Content]]
  /\ created \in [Job -> SUBSET File]
  /\ decision \in [Job -> {"none", "publish", "skip-identical"}]
  /\ private \in [Job -> SUBSET {"temp", "npm"}] /\ approved \in [Job -> BOOLEAN] /\ faults \in Nat

\* The steps that a command has left behind.
After(p, step) == \E i \in 1..(job[p].at - 1) : i \in DOMAIN Steps(p) /\ Steps(p)[i] = step

\* Between two inspections a command remembers that HEAD and tag were the release's commit.
InspectionHolds ==
  \A p \in Job : ~Ended(p) /\ After(p, "bind") =>
    \/ \E step \in {"tree", "tag", "status", "index", "bind"} : At(p, step)
    \/ saw[p].head = Sha /\ saw[p].tag = Sha

\* What prepare makes, and what the other commands have bound, is of that commit.
CandidateIsTheCommit ==
  \A p \in Job : ~Ended(p) =>
    /\ job[p].command = "prepare" =>
         /\ After(p, "source") => source[p] \in [one : Content, two : {Sha}]
         /\ After(p, "pack") => held[p].artifact = Sha
         /\ After(p, "build") => held[p].evidence = Sha
    /\ After(p, "bound") => held[p].evidence = Sha /\ held[p].artifact = Sha

\* The files a command has kept, where it stands.
KeptBy(p) == {file \in File : After(p, IF file = "artifact" THEN "keepArtifact" ELSE "keepEvidence")}

\* A whole file of a command is one it has created and answers for; the rest is half written.
FilesAreOwned ==
  \A p \in Job :
    /\ job[p].command # "prepare" => created[p] = {}
    /\ job[p].command = "prepare" /\ ~Ended(p) => created[p] = KeptBy(p)
    /\ \A file \in File : retained[file] # None /\ retained[file].by = p =>
         retained[file].of = Torn \/ (retained[file].of = Sha /\ file \in created[p] /\ job[p].end # "failed")

\* A version that was taken for the same stays the same: the registry never changes it.
SkippedIsIdentical ==
  \A p \in Job : decision[p] = "skip-identical" => registry # None /\ registry.of = Sha /\ registry.head = Sha

\* Once a command has looked its version up, the tag it sees at the release's commit approves it.
TagIsWatched ==
  \A p \in Job : ~Ended(p) /\ After(p, "lookup") /\ job[p].at \in DOMAIN Steps(p) =>
    /\ decision[p] = "publish" /\ (repo.tag = Sha => approved[p])
    /\ \A step \in {"status", "index", "bind", "bound", "publish"} :
         At(p, step) /\ saw[p].tag = Sha => approved[p]

\* The release's commit is all that is retained and published, and it stays so: the parts before say
\* what a command knows where it stands.
CoreInv ==
  /\ CoreTypeOK /\ InspectionHolds /\ CandidateIsTheCommit /\ FilesAreOwned /\ SkippedIsIdentical /\ TagIsWatched
  /\ ReleaseIsTheCommit /\ CommandLeavesNothing

\* A publication is never made of a release whose tag was moved away before the lookup and not back
\* since: the binding is read again after the lookup.
PublicationWasApproved ==
  [][\A p \in Job : registry' # registry /\ registry'.by = p => approved[p] /\ decision[p] = "publish"]_coreVars
================================================================================
