------------------------------ MODULE ReleaseChannel ------------------------------
(***************************************************************************)
(* scripts/release-channel-authority.cjs as the two publication workflows  *)
(* run it: the jobs of the preview and of the stable channel, each started *)
(* by a release event and possibly started again, against one registry     *)
(* that shows what it has accepted only after a while.                     *)
(*                                                                         *)
(* A channel stands for the version it publishes.  A commit is "good" or   *)
(* "other"; an archive is "good" (the members of the good commit, packed   *)
(* reproducibly), "repacked" (the same members in other bytes) or "foreign".*)
(* The registry, the runner, other publishers and whoever touches the      *)
(* checkout or the retained files are external.                            *)
(***************************************************************************)
EXTENDS Naturals, FiniteSets

CONSTANTS
  Channel,    \* {"preview", "stable"}, or one of them
  None,       \* no file, no version, nothing recorded
  Attempts,   \* DIST_TAG_RECHECK_ATTEMPTS
  Bounds      \* bounds, one for a behaviour: the channels, the runs of a job, the kinds of interference

ASSUME ChannelAssumption ==
  /\ Channel \subseteq {"preview", "stable"} /\ Attempts \in Nat \ {0}
  /\ Bounds \subseteq [channels : SUBSET Channel, runs : Nat, faults : Nat]
  /\ None \notin [bytes : {"good", "repacked", "foreign"}, commit : {"good", "other"}] \union {"collision", "prepare"}

VARIABLES
  release,   \* release[c]: the event with its approval block
  source,    \* source[c]: what the checkout of the job holds
  files,     \* files[c]: the retained artifact and evidence
  job,       \* job[c]: the run of the workflow
  registry,  \* what the registry has accepted
  shown,     \* the document it shows
  faults,    \* the kinds of interference there have been
  bound      \* the bounds of this behaviour

channelVars == <<release, source, files, job, registry, shown, faults, bound>>

Tag(c) == IF c = "stable" THEN "latest" ELSE "native-preview"

Kind(c) == IF c = "stable" THEN "final" ELSE "prerelease"

Approval(c) == [kind |-> Kind(c), tagged |-> "good", target |-> "good", commit |-> "good",
                artifact |-> "good", notes |-> "good", companions |-> "good"]

\* A release as it should be, or with one mistake of its author.
Releases(c) ==
  {Approval(c), [Approval(c) EXCEPT !.kind = "draft"], [Approval(c) EXCEPT !.artifact = "repacked"]}
    \union {[Approval(c) EXCEPT ![f] = "other"] : f \in {"tagged", "target", "commit", "notes", "companions"}}

\* The commit of the checkout, whether the worktree and the index equal its tree, and whether the
\* committed files say what a release needs: manifest, allowlist, binding, notes, signed-off range.
Checkout == [commit |-> "good", clean |-> TRUE, conforming |-> TRUE, main |-> TRUE]

Idle == [step |-> "idle", runs |-> 0, bytes |-> None, commit |-> None, before |-> None, publish |-> FALSE, tries |-> 0,
         why |-> None]

ChannelInit ==
  /\ release \in [Channel -> UNION {Releases(c) : c \in Channel}]
  /\ \A c \in Channel : release[c] \in Releases(c)
  /\ Cardinality({c \in Channel : release[c] # Approval(c)}) <= 1
  /\ source = [c \in Channel |-> Checkout]
  /\ files = [c \in Channel |-> [artifact |-> None, evidence |-> None]]
  /\ job = [c \in Channel |-> Idle]
  /\ registry = [published |-> [c \in Channel |-> None], tags |-> [t \in {"latest", "native-preview"} |-> "old"]]
  /\ shown = registry
  /\ faults = {} /\ bound \in Bounds
  /\ \A c \in Channel \ bound.channels : release[c] = Approval(c)

--------------------------------------------------------------------------------
(* What is inspected.                                                          *)

InspectSource(c) == source[c].clean /\ source[c].conforming

\* validateApproval, parseReleaseBody and validateContext: the event is of this channel, and the tag,
\* the target, the approved coordinates, the notes and the companions are those of the checkout.
ValidateContext(c) ==
  /\ release[c].kind = Kind(c)
  /\ \A f \in {"tagged", "target", "commit", "notes", "companions"} : release[c][f] = source[c].commit

InspectRelease(c) == InspectSource(c) /\ source[c].main /\ ValidateContext(c)

\* validateArtifact: every member is that of the source tree.
ValidateArtifact(c, archive) == archive \in {"good", "repacked"} /\ source[c].commit = "good"

\* Mutant of ReadCandidate: the retained bytes are not compared with the evidence and the approval.
ReadCandidateLoose(c) ==
  /\ InspectRelease(c) /\ files[c].artifact # None /\ files[c].evidence # None

\* readCandidate: evidence and artifact are those of the current release, source and approval.
ReadCandidate(c) ==
  /\ InspectRelease(c)
  /\ files[c].evidence = [release |-> release[c], commit |-> source[c].commit,
                          artifact |-> files[c].artifact, before |-> job[c].before]
  /\ ValidateArtifact(c, files[c].artifact)
  /\ files[c].artifact = release[c].artifact

\* Mutant of ValidateChannel: the stable channel does not look at the other tag.
ValidateChannelLax(c, tags, require) == require => tags[Tag(c)] = c

\* validateChannel against the tags recorded by prepare.
ValidateChannel(c, tags, require) ==
  LET before == job[c].before IN
  /\ IF c = "stable"
     THEN /\ tags["latest"] = IF require THEN c ELSE before["latest"]
          /\ tags["native-preview"] = before["native-preview"]
     ELSE tags["latest"] = before["latest"]
  /\ require => tags[Tag(c)] = c

\* Mutant of Manifest: the commit is not added to the manifest that is published.
ManifestPlain(c) == [bytes |-> job[c].bytes, commit |-> None]

\* Mutant of Manifest: the publisher is given the retained file, and not the bytes that were compared.
ManifestOfFile(c) == [bytes |-> files[c].artifact, commit |-> job[c].commit]

\* What the publisher is given: the candidate's bytes, and its manifest with gitHead.
Manifest(c) == [bytes |-> job[c].bytes, commit |-> job[c].commit]

\* Mutant of Identical: the version is taken for the bytes.
IdenticalVersion(c) == shown.published[c] # None

\* registryDecision
Absent(c) == shown.published[c] = None
Identical(c) == shown.published[c] = [bytes |-> files[c].artifact, commit |-> source[c].commit]

--------------------------------------------------------------------------------
(* The workflow, one command or one call of the registry after the other.      *)

To(c, step) == job' = [job EXCEPT ![c].step = step, ![c].tries = 0]
Fail(c, why) == job' = [job EXCEPT ![c].step = "failed", ![c].why = why]
Given(c, ok, step, why) == IF ok THEN To(c, step) ELSE Fail(c, why)
Rest == UNCHANGED <<release, source, files, registry, shown, faults, bound>>

\* A release event, or a re-run of the job on a new runner.  The runs of one tag follow one another.
Start(c) ==
  /\ job[c].step \in {"idle", "ended", "succeeded"} /\ c \in bound.channels /\ job[c].runs < bound.runs
  /\ job' = [job EXCEPT ![c] = [Idle EXCEPT !.step = "check", !.runs = job[c].runs + 1]]
  /\ files' = [files EXCEPT ![c] = [artifact |-> None, evidence |-> None]]
  /\ source' = [source EXCEPT ![c] = Checkout]
  /\ UNCHANGED <<release, registry, shown, faults, bound>>

Check(c) == job[c].step = "check" /\ Given(c, InspectRelease(c), "host", "source") /\ Rest

\* source-host, from one inspection of the source to the other, and the gates.
SourceHost(c) == job[c].step = "host" /\ Given(c, InspectSource(c), "prepare", "source") /\ Rest

\* prepare: two packs of two exports; the tags before; the outputs must be new.
Pack(c) ==
  /\ job[c].step = "prepare"
  /\ \E first, second \in {"good", "repacked"} :
       IF /\ InspectRelease(c) /\ files[c] = [artifact |-> None, evidence |-> None]
          /\ ValidateArtifact(c, first) /\ ValidateArtifact(c, second)
          /\ first = second /\ first = release[c].artifact
       THEN job' = [job EXCEPT ![c].step = "packed", ![c].bytes = first, ![c].commit = source[c].commit,
                                      ![c].before = shown.tags]
       ELSE Fail(c, "prepare")
  /\ Rest

\* fs.writeFileSync(artifactOutput, ..., {flag: 'wx'})
RetainArtifact(c) ==
  /\ job[c].step = "packed"
  /\ IF files[c].artifact = None
     THEN files' = [files EXCEPT ![c].artifact = job[c].bytes] /\ To(c, "artifact")
     ELSE files' = files /\ Fail(c, "prepare")
  /\ UNCHANGED <<release, source, registry, shown, faults, bound>>

\* Mutant of Remove: the artifact is left when prepare fails after it.
RemoveEvidence(c) == files' = [files EXCEPT ![c].evidence = None]

\* for (const output of created) fs.rmSync(output, { force: true })
Remove(c) == files' = [files EXCEPT ![c].artifact = None,
                         ![c].evidence = IF job[c].step = "retained" THEN None ELSE @]

\* The evidence is that of the source and of the release as they were inspected.
RetainEvidence(c) ==
  /\ job[c].step = "artifact"
  /\ IF files[c].evidence = None
     THEN /\ files' = [files EXCEPT ![c].evidence =
                [release |-> release[c], commit |-> job[c].commit, artifact |-> job[c].bytes, before |-> job[c].before]]
          /\ To(c, "retained")
     ELSE Remove(c) /\ Fail(c, "prepare")
  /\ UNCHANGED <<release, source, registry, shown, faults, bound>>

\* The last lines of prepare: the artifact as retained, the source as it is now.
Rebind(c) ==
  /\ job[c].step = "retained"
  /\ IF files[c].artifact = job[c].bytes /\ InspectRelease(c) /\ source[c].commit = job[c].commit
     THEN files' = files /\ To(c, "smoke")
     ELSE Remove(c) /\ Fail(c, "prepare")
  /\ UNCHANGED <<release, source, registry, shown, faults, bound>>

\* The retained artifact installed with the public companions.
Smoke(c) == job[c].step = "smoke" /\ Given(c, ReadCandidate(c), "guard", "candidate") /\ Rest

\* Mutant of Decide: what is there already is published again.
DecideAgain(c, step) ==
  IF ~ReadCandidate(c) THEN Fail(c, "candidate")
  ELSE IF ~(Absent(c) \/ Identical(c)) THEN Fail(c, "collision")
  ELSE job' = [job EXCEPT ![c].step = step, ![c].publish = TRUE, ![c].bytes = files[c].artifact,
                              ![c].commit = source[c].commit]

\* withInvocation: the candidate is read, then the registry is asked for its version.
Decide(c, step) ==
  IF ~ReadCandidate(c) THEN Fail(c, "candidate")
  ELSE IF ~(Absent(c) \/ Identical(c)) THEN Fail(c, "collision")
  ELSE job' = [job EXCEPT ![c].step = step, ![c].publish = Absent(c), ![c].bytes = files[c].artifact,
                              ![c].commit = source[c].commit]

GuardVersion(c) == job[c].step = "guard" /\ Decide(c, "guardTags") /\ Rest

GuardTags(c) ==
  /\ job[c].step = "guardTags"
  /\ IF ~ValidateChannel(c, shown.tags, ~job[c].publish) THEN Fail(c, "channel")
     ELSE Given(c, ReadCandidate(c) \/ job[c].publish, "publish", "candidate")
  /\ Rest

\* publish: smoke, then the same questions again.
PublishVersion(c) == job[c].step = "publish" /\ Decide(c, "publishTags") /\ Rest

PublishTags(c) ==
  /\ job[c].step = "publishTags"
  /\ IF ~ValidateChannel(c, shown.tags, ~job[c].publish) THEN Fail(c, "channel")
     ELSE IF job[c].publish THEN Given(c, ReadCandidate(c) /\ files[c].artifact = job[c].bytes, "call", "candidate")
     ELSE Given(c, ReadCandidate(c), "verify", "candidate")
  /\ Rest

Accept(c, content) ==
  registry' = [published |-> [registry.published EXCEPT ![c] = content],
               tags |-> [registry.tags EXCEPT ![Tag(c)] = c]]

\* The publisher process, bounded by 300 s.  The registry never takes a version twice; an accepted
\* publication may be answered by an error, or not in time.
CallPublisher(c) ==
  /\ job[c].step = "call"
  /\ \/ registry.published[c] = None /\ Accept(c, Manifest(c)) /\ (To(c, "await") \/ Fail(c, "publisher"))
     \/ registry' = registry /\ Fail(c, "publisher")
  /\ UNCHANGED <<release, source, files, shown, faults, bound>>

Exhausted(c) == job[c].tries + 1 >= Attempts

\* awaitDistTag and validateChannel: one read of the tags, which may fail, and up to Attempts of them.
AwaitDistTag(c, from, next) ==
  /\ job[c].step = from
  /\ \/ /\ shown.tags[Tag(c)] = c
        /\ Given(c, ValidateChannel(c, shown.tags, TRUE), next, "channel")
     \/ IF Exhausted(c) THEN Fail(c, "channel") ELSE job' = [job EXCEPT ![c].tries = @ + 1]
  /\ Rest

\* verify-public
VerifyVersion(c) ==
  /\ job[c].step = "verify"
  /\ IF ReadCandidate(c) /\ Absent(c) THEN Fail(c, "invisible") ELSE Decide(c, "verifyTags")
  /\ Rest

\* verifyInstalledMembers: what the registry installs has the members of the candidate, packed in whatever bytes.
SameMembers(c) == ~Absent(c) /\ ValidateArtifact(c, shown.published[c].bytes)

PublicInstall(c) ==
  job[c].step = "install" /\ Given(c, ReadCandidate(c) /\ SameMembers(c), "done", "candidate") /\ Rest

\* A lookup, a tool or the runner's disk fails: the command throws, prepare after its own cleanup.
Break(c) ==
  /\ job[c].step \notin {"idle", "done", "failed", "ended", "succeeded"}
  /\ Fail(c, IF job[c].step \in {"prepare", "packed", "artifact", "retained"} THEN "prepare" ELSE "tool")
  /\ IF job[c].step \in {"artifact", "retained"} THEN Remove(c) ELSE files' = files
  /\ UNCHANGED <<release, source, registry, shown, faults, bound>>

\* Mutant of Cleanup: only a job without an error comes to its last step.
CleanupIfDone(c) ==
  /\ job[c].step = "done"
  /\ files' = [files EXCEPT ![c] = [artifact |-> None, evidence |-> None]]
  /\ To(c, "succeeded")
  /\ UNCHANGED <<release, source, registry, shown, faults, bound>>

\* if: always() -- rm -f of the outputs.
Cleanup(c) ==
  /\ job[c].step \in {"done", "failed"}
  /\ files' = [files EXCEPT ![c] = [artifact |-> None, evidence |-> None]]
  /\ To(c, IF job[c].step = "done" THEN "succeeded" ELSE "ended")
  /\ UNCHANGED <<release, source, registry, shown, faults, bound>>

Command(c) ==
  \/ Check(c) \/ SourceHost(c) \/ Pack(c) \/ RetainArtifact(c) \/ RetainEvidence(c) \/ Rebind(c) \/ Smoke(c)
  \/ GuardVersion(c) \/ GuardTags(c) \/ PublishVersion(c) \/ PublishTags(c) \/ CallPublisher(c)
  \/ AwaitDistTag(c, "await", "verify") \/ VerifyVersion(c) \/ AwaitDistTag(c, "verifyTags", "install")
  \/ PublicInstall(c) \/ Cleanup(c)

--------------------------------------------------------------------------------
(* The rest of the world.                                                      *)

\* The runner is lost, or the job's 30 minutes are over.
Kill(c) ==
  /\ job[c].step \notin {"idle", "ended", "succeeded"}
  /\ job' = [job EXCEPT ![c].step = "ended", ![c].why = "killed"]
  /\ Rest

\* The registry shows what it has accepted.
Replicate ==
  /\ shown # registry /\ shown' = registry
  /\ UNCHANGED <<release, source, files, job, registry, faults, bound>>

Interfere(kind) == faults' = faults \union {kind} /\ kind \notin faults /\ Cardinality(faults) < bound.faults

ChangeSource(c) ==
  /\ Interfere("source")
  /\ source' \in {[source EXCEPT ![c].commit = "other"], [source EXCEPT ![c].clean = FALSE],
                  [source EXCEPT ![c].conforming = FALSE], [source EXCEPT ![c].main = FALSE]}
  /\ UNCHANGED <<release, files, job, registry, shown, bound>>

ChangeFiles(c) ==
  /\ Interfere("files")
  /\ files' \in {[files EXCEPT ![c].artifact = "foreign"], [files EXCEPT ![c].artifact = "repacked"],
                 [files EXCEPT ![c].evidence = None]}
  /\ UNCHANGED <<release, source, job, registry, shown, bound>>

\* What somebody else publishes: other members, or the same ones packed elsewhere.
Foreign == [bytes : {"foreign", "repacked"}, commit : {"other"}]

OtherPublishes(c) ==
  /\ Interfere("publisher") /\ registry.published[c] = None
  /\ \E content \in Foreign : Accept(c, content)
  /\ UNCHANGED <<release, source, files, job, shown, bound>>

MoveTag ==
  /\ Interfere("tags")
  /\ \E t \in DOMAIN registry.tags : registry' = [registry EXCEPT !.tags[t] = "old"]
  /\ UNCHANGED <<release, source, files, job, shown, bound>>

Over ==
  /\ \A c \in bound.channels : job[c].step \in {"ended", "succeeded"} /\ job[c].runs = bound.runs
  /\ UNCHANGED channelVars

ChannelNext ==
  \/ \E c \in Channel : Start(c) \/ Command(c) \/ Break(c) \/ Kill(c) \/ ChangeSource(c) \/ ChangeFiles(c) \/ OtherPublishes(c)
  \/ Replicate \/ MoveTag \/ Over

--------------------------------------------------------------------------------
(* Properties.                                                                 *)

Step == {"idle", "check", "host", "prepare", "packed", "artifact", "retained", "smoke", "guard", "guardTags", "publish",
         "publishTags", "call", "await", "verify", "verifyTags", "install", "done", "failed", "ended", "succeeded"}
Reason == {None, "source", "prepare", "candidate", "collision", "channel", "publisher", "invisible", "tool", "killed"}
Coordinate == {"good", "other"}
Archive == {"good", "repacked", "foreign"}
Tags == [{"latest", "native-preview"} -> {"old"} \union Channel]
Document == [published : [Channel -> {None} \union [bytes : Archive, commit : Coordinate]], tags : Tags]
Release == [kind : {"prerelease", "final", "draft"}, tagged : Coordinate, target : Coordinate, commit : Coordinate,
            artifact : Archive, notes : Coordinate, companions : Coordinate]

Origin == [commit : Coordinate, clean : BOOLEAN, conforming : BOOLEAN, main : BOOLEAN]
Evidence == [release : Release, commit : Coordinate \union {None}, artifact : Archive \union {None}, before : Tags \union {None}]
Retained == [artifact : Archive \union {None}, evidence : Evidence \union {None}]
Run == [step : Step, runs : Nat, bytes : Archive \union {None}, commit : Coordinate \union {None},
        before : Tags \union {None}, publish : BOOLEAN, tries : 0..(Attempts - 1), why : Reason]

TypeInv ==
  /\ release \in [Channel -> Release] /\ source \in [Channel -> Origin] /\ files \in [Channel -> Retained]
  /\ job \in [Channel -> Run] /\ registry \in Document /\ shown \in Document
  /\ bound \in Bounds /\ \A c \in Channel : job[c].runs <= bound.runs

Approved(c) == [bytes |-> release[c].artifact, commit |-> release[c].commit]

\* The release is one of this channel, and its tag and target name the commit it approves.
ReleaseIsRight(c) ==
  release[c].kind = Kind(c) /\ release[c].tagged = release[c].commit /\ release[c].target = release[c].commit

\* Whatever happens to the checkout, to the retained files and on the registry meanwhile: the bytes
\* that a job publishes are those its release approved, under the commit it approved.
PublishedIsApproved ==
  \A c \in Channel :
    registry.published[c] \notin {None} \union Foreign => ReleaseIsRight(c) /\ registry.published[c] = Approved(c)

\* A job that succeeded has been seen to: the registry shows the approved version, and it is the one
\* the channel's tag selects, unless somebody else moved the tags.
SuccessIsPublic ==
  \A c \in Channel : job[c].step = "succeeded" =>
    /\ shown.published[c] = Approved(c)
    /\ "tags" \notin faults => registry.tags[Tag(c)] = c

\* No run takes an earlier run's publication, or its own, for a collision.
CollisionIsForeign ==
  \A c \in Channel : job[c].why = "collision" => "publisher" \in faults

\* A prepare that failed leaves no output of its own, however far it came.
FailedPrepareLeavesNothing ==
  \A c \in Channel : job[c].step = "failed" /\ job[c].why = "prepare" /\ "files" \notin faults =>
    files[c] = [artifact |-> None, evidence |-> None]

\* A job passes the last look at its channel only if the tags it does not own are where its prepare
\* found them, also when the job of the other channel publishes in between.
OtherTagUntouched ==
  \A c \in Channel : job[c].step = "verifyTags" /\ job'[c].step = "install" =>
       shown.tags["latest"] = (IF c = "stable" THEN c ELSE job[c].before["latest"])
         /\ (c = "stable" => shown.tags["native-preview"] = job[c].before["native-preview"])

\* A run that can see its version on the registry when it begins to publish goes no way that calls the publisher; one
\* to which the version is not shown yet may call it again, and the registry refuses.
NoSecondCall ==
  \A c \in Channel : job[c].step = "publish" /\ ~Absent(c) => job'[c].step # "publishTags" \/ ~job'[c].publish

\* The two kinds of a publication: the approved one, or that of somebody else, who was there.
PublicationIsKnown ==
  \A c \in Channel :
    LET p == registry.published[c] IN
    /\ p # None => (ReleaseIsRight(c) /\ p = Approved(c)) \/ ("publisher" \in faults /\ p \in Foreign)
    /\ p # None /\ "tags" \notin faults => registry.tags[Tag(c)] = c
    /\ shown.published[c] \in {None, p}

\* What a job has decided to publish is what was approved.
DecisionIsApproved ==
  \A c \in Channel : job[c].step \in {"guardTags", "publishTags", "call", "verifyTags"} =>
    ReleaseIsRight(c) /\ Manifest(c) = Approved(c)

\* A job that has verified its version on the registry, and not only installed the same members, has seen the approved one.
InstalledIsShown ==
  \A c \in Channel : job[c].step \in {"verifyTags", "install", "done", "succeeded"} => shown.published[c] = Approved(c)

\* The outputs are there only from their writing on.
OutputsAreWritten ==
  \A c \in Channel : "files" \notin faults =>
    /\ job[c].step \in {"check", "host", "prepare", "packed"} => files[c].artifact = None
    /\ job[c].step \in {"check", "host", "prepare", "packed", "artifact"} => files[c].evidence = None

\* What is on the registry in a job's name is what was approved, and is known again for its own.
PublicationIsApproved == PublishedIsApproved /\ CollisionIsForeign

\* A job that succeeded is public, a prepare that failed has left nothing.
JobEndsTruly == SuccessIsPublic /\ FailedPrepareLeavesNothing

\* Both, with what is known of every job on its way.
ChannelInv ==
  /\ TypeInv /\ PublicationIsKnown /\ DecisionIsApproved /\ InstalledIsShown /\ OutputsAreWritten
  /\ PublicationIsApproved /\ JobEndsTruly
================================================================================
