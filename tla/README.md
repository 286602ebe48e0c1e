# A specification of kdna-cli in TLA+

`kdna-cli` is a command line program and a one-function JavaScript library
(`run(argv, stdout, stdin)`) that inspects, reads, creates, revises and converts
knowledge assets.  It is a thin program over two packages (Core and Read): what it
adds itself is the handling of files, of the output stream, of the session input
and of failure.  Beside it the repository has two release authorities, which decide
what is published to npm, and `retired/`, the tested sources of an older and much
larger CLI: workspaces, a package store, an installer, licences, clusters.  This
directory specifies and model-checks all three, and proves the core of the first.
All line numbers refer to `src/` of this repository.

## 1. Inventory

The program:

| Component | Code | State | Operations |
|---|---|---|---|
| Saving a new asset | `src/authored-input.js:187-208` | `handle`, `owned`, `published`; the temporary file, the output path | open, write, sync, close, link, unlink |
| Bounded file capture | `src/authored-input.js:94-122` | descriptor, `size`, `parts` | open, stat, read, close |
| Output writer | `src/public-cli.js:412-470` | `failed`, `failure`, `pending`, listeners | write, fail, check, settle, release |
| Session input | `src/public-cli.js:368-410` | `iterator`, `closing`, `stopped`, `finished`, `canceled` | next, close (return), cancel |
| Run, session loop | `src/public-cli.js:352-366, 473-484, 712-745` | `code`, `failure`, `rejected`; `pending` bytes | race, cancel, release; ask, parse, answer, leave |
| Asset commands | `src/public-cli.js:503-633`, `src/source-input.js` | `bytes`, `edits`, `sourcePayload`, `result`, `saved` | permission, captures, Core calls, save, answer |
| Read session | `src/public-cli.js:634-745` | retained snapshot and view, `delivered`, `projectionFailure`, handles | prepare, observe, deliver, project, resolve |
| System warnings, change report | `src/public-cli.js:142-316` | none | graph algorithms over relations |
| Argument parser, JSON transport, guidance | `src/public-cli.js`, `src/authored-input.js` | none | `parse`, limits, formatting |

The releases:

| Component | Code | State | Operations |
|---|---|---|---|
| Release channels | `scripts/release-channel-authority.cjs` | the release event, the retained artifact and evidence, registry and tags | check, prepare, guard, publish, check the tags, verify in public |
| Core release | `scripts/release-tools/core-release-authority.js` | the git objects, the two retained files, the registry | check, prepare, smoke, guard, publish, invariant: out of use at this commit, `main` refuses them (2890) |
| Trusted npm | the same | the download, the provisioned file, the private directories | download, provision, verify, unpack, run, clean |
| Archive and JSON readers | the same | what has been read | the grammar of tar and of JSON, its limits |

The retired stores and tools (`retired/src/`), each its files and the commands over
them:

| Component | State | Operations |
|---|---|---|
| Workspace attachments | the record, its lock, the snapshots, a cleanup's plan, staging and receipt | attach, remove, set a role, preview and execute a cleanup, recover |
| Workspace resolution | a snapshot of what could be loaded, the user's choice | resolve, ask, choose, verify, load |
| Package store | the index, its lock with recovery, the version directories and receipts | install, remove, list, repair |
| Installer and registry | the cached registry, temporary downloads, the audit log | add, add a cluster, update, refresh |
| Entitlement | the secret store, a metadata file, the server | activate, synchronize, status, revoke |
| Host consent | the consent file, its backup, the drafts | prompt, approve, revoke, status |
| Secret store | one secret per backend | get, set, delete, list |
| Protection of assets | assets, temporary directories, recovery codes | protect, unlock, recover |
| Safe archives | the archive, the staging directory, the destination | inspect, extract, rename |
| Publication, work packs | the asset file, the GitHub release; the files of a pack | check, pack, upload; init, validate, report |
| Clusters, discovery, traces | a manifest and a task; the installed domains; daily files | plan, preflight, trace, migrate; match, select, route; append, list, clear |

How they interact:

- `run()` creates one output writer and one session input, and gives the operation
  (`runWithOutput`) three things: `write`, the iterable and `assertActive`.
  `assertActive` throws the first output failure; it is the only way in which the
  operation learns of a failure before it writes.
- `fail()` of the writer is called from the write callback, the `error` and `close`
  events and from `write()` itself.  It rejects the pending write and the race of
  `run()`, and cancels the session input.
- The session loop pulls from `requestLines`, which pulls from the wrapper of
  `sessionInput`, which pulls from the caller's iterator.  Leaving the loop closes
  all of them, in that order, and waits for the caller's `return()`.
- The commands that save call `saveNewAsset` with `assertActive`; those that read a
  file call `readBoundedFile` with it, except `create`.
- A release job calls the authority once per workflow step; what one step leaves for
  the next is a file, an environment variable or the registry, and any of these may
  change in between.
- The retired commands meet only in their files; some take a lock, most do not.

What is hard: a failure of the output can arrive between any two awaits; the run is
answered at once, but its operation cannot be stopped and lives on, with a file
operation, a Core call or a caller's `next()` in flight.  Node reports one stream
problem through several channels, one of them after the write callback.  The file
system is shared with other runs and other programs, may fail any operation, and
survives kills and power loss.  The registry accepts a version before it shows it, a
tag or a checkout may move between the call that checks it and the call that uses
it, and a job may be run again from its beginning.  The retired stores are several
files that must agree, written one after the other by processes that crash.
`PROJECT.json` lists these hazards one by one, each at its line.

## 2. Modules

| Module | What it is |
|---|---|
| `ExclusiveOutput` | what saving promises: exclusive, all-or-nothing, truthfully answered |
| `SaveNewAsset` | `saveNewAsset`, several runs, the file system; implements `ExclusiveOutput` |
| `BoundedFile` | `readBoundedFile` against a file that changes while it is read |
| `OutputWriter`, `SessionInput` | the variables and operations of the two objects of a run |
| `RunLifecycle` | `run()` and the session loop; composes the two modules above |
| `SaveCommands` | the commands over an asset file; extends `SaveNewAsset` |
| `SaveCommandsProofs`, `RunLifecycleProofs`, `ReadingProofs` | what is proved of the save and the commands, of the run, and of the `read` command and the system findings |
| `CoreReleaseProofs`, `AuthorityProofs` | what is proved of the core release authority, with the capture of a file in a part of its own, and of the release channels and the npm |
| `ReadSession` | the `read` command: snapshot, views, handles, clock, a session's answers |
| `RequestLines` | the generator of session lines, byte by byte |
| `SupportCycles`, `SystemChecks` | the search for cycles step by step; the other warnings and the change report |
| `TarArchive`, `StrictJson` | the two readers of the release tools, block by block and token by token |
| `ReleaseChannel` | the jobs of the preview and the stable channel |
| `CoreRelease`, `TrustedNpm` | the core release authority, and the npm it runs |
| `WorkspaceAttachments`, `WorkspaceResolve`, `PackageStore`, `PublishAsset`, `WorkPack` | the retired stores |
| `RetiredProofs` | what is proved of the retired stores |
| `AssetToolsProofs`, `ToolsProofs` | the invariants of the retired tools that work on assets, and what is proved of all the retired tools |
| `Entitlement`, `Installer`, `HostConsent`, `ClusterPlan`, `SecretStore`, `Discovery`, `TraceLog`, `ProtectAsset`, `SafeArchive` | the retired tools |
| `MCSaveNewAsset`, `MCRunLifecycle`, `MCSaveCommands` | the instances of the core for TLC |
| `MCCoreRelease` | `CoreRelease` for commands that can meet |
| `MCReading`, `MCReleaseChannel`, `MCRetired`, `MCRetiredTools` | several independent components in one instance each |

The four modules of the last row check components that share no state: an initial
state chooses one (`part`), its Next moves only that one, and the variables of the
others keep a constant.  Each property says which part it speaks of.

In the modules of the program **an action is the code between two awaits**: it takes
the completion of one asynchronous operation and runs to the start of the next.
JavaScript runs that code without interruption, so `assertActive()` and the operation
it guards are one step, and everything else may happen between two steps.  The
release tools and the retired commands work synchronously in processes of their own;
there **an action is the code up to the next system call that another process can
see**, or to the next external command.

Definitions whose comment begins with "Mutant of" are not part of the specification:
each is the variant of one definition that a plausible mistake in the code would
give, and shows that a property can tell the two apart.

### SaveNewAsset

`pc[s]` names the awaited operation of run `s`; `handle`, `owned` and `published` are
the variables of the function; `raised` is the error of its catch block, and
`outcome` is what its promise settles with.  `temp`, `data`, `synced` and `entry` are
the file system: the temporary entry, how much of the asset the file holds, whether
`sync()` returned, and what the output path leads to.  Contents are abstract: an
asset is the run that made it, and a file is `"partial"` or `"whole"`.

`Finally` is the finally block with its two awaits.  An error of `close()` in the try
block leaves `handle` set and the finally block closes again.  An error of `unlink()`
is reported only by a run that has published, and the `return` in the finally block
replaces nothing else.  After a power loss bytes that were not synced may be gone,
and every directory entry may be back at any value it has had: the code syncs no
directory, and the repository's README says that directory durability is not
promised.  `past` exists only to say this.

The refinement maps `entry` to the abstract `content` (a file that is not whole would
be `Torn`, which the abstract specification never has), `past` to `held`, and groups
the answers into saved, refused and lost.  Link is the abstract commit, the settling
step is the abstract answer, and a save that is killed between them is `lost`.

### BoundedFile

`length` is what the file has now, `size` what has been captured.  `Resize` may change
the length at any moment.  `Request` is the length of the next buffer,
`min(65536, limit + 1 - size)`: the one byte more is what tells a file that ends at
the limit from one that has grown beyond.  `watched` is false for `create`, which
passes no `assertActive`.  `verdict` is what the try block is about to let through
and `result` what the caller gets: an error of `close()` replaces it.

### OutputWriter, SessionInput, RunLifecycle

`OutputWriter` and `SessionInput` declare the state of the two objects that `run()`
makes and define their methods as operators; `RunLifecycle` extends both and lets
the operation, the run, the microtasks and the outside world call them.

`op` is where the operation stands: asking the generator for a line, waiting for the
input, at work on a line (or on the one answer of a one-shot command), writing,
closing the input, or ended.  `lines` and `tail` are the complete lines and the
unterminated bytes the generator holds; a line is one of ready, refused, malformed
or oversized.  How bytes become lines is `RequestLines`, what answers a line is
`ReadSession`.  A refused answer counts as exit code 1 here; in the code it may be 1
or 2.  `race` is how `Promise.race` ended and `outcome` how `run()` settled.

Microtasks are actions of their own (`Destroy`, `RequestReturn`, `Settles`); only
`Releases`, the `setImmediate()` of `release()`, waits until no microtask and no
next-tick event is queued, because that is what Node guarantees.  `sink` and `event`
are the caller's stream: it may go away at any moment, and the `error` or `close`
event comes later.  A caller's stream whose destruction is itself asynchronous may
emit its error after the run has settled; those errors belong to the caller, as the
repository's README says, and are outside the model.

### SaveCommands

One operation per run, from its permission check to its exit code, with
`saveNewAsset` inside it taking the very steps of `SaveNewAsset`.  `at` is what the
operation waits for.  `Enter` is "assertActive(), then start the next operation",
`Emit` is "write() throws the failure it knows of, or the answer is under way".
The four commands are one plan with branches: source-pack captures the edits first
and opens the asset once for its change report, create captures its authored input
without `assertActive`, inspect (which stands for validate) and source-open end with
an answer, the others with a save.

Core is external.  Its calls may succeed, refuse or throw; a source command succeeds
only on bytes that are the content named by `--expected-a`, which is what the
repository's README says of that digest.  `asset` is the content of the source file
now; another program may save it anew at any time, even while it is captured, which
gives `Mixed` bytes.  `exit` is the settling of `run()`: with the failure as soon as
there is one, although the operation lives on.

### ReadSession

`at` is the next step of the one operation; `retained`, `viewed`, `kept`,
`delivered` and `projectionFailure` are its variables of the same meaning.  The file
may be rewritten between any two steps, and `now` is read wherever the code calls
`now()`; it may go forwards or back.  Read is external: it may issue a handle, which
`registered` remembers for the host provider and `kept` for later lines.  `answers`
collects what was written, for the properties; `code` is the exit code so far, and `exit`
tells a run that returned it from one whose output failed.

### RequestLines, SupportCycles, SystemChecks

`RequestLines` cuts chunks with the code's own indices (`start`, `end`, `pending`); the
property compares its lines with a definition on the whole input.  `SupportCycles` is
the recursive search with its stack made explicit, in any order of the relations;
`SystemChecks` computes the other findings in one step and compares them with
declarative definitions.

### TarArchive, StrictJson

Bytes are abstracted to blocks and tokens.  `TarArchive` has both readers of the
release tools (`dialect`): pax and long-name metadata, directories, the ends of an
archive, the limits.  `StrictJson` makes the recursion of the reader a stack of open
objects and arrays; the reference is the grammar over whole texts.

### ReleaseChannel

A channel stands for the version it publishes.  `job[c].step` is the workflow step of
the current run of a channel's job; `files[c]` is what prepare retained, `registry`
what the registry has accepted and `shown` the document it shows, which follows late
or never.  Commits and archives are good, or wrong in a way the checks must see.
Interference (a moved tag, a changed checkout, another publisher, a lost answer) may
come between any two calls.  What a job writes and retains is the context it captured at
inspection.  Another publisher may have packed the same commit anew: such a version is
not the identical archive, and the public installation, which compares the members of
the package only, is content with it.

### CoreRelease, TrustedNpm

`CoreRelease` makes each git or npm call that reads something mutable a step (`saw` is
what an inspection has read so far), because the code reads HEAD, tag, index and
worktree one after the other.  Objects named by their hash never change and are read
in the step that uses them.  No workflow can run these commands at this commit: `main`
throws "Vendored primitives are library-only" (2890) and only primitives of the tool are
exported.  The module says what the commands would do, should they be taken into use
again; nothing else rests on it.  `TrustedNpm` has the event handlers of the download as
actions of their own, in every order Node may call them, two provisioners of one
destination, and a user that verifies, unpacks and runs.

### The retired stores

`WorkspaceAttachments` takes one step per system call that matters: the lock is a
file linked into place and naming its owner, a crash leaves everything where it was,
a cleanup moves what it deletes into a staging directory with its plan and is
recovered by the next command.  `WorkspaceResolve` follows one resolution from the
snapshot it takes to the load, while anything may change between the steps.
`PackageStore` has the directory lock with its age rule, the index that is merged
with the directories, and the rename of a staged version.  `PublishAsset` reopens its
file as often as the code does, and its manifest may declare a content digest that is
not the asset's.  `WorkPack` writes a directory without any lock, and its files may be
there and not parse.

### The retired tools

`Entitlement` has two clients over one secret store, one metadata file and a server
that revokes and rotates keys.  `Installer` has editions of a registry that expire, a
shared cache and the temporary download; the store's operations are atomic there, and
the line of the audit log may fail to be written, which stops nothing.
`HostConsent` follows the draft that the user saw to the file that is written, synced and
read again for the report; each of these steps and each step back may fail.
`SecretStore` picks a backend per call, drives the keychain helper step by step, and takes
an exit status 1 for what the code takes it for.
`ClusterPlan` plans every small manifest, where the text matching is a choice of match
qualities, and migrates to an output path that ends in .json or does not.
`Discovery` reads the listed domains one by one while others install and
remove.  `TraceLog` has lines with and without their line feed and
files that cannot be read.  `ProtectAsset` has
two commands that may work in place on one asset.  `SafeArchive` inspects every small
layout of stored and compressed entries and extracts beside its destination, and both
of its removals may fail.

## 3. Runs

Passing runs:

| Run | Bounds | What it shows |
|---|---|---|
| `save` | two runs, one output path | safety of the save, refinement of `ExclusiveOutput`, and that a save settles or is killed |
| `capture` | limit 5, buffer 3, file up to 8 | bound, completeness, silence and end of a capture |
| `lifecycle` | two chunks of up to two lines | the failure boundary, cleanup, and that runs end |
| `commands` | one run, two contents | what a command answers, that it uses the save as specified, and that it ends |
| `reading` | see below | lines, archives, JSON texts, system findings and sessions are exact |
| `release_channels` | one job and its re-run with two kinds of interference, or both channels; two provisioners and a user | what is published was approved, what succeeded is public, everything ends |
| `core_release` | two commands that can meet, two commits, two faults | what is prepared and published is the release's commit |
| `retired` | two processes per store, one crash or failure | the retired stores agree and change by right |
| `retired_tools` | two commands at a time per tool, one crash or failure | the retired tools keep, answer and protect truly |

Runs that TLC refutes, each a disagreement between the code and what the repository
says of it (`PROJECT.json` "findings"):

| Run | What it shows |
|---|---|
| `workspace_lock` | two commands that both find the lock of a dead process can both hold it: the recovery renames whatever has the lock's name by then |
| `workspace_receipt` | the receipt of a recovered cleanup counts as deleted what had never been moved |
| `host_consent` | while a consent is replaced there is a moment, for good after a crash, without any |

Why the bounds are enough:

- *Save.*  Runs meet only at an output path, and two are enough to contend for it:
  one wins, one loses, in every order with other programs.  Runs with different
  paths share nothing.  The safety properties are also proved for any number.
- *Capture.*  The limit is no multiple of the buffer, so the last buffer is shorter
  than the others, and the file may end before, at, one beyond and far beyond the
  limit, change before and after every read, and answer short reads.
- *Lifecycle.*  Two chunks give a line that is completed by the next chunk, a chunk
  whose later lines are still waiting when the output fails, an input that ends with
  and without unterminated bytes, and one item too many after a failure.  The
  property that speaks of counts (`returns`) cannot need a third.
- *Commands.*  Runs of commands meet only in the save, which the first run covers.
  The second content is enough to be the wrong one.
- *Reading.*  Lines of at most two bytes in inputs of seven, in every division: a line
  below, at and above the limit, split anywhere, with and without a line feed.  Graphs
  of three judgments with every order of their relations have two cycles that share
  an edge, a cycle behind a tail, and a relation recorded twice.  Judgments differ in nothing,
  so a relation that is revised starts at a named one of them (`FirstIsOfSome`).  Archives of five
  blocks have metadata, its entry, a second entry and the end; JSON texts of nine
  tokens have two members in an object in an object.  A session of two lines uses on
  the second what the first retained, with a file that has changed in between.
- *Release channels.*  One job against two kinds of interference out of all there are
  (a third needs a third change between calls that already check two); two reads of
  the tags are a first look and one late one.  The two channels meet at the registry
  document only.  One audited chunk of at most two tells a short, a right, an altered
  and a too long download.
- *Core release.*  Two commands contend for the retained files and the version: prepare and
  publish meet each other and themselves, guard and smoke, which only read, meet the
  prepare that makes what they read, check and invariant read neither.  The proof has no
  such bound.  As said above, the commands are out of use at this commit.
  Two faults are a change and its way back, which a check before and one after would miss.
- *Retired.*  Locks and files are contended by two processes; a third slot is used one
  after the other (`MaxRuns`, `MaxPacks`).  One crash is followed by its recovery; the
  lock finding needs two waiters and a dead owner.  Two attachments give a conflict.
- *Retired tools.*  A command that crosses another and one crash or failure; two pins,
  keys, versions or passwords tell new from old; three trace records over two days
  give a torn line before and after a whole one; three archive entries give an overlap
  that only sorting finds.  A cluster's settings vary only where its manifest asks for them
  (`SettingsMatter`; the theorems are about `ToolsSpec`, which has no such condition).  The
  limits of an entry (2 units), of an archive (4) and of the
  ratio (3), beside a central directory at unit 6, let every one of them be the first that
  an archive breaks, stored or compressed.  A consent may slip twice (`MaxSlips`): a
  replacement that fails and a step back that fails too.

Every operation of the file system may fail in every state in which it is awaited,
and output failures, kills and power loss may come in any state of the program's own
modules.  In the release and retired modules failures and crashes are counted, since
after each the system goes on.  Deadlock checking is off where the system really stops (a
settled run in `lifecycle`, finished commands in `retired` and `retired_tools`) and in the
three refuted runs; it is on everywhere else.

## 4. Fairness

Safety needs none.  The liveness properties assume:

- `save`, `capture`: a file operation in flight completes, with success or an error.
  For a regular file on a local file system that is what the kernel gives; the capture
  refuses anything else after `open` with `O_NONBLOCK`.
- `lifecycle`: queued microtasks, next-tick events and immediates run.  That is the
  event loop itself; for `FailureEndsRun` nothing is assumed of the input, of
  `return()`, of the file system or of the stream, which may all stay silent for ever.
  `CooperativeRunSettles` says that a run settles *if* its environment answers what it
  is asked (`Cooperation`).
- `commands`: captures, Core calls, file operations and the write callback answer.
- `release_channels`: a command that has begun goes on, and its timeouts expire; a
  provisioner runs, and a connection that it destroyed, or on which nothing happens
  until the timeout, is reported.  Nothing is assumed of the registry, of the server or
  of other publishers: a registry that never shows anything still ends the job.

Weak fairness suffices everywhere: a step that waits for nothing else stays enabled.
`SearchAdvances` of `reading` is an action property: each step of the search for cycles
lessens the work that remains, so the search ends.  The
retired commands are synchronous programs that end or are killed; nothing of interest
depends on their fairness.

## 5. Properties

A property of a run is a conjunction of named parts, given here in brackets; the
comments in the modules state each part and the code it is about.

Save: `SaveTellsTruth` (`PublishedIsWhole`: a reader of an output path sees no asset or a
whole one, at any time; `OutcomeIsTrue`: the answer agrees with the commit),
`SaveDiscipline` (`CompleteMeansClean`, `NeverReplaces`, `NothingStartsSilenced`,
`AlwaysTriesToUnlink`), `EventuallySettles`, `ImplementsExclusiveOutput`.

Capture: `CaptureInv` (at most one byte over the limit is ever read),
`CaptureDiscipline` (`NeverCutOff`: what is accepted reached the end of the file at its
last read; `NoOperationSilenced`, `NoBytesSilenced`), `CaptureEnds`.

Run: `Ending` (who closed the input, and what the exit code counts),
`FailureIsTold` (`FailureDecides`, `ReturnAtMostOnce`, `NoUnheardError`),
`CleanupIsOrdered` (`DiagnosticBeforeCleanup`, `ExitZeroIsEarned`,
`RejectedRunReleasesInput`, `HealthyCleanupIsAwaited`), `FailureIsFinal`
(`FirstFailureWins`, `NoInputAfterFailure`, `NoOutputAfterFailure`, `SettledIsFinal`),
`RunSettles` (`FailureEndsRun`, `CooperativeRunSettles`).

Commands: `CommandTellsTruth` (`RowIsTrue` and `ExitIsTrue`: answer and exit code agree
with the commit; `PermissionComesFirst`; `SavedFromExpected`: what is saved, and what the
change report compares with, is the content the caller named), `NoWorkSilenced`,
`CommandsUseSave`, `CommandEnds`.

Reading: `LinesAreExact` (every line once, the limit per line), `FormatsAreExact`
(`ArchiveIsExact`, `JsonIsStrict`: both readers accept their grammar and decide every text),
`SessionTellsOneTruth` (`SessionIsAnswered`: every line once and in order, with the exit
code it earns; `SessionIsOneView`: one snapshot, and handles shown before and still
open; `ReadIsUnderWay`, `CodeIsTheWorst`, `ResultIsOfTheView`: the same of the request in
work), `SystemIsReported` (`WarningsAreTheCycles`, `WarningsFollowTheKinds`,
`ReportIsWhole`), `SearchAdvances`.

Releases: `PublishedAsApproved` (what is on the registry in a job's name is what the
release approved, and is told from a stranger's), `JobsEndTruly` (a job that succeeded
is public and tagged, a prepare that failed left nothing), `AuthorityKeepsOff` (no
publisher call by a run that could see the version, none over a tag that moved), `AuthoritiesEnd` (again and again
every run has ended), `NpmIsAudited`
(only the audited bytes are ever run, and no directory is left), `CoreInv`
(`ReleaseIsTheCommit`, `CommandLeavesNothing`), `PublicationWasApproved` (the tag has been
at the release's commit since the lookup).

Retired: `StoresAgree` (`WorkspaceInv`, `StoreInv`, `PublicationsAreTrue`, `PacksAreTrue`),
`StoresChangeByRight` (`RecordChangesByOne`, `StoreMovesByRemoval`),
`CleanupsAreApproved`, `ResolutionsAreClear`, `ChoicesAreBound`, `ToolsAgree`
(`EntitlementInv`, `InstallerInv`, `ConsentIsTheUsers`, `SecretsAreAsTold`),
`AnswersAreTrue` (`ClusterInv`, `DiscoveryAgrees`, `TracesAreTrue`), `AssetsAreProtected`
(`ProtectionHolds`, `ArchivesAreSafe`), `ToolsMoveByRight` (`GrantsOnlyMoveForward`,
`InstallsAreListed`, `NoPlaintext`).  `GrantsOnlyMoveForward` holds while installs of
activations do not cross and no keychain write is lost, as the formula says.

Some of these hold only up to a known weakness of the code; the module then records in
a history variable (`scars`, `wounds`, `spoiled`, `broken`, `unsaid`, `unlogged`, `stuck`)
that the weakness was met, and the property says what remains true.  Section 7 lists them.
One hazard stays uncovered for this reason: after a stale merge has overwritten the index
(`spoiled`), `StoresAgree` and `StoresChangeByRight` no longer speak of the digest it
changed.  An answer that the code derives from a wrong belief is given its weaker, true
reading in the property itself: a secret told to be deleted may be there still, a trace may
miss what lies in a file that could not be read, a consent may be in force although its
command failed.

## 6. Proofs

All proofs are checked by TLAPS with its SMT, Zenon and temporal backends.  The
assumptions are those the modules state: the output path of each run is a path, the
markers `Absent`, `Foreign`, `Torn` are no runs and differ, limits are numbers, a
buffer is not empty, the named content is a content and `Mixed` and `None` are not.

**Save.**  None of the properties is inductive.  `SaveInv` adds what each place of the
code comes with: at the link the file is synced and therefore whole
(`StageIsReached`), in the finally block exactly one of "published" and "raised" holds
(`OneVerdict`), the answer follows `published` (`AnswerFollows`), and `published` is the
truth about the directory's history (`HistoryIsPublished`).  From it follow
`OutputIsWhole`, `AnswerIsTrue`, together `SaveIsTruthful`, `SavesNeverReplace` and, step
by step, that the save implements `ExclusiveOutput`: since every entry is whole,
`ContentAt` is just `entry`.  The action properties of `SaveIsDisciplined` follow from the
same invariant; that a save which reports complete success left no temporary file also
needs that nobody but its owner makes or removes it.

**Capture.**  `CaptureInv` adds that a read starts only within the limit, that nothing
is answered before the finally block and that this block has something to let
through.  `AcceptedIsWhole` needs that a buffer is never empty within the limit
(`RequestFits`): otherwise a read without a byte would not mean the end.
`CaptureIsDisciplined` adds the silence after an output failure.

**Run.**  `LifeInv` ties the writer to the input (`BoundaryHolds`: a failure has stopped
the input and left no write waiting), the operation to its write (`WriteIsAwaited`), the
listeners to the run (`ListenersCover`), the race to its cause (`RaceIsWon`), and the
iterator's `return()` to the single `closing` promise (`OneClosing`).
`RunTellsItsFailure`, `ReturnRequestedOnce` and `ErrorsAreHeard` follow, together
`RunIsTold`, and the action properties from the same invariant.

**The end of a run.**  `LifeInv` says nothing of who closed the input or of what was
counted, and `CleanupIsOrdered` is about both.  `Ending` is inductive together with it:
a failure or a rejected race has cancelled the input (`CancelReaches`), a close without a
cancel belongs to the operation that waits for it (`CloseIsWaited`), an oversized line
comes to nothing but its diagnostic (`OversizedEnds`), as long as the code is 0 every line
yielded has been answered ready, but for the one in work (`CodeCounts`), and a session
that nobody cancelled resolves with 0 only at the end of its input (`DrainedIsEnd`).
`EndingInvariant` proves it; `CleanupComesInOrder` and `FailureStaysFinal` follow, the
latter with the fact that a settled run has left no microtask behind (`SettledIsQuiet`).

**Commands.**  Every step of a command is a step of `SaveNewAsset` or leaves its
variables alone (`CommandsUseSaveNewAsset`), so `SaveInv` is inherited.  `CommandInv`
adds that the save is not called before the operation comes to it and that an answer
comes after it has settled (`AnswerComesLast`), that the code is the answer's
(`CodeFollowsAnswer`) and that only named content is saved (`ProductIsExpected`);
`CommandIsTruthful` collects what follows.

**Sessions.**  `SessionTellsOneTruth` is inductive because it speaks of the request in
work as well as of the answers written: whether it has been answered (`ReadIsUnderWay`),
that the code so far is the worst of the answers before it (`CodeIsTheWorst`), and that the
result about to be delivered is of the retained snapshot, which was attested, and inside
the window of its handle (`ResultIsOfTheView`).  Without the last an answer of another
snapshot would be no contradiction until it is written.  `WorstIsMax` says that the
maximum of finitely many codes is the one that none exceeds.  `SessionIsTrue` holds for any
number of lines, any clock, any window and any set of contents and handles; it assumes
only that the markers `Bad` and `Nil` are no contents and no handles.

**System findings.**  `SystemIsReported` holds for any set of judgments and any relations
between them.  The search for cycles keeps its path in a sequence: `SearchInv` says that it
is a path of the graph without a repeated judgment, and `CyclesInv` adds what has been
followed from it: a target followed has been entered (`FollowedAreEntered`), a judgment that
was left and rests on itself has been noticed or shares a circle with one still on the
path (`LeftAreNoticed`), and every warning
is a cycle of its own that begins with its least judgment (`WarningsAreLed`).
`CyclesAreReported` is the theorem on the cycles, `RevisionsAreReported` adds the other
warnings and the change report, whose functions need no more than their definitions and
a count of the two sides of a revision.

**Core releases.**  The order of the steps of a command is data (`Program`), so the first
lemmas read it off and the others speak of steps by name.  `CoreInv` is inductive: what an
inspection has read is the commit it will judge (`InspectionHolds`), a candidate is that
commit (`CandidateIsTheCommit`), a retained file belongs to whoever made it
(`FilesAreOwned`), a publication that was skipped is identical (`SkippedIsIdentical`), and
between the lookup and the publication the tag has moved only if somebody moved it
(`TagIsWatched`).  `ReleaseIsTheCommit` and `CommandLeavesNothing` are parts of it, and
`PublicationsAreApproved` follows step by step.

**Release channels and the npm.**  `ChannelInv` keeps one truth for each channel: what its
job knows of its commit, archive and tags (`Known`), and which of it the registry may
have in its name (`Sound`).  It holds for any number of attempts, of runs and of
interferences.  `NpmInv` ties the files of a provisioner to the state of its
connection and the bytes counted; it holds for any number of provisioners and users and any
limit of the download.  `ReleasesAreTheApproved`, `JobsEnd`, `NpmIsTheAudited` and
`AuthoritiesKeepOff` follow, the last an action property of both parts.  The assumptions
say that the markers for a missing file or record are none themselves.

**The retired stores.**  Each of the five has an inductive invariant of its own;
`RetiredInv` says which holds of the part that runs, and `StoresStayTrue`,
`ResolutionsStayClear`, `ChangesHaveARight`, `CleanupsDeleteTheApproved` and
`ChoicesStayBound` follow for any number of processes, contents, crashes and failures.
They assume only that bounds are numbers, that the set of attached assets is finite and
that the marker `Gone` is no content.

- *Workspace.*  The program of a command is data, so `ProgramIs` and `Places` read off
  which step comes where.  `WorkspaceKnows` says what a process remembers at each place
  (`MemoryFits`), that the lock names whoever is inside (`HolderIsNamed`), that the
  process inside knows the disk (`ProcessesKnow`: the record it has read is the record,
  the snapshots of a cleanup are in the store, in the staging directory or deleted, and
  none is referred to), and that what the record refers to is stored.  `HolderIsNamed`
  and what rests on it hold until a live process loses its lock (`broken`); after that
  `WorkspaceInv` promises nothing, and the run `workspace_lock` shows that the code can
  get there.  Most steps are steps inside the lock: `InsideStep` proves once that
  such a step disturbs nobody else, if it does what `Proceeds` allows.
- *Package store.*  `StoreKnows` has three layers.  `TypedAndSane`: the fields of a worker
  fit together.  `LockKnows`: a process has a pid nobody had before, one process at a time
  recovers a lock, and, unless a lock was stolen from an owner that had not named itself,
  one holds it (`LocksHold`).  `MemosKnow`: what a command is about to write moves from
  the index by its own removal only (`MemosMove`, needs the lock); index, receipts and
  memory agree (`MemosMatch`, needs also that no stale index was written); and nothing is
  missing on either side (`MemosAreExact`, needs also that nothing failed).  The property has
  the same three conditions.
- *Resolution.*  `ResolveInv` ties the decision to the snapshot it was made from, and a
  choice to a candidate that was verified.  `Decided` says what a decision means in terms
  of the scopes; a single positive attachment is found by its cardinality, which is why
  the set of attachments must be finite.
- *Publication.*  `CheckKnows` relates the counters to the set of fields checked: their
  sum is its cardinality plus the questions that count twice.  `PublisherKnows` orders
  the facts: each was read from an asset no newer than the next one's, and from the same
  one if it was not replaced.
- *Work packs.*  `PackKnows`: an init that ran alone has written every file before the one
  that comes next, and what was told stays so.

**The retired tools.**  `ToolsInv` says which of the parts' invariants holds; from it
follow `ToolsStayAgreed`, `AnswersStayTrue`, `AssetsStayProtected` and the action property
`ToolsMoveByTheirRight`, for any sets of clients, shells, askers, callers, keepers, places,
passwords, words and readers and any bounds.  They assume that bounds are numbers, that
there is a password and a day, that a task has finitely many words, and that `nobody` is no
shell.  The parts that work on assets are in `AssetToolsProofs`, the others and the
conclusions in `ToolsProofs`.

- *Entitlement.*  What a client has in memory fits its step (`ClientIsSane`) whatever
  happens.  As long as nothing was lost, torn or overlapped (`EntitlementHolds`), one client
  writes at a time, what is stored is what that client has in memory as far as it has come
  (`WritesInOrder`), and the status in the file is what is stored or about to be
  (`StatusIsToBe`); that grants only move forward needs of this no more than that installs
  did not cross (`InstallsGoForward`).  The proof found a state that the run's bounds do not
  reach: after a revocation was written, an activation that dies between its secrets and
  its metadata leaves a loadable grant behind a file that says "revoked"
  (`RevokedIsRevoked` says so now).
- *Installer.*  `WellPlaced` says that a release to be installed is one the copy it was
  resolved from lists, newer than what an update found, and that the counts of a group add
  up at every step; `OwnDownload` that a temporary file exists exactly while its command
  verifies or installs it, and is the registry's once it is verified.
- *Host consent.*  `ConsentAlone` follows a command that nobody crossed through its steps:
  what is aside, what is in force, what was last reported and what is in force unsaid,
  because the sync or the reading after the replacement failed.  With any number of
  slips the consent last reported survives the first of them only; `ConsentIsTheUsers`
  says which.
- *Secrets.*  What a call may be told is among the values that were possible while it ran
  (`AnswerIsTrue`), and who was alone has written what it will be told (`UseIsSane`), but for
  a deletion that ended with status 1, which leaves both values possible.
- *Protection.*  What a command has made by each step (`InHand`), what lies in its private
  directory (`DirFits`), and what was told of each file, which holds until the file is
  written again (`TaleHolds`).
- *Archives.*  The extraction's invariant is short; the work is in what the inspection
  says of an archive with any number of entries in any order.  The code sorts the entries
  and compares neighbours, which is modelled by the order of that sort (`Earlier`): the
  entry next to another exists because a set of numbers has a least member (`LeastOf`, from
  the library's well-founded induction), so no two entries share a byte (`EntriesApart`).
  Prefixes in lower case keep two paths apart (`PlacesApart`), and the bytes held are at most
  the units that the sizes count, by an injection (`BytesAreUnits`), for any ratio of
  compression.  What the two removals could not remove is what is left.
- *Clusters.*  `ClusterKnows` ties a plan to what the planner computes from its manifest and
  task: the primary is the one that no other candidate beats, which exists because the order
  of score, priority and id is strict and total on a finite set (`LeastOf` and `Places` in the
  place of the sort), and each check that has been made is in the lists of the plan.
- *Discovery.*  `DiscoveryKnows` holds what the command has read against what it was told to
  list.  That a route accounts for every domain is a statement on its groups, one lemma for
  each kind of answer (`TwoGroups` and its like); that the ranking begins with the domain
  loaded follows from the places of a stable sort.
- *Traces.*  `TraceKnows` says where a record may lie: the records of a page and of the pages
  behind it increase, an erased one lies nowhere, and a reader has, in order, what is due from
  the pages it has read while the rest is still sealed in those to come.  What a malformed
  line hides is only its own records.  `LatestTells` is about the reversed end of a sequence.

The sorts and filters are modelled by the place of each member: `Places` and
`NumberPlaces` prove that in a finite set under a strict order each member has a place of
its own and each place a member, by the library's theorems on cardinality and well-founded
sets.

Model-checked only: all liveness and the strict decrease of the search, `SearchAdvances`
(out of the prover's reach); and `LinesAreExact` and `FormatsAreExact`, which compare readers
with definitions over whole inputs and would need induction over data.  All other safety
properties are proved.

## 7. Observations

What the models say of the code beyond the three findings.  Some of it is surely intended;
some of it contradicts a comment or a message of the code itself, and the properties
then state what the code does:

- `publish.js:147-149` says that a publication should be blocked when a Human Lock failed;
  `publish check` is ready all the same and calls the locks optional.
- `agent.js:239-240` and `254` tell an agent not to load what `match` drops; `route` answers
  LOAD for a domain that fits and that no load plan permits.
- `cluster migrate --out` for a path without .json writes its report over the manifest it
  has just written (`cmds/cluster.js:393`, `413-416`).
- `secret-store.js:340-341` and `385-386` take every exit status 1 of `secret-tool clear` and
  `pass rm` for a deletion, 360 one of `pass show` for the absence of the secret.
- `host-consent.js:74` and `508`: when the sync after the rename of a first consent fails, or
  the reading for the report, the command fails and the consent is in force.

The program:

- A line over 1 MiB is thrown inside the generator's own loop, so the input is closed
  and its `return()` awaited before the diagnostic is written; a malformed line is
  diagnosed first.  The repository's README promises the order for malformed input.
- An operation that lost the race may still take a line that was already buffered and
  start to work on it; the first `assertActive()` or `write()` stops it, and the input
  is not asked again.
- `create` starts and completes the capture of its authored input after an output
  failure.  No production and no save follows.
- A committed asset may remain although the run is rejected, when the output fails
  after the link has started; no exit code and no answer ever denies it.

The releases:

- A stable job fails by a false alarm when the preview job moves its tag between the
  stable job's preparation and its check of the tags.
- `runTrustedNpmCommand` makes its private home before its `try`: if the second
  directory cannot be made, the first ones stay.  An exclusive write that fails midway
  leaves a partial file, in the provisioner and in prepare.

The retired stores:

- *Workspace.*  A crash after the staging directory is made and before its plan is
  written (or after the plan is unlinked) makes every later cleanup fail.  A lock that
  vanishes between the link and the read is reported as held.  Automatic loading does
  not read the record again.
- *Package store.*  A live process that pauses 30 s between `mkdir` and `owner.json` loses
  its lock.  A crash that holds `.recovery` leaves it for good, and a later dead lock is
  never recovered.  A stale index write may overwrite the digest of a reinstalled
  version; a failed index write after the rename reports failure for a version that is
  adopted later; a crash in a removal leaves an index entry without its asset.
- *Publication.*  The file is reopened for each fact.  The evidence's content digest is
  what the manifest claims, if it claims one (`publish.js:593`), compared with nothing.  Of
  the stances, fewer than two are a warning.  A failed upload may have replaced the file of
  the release.
- *Work packs.*  A missing `required` is reported as required and falls back; a dry run
  passes missing gates; gates, risk policies and trace policies that do not parse are left
  out without a word (`workpack.js:22-27`); an interrupted init cannot be resumed; two inits at once may mix
  the manifest of one with the references of the other.

The retired tools:

- *Entitlement.*  Two secrets and a file are written one after the other: crossed
  activations mix key pairs, and a torn metadata file makes every command throw.  The
  version of a status may go back under crossed installs or with a lost keychain write;
  without these it goes forward only.
  The pinned issuer never rotates.
- *Installer.*  Installing a cluster ignores access, takes entries without a digest
  unverified and reports success although members were skipped.  The audit is logged
  before the install, and is best effort (`install.js:138-154`): an install whose line could
  not be written goes on.  An update never moves the active version.  A crossing fetch may
  leave the older edition in the cache.
- *Host consent.*  `statusOf` shows an approved consent as `revoked: true`
  (`host-consent.js:397`); the prompt shows an undefined workspace; an approval after a
  concurrent revocation establishes the consent again, and a failed one restores a consent
  revoked in between.
- *Secrets.*  The backend is picked again on each call, so a changed environment hides a
  secret or shows a stale copy.  The keychain's set deletes before it adds: a timeout of
  the helper loses the old secret.  `encodeName` cannot be undone uniquely.
- *Clusters.*  A matched constraint or critic appears in no list; neither does a superseded
  primary.  A hypothesis of 1 to 9 characters is valid and always rejected.  With
  `max_assets` 0 three are selected.  `cluster conflicts` calls an empty task safe.  The
  trace of a missing result says "completed" with an error.
- *Discovery.*  `select` and `route` ask for no load plan, so they may choose what `match`
  drops.  The documented form `--max-domains=N` of `select` is not parsed.
- *Traces.*  A file that cannot be read is skipped silently (`cmds/trace.js:55-57`), so a list
  may miss whole days.  A record cut before its line feed swallows the next one.  `-n 0` shows all.  A
  second clear at the same time throws and leaves files.
- *Protection.*  Unlock and recover keep the signature that protect deletes, which no longer
  fits.  Unlock opens its file three times, so what it writes may be another asset than
  the one it authorized.  A crash between the packing and the printing of the recovery code
  leaves an asset whose code nobody has seen; packing in place that breaks off loses the
  only copy.
- *Archives.*  Gaps between local entries are accepted.  The rename takes the place of an
  empty directory made meanwhile.  A crash leaves the staging directory.
  A removal that fails (`safe-archive.js:473`, `499`) replaces the error of the extraction, and
  the latter makes a finished one fail with its destination in place.

## 8. Not modelled

- *Argument parser, authored input.*  Sequential functions of one text; `parse()` and
  the limits of `readAuthoredInput` are in the plan.  The JSON grammar of the transport
  is that of `JSON.parse`.
- *Authoring guidance, budget note, entry script.*  The wording of one answer; nine
  lines that set an exit code.
- *Core and Read packages.*  Present only as archives: external, with every answer that
  the code distinguishes.
- *Repository gates.*  Sequential checks of files and GitHub settings in continuous
  integration, without state.
- *Retired hosts, remote transport, runtime entitlement.*  Calls of processes and
  servers whose behaviour is theirs; the state they share is that of the stores.
- *Retired authoring, comparison, search, setup and identity commands.*  One-shot
  transformations of texts and files.
- *Retired gates and `runtime-candidate-binding`.*  As the repository gates.

Of the components marked "partly" the note in `PROJECT.json` names what is left out:
mostly printing, the spelling of names and paths, and configuration that a command
only reads.  Power loss is modelled for the save only; elsewhere a crash is that of a
process, and what it wrote stays.

## 9. Plan

1. `PackageStore` and `WorkspaceAttachments` against one abstract specification of a store
   under a lock, as `ExclusiveOutput` is for the save.
2. `ParseArgs`: `parse()` against a declarative definition of the command lines, and
   `AuthoredInput`: the limits and the order of refusals.
