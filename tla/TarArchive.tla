------------------------------- MODULE TarArchive -------------------------------
(***************************************************************************)
(* The two tar readers of core-release-authority.js: parseTarFiles, for    *)
(* the release artifact, and readTrustedNpmEntries, for the npm release,   *)
(* which takes no path metadata and an exact number of entries.  An        *)
(* archive is read block after block; an entry is its header with its      *)
(* data.  A path is a number, ordered as localeCompare orders paths.       *)
(***************************************************************************)
EXTENDS Naturals, Sequences, FiniteSets, SequencesExt

CONSTANTS
  Path,        \* paths decodeTarPath accepts
  Unfit, NoPath, None, \* a path it refuses; the empty path; no path, no metadata
  MaxFiles,    \* TAR_LIMITS.files
  MaxTotal,    \* TAR_LIMITS.totalBytes, and TRUSTED_NPM_UNPACKED_LIMIT
  EntryCount,  \* TRUSTED_NPM_ENTRY_COUNT
  MaxBlocks    \* bound on the blocks of an archive

VARIABLES
  dialect,    \* "release" or "npm"
  blocks,     \* the blocks read so far
  zeroBlocks,
  pax, longPath, \* path metadata, None or what it says
  files,      \* [path, size] of the entries taken
  verdict     \* "reading", "accepted", "refused"

tarVars == <<dialect, blocks, zeroBlocks, pax, longPath, files, verdict>>

Zero == [type |-> "zero"]

\* An entry; `fit` is an entry whose checksum, size, mode, header text and data are all right.
Files == [type : {"file"}, name : Path \union {Unfit, NoPath}, size : 0..1, fit : BOOLEAN]

\* Path metadata: a PAX record may give a path and a size, which may be that of the next entry or
\* not; "unknown" stands for a record with a key or a form the parser refuses.
PaxRecords ==
  [type : {"pax"}, path : Path \union {NoPath, None}, size : {"none", "same", "other"}, fit : {TRUE}]
    \union [type : {"pax"}, path : {None}, size : {"none"}, fit : {FALSE}]

LongNames == [type : {"long"}, path : Path \union {NoPath}, fit : {TRUE}]

Others == [type : {"link"}, fit : {TRUE}]

TarInit ==
  /\ dialect \in {"release", "npm"} /\ blocks = <<>> /\ zeroBlocks = 0
  /\ pax = None /\ longPath = None /\ files = <<>> /\ verdict = "reading"

--------------------------------------------------------------------------------

Reading == verdict = "reading" /\ zeroBlocks < 2 /\ Len(blocks) < MaxBlocks

Takes(block) == blocks' = Append(blocks, block)

Refuse == verdict' = "refused" /\ UNCHANGED <<dialect, zeroBlocks, pax, longPath, files>>

ZeroBlock ==
  /\ Reading /\ Takes(Zero)
  /\ zeroBlocks' = zeroBlocks + 1
  /\ UNCHANGED <<dialect, pax, longPath, files, verdict>>

\* Mutant of NoMetadata: metadata may follow metadata of the other form.
NoMetadataOfForm == pax = None

\* Object.keys(pax).length === 0 && longPath === null: an empty PAX block counts for nothing.
NoMetadata ==
  /\ pax = None \/ (pax.path = None /\ pax.size = "none")
  /\ longPath = None

PaxEntry ==
  /\ Reading
  /\ \E block \in PaxRecords :
       /\ Takes(block)
       /\ IF zeroBlocks = 0 /\ dialect = "release" /\ block.fit /\ NoMetadata
          THEN pax' = block /\ UNCHANGED <<dialect, zeroBlocks, longPath, files, verdict>>
          ELSE Refuse

LongEntry ==
  /\ Reading
  /\ \E block \in LongNames :
       /\ Takes(block)
       /\ IF zeroBlocks = 0 /\ dialect = "release" /\ NoMetadata
          THEN longPath' = block.path /\ UNCHANGED <<dialect, zeroBlocks, pax, files, verdict>>
          ELSE Refuse

OtherEntry == Reading /\ \E block \in Others : Takes(block) /\ Refuse

\* Mutant of FullPath: the header's own path is preferred.
FullPathOfHeader(block) == IF block.name # NoPath THEN block.name ELSE NoPath

\* pax.path || longPath || headerPath
FullPath(block) ==
  IF pax # None /\ pax.path \notin {None, NoPath} THEN pax.path
  ELSE IF longPath \notin {None, NoPath} THEN longPath
  ELSE block.name

Total(entries) == FoldSeq(LAMBDA e, sum : sum + e.size, 0, entries)

\* An entry the npm reader pushes: its path is new and the total within the limit.
NpmTaken(block) ==
  /\ zeroBlocks = 0 /\ block.fit /\ FullPath(block) \in Path
  /\ \A i \in DOMAIN files : files[i].path # FullPath(block)
  /\ Total(files) + block.size <= MaxTotal

\* The release reader also compares the size with the one of the metadata and counts the files.
Taken(block) ==
  /\ NpmTaken(block)
  /\ dialect = "release" => (pax # None => pax.size # "other") /\ Len(files) < MaxFiles

ClearMetadata == pax' = None /\ longPath' = None

FileEntry ==
  /\ Reading
  /\ \E block \in Files :
       /\ Takes(block)
       /\ IF Taken(block)
          THEN /\ files' = Append(files, [path |-> FullPath(block), size |-> block.size])
               /\ ClearMetadata
               /\ UNCHANGED <<dialect, zeroBlocks, verdict>>
          ELSE Refuse

\* Mutant of Complete: what follows a single zero block is not waited for.
CompleteEarly == zeroBlocks > 0 /\ NoMetadata

Complete ==
  /\ zeroBlocks = 2 /\ NoMetadata
  /\ dialect = "npm" => Len(files) = EntryCount

\* The loop is over: two zero blocks, or no whole block left.  What remains of the archive is
\* zero or not; parseTarFiles sorts the files by path.
EndOfArchive ==
  /\ verdict = "reading"
  /\ \E restIsZero \in BOOLEAN :
       verdict' = IF Complete /\ restIsZero THEN "accepted" ELSE "refused"
  /\ files' = IF dialect = "npm" THEN files ELSE SortSeq(files, LAMBDA a, b : a.path < b.path)
  /\ UNCHANGED <<dialect, blocks, zeroBlocks, pax, longPath>>

Parsed == verdict # "reading" /\ UNCHANGED tarVars

TarNext == ZeroBlock \/ PaxEntry \/ LongEntry \/ OtherEntry \/ FileEntry \/ EndOfArchive \/ Parsed

TarSpec == TarInit /\ [][TarNext]_tarVars

--------------------------------------------------------------------------------
(* Properties.                                                                 *)

\* What an archive of blocks says, without a reader: an entry is named by the metadata just before
\* it, or by its own header.
Indexes(type) == {i \in DOMAIN blocks : blocks[i].type = type}
NameOf(i) ==
  IF i > 1 /\ blocks[i - 1].type \in {"pax", "long"} /\ blocks[i - 1].path \in Path
  THEN blocks[i - 1].path ELSE blocks[i].name
Entries == {[path |-> NameOf(i), size |-> blocks[i].size] : i \in Indexes("file")}

\* A reader that accepts an archive has taken every entry of it once, under the name the archive
\* gives it, sorted if it is a release, and nothing else: no entry lends its metadata to a later one.
FilesAreTheEntries ==
  verdict = "accepted" =>
    /\ ToSet(files) = Entries /\ Len(files) = Cardinality(Indexes("file"))
    /\ dialect = "release" => \A i \in 1..(Len(files) - 1) : files[i].path < files[i + 1].path

\* And the archive was one to be accepted: terminated once, by two zero blocks, every path metadata
\* used by the entry after it, within the limits.
AcceptedIsWellFormed ==
  verdict = "accepted" =>
    /\ Indexes("zero") = {Len(blocks) - 1, Len(blocks)} /\ Indexes("link") = {}
    /\ \A i \in Indexes("pax") \union Indexes("long") :
         \/ dialect = "release" /\ blocks[i + 1].type = "file"
         \/ blocks[i].type = "pax" /\ blocks[i].path = None /\ blocks[i].size = "none"
    /\ Total(files) <= MaxTotal
    /\ Len(files) \in (IF dialect = "npm" THEN {EntryCount} ELSE 0..MaxFiles)

ArchiveIsExact == FilesAreTheEntries /\ AcceptedIsWellFormed
================================================================================
