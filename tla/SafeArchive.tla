------------------------------- MODULE SafeArchive -------------------------------
(***************************************************************************)
(* retired/src/safe-archive.js: a downloaded archive is inspected as a     *)
(* whole before anything of it is written, then extracted into a staging   *)
(* directory that is renamed to its destination, which others may make     *)
(* meanwhile.  A unit stands for any number of bytes; that of a local      *)
(* header comes before the units of an entry's data.                       *)
(***************************************************************************)
EXTENDS Integers, SequencesExt

CONSTANTS
  Central,     \* where the central directory begins
  MaxEntries,  \* entries of an archive
  MaxEntry,    \* MAX_ENTRY_BYTES
  MaxTotal,    \* MAX_TOTAL_UNCOMPRESSED_BYTES
  MaxRatio,    \* MAX_COMPRESSION_RATIO
  MaxHurt      \* bound on crashes and failed calls

ASSUME ArchiveAssumption == {Central, MaxEntries, MaxEntry, MaxTotal, MaxRatio, MaxHurt} \subseteq Nat

VARIABLES
  parcel,    \* the archive that was downloaded
  bench,     \* where the extraction stands
  tempThere, \* whether the directory of the download exists
  staging,   \* the paths written there; {<<>>} for the directory itself
  target,    \* whose the destination is and which paths it holds
  foreign,   \* what somebody else has put there: "none", "empty", "full"
  stuck,     \* which of them could not be removed: "staging", "download"
  hurt

archiveVars == <<parcel, bench, tempThere, staging, target, foreign, stuck, hurt>>

Paths == {<<"mimetype">>, <<"a">>, <<"A">>, <<"a", "b">>}

\* toLocaleLowerCase
Lower(path) == [i \in DOMAIN path |-> IF path[i] = "A" THEN "a" ELSE path[i]]

\* What an entry declares: where its local header is, its data there, compressed or stored, and their size without.
Entries == [path : Paths, start : 0..Central - 1, packed : 0..1, size : 0..MaxEntry + 1, stored : BOOLEAN]

StoredEntries == {e \in Entries : e.stored /\ e.size = e.packed}

\* What may be wrong besides the layout: the headers of an entry, its bytes, or that it is another asset's archive.
Flaws == {"headers", "bytes", "mimetype", "digest", "identity"}

\* An archive of three entries that share nothing, the last two compressed.
Simple(stored, s, t) == << [path |-> <<"mimetype">>, start |-> 0, packed |-> 1, size |-> 1, stored |-> stored],
                           [path |-> <<"a", "b">>, start |-> 2, packed |-> 1, size |-> s, stored |-> FALSE],
                           [path |-> <<"b">>, start |-> 4, packed |-> 1, size |-> t, stored |-> FALSE] >>

Flawless(entries) == [entries |-> entries, flaw |-> "none"]

NoParcel == [entries |-> <<>>, flaw |-> "none"]

Absent == [whose |-> "nobody", paths |-> {}]

ArchiveInit ==
  /\ parcel = NoParcel /\ bench = "download" /\ tempThere = TRUE /\ staging = {} /\ target = Absent /\ foreign = "none"
  /\ stuck = {} /\ hurt = 0

--------------------------------------------------------------------------------
(* preflightKdnaArchive.                                                       *)

\* Behind its local header and the data that are in the file.
End(entry) == entry.start + 1 + entry.packed

\* Mutant of Overlapping: only two entries with one local header overlap.
OverlappingHeaders(entries) == \E i, j \in 1..Len(entries) : i < j /\ entries[i].start = entries[j].start

\* The order of the sort, which is stable.
Earlier(entries, i, j) == entries[i].start < entries[j].start \/ (entries[i].start = entries[j].start /\ i < j)

\* The local entries in that order, each against the one before.
Overlapping(entries) ==
  \E i, j \in 1..Len(entries) :
    /\ Earlier(entries, i, j) /\ \A k \in 1..Len(entries) : ~(Earlier(entries, i, k) /\ Earlier(entries, k, j))
    /\ entries[j].start < End(entries[i])

\* Mutant of PathConflicts: the prefixes are compared as they are written.
PathConflictsCase(entries) ==
  \E i, j \in 1..Len(entries) : \E n \in 1..Len(entries[i].path) - 1 : SubSeq(entries[i].path, 1, n) = entries[j].path

\* A path whose directory is another's file, in the case that file systems may not tell apart.
PathConflicts(entries) ==
  \E i, j \in 1..Len(entries) : \E n \in 1..Len(entries[i].path) - 1 :
    Lower(SubSeq(entries[i].path, 1, n)) = Lower(entries[j].path)

Colliding(entries) == \E i, j \in 1..Len(entries) : i < j /\ Lower(entries[i].path) = Lower(entries[j].path)

\* Mutant of BeginsWithMimetype: the first entry of the central directory is taken.
BeginsWithListed(entries) == entries[1].path = <<"mimetype">> /\ entries[1].stored

\* The physically first entry is the stored mimetype, at offset 0.
BeginsWithMimetype(entries) ==
  \E i \in 1..Len(entries) :
    /\ \A j \in 1..Len(entries) : entries[i].start <= entries[j].start
    /\ entries[i].start = 0 /\ entries[i].path = <<"mimetype">> /\ entries[i].stored

\* Mutant of WithinLimits: what is in the file is counted, not what it inflates to.
WithinLimitsPacked(entries) ==
  /\ \A i \in 1..Len(entries) : entries[i].packed <= MaxEntry
  /\ Cardinality({unit \in (1..Len(entries)) \X (1..MaxEntry) : unit[2] <= entries[unit[1]].packed}) <= MaxTotal

\* The uncompressed units of all entries, those of each counted for it.
UnitsOf(entries) == {unit \in (1..Len(entries)) \X (1..MaxEntry) : unit[2] <= entries[unit[1]].size}

WithinLimits(entries) ==
  /\ \A i \in 1..Len(entries) :
       /\ entries[i].size <= MaxEntry /\ (entries[i].stored => entries[i].size = entries[i].packed)
       /\ entries[i].size <= MaxRatio * entries[i].packed
  /\ Cardinality(UnitsOf(entries)) <= MaxTotal

Preflighted(archive) ==
  /\ archive.flaw \notin {"headers", "bytes", "mimetype"}
  /\ \A i \in 1..Len(archive.entries) : End(archive.entries[i]) <= Central
  /\ ~Colliding(archive.entries) /\ ~Overlapping(archive.entries) /\ ~PathConflicts(archive.entries)
  /\ BeginsWithMimetype(archive.entries) /\ WithinLimits(archive.entries)
  /\ \A i \in 1..Len(archive.entries) : archive.entries[i].path = <<"mimetype">> => archive.entries[i].size # 0

\* verifyRegistryBinding
Bound(archive) == archive.flaw \notin {"digest", "identity"}

--------------------------------------------------------------------------------
(* downloadAndExtractKdna and extractKdnaArchive.                              *)

Hurt == hurt < MaxHurt /\ hurt' = hurt + 1

\* An error goes to the catch if there is a staging directory, and to the finally.
Thrown == IF staging = {} THEN "discard" ELSE "undo"

\* Any layout of stored entries, any two, three of every size, and one with a flaw.
FetchArchive ==
  /\ bench = "download" /\ bench' = "preflight"
  /\ \/ \E n \in 1..MaxEntries : \E e \in [1..n -> StoredEntries] : parcel' = Flawless(e)
     \/ \E n \in 1..MaxEntries - 1 : \E e \in [1..n -> Entries] : parcel' = Flawless(e)
     \/ \E stored \in BOOLEAN, s \in 0..MaxEntry + 1, t \in 0..MaxEntry + 1 : parcel' = Flawless(Simple(stored, s, t))
     \/ \E f \in Flaws : parcel' = [entries |-> Simple(TRUE, 1, 1), flaw |-> f]
  /\ UNCHANGED <<tempThere, staging, target, foreign, stuck, hurt>>

\* One reading of the file serves its inspection, its digest and what is written.
Preflight ==
  /\ bench = "preflight" /\ bench' = IF Preflighted(parcel) /\ Bound(parcel) THEN "look" ELSE Thrown
  /\ UNCHANGED <<parcel, tempThere, staging, target, foreign, stuck, hurt>>

\* The destination must not exist; then the staging directory is made beside it.
MakeStaging ==
  /\ bench = "look"
  /\ IF target = Absent THEN bench' = "write" /\ staging' = {<<>>} ELSE bench' = Thrown /\ UNCHANGED staging
  /\ UNCHANGED <<parcel, tempThere, target, foreign, stuck, hurt>>

PathsOf(archive) == {archive.entries[i].path : i \in 1..Len(archive.entries)}

\* wx, one entry after the other.
WriteEntry ==
  /\ bench = "write"
  /\ \E i \in 1..Len(parcel.entries) :
       /\ \A j \in 1..i - 1 : parcel.entries[j].path \in staging
       /\ parcel.entries[i].path \notin staging /\ staging' = staging \union {parcel.entries[i].path}
  /\ UNCHANGED <<parcel, bench, tempThere, target, foreign, stuck, hurt>>

\* Mutant of Rename: whatever is at the destination is replaced.
RenameOver ==
  /\ bench = "write" /\ PathsOf(parcel) \subseteq staging
  /\ target' = [whose |-> "ours", paths |-> staging \ {<<>>}] /\ staging' = {} /\ bench' = "renamed"
  /\ UNCHANGED <<parcel, tempThere, foreign, stuck, hurt>>

\* The tree is ordinary; rename takes the place of nothing or of an empty directory.
Rename ==
  /\ bench = "write" /\ PathsOf(parcel) \subseteq staging
  /\ IF target.paths = {}
     THEN target' = [whose |-> "ours", paths |-> staging \ {<<>>}] /\ staging' = {} /\ bench' = "renamed"
     ELSE UNCHANGED <<target, staging>> /\ bench' = "undo"
  /\ UNCHANGED <<parcel, tempThere, foreign, stuck, hurt>>

\* Any call fails.
Fail ==
  /\ bench \in {"download", "look", "write"} /\ Hurt /\ bench' = Thrown
  /\ UNCHANGED <<parcel, tempThere, staging, target, foreign, stuck>>

\* Mutant of Undo: the error is thrown on as it is.
UndoNothing ==
  /\ bench = "undo" /\ bench' = "discard" /\ UNCHANGED <<parcel, tempThere, staging, target, foreign, stuck, hurt>>

\* The catch; a removal that fails leaves some of the tree, and its error goes to the finally as well.
Undo ==
  /\ bench = "undo" /\ bench' = "discard"
  /\ \/ staging' = {} /\ UNCHANGED <<stuck, hurt>>
     \/ Hurt /\ staging' \in {left \in SUBSET staging : <<>> \in left} /\ stuck' = stuck \union {"staging"}
  /\ UNCHANGED <<parcel, tempThere, target, foreign>>

\* The finally, after a success or an error; that it fails is an error too.
Discard ==
  /\ bench \in {"renamed", "discard"}
  /\ \/ tempThere' = FALSE /\ bench' = (IF bench = "renamed" THEN "done" ELSE "failed") /\ UNCHANGED <<stuck, hurt>>
     \/ Hurt /\ bench' = "failed" /\ stuck' = stuck \union {"download"} /\ UNCHANGED tempThere
  /\ UNCHANGED <<parcel, staging, target, foreign>>

Crash ==
  /\ bench \notin {"done", "failed", "dead"} /\ Hurt /\ bench' = "dead"
  /\ UNCHANGED <<parcel, tempThere, staging, target, foreign, stuck>>

\* Somebody else makes the destination, or its first file.
OtherMakes ==
  /\ foreign = "none" /\ target = Absent /\ bench \in {"look", "write"}
  /\ \/ foreign' = "empty" /\ target' = [whose |-> "theirs", paths |-> {}]
     \/ foreign' = "full" /\ target' = [whose |-> "theirs", paths |-> {<<"a">>}]
  /\ UNCHANGED <<parcel, bench, tempThere, staging, stuck, hurt>>

ArchiveNext ==
  FetchArchive \/ Preflight \/ MakeStaging \/ WriteEntry \/ Rename \/ Fail \/ Undo \/ Discard \/ Crash \/ OtherMakes

--------------------------------------------------------------------------------

\* What some files come to, uncompressed.
Holding(paths) ==
  {unit \in paths \X (1..MaxEntry) : \E i \in 1..Len(parcel.entries) :
     parcel.entries[i].path = unit[1] /\ unit[2] <= parcel.entries[i].size}

\* An archive is written only if no two of its entries share a byte or a place in a tree, in any order of its central
\* directory, if it begins with its mimetype and is the registry's, and never more than its limits allow, however little
\* of the archive it was.
WrittenIsSafe ==
  staging # {} =>
    LET e == parcel.entries IN
    /\ parcel.flaw = "none"
    /\ \A i, j \in 1..Len(e) : i # j =>
         /\ End(e[i]) <= e[j].start \/ End(e[j]) <= e[i].start
         /\ ~IsPrefix(Lower(e[i].path), Lower(e[j].path))
    /\ \E i \in 1..Len(e) : e[i].start = 0 /\ e[i].path = <<"mimetype">> /\ e[i].stored
    /\ \A i \in 1..Len(e) : End(e[i]) <= Central /\ e[i].size <= MaxEntry
    /\ Cardinality(Holding(staging)) <= MaxTotal

\* The destination is nobody's, somebody else's untouched, or all of the archive. A command that is over has left only
\* that, besides what it could not remove: neither of its directories hides the other, and it has failed with its
\* destination in place only because its download stayed.
ExtractionIsWhole ==
  /\ target.whose = "ours" => target.paths = PathsOf(parcel)
  /\ foreign = "full" => target = [whose |-> "theirs", paths |-> {<<"a">>}]
  /\ bench \in {"done", "failed"} =>
       /\ staging # {} => "staging" \in stuck
       /\ tempThere <=> "download" \in stuck
  /\ bench = "done" => target.whose = "ours" /\ stuck = {}
  /\ bench = "failed" /\ target.whose = "ours" => stuck = {"download"}

ArchivesAreSafe == WrittenIsSafe /\ ExtractionIsWhole
================================================================================
