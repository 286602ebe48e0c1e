------------------------------ MODULE PublishAsset ------------------------------
(***************************************************************************)
(* retired/src/publish.js: the check of a source directory, field by       *)
(* field, and the publication of a packed asset, whose file the command    *)
(* opens again for every fact it states while others may replace it.       *)
(***************************************************************************)
EXTENDS Naturals, FiniteSets, Sequences

CONSTANTS
  MaxFields,   \* bound on the fields of a checked source
  MaxReplaced  \* bound on replacements of the asset file

ASSUME PublishAssumption == MaxFields \in Nat /\ MaxReplaced \in Nat

VARIABLES
  tally,     \* the check: errors, warnings, passes so far, and how it ended
  checked,   \* the fields checked so far, with their texts (history)
  locks,     \* the Human Lock gate of the source: how many issues its cards have
  packed,    \* the asset file
  released,  \* the file under the release tag, and who uploaded it last
  publisher, \* the publication under way: what it has read, what it does next
  replaced

publishVars == <<tally, checked, locks, packed, released, publisher, replaced>>

--------------------------------------------------------------------------------

\* A text: long enough for its field, and what it reads like.
Text == [long : BOOLEAN, like : {"claim", "slogan", "SOP", "vague", "definition", "straw man", "negation", "generic", "open"}]

\* The fields, in the order of the check; before fewer than two stances comes a warning.
Fields == <<"one_sentence", "full_statement", "why", "essence", "boundary", "trigger_signal", "few_stances", "stances", "wrong",
            "key_distinction", "self_check", "manifest">>

\* Mutant of Fails: a stance is taken for granted.
FailsLess(field, text) ==
  CASE field = "one_sentence" -> ~text.long \/ text.like \in {"slogan", "SOP", "vague"}
    [] field \in {"full_statement", "why"} -> ~text.long
    [] field = "essence" -> ~text.long \/ text.like = "definition"
    [] field = "boundary" -> ~text.long \/ text.like = "negation"
    [] field = "wrong" -> ~text.long \/ text.like = "straw man"
    [] field = "self_check" -> ~text.long \/ text.like = "generic"
    [] OTHER -> FALSE

\* An error; a text that is missing is short for any field.
Fails(field, text) ==
  CASE field = "one_sentence" -> ~text.long \/ text.like \in {"slogan", "SOP", "vague"}
    [] field \in {"full_statement", "why"} -> ~text.long
    [] field = "essence" -> ~text.long \/ text.like = "definition"
    [] field = "boundary" -> ~text.long \/ text.like = "negation"
    [] field = "stances" -> ~text.long \/ text.like = "slogan"
    [] field = "wrong" -> ~text.long \/ text.like = "straw man"
    [] field = "self_check" -> ~text.long \/ text.like = "generic"
    [] OTHER -> FALSE

Warns(field, text) ==
  /\ ~Fails(field, text)
  /\ \/ field \in {"full_statement", "essence", "stances"} /\ text.like = "vague"
     \/ field \in {"trigger_signal", "few_stances", "key_distinction", "manifest"} /\ ~text.long
     \/ field = "self_check" /\ text.like = "open"

NoTally(end) == [errors |-> 0, warnings |-> 0, passes |-> 0, end |-> end]

Count(found) == IF found THEN 1 ELSE 0

\* Whether a source has fewer than two stances, and how many of them were checked.
FewStances == \E c \in checked : c.field = "few_stances"

Stances == {c \in checked : c.field = "stances"}

\* All its stances were checked, and a single one was warned of.
StancesDone == Cardinality(Stances) = 1 => FewStances

\* A question that is not answered by yes or no is a warning and a pass.
CheckField ==
  /\ tally.end = "checking" /\ Cardinality(checked) < MaxFields
  /\ \E i \in 1..Len(Fields), text \in Text :
       LET field == Fields[i] IN
       /\ \A c \in checked : c.at <= i
       /\ CASE field = "few_stances" -> ~FewStances /\ text = [long |-> FALSE, like |-> "claim"]
            [] field = "stances" -> FewStances => Stances = {}
            [] OTHER -> StancesDone
       /\ checked' = checked \union {[field |-> field, text |-> text, at |-> i, nth |-> Cardinality(checked)]}
       /\ tally' = [errors |-> tally.errors + Count(Fails(field, text)), warnings |-> tally.warnings + Count(Warns(field, text)),
                    passes |-> tally.passes + Count(~Fails(field, text) /\ (Warns(field, text) => field = "self_check")),
                    end |-> "checking"]
  /\ UNCHANGED <<locks, packed, released, publisher, replaced>>

\* A card with its status, its Human Lock and what the lock confirms.
Card == [status : {"draft", "locked"}, lock : {"none", "unsigned", "signed"}, confirms : SUBSET {"applies", "not applies", "risk"}]

LockIssues(card) ==
  CASE card.status = "draft" \/ card.lock # "signed" -> 1
    [] OTHER -> 3 - Cardinality(card.confirms)

CheckHumanLock ==
  /\ tally.end = "checking" /\ checked = {} /\ locks = 0
  /\ \E card \in Card : locks' = LockIssues(card)
  /\ UNCHANGED <<tally, checked, packed, released, publisher, replaced>>

\* Mutant of EndCheck: the Human Lock gate blocks.
EndCheckByLocks ==
  /\ tally.end = "checking" /\ checked # {} /\ StancesDone
  /\ tally' = [tally EXCEPT !.end = IF tally.errors > 0 \/ locks > 0 THEN "policy violation" ELSE "ready"]
  /\ UNCHANGED <<checked, locks, packed, released, publisher, replaced>>

\* The Human Lock gate is an advisory; a core or patterns file that does not parse ends the check where it is read.
EndCheck ==
  /\ tally.end = "checking" /\ checked # {} /\ StancesDone
  /\ \/ tally' = [tally EXCEPT !.end = IF tally.errors > 0 THEN "policy violation" ELSE "ready"]
     \/ tally' = [tally EXCEPT !.end = "validation failed"]
  /\ UNCHANGED <<checked, locks, packed, released, publisher, replaced>>

--------------------------------------------------------------------------------

\* An asset: its serial number, whether Core finds it valid, the authoring and the content digest its manifest declares.
Asset(serial) ==
  [serial : {serial}, valid : BOOLEAN, authoring : {"none", "complete", "incomplete"}, declares : {"nothing", "own", "other"}]

NoFacts(step, upload) ==
  [manifest |-> 0, declared |-> "nothing", digest |-> 0, content |-> 0, url |-> 0, stated |-> 0, end |-> "none", step |-> step,
   upload |-> upload]

PublishInit ==
  /\ checked = {} /\ locks = 0 /\ released = 0 /\ replaced = 0
  /\ \/ /\ tally = NoTally("none") /\ packed \in Asset(1)
        /\ \E upload \in BOOLEAN : publisher = NoFacts("start", upload)
     \/ /\ tally = NoTally("checking")
        /\ packed = [serial |-> 1, valid |-> TRUE, authoring |-> "none", declares |-> "nothing"] /\ publisher = NoFacts("none", FALSE)

Stopped(why) == publisher' = [publisher EXCEPT !.step = "done", !.end = why]

ValidateAsset ==
  /\ publisher.step = "start"
  /\ IF packed.valid THEN publisher' = [publisher EXCEPT !.step = "manifest"] ELSE Stopped("invalid")
  /\ UNCHANGED <<tally, checked, locks, packed, released, replaced>>

\* Mutant of ReadPackedManifest: what the manifest lacks of its authoring is only listed.
ReadPackedManifestLax ==
  /\ publisher.step = "manifest"
  /\ publisher' = [publisher EXCEPT !.step = "digest", !.manifest = packed.serial, !.declared = packed.declares]
  /\ UNCHANGED <<tally, checked, locks, packed, released, replaced>>

\* Any authoring declared is declared in full.
ReadPackedManifest ==
  /\ publisher.step = "manifest"
  /\ IF packed.authoring = "incomplete" THEN Stopped("no provenance")
     ELSE publisher' = [publisher EXCEPT !.step = "digest", !.manifest = packed.serial, !.declared = packed.declares]
  /\ UNCHANGED <<tally, checked, locks, packed, released, replaced>>

DigestPacked ==
  /\ publisher.step = "digest" /\ publisher' = [publisher EXCEPT !.step = "content", !.digest = packed.serial]
  /\ UNCHANGED <<tally, checked, locks, packed, released, replaced>>

DigestContent ==
  /\ publisher.step = "content" /\ publisher' = [publisher EXCEPT !.step = "upload", !.content = packed.serial]
  /\ UNCHANGED <<tally, checked, locks, packed, released, replaced>>

\* gh may fail before or after the release has the file; without an upload there is no address.
UploadPacked ==
  /\ publisher.step = "upload" /\ publisher.upload
  /\ \E sent \in BOOLEAN, told \in BOOLEAN :
       /\ told => sent
       /\ released' = (IF sent THEN packed.serial ELSE released)
       /\ publisher' = [publisher EXCEPT !.step = "evidence", !.url = IF told THEN packed.serial ELSE 0]
  /\ UNCHANGED <<tally, checked, locks, packed, replaced>>

\* The content digest that evidence states: the manifest's word where it gives one, of whatever content that is.
Stated ==
  CASE publisher.declared = "nothing" -> publisher.content
    [] publisher.declared = "own" -> publisher.manifest
    [] OTHER -> 0

PrintEvidence ==
  /\ publisher.step = "evidence" \/ (publisher.step = "upload" /\ ~publisher.upload)
  /\ publisher' = [publisher EXCEPT !.step = "done", !.end = "published", !.stated = Stated]
  /\ UNCHANGED <<tally, checked, locks, packed, released, replaced>>

ReplaceAsset ==
  /\ replaced < MaxReplaced /\ replaced' = replaced + 1 /\ publisher.step \notin {"none", "done"}
  /\ packed' \in Asset(packed.serial + 1)
  /\ UNCHANGED <<tally, checked, locks, released, publisher>>

PublishNext ==
  \/ CheckField \/ CheckHumanLock \/ EndCheck
  \/ ValidateAsset \/ ReadPackedManifest \/ DigestPacked \/ DigestContent \/ UploadPacked \/ PrintEvidence \/ ReplaceAsset

--------------------------------------------------------------------------------

\* A source is ready exactly when no field of it is missing or of a kind its field forbids, whatever its Human Locks: the
\* comment of checkHumanLock, "publish should be blocked if !passed", is not kept, and cmdPublishCheck calls them optional.
\* Every field is counted, a question that is not answered by yes or no twice.
CheckIsFair ==
  LET open == {c \in checked : c.field = "self_check" /\ c.text.long /\ c.text.like = "open"}
      forbidden == {<<"one_sentence", "slogan">>, <<"one_sentence", "SOP">>, <<"one_sentence", "vague">>, <<"stances", "slogan">>,
                    <<"essence", "definition">>, <<"boundary", "negation">>, <<"wrong", "straw man">>, <<"self_check", "generic">>}
      advisory == {"trigger_signal", "few_stances", "key_distinction", "manifest"}
      bad == {c \in checked : (~c.text.long /\ c.field \notin advisory) \/ <<c.field, c.text.like>> \in forbidden} IN
  /\ tally.end \in {"ready", "policy violation"} => (tally.end = "ready" <=> bad = {})
  /\ tally.errors + tally.warnings + tally.passes = Cardinality(checked) + Cardinality(open)

\* Evidence of a file that nobody replaced meanwhile is of one asset, valid and declared in full, and its address holds
\* that asset, but the content digest is the manifest's word where there is one, which the command compares with nothing;
\* its facts are never of an older file than the ones read before them.
EvidenceIsOfOneAsset ==
  publisher.end = "published" =>
    /\ replaced = 0 => /\ {publisher.manifest, publisher.digest} = {packed.serial}
                       /\ publisher.stated = packed.serial \/ packed.declares = "other"
                       /\ packed.valid /\ packed.authoring # "incomplete" /\ publisher.url \in {0, packed.serial}
    /\ publisher.manifest <= publisher.digest
    /\ publisher.declared = "own" => publisher.stated = publisher.manifest
    /\ publisher.declared = "nothing" => publisher.digest <= publisher.stated
    /\ publisher.url # 0 => released = publisher.url /\ publisher.digest <= released /\ publisher.stated <= released

PublicationsAreTrue == CheckIsFair /\ EvidenceIsOfOneAsset
================================================================================
