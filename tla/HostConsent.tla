------------------------------- MODULE HostConsent -------------------------------
(***************************************************************************)
(* The Host processing consent of retired/src/cmds/host-consent.js: one    *)
(* file that a command replaces after the user allowed what a draft says,  *)
(* and that another removes. The file is moved aside before the new one    *)
(* takes its place.                                                        *)
(***************************************************************************)
EXTENDS Naturals, FiniteSets

CONSTANTS
  Asker,      \* slots in which commands run
  MaxAsks,    \* bound on the commands started
  MaxSlips    \* bound on failed file operations and killed processes

ASSUME ConsentAssumption == MaxAsks \in Nat /\ MaxSlips \in Nat

VARIABLES
  asker,      \* asker[a]: the command, its step, its draft and the consent it has moved aside
  consent,    \* the document at the consent path
  aside,      \* the backups left: the command that moved it and the document
  drafts,     \* temporary files
  workspace,  \* the attachment that the workspace enables, 0 when there is not exactly one
  allowed,    \* the drafts a user has allowed (history)
  reported,   \* the consent in force by the last report (history)
  unsaid,     \* the consent that a failed command has left in force (history)
  asks, slips,
  wounds      \* "overlap" of two commands that write, a command "killed", a recovery that "failed" (history)

consentVars == <<asker, consent, aside, drafts, workspace, allowed, reported, unsaid, asks, slips, wounds>>

Unset == [by |-> 0, on |-> 0]

Silent == [verb |-> "none", step |-> "none", draft |-> Unset, was |-> Unset]

ConsentInit ==
  /\ asker = [a \in Asker |-> Silent] /\ aside = {} /\ drafts = {} /\ workspace \in 0..2 /\ asks = 0 /\ slips = 0 /\ wounds = {}
  /\ consent \in {Unset, [by |-> MaxAsks + 1, on |-> 1]} /\ reported = consent
  /\ allowed = {consent} /\ unsaid = Unset

Speaks(a, step) == asker[a].step = step

GoesTo(a, step) == asker' = [asker EXCEPT ![a].step = step]

Stops(a) == asker' = [asker EXCEPT ![a] = Silent]

Busy == {a \in Asker : asker[a].verb \in {"approve", "revoke"}}

StartConsent(a) ==
  /\ asker[a] = Silent /\ asks < MaxAsks /\ asks' = asks + 1
  /\ \E first \in {[verb |-> "approve", step |-> "draft"], [verb |-> "revoke", step |-> "exists"], [verb |-> "status", step |-> "show"]} :
       /\ asker' = [asker EXCEPT ![a] = [verb |-> first.verb, step |-> first.step, draft |-> [by |-> asks + 1, on |-> 0], was |-> Unset]]
       /\ wounds' = wounds \union (IF first.verb # "status" /\ Busy # {} THEN {"overlap"} ELSE {})
  /\ UNCHANGED <<consent, aside, drafts, workspace, allowed, reported, unsaid, slips>>

\* workspaceDraft: exactly one enabled attachment; a draft given as a file or on stdin may name another.
Drafted == {w \in {1, 2} : workspace = w}

\* normalizeDraft and the prompt; without a terminal the command fails.
Draft(a) ==
  /\ Speaks(a, "draft")
  /\ \/ Stops(a)
     \/ \E on \in Drafted \union {1} : asker' = [asker EXCEPT ![a].step = "ask", ![a].draft.on = on]
  /\ UNCHANGED <<consent, aside, drafts, workspace, allowed, reported, unsaid, asks, slips, wounds>>

\* Mutant of Allows: any answer but no is a yes.
AllowsUnlessNo(answer) == answer # "no"

Allows(answer) == answer = "yes"

Confirm(a) ==
  /\ Speaks(a, "ask")
  /\ \E answer \in {"yes", "no", "end"} :
       /\ IF Allows(answer) THEN asker' = [asker EXCEPT ![a].step = "temporary"] ELSE Stops(a)
       /\ allowed' = IF answer = "yes" THEN allowed \union {asker[a].draft} ELSE allowed
  /\ UNCHANGED <<consent, aside, drafts, workspace, reported, unsaid, asks, slips, wounds>>

Slip == slips < MaxSlips /\ slips' = slips + 1

SlipsBack(a) == GoesTo(a, "back") /\ Slip

WriteTemporary(a) ==
  /\ Speaks(a, "temporary")
  /\ \/ drafts' = drafts \union {asker[a].draft} /\ GoesTo(a, "look") /\ slips' = slips
     \/ drafts' = drafts /\ Stops(a) /\ Slip   \* the parent is not private
     \/ drafts' \in {drafts, drafts \union {asker[a].draft}} /\ SlipsBack(a)
  /\ UNCHANGED <<consent, aside, workspace, allowed, reported, unsaid, asks, wounds>>

LookForOld(a) ==
  /\ Speaks(a, "look") /\ GoesTo(a, IF consent = Unset THEN "place" ELSE "aside")
  /\ UNCHANGED <<consent, aside, drafts, workspace, allowed, reported, unsaid, asks, slips, wounds>>

MoveAside(a) ==
  /\ Speaks(a, "aside") /\ drafts' = drafts
  /\ \/ /\ consent # Unset /\ consent' = Unset /\ aside' = aside \union {consent} /\ slips' = slips
        /\ asker' = [asker EXCEPT ![a].step = "place", ![a].was = consent]
     \/ consent = Unset /\ GoesTo(a, "back") /\ UNCHANGED <<consent, aside, slips>>
     \/ consent # Unset /\ SlipsBack(a) /\ UNCHANGED <<consent, aside>>
  /\ UNCHANGED <<workspace, allowed, reported, unsaid, asks, wounds>>

PutInPlace(a) ==
  /\ Speaks(a, "place")
  /\ \/ consent' = asker[a].draft /\ drafts' = drafts \ {asker[a].draft} /\ GoesTo(a, "sync") /\ slips' = slips
     \/ SlipsBack(a) /\ UNCHANGED <<consent, drafts>>
  /\ UNCHANGED <<aside, workspace, allowed, reported, unsaid, asks, wounds>>

\* The new consent is in force before it is known to be on disk.
SyncConsent(a) ==
  /\ Speaks(a, "sync")
  /\ \/ GoesTo(a, IF asker[a].was = Unset THEN "read" ELSE "drop") /\ slips' = slips
     \/ SlipsBack(a)
  /\ UNCHANGED <<consent, aside, drafts, workspace, allowed, reported, unsaid, asks, wounds>>

DropBackup(a) ==
  /\ Speaks(a, "drop")
  /\ \/ aside' = aside \ {asker[a].was} /\ GoesTo(a, "read") /\ slips' = slips
     \/ SlipsBack(a) /\ aside' = aside
  /\ UNCHANGED <<consent, drafts, workspace, allowed, reported, unsaid, asks, wounds>>

\* Mutant of OldComesBack: a failure to put the new file in place leaves the old one aside.
OldStaysAside(a) == drafts' = drafts \ {asker[a].draft} /\ UNCHANGED <<consent, aside>>

\* The temporary file is dropped; what was moved aside comes back, over the new consent if that is in place. Where there
\* was none to move, a new consent that is in place stays.
OldComesBack(a) ==
  /\ drafts' = drafts \ {asker[a].draft}
  /\ IF asker[a].was # Unset THEN consent' = asker[a].was /\ aside' = aside \ {asker[a].was} ELSE UNCHANGED <<consent, aside>>

\* "recovery is best-effort": one that fails is not told either.
PutBack(a) ==
  /\ Speaks(a, "back") /\ Stops(a)
  /\ \/ OldComesBack(a) /\ UNCHANGED <<slips, wounds>>
     \/ /\ drafts' \in {drafts, drafts \ {asker[a].draft}} /\ UNCHANGED <<consent, aside>>
        /\ Slip /\ wounds' = wounds \union {"failed"}
  /\ unsaid' = IF consent' = asker[a].draft THEN asker[a].draft ELSE unsaid
  /\ UNCHANGED <<workspace, allowed, reported, asks>>

\* The report reads the digest of what is there now; when it cannot, the command fails and what is there is in force.
ReportConsent(a) ==
  /\ Speaks(a, "read") /\ Stops(a)
  /\ \/ consent # Unset /\ reported' = consent /\ unsaid' = Unset /\ slips' = slips
     \/ consent # Unset /\ reported' = reported /\ unsaid' = consent /\ Slip
     \/ consent = Unset /\ UNCHANGED <<reported, unsaid, slips>>
  /\ UNCHANGED <<consent, aside, drafts, workspace, allowed, asks, wounds>>

RevokeConsent(a) ==
  /\ \/ /\ Speaks(a, "exists")
        /\ IF consent = Unset THEN Stops(a) /\ reported' = Unset ELSE GoesTo(a, "unlink") /\ reported' = reported
        /\ UNCHANGED <<consent, unsaid, slips>>
     \/ /\ Speaks(a, "unlink") /\ Stops(a) /\ consent # Unset
        /\ consent' = Unset /\ reported' = Unset /\ unsaid' = Unset /\ slips' = slips
     \/ /\ Speaks(a, "unlink") /\ Stops(a) /\ UNCHANGED <<consent, reported, unsaid>>
        /\ IF consent = Unset THEN slips' = slips ELSE Slip
  /\ UNCHANGED <<aside, drafts, workspace, allowed, asks, wounds>>

\* statusOf compares a field that no document has with null.
StatusOf(document) == [present |-> document # Unset, revoked |-> document # Unset]

ShowStatus(a) ==
  /\ Speaks(a, "show") /\ Stops(a)
  /\ UNCHANGED <<consent, aside, drafts, workspace, allowed, reported, unsaid, asks, slips, wounds>>

DieAsking(a) ==
  /\ asker[a] # Silent /\ Slip /\ Stops(a) /\ wounds' = wounds \union {"killed"}
  /\ UNCHANGED <<consent, aside, drafts, workspace, allowed, reported, unsaid, asks>>

WorkspaceMoves ==
  /\ \E w \in 0..2 \ {workspace} : workspace' = w
  /\ UNCHANGED <<asker, consent, aside, drafts, allowed, reported, unsaid, asks, slips, wounds>>

ConsentStep(a) ==
  \/ StartConsent(a) \/ Draft(a) \/ Confirm(a) \/ WriteTemporary(a) \/ LookForOld(a) \/ MoveAside(a) \/ PutInPlace(a) \/ SyncConsent(a)
  \/ DropBackup(a) \/ PutBack(a) \/ ReportConsent(a) \/ RevokeConsent(a) \/ ShowStatus(a) \/ DieAsking(a)

ConsentNext == (\E a \in Asker : ConsentStep(a)) \/ WorkspaceMoves

ConsentSpec == ConsentInit /\ [][ConsentNext]_consentVars

--------------------------------------------------------------------------------

\* confirmInteractive and atomicWritePrivate: a consent in force was allowed by the user; between commands, none of
\* which overlapped, was killed or failed to recover, nothing is left beside it, and it is the one last reported unless a
\* command has failed after the new one was in place: when the sync of the first consent fails, or reading it for the
\* report, the user hears of an error and the consent is in force. Killed commands and failed recoveries have at worst put
\* it aside, and after the first of them it is the one last reported that is there.
ConsentIsTheUsers ==
  /\ consent \in allowed \union {Unset}
  /\ Busy = {} /\ wounds = {} => consent = (IF unsaid = Unset THEN reported ELSE unsaid) /\ aside \union drafts = {}
  /\ Busy = {} /\ "overlap" \notin wounds /\ consent = Unset /\ reported # Unset =>
       aside # {} /\ (slips <= 1 => reported \in aside)

\* README.md of retired/: the consent is written atomically, so that whoever looks finds the old one or the new one.
WritesAtomically ==
  [][\A a \in Asker : Speaks(a, "aside") /\ asker'[a] # asker[a] => consent' # Unset \/ consent = Unset]_consentVars
================================================================================
