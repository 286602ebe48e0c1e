----------------------------- MODULE WorkspaceResolve -----------------------------
(***************************************************************************)
(* resolveWorkspace of retired/src/workspace-attachments.js: whether a     *)
(* task loads an attachment, asks for one, skips or is blocked, and the    *)
(* second call by which a user answers an "ask".  The record, snapshots    *)
(* and grants may change between any two steps.  How the terms of an       *)
(* attachment match the task's text is its scope here.                     *)
(***************************************************************************)
EXTENDS Naturals, FiniteSets

CONSTANTS
  Attached,     \* attachment ids
  Nobody,       \* no selection, no receipt
  MaxChanges    \* bound on the changes of record, snapshots and grants

ASSUME ResolveAssumption == IsFiniteSet(Attached) /\ MaxChanges \in Nat

VARIABLES
  scope,      \* scope[a]: whether its terms match the task
  sameRole,   \* all attachments have one role
  states,     \* the record: enabled, disabled or removed
  sound,      \* sound[a]: its snapshot has its digest
  grant,      \* grant[a]: can load now, with a password asked for later, or not
  selection,  \* the options of the second call
  snap,       \* the record as this call has read it
  base,       \* what the scopes decide
  unchecked,  \* candidates to verify
  candidates, \* those verified, with their grants
  verified,   \* those that were sound and granted when they were verified (history)
  step, outcome, changes

resolveVars == <<scope, sameRole, states, sound, grant, selection, snap, base, unchecked, candidates, verified, step, outcome, changes>>

\* Open or closed world matters where no term matches.
Matches == {m \in [pos : BOOLEAN, neg : BOOLEAN, unsure : BOOLEAN, open : BOOLEAN] : (m.unsure => m.pos \/ m.neg) /\ (m.open => ~m.pos /\ ~m.neg)}

NoOutcome == [decision |-> "none", selected |-> Nobody, plan |-> Nobody]

NoBase == [decision |-> "none", check |-> {}, others |-> {}]

ResolveInit ==
  /\ scope \in [Attached -> Matches] /\ sameRole \in BOOLEAN
  /\ states \in [Attached -> {"enabled", "disabled"}]
  /\ sound = [a \in Attached |-> TRUE] /\ grant \in [Attached -> {"now", "later"}]
  /\ selection = Nobody /\ snap = states /\ base = NoBase /\ unchecked = {} /\ candidates = {}
  /\ verified = {} /\ step = "read" /\ outcome = NoOutcome /\ changes = 0

--------------------------------------------------------------------------------

\* The attachments whose scope has a property.
Enabled(seen) == {a \in Attached : seen[a] = "enabled"}
Unsure(seen) == {a \in Enabled(seen) : scope[a].unsure}
Ambiguous(seen) == {a \in Enabled(seen) : scope[a].pos /\ scope[a].neg /\ ~scope[a].unsure}
Positive(seen) == {a \in Enabled(seen) : scope[a].pos /\ ~scope[a].neg}
Negative(seen) == {a \in Enabled(seen) : scope[a].neg /\ ~scope[a].pos}
Unmatched(seen) == {a \in Enabled(seen) : ~scope[a].pos /\ ~scope[a].neg}

\* Mutant of OpenWorld: what the task does not match is outside.
OpenWorldNever(seen) == {}

OpenWorld(seen) == {a \in Unmatched(seen) : scope[a].open}

Contradictory(seen) == IF sameRole /\ Positive(seen) # {} THEN Negative(seen) ELSE {}

\* The decision and the candidates it verifies; the candidates of a skip are not verified.
Decide(seen) ==
  LET Result(decision, check, others) == [decision |-> decision, check |-> check, others |-> others]
      maybe == {a \in Enabled(seen) : scope[a].pos \/ scope[a].unsure} \union OpenWorld(seen)
  IN CASE Unsure(seen) # {} -> Result("ask", maybe, {})
       [] Unsure(seen) = {} /\ Ambiguous(seen) # {} -> Result("ask", Ambiguous(seen) \union Positive(seen) \union OpenWorld(seen), {})
       [] Unsure(seen) \union Ambiguous(seen) = {} /\ (Cardinality(Positive(seen)) > 1 \/ Contradictory(seen) # {}) ->
            Result("ask", Positive(seen) \union Contradictory(seen) \union OpenWorld(seen), {})
       [] OTHER ->
            IF OpenWorld(seen) # {} THEN Result("ask", Positive(seen) \union OpenWorld(seen), {})
            ELSE IF Positive(seen) # {} THEN Result("load", Positive(seen), {})
            ELSE Result("skip", {}, Negative(seen) \union Unmatched(seen))

World == <<scope, sameRole, states, sound, grant, changes>>

ReadAndDecide ==
  /\ step = "read" /\ snap' = states /\ base' = Decide(states)
  /\ unchecked' = Decide(states).check /\ candidates' = {<<a, "unchecked">> : a \in Decide(states).others}
  /\ verified' = {} /\ step' = "verify" /\ UNCHANGED <<World, selection, outcome>>

Ends(decision, selected, plan) ==
  step' = "done" /\ outcome' = [decision |-> decision, selected |-> selected, plan |-> plan]

Blocks == Ends("block", Nobody, Nobody)

\* verifyScopedCandidates, in an order; a load needs authorization as well.
VerifyCandidate ==
  /\ step = "verify"
  /\ unchecked # {}
  /\ LET a == CHOOSE x \in unchecked : TRUE IN
       IF ~sound[a] \/ (base.decision = "load" /\ grant[a] = "no")
       THEN Blocks /\ UNCHANGED <<unchecked, candidates, verified>>
       ELSE /\ unchecked' = unchecked \ {a}
            /\ candidates' = candidates \union {<<a, IF grant[a] = "now" THEN "satisfied" ELSE "required">>}
            /\ verified' = IF grant[a] = "no" THEN verified ELSE verified \union {a}
            /\ UNCHANGED <<step, outcome>>
  /\ UNCHANGED <<World, selection, snap, base>>

\* selectionPlanFor
PlanNow == [record |-> snap, candidates |-> candidates]

Named(a) == \E c \in candidates : c[1] = a

\* Mutant of ReceiptFits: a receipt of an earlier record is as good.
ReceiptFitsAny == TRUE

\* A receipt must be that of this record and these candidates, and is one only of an ask.
ReceiptFits == selection.receipt # Nobody => base.decision = "ask" /\ selection.receipt = PlanNow

\* What a selection may take: a candidate of an ask by its receipt or by its identifier in the task,
\* that of a load, or one that a skip passed over and the task names.
MaySelect ==
  /\ selection.sameTask /\ Named(selection.id)
  /\ base.decision = "skip" => selection.inTask
  /\ base.decision = "ask" => selection.receipt # Nobody \/ selection.inTask
  /\ ReceiptFits
  /\ snap[selection.id] = "enabled"

Finish ==
  /\ step = "verify" /\ unchecked = {}
  /\ IF selection = Nobody
     THEN Ends(base.decision, IF base.decision = "load" THEN CHOOSE a \in base.check : TRUE ELSE Nobody,
               IF base.decision = "ask" THEN PlanNow ELSE Nobody)
     ELSE IF MaySelect THEN step' = "asset" /\ UNCHANGED outcome
     ELSE Blocks
  /\ UNCHANGED <<World, selection, snap, base, unchecked, candidates, verified>>

VerifySelected ==
  /\ step = "asset"
  /\ IF sound[selection.id] /\ grant[selection.id] # "no"
     THEN step' = "again" /\ verified' = verified \union {selection.id} /\ UNCHANGED outcome
     ELSE Blocks /\ UNCHANGED verified
  /\ UNCHANGED <<World, selection, snap, base, unchecked, candidates>>

\* Mutant of ReadAgain: the record is not read again.
ReadAgainNever ==
  /\ step = "again" /\ Ends("load", selection.id, Nobody)
  /\ UNCHANGED <<World, selection, snap, base, unchecked, candidates, verified>>

\* The selected attachment is loaded if the record is still the one it was chosen from.
ReadAgain ==
  /\ step = "again" /\ IF states = snap THEN Ends("load", selection.id, Nobody) ELSE Blocks
  /\ UNCHANGED <<World, selection, snap, base, unchecked, candidates, verified>>

\* The user answers with an attachment, perhaps for another task, with the receipt of an ask or not.
Select ==
  /\ step = "done" /\ selection = Nobody
  /\ \E a \in Attached, sameTask, inTask \in BOOLEAN, receipt \in {Nobody, outcome.plan} :
       /\ sameTask \/ (~inTask /\ receipt = outcome.plan)
       /\ selection' = [id |-> a, sameTask |-> sameTask, inTask |-> inTask, receipt |-> receipt]
  /\ step' = "read" /\ outcome' = NoOutcome
  /\ snap' = states /\ base' = NoBase /\ unchecked' = {} /\ candidates' = {} /\ verified' = {}
  /\ UNCHANGED World

\* Another command, another program or a grant that expires.
Change ==
  /\ changes < MaxChanges /\ changes' = changes + 1 /\ (step = "done" => selection = Nobody)
  /\ \E a \in Attached :
       \/ \E s \in {"enabled", "disabled", "removed"} \ {states[a]} : states' = [states EXCEPT ![a] = s] /\ UNCHANGED <<sound, grant>>
       \/ sound' = [sound EXCEPT ![a] = ~@] /\ UNCHANGED <<states, grant>>
       \/ \E g \in {"now", "no"} \ {grant[a]} : grant' = [grant EXCEPT ![a] = g] /\ UNCHANGED <<states, sound>>
  /\ UNCHANGED <<scope, sameRole, selection, snap, base, unchecked, candidates, verified, step, outcome>>

Resolved == step = "done" /\ UNCHANGED resolveVars

ResolveNext ==
  ReadAndDecide \/ VerifyCandidate \/ Finish \/ VerifySelected \/ ReadAgain \/ Select \/ Change \/ Resolved

ResolveSpec == ResolveInit /\ [][ResolveNext]_resolveVars

--------------------------------------------------------------------------------
(* Properties.                                                                 *)

Applies(a) == scope[a].pos /\ ~scope[a].neg

MayApply(a) == snap[a] = "enabled" /\ (Applies(a) \/ (scope[a].open /\ ~scope[a].pos /\ ~scope[a].neg))

\* Without the user an attachment loads only if it alone may apply, and clearly does; nothing is loaded
\* that was not sound and authorized when it was verified.
LoadIsClear ==
  step = "done" /\ outcome.decision = "load" =>
    /\ snap[outcome.selected] = "enabled" /\ outcome.selected \in verified
    /\ selection = Nobody =>
         Applies(outcome.selected) /\ \A a \in Enabled(snap) \ {outcome.selected} : ~MayApply(a) /\ ~scope[a].unsure

\* Whatever may apply is put to the user: an ask names it, a skip passes over none of it.
NothingIsPassedOver ==
  step = "done" /\ selection = Nobody =>
    /\ outcome.decision = "ask" => \A a \in Attached : MayApply(a) => Named(a)
    /\ outcome.decision = "skip" => \A a \in Attached : ~MayApply(a)

ResolutionIsClear == LoadIsClear /\ NothingIsPassedOver

\* A choice between candidates is loaded for its own task only, from the record and among the candidates
\* that the user was shown unless the task names it, and only if the record has not changed when it ends.
ChoiceIsBound ==
  step = "again" /\ outcome'.decision = "load" =>
    /\ states = snap /\ selection.sameTask
    /\ selection.inTask \/ base.decision = "load"
         \/ selection.receipt = [record |-> states, candidates |-> candidates]
================================================================================
