------------------------------ MODULE SystemChecks ------------------------------
(***************************************************************************)
(* The findings that src/public-cli.js derives from an admitted asset: the *)
(* system warnings of `validate --system`, beside the cycles of            *)
(* SupportCycles, and affected_by_change of `source-pack`.  Both are pure: *)
(* a step computes them for any asset the initial state may hold.  A       *)
(* behaviour either searches one support graph or makes one such step.     *)
(*                                                                         *)
(* A relation has a source (supporter, qualifier, one side of a conflict,  *)
(* supplement) and a target; a target with an unusable reference is Void.  *)
(* A judgment's text is a number.                                          *)
(***************************************************************************)
EXTENDS SupportCycles

CONSTANTS
  Judgment,     \* judgment ids
  Relation,     \* relation ids
  Revised,      \* those a revision may add, remove or rewrite
  Void          \* an unusable target, no relation, no judgment

VARIABLES
  original, edited,  \* two payloads: judgments and relationships
  lifecycle,         \* lifecycle[j]: declared status, "null", or "missing" when no such node
  order,             \* a value order: its entries, repetitions and the judgments it is scoped to
  stage, findings    \* "search" for cycles, or what has been computed, and it

checkVars == <<original, edited, lifecycle, order, stage, findings>>

Kinds == {"support", "qualify", "conflict", "complement"}

RelationRecords == [kind : Kinds, source : Judgment, target : Judgment \union {Void}]

Payloads(texts, relations, ids) ==
  [judgments : [Judgment -> texts \union {Void}],
   relations : {f \in [Relation -> relations \union {Void}] : \A i \in Relation \ ids : f[i] = Void}]

Empty == [judgments |-> [j \in Judgment |-> Void], relations |-> [i \in Relation |-> Void]]

\* An order of `n` entries with `repeated` of them said twice, scoped to `scope` judgments.
Orders == {o \in [n : 0..3, repeated : 0..1, scope : 0..3] : 2 * o.repeated <= o.n}

Unordered == [n |-> 0, repeated |-> 0, scope |-> 0]

--------------------------------------------------------------------------------

\* Mutant of Normalized: complement is kept as a support.
NormalizedWide(payload) ==
  {[id |-> i, kind |-> IF payload.relations[i].kind = "complement" THEN "support"
                       ELSE payload.relations[i].kind,
    source |-> payload.relations[i].source, target |-> payload.relations[i].target] :
     i \in {k \in Relation : payload.relations[k] # Void}}

\* normalizedRelations: the rows of the four known families.
Normalized(payload) ==
  {[id |-> i, kind |-> payload.relations[i].kind, source |-> payload.relations[i].source,
    target |-> payload.relations[i].target] : i \in {k \in Relation : payload.relations[k] # Void}}

Edge(r, from, to) == [id |-> r.id, kind |-> r.kind, from |-> from, to |-> to]

\* Mutant of DependencyEdges: a conflict is read in one direction.
DependencyEdgesOneWay(relations) ==
  {Edge(r, r.source, r.target) : r \in {q \in relations : q.kind # "complement" /\ q.target # Void}}

\* dependencyEdges: a conflict binds both its sides; complement neither sustains nor constrains.
DependencyEdges(relations) ==
  LET whole == {r \in relations : r.kind # "complement" /\ r.target # Void} IN
  {Edge(r, r.source, r.target) : r \in whole}
    \union {Edge(r, r.target, r.source) : r \in {q \in whole : q.kind = "conflict"}}

ConflictPairs(relations) ==
  LET pairs(kind) == {{r.source, r.target} : r \in {q \in relations : q.kind = kind /\ q.target # Void}}
  IN pairs("support") \intersect pairs("conflict")

\* An upstream judgment is withdrawn and what rests on it is active, or says nothing of itself.
WithdrawnUpstream(relations) ==
  {<<e.from, e.to>> : e \in {d \in DependencyEdges({r \in relations : r.kind \in {"support", "qualify"}}) :
     lifecycle[d.from] = "withdrawn" /\ lifecycle[d.to] \in {"null", "active"}}}

\* Mutant of OrderWarnings: repeated entries are not looked for.
OrderWarningsLax == IF order.n < order.scope THEN {"missing"} ELSE {}

\* valueOrderWarnings
OrderWarnings ==
  {"duplicate" : x \in 1..order.repeated}
    \union (IF order.n < order.scope THEN {"missing"} ELSE {})

\* systemWarnings, without the cycles.
Warnings(relations) ==
  [pairs |-> ConflictPairs(relations), withdrawn |-> WithdrawnUpstream(relations), order |-> OrderWarnings]

\* New, rewritten and removed judgments.
Changed(before, after) == {j \in Judgment : before.judgments[j] # after.judgments[j]}

\* Mutant of Considered: only the relations of the produced asset are looked at.
ConsideredProduced(before, after) == DependencyEdges(Normalized(after))

\* [...producedEdges, ...the original's edges]
Considered(before, after) == DependencyEdges(Normalized(after)) \union DependencyEdges(Normalized(before))

\* affectedByChange: each unchanged judgment that a changed one reaches, with the edges it does so by.
Downstream(before, after) ==
  LET changed == Changed(before, after)
      via == {e \in Considered(before, after) : e.from \in changed /\ e.to \notin changed}
      state(e) == IF e \in DependencyEdges(Normalized(after)) THEN "in_produced_asset"
                  ELSE "changed_by_this_revision"
  IN {[judgment |-> j, via |-> {<<e, state(e)>> : e \in {d \in via : d.to = j}}] : j \in {e.to : e \in via}}

--------------------------------------------------------------------------------

Search ==
  /\ SearchInit
  /\ stage = "search" /\ original = Empty /\ edited = Empty
  /\ lifecycle = [j \in Judgment |-> "null"] /\ order = Unordered

Given ==
  /\ stage = "given"
  /\ edges = {} /\ twice = {} /\ roots = {} /\ colour = [n \in Node |-> 2]
  /\ stack = <<>> /\ todo = <<>> /\ warnings = <<>>
  /\ \/ /\ original \in Payloads({1}, RelationRecords, Relation) /\ edited = Empty
        /\ \A j \in Judgment : original.judgments[j] = 1
        /\ lifecycle \in [Judgment -> {"active", "withdrawn", "null", "missing"}]
        /\ order = Unordered
     \/ /\ original = Empty /\ edited = Empty
        /\ lifecycle = [j \in Judgment |-> "null"]
        /\ order \in Orders
     \/ /\ original \in Payloads({1}, RelationRecords, Revised)
        /\ edited \in Payloads({1, 2}, RelationRecords, Revised) \ {Empty}
        /\ lifecycle = [j \in Judgment |-> "null"]
        /\ order = Unordered

SystemInit == findings = {} /\ (Search \/ Given)

SearchStep == stage = "search" /\ SearchNext /\ UNCHANGED checkVars

Check ==
  /\ stage = "given" /\ edited = Empty
  /\ stage' = "checked" /\ findings' = Warnings(Normalized(original))
  /\ UNCHANGED <<original, edited, lifecycle, order, cycleVars>>

ReportChange ==
  /\ stage = "given" /\ edited # Empty
  /\ stage' = "reported" /\ findings' = Downstream(original, edited)
  /\ UNCHANGED <<original, edited, lifecycle, order, cycleVars>>

Computed == stage \in {"checked", "reported"} /\ UNCHANGED <<cycleVars, checkVars>>

SystemNext == SearchStep \/ Check \/ ReportChange \/ Computed

SystemSpec == SystemInit /\ [][SystemNext]_<<cycleVars, checkVars>>

--------------------------------------------------------------------------------
(* Properties.                                                                 *)

\* "complement neither sustains nor constrains its base": without the complement relations an
\* asset has the same warnings.
ComplementIsNeutral ==
  stage = "checked" =>
    findings = Warnings(Normalized([original EXCEPT !.relations =
      [i \in Relation |-> IF @[i] # Void /\ @[i].kind = "complement" THEN Void ELSE @[i]]]))

\* An order without a warning ranks at least as many different things as it is scoped to.
CleanOrderIsLongEnough ==
  stage = "checked" => (findings.order = {} => order.n - order.repeated >= order.scope)

\* Undoing a revision touches the same judgments as making it: what a removed relation or judgment
\* bore on is reported as well as what an added one bears on.
UndoAffectsTheSame ==
  stage = "reported" => {d.judgment : d \in findings} = {d.judgment : d \in Downstream(edited, original)}

\* A judgment that did not change is passed over only if everything it is supported by, qualified
\* by or in conflict with, before or after, did not change either.
NobodyAffectedIsMissed ==
  stage = "reported" =>
    \A j \in Judgment \ (Changed(original, edited) \union {d.judgment : d \in findings}) :
      \A p \in {original, edited} : \A i \in Relation :
        LET r == p.relations[i] IN
        r # Void /\ r.target # Void /\ r.kind # "complement" =>
          /\ r.target = j => r.source \notin Changed(original, edited)
          /\ r.kind = "conflict" /\ r.source = j => r.target \notin Changed(original, edited)

\* The warnings about what is recorded: complement plays no part, a clean order ranks enough.
WarningsFollowTheKinds == ComplementIsNeutral /\ CleanOrderIsLongEnough

\* The change report passes nobody over, whether something is added or removed.
ReportIsWhole == UndoAffectsTheSame /\ NobodyAffectedIsMissed

\* What is said about an asset's system: the cycles that are, warnings that follow the kinds of its
\* relations, and a report of a revision that passes over nobody the revision touches.
SystemIsReported == WarningsAreTheCycles /\ WarningsFollowTheKinds /\ ReportIsWhole
================================================================================
