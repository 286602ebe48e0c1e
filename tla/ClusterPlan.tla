------------------------------- MODULE ClusterPlan -------------------------------
(***************************************************************************)
(* Clusters of retired/src: cluster-engine.js validates a manifest, plans  *)
(* a task with it and migrates older manifests; cluster-preflight.js looks *)
(* up what a plan selected; cmds/cluster.js runs both and writes.          *)
(*                                                                         *)
(* Domains are numbers, in the order of their ids.  A hypothesis is none,  *)
(* short (under ten characters) or long.                                   *)
(***************************************************************************)
EXTENDS Naturals, SequencesExt

CONSTANTS
  Word,      \* the words of the tasks given
  Foreign    \* a word of no task

ASSUME ClusterAssumption == IsFiniteSet(Word) /\ Foreign \notin Word

VARIABLES
  cluster,   \* the manifest
  task,      \* the words of the task; none when it is shorter than two characters
  phase,     \* where the command stands
  plan,
  checks,    \* what preflight has found of each reference: "good", "absent", "locked", "changed"; "open" before
  trace,     \* the trace of the execution, 0 before
  legacy,    \* the manifest to migrate, 0 for a plan
  files      \* what migrate has written at the path of the manifest and at that of its report

clusterVars == <<cluster, task, phase, plan, checks, trace, legacy, files>>

Domain == 1..3

Entry(role, signals, hypothesis, required) ==
  [role |-> role, signals |-> signals, hypothesis |-> hypothesis, required |-> required]

Signals == {{}, {Foreign}, Word, {CHOOSE w \in Word : TRUE}}

Primaries == {Entry("primary-candidate", s, "none", TRUE) : s \in Signals}

Advisors ==
  {Entry("advisor", {Foreign}, "long", TRUE)} \union {Entry("advisor", Word, h, r) : h \in {"none", "short", "long"}, r \in BOOLEAN}

\* `max` is 0 when the manifest has no max_assets, or 0.
Manifests ==
  [domains : Primaries \X (Primaries \union Advisors) \X (Advisors \union {Entry("critic", Word, "none", TRUE)}),
   relation : {<<"none", 1, 2>>, <<"conflicts_with", 1, 2>>, <<"blocks", 3, 1>>, <<"conflicts_with", 2, 3>>},
   policy : {"surface", "block"}, max : {0, 1, 2}, onBudget : {"block", "continue"},
   onOptional : {"continue_with_warning", "block"}, priority : {<<>>, <<2>>}]

\* A package has a role and may say when to use it; a domain of schema B has a role. `out` is no path, or one that ends in
\* .json, or another.
Legacies ==
  [format : {"packages", "domains"}, out : {"none", "json", "other"}, rules : BOOLEAN,
   entries : UNION {[1..n -> [role : {"primary", "advisor", "risk_guard", "other"}, when : BOOLEAN]] : n \in 1..2}]

NoPlan == [status |-> "none", primary |-> 0, advisors |-> {}, rejected |-> {}, degraded |-> {}, issues |-> {}, consumed |-> 0]

NoChecks == [d \in Domain |-> "open"]

NoOutput == [manifest |-> "none", report |-> "none"]

ClusterInit ==
  /\ plan = NoPlan /\ checks = NoChecks /\ trace = 0 /\ files = NoOutput
  /\ \/ cluster \in Manifests /\ task \in {{}, Word} /\ phase = "plan" /\ legacy = 0
     \/ cluster = 0 /\ task = {} /\ phase = "migrate" /\ legacy \in Legacies

--------------------------------------------------------------------------------
(* The manifest and the pure planner.                                          *)

Role(r, domains) == {d \in DOMAIN domains : domains[d].role = r}

\* validateClusterManifest.
Valid(domains) ==
  /\ Len(domains) >= 2 /\ Role("primary-candidate", domains) # {}
  /\ \A d \in DOMAIN domains : domains[d].role \in {"primary-candidate", "advisor", "constraint", "critic"}
  /\ \A d \in Role("advisor", domains) : domains[d].hypothesis # "none"

Matched(d) == cluster.domains[d].signals \intersect task

\* A domain without condition or signals is met by every task, with no score.
Met(d) == cluster.domains[d].signals = {} \/ Matched(d) # {}

Score(d) == IF task = {} THEN 0 ELSE Cardinality(Matched(d))

\* resolveCandidates, whose candidates have a match quality.
Candidates(role) ==
  {d \in Role(role, cluster.domains) : task # {} /\ Met(d) /\ (role = "advisor" => cluster.domains[d].hypothesis # "none")}

\* Mutant of Before: the order of ids comes before the score.
BeforeById(a, b) == a < b

\* The order of arbitratePrimary: score, place in priority_order, id.
Before(a, b) ==
  LET listed(d) == Contains(cluster.priority, d) IN
  \/ Score(a) > Score(b)
  \/ Score(a) = Score(b) /\ IF listed(a) = listed(b) THEN a < b ELSE listed(a)

Beaten == [d \in Domain |-> {e \in Domain : Before(d, e)}]

Foremost(candidates, beaten) == CHOOSE d \in candidates : candidates \ {d} \subseteq beaten[d]

\* arbitratePrimary: 0 when no primary candidate matches.
Primary ==
  IF Candidates("primary-candidate") = {} THEN 0 ELSE Foremost(Candidates("primary-candidate"), Beaten)

\* Mutant of MaxAdvisors: the primary does not count.
MaxAdvisorsBesides == IF cluster.max = 0 THEN 3 ELSE cluster.max

MaxAdvisors == (IF cluster.max = 0 THEN 3 ELSE cluster.max) - 1

Offered == IF Primary = 0 THEN {} ELSE Candidates("advisor")

\* Those with a real hypothesis.
Earnest == {d \in Offered : cluster.domains[d].hypothesis = "long"}

\* selectAdvisors: the first of them, in the order of their ids, as many as the budget allows.
Selected == {d \in Earnest : Cardinality({e \in Earnest : e < d}) < MaxAdvisors}

Exceeds == Cardinality(Offered) > MaxAdvisors

\* Mutant of Conflicting: only a policy blocks.
ConflictingByPolicy(chosen) ==
  LET r == cluster.relation IN {r[2], r[3]} \subseteq chosen /\ r[1] # "none" /\ cluster.policy = "block"

\* detectConflicts, as far as a plan is blocked by it; the others are only reported.
Conflicting(chosen) ==
  LET r == cluster.relation IN
  {r[2], r[3]} \subseteq chosen /\ (r[1] = "blocks" \/ (r[1] = "conflicts_with" /\ cluster.policy = "block"))

\* generateClusterPlan.
Issues ==
  (IF Primary = 0 THEN {"NO_PRIMARY_AVAILABLE"} ELSE {})
    \union (IF Primary # 0 /\ Conflicting({Primary} \union Selected) THEN {"BLOCKING_CONFLICT"} ELSE {})
    \union (IF Exceeds /\ cluster.onBudget = "block" THEN {"BUDGET_EXCEEDED"} ELSE {})

PlanUse ==
  /\ phase = "plan"
  /\ IF ~Valid(cluster.domains) THEN phase' = "refused" /\ plan' = plan
     ELSE /\ plan' = [status |-> IF Issues = {} THEN "ready" ELSE "blocked",
                      primary |-> Primary, advisors |-> Selected,
                      rejected |-> IF Primary = 0 THEN {} ELSE Domain \ ({Primary} \union Selected \union
                                     Candidates("critic") \union Candidates("primary-candidate")),
                      degraded |-> {}, issues |-> Issues,
                      consumed |-> IF Issues = {} THEN 1 + Cardinality(Selected) ELSE 0]
          /\ phase' \in (IF Issues = {} THEN {"preflight", "planned"} ELSE {"planned"})   \* --no-preflight
  /\ UNCHANGED <<cluster, task, checks, trace, legacy, files>>

--------------------------------------------------------------------------------
(* preflightClusterPlan: one reference after the other, the primary first.     *)

References == {plan.primary} \union Selected

Unchecked == {d \in References : checks[d] = "open"}

Blocked(p, issue) == [p EXCEPT !.status = "blocked", !.issues = @ \union {issue}, !.consumed = 0]

\* Mutant of CanDegrade: every advisor is optional.
CanDegradeAny(d) == cluster.onOptional = "continue_with_warning"

CanDegrade(d) == ~cluster.domains[d].required /\ cluster.onOptional = "continue_with_warning"

\* The advisors of the plan stay as they were until all references are checked.
Dropped(p, d) == [p EXCEPT !.rejected = @ \union {d}, !.degraded = @ \union {d}]

CheckReference ==
  /\ phase = "preflight"
  /\ \E d \in Unchecked, found \in {"good", "absent", "locked", "changed"} :
       /\ d = plan.primary \/ (plan.primary \notin Unchecked /\ \A e \in Unchecked : d <= e)
       /\ checks' = [checks EXCEPT ![d] = found]
       /\ \/ found = "good" /\ UNCHANGED <<plan, phase>>
          \/ /\ found # "good" /\ d # plan.primary /\ CanDegrade(d)
             /\ plan' = Dropped(plan, d) /\ phase' = phase
          \/ /\ found # "good" /\ (d = plan.primary \/ ~CanDegrade(d))
             /\ plan' = Blocked(plan, IF d = plan.primary THEN "PRIMARY" ELSE "ADVISOR") /\ phase' = "planned"
  /\ UNCHANGED <<cluster, task, trace, legacy, files>>

PreflightEnds ==
  /\ phase = "preflight" /\ Unchecked = {} /\ phase' = "planned"
  /\ LET kept == plan.advisors \ plan.degraded IN plan' = [plan EXCEPT !.advisors = kept, !.consumed = 1 + Cardinality(kept)]
  /\ UNCHANGED <<cluster, task, checks, trace, legacy, files>>

\* generateClusterTrace, given what a runner reports: its status, or nothing, and how many assets it has loaded.
TraceOf(status, loaded) ==
  [status |-> IF status = "none" THEN "completed" ELSE status, loaded |-> loaded,
   primary |-> plan.primary, advisors |-> plan.advisors, rejected |-> plan.rejected,
   deviated |-> plan.degraded # {} \/ status = "blocked",
   failed |-> status # "completed" /\ loaded = 0]

Execute ==
  /\ phase = "planned" /\ phase' = "traced"
  /\ \E status \in {"none", "completed", "failed", "blocked"} : \E loaded \in {0, plan.consumed} : trace' = TraceOf(status, loaded)
  /\ UNCHANGED <<cluster, task, plan, checks, legacy, files>>

--------------------------------------------------------------------------------
(* cluster migrate.                                                            *)

MigratedRole(format, role) ==
  CASE role = "primary" -> "primary-candidate"
    [] role = "risk_guard" /\ format = "domains" -> "constraint"
    [] role = "other" /\ format = "domains" -> "other"
    [] OTHER -> "advisor"

\* migrateToCanonical: a hypothesis is made from use_when; schema B has none to keep.
Migrated(old) ==
  [i \in DOMAIN old.entries |->
     LET role == MigratedRole(old.format, old.entries[i].role) IN
     Entry(role, IF old.entries[i].when THEN Word ELSE {},
           IF role = "advisor" /\ old.format = "packages" /\ old.entries[i].when THEN "long" ELSE "none", TRUE)]

\* Mutant of MigrationStatus: manual decisions are looked at before the validation.
MigrationStatusManualFirst(domains, manual) ==
  IF manual THEN "manual_action_required" ELSE IF ~Valid(domains) THEN "validation_failed" ELSE "complete"

MigrationStatus(domains, manual) ==
  IF ~Valid(domains) THEN "validation_failed" ELSE IF manual THEN "manual_action_required" ELSE "complete"

Migrate ==
  /\ phase = "migrate"
  /\ LET domains == Migrated(legacy)
         status == MigrationStatus(domains, legacy.format = "packages" /\ legacy.rules)
     IN /\ cluster' = [domains |-> domains, status |-> status]
        /\ phase' = IF status = "validation_failed" \/ legacy.out = "none" THEN "migrated" ELSE "write"
  /\ UNCHANGED <<task, plan, checks, trace, legacy, files>>

\* Mutant of ReportPath: the report always takes the path of the manifest.
ReportOverManifest == "manifest"

\* The end .json of the path is replaced; a path without it stays the manifest's.
ReportPath == IF legacy.out = "json" THEN "report" ELSE "manifest"

\* Both are written in place: a failure leaves what had been written.
WriteMigration ==
  \/ /\ phase = "write"
     /\ \/ files' = [files EXCEPT !.manifest = "canonical"] /\ phase' = "report"
        \/ files' = [files EXCEPT !.manifest = "torn"] /\ phase' = "crashed"
     /\ UNCHANGED <<cluster, task, plan, checks, trace, legacy>>
  \/ /\ phase = "report"
     /\ \/ files' = [files EXCEPT ![ReportPath] = "report"] /\ phase' = "migrated"
        \/ files' = [files EXCEPT ![ReportPath] = "torn"] /\ phase' = "crashed"
     /\ UNCHANGED <<cluster, task, plan, checks, trace, legacy>>

ClusterNext == PlanUse \/ CheckReference \/ PreflightEnds \/ Execute \/ Migrate \/ WriteMigration

ClusterSpec == ClusterInit /\ [][ClusterNext]_clusterVars

--------------------------------------------------------------------------------

\* The header of cluster-engine.js: a plan that is ready has one primary, a matching candidate that no other beats, and
\* advisors with a hypothesis, within the budget, none at odds with another in a way that blocks.
ReadyIsAllowed ==
  plan.status = "ready" =>
    LET chosen == {plan.primary} \union plan.advisors IN
    /\ plan.primary \in Candidates("primary-candidate") /\ plan.primary \notin plan.advisors
    /\ \A d \in Candidates("primary-candidate") : Score(d) <= Score(plan.primary)
    /\ \A d \in plan.advisors : d \in Candidates("advisor") /\ cluster.domains[d].hypothesis = "long"
    /\ cluster.max # 0 => Cardinality(chosen) <= cluster.max
    /\ ~({cluster.relation[2], cluster.relation[3]} \subseteq chosen /\ cluster.relation[1] = "blocks")

\* "Required failure -> fail closed; optional failure -> continue with a degradation record": after preflight, whoever is
\* left was found good, and whoever is missing was optional and is on record.
PreflightFailsClosed ==
  plan.status = "ready" /\ checks # NoChecks /\ phase # "preflight" =>
    /\ \A d \in References : checks[d] = "good" \/ (checks[d] # "open" /\ d \in plan.degraded /\ ~cluster.domains[d].required)
    /\ plan.advisors = Selected \ plan.degraded

\* Status, issues and assets consumed never contradict each other, and the trace of a plan that is
\* ready does not name as advisor who was dropped.
PlanIsOfOnePiece ==
  /\ plan.status = "blocked" <=> plan.issues # {}
  /\ plan.status = "ready" /\ phase # "preflight" => plan.consumed = 1 + Cardinality(plan.advisors)
  /\ plan.status = "blocked" => plan.consumed = 0
  /\ phase = "traced" /\ plan.status = "ready" => trace.advisors \intersect trace.rejected = {} /\ (plan.degraded # {} => trace.deviated)

\* "Migration never leaves an invalid canonical file behind": what is there of a manifest would be planned with, keeps the
\* legacy primaries, and is not called complete while a rule waits for a decision. A migration that is over has left both
\* files or none, if the path it was given ends in .json; elsewhere its report takes the place of the manifest.
MigrationIsHonest ==
  /\ files.manifest = "canonical" =>
       /\ Valid(cluster.domains)
       /\ Role("primary-candidate", cluster.domains) = {i \in DOMAIN legacy.entries : legacy.entries[i].role = "primary"}
       /\ cluster.status = "complete" => ~(legacy.format = "packages" /\ legacy.rules)
  /\ phase = "migrated" /\ files # NoOutput =>
       files = IF legacy.out = "json" THEN [manifest |-> "canonical", report |-> "report"]
               ELSE [manifest |-> "report", report |-> "none"]

ClusterInv == ReadyIsAllowed /\ PreflightFailsClosed /\ PlanIsOfOnePiece /\ MigrationIsHonest
================================================================================
