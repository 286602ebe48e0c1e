--------------------------- MODULE AssetToolsProofs ----------------------------
(***************************************************************************)
(* Proofs about the tools of retired/ that read and write assets, for any  *)
(* words of a task and any manifest, any number of domains, readers, days  *)
(* and records, any passwords, archives and bounds: the plans of clusters, *)
(* the discovery of domains, the traces, the protection of assets and the  *)
(* extraction of archives, one after another. Every part has an inductive  *)
(* invariant of its own; ToolsProofs puts them together with the tools that*)
(* belong to a device.                                                     *)
(*                                                                         *)
(* What may be concluded from the members of a finite set that lie before  *)
(* one, and the places that SetToSortSeq gives them, come first.           *)
(***************************************************************************)
EXTENDS ClusterPlan, Discovery, TraceLog, ProtectAsset, SafeArchive, WellFoundedInduction, FiniteSetTheorems,
        SequenceTheorems, TLAPS

--------------------------------------------------------------------------------
(* Numbers and places, which several parts need. *)

\* A set of numbers that is not empty has a least member.
LEMMA LeastOf == ASSUME NEW T \in SUBSET Nat, T # {} PROVE \E n \in T : \A m \in T : n <= m
<1> DEFINE R == OpToRel(<, Nat)
<1>1. IsWellFoundedOn(R, Nat)
  BY NatLessThanWellFounded
<1>2. \A n, m \in Nat : m < n => <<m, n>> \in R
  BY DEF OpToRel
<1> HIDE DEF R
<1>3. PICK n \in T : \A m \in T : ~(<<m, n>> \in R)
  BY <1>1, WFMin
<1>4. ASSUME NEW m \in T PROVE n <= m
  <2>1. n \in Nat /\ m \in Nat /\ ~(m < n)
    BY <1>2, <1>3
  <2>2. QED
    BY <2>1
<1>5. QED
  BY <1>4

\* before[a] are those of S that a strict order puts before a, place[a] is their number.
Ordered(S, before, place) ==
  /\ \A a \in S : before[a] \in SUBSET S /\ a \notin before[a] /\ place[a] = Cardinality(before[a])
  /\ \A a, b \in S : a # b => a \in before[b] \/ b \in before[a]
  /\ \A a, b, c \in S : a \in before[b] /\ b \in before[c] => a \in before[c]

\* Each has a place of its own, in that order, and there is no other place.
Placed(S, before, place) ==
  /\ Cardinality(S) \in Nat
  /\ \A a \in S : place[a] \in Nat /\ place[a] < Cardinality(S)
  /\ \A a, b \in S : a \in before[b] => place[a] < place[b]
  /\ \A i \in Nat : i < Cardinality(S) => \E a \in S : place[a] = i

\* In a finite set with a strict order every member has a place of its own, and every place a member.
LEMMA Places ==
  ASSUME NEW S, IsFiniteSet(S), NEW before, NEW place, Ordered(S, before, place)
  PROVE  Placed(S, before, place)
<1>1. /\ \A a \in S : before[a] \in SUBSET S /\ a \notin before[a] /\ place[a] = Cardinality(before[a])
      /\ \A a, b \in S : a # b => a \in before[b] \/ b \in before[a]
      /\ \A a, b, c \in S : a \in before[b] /\ b \in before[c] => a \in before[c]
  BY DEF Ordered
<1>2. PICK n : n = Cardinality(S)
  OBVIOUS
<1>3. n \in Nat
  BY <1>2, FS_CardinalityType
<1>4. ASSUME NEW a \in S PROVE IsFiniteSet(before[a]) /\ place[a] \in Nat /\ place[a] < n
  <2>1. before[a] \in SUBSET S /\ a \notin before[a]
    BY <1>1
  <2>2. IsFiniteSet(before[a]) /\ Cardinality(before[a]) <= n /\ Cardinality(before[a]) # n
    BY <2>1, <1>2, FS_Subset
  <2>3. Cardinality(before[a]) \in Nat
    BY <2>2, FS_CardinalityType
  <2>4. QED
    BY <1>1, <2>2, <2>3, <1>3
<1>5. ASSUME NEW a \in S, NEW b \in S, a \in before[b] PROVE place[a] < place[b]
  <2>1. before[a] \in SUBSET before[b] /\ a \in before[b] /\ a \notin before[a]
    BY <1>1, <1>5
  <2>2. Cardinality(before[a]) <= Cardinality(before[b]) /\ Cardinality(before[a]) # Cardinality(before[b])
    BY <2>1, <1>4, FS_Subset
  <2>3. place[a] \in Nat /\ place[b] \in Nat /\ place[a] = Cardinality(before[a]) /\ place[b] = Cardinality(before[b])
    BY <1>1, <1>4
  <2>4. QED
    BY <2>2, <2>3
<1>6. PICK range : range = 0..n - 1
  OBVIOUS
<1>7. IsFiniteSet(range) /\ Cardinality(range) = n
  <2>1. 0 \in Int /\ n - 1 \in Int
    BY <1>3
  <2>2. IsFiniteSet(0..n - 1) /\ Cardinality(0..n - 1) = IF 0 > n - 1 THEN 0 ELSE n - 1 - 0 + 1
    BY <2>1, FS_Interval
  <2>3. (IF 0 > n - 1 THEN 0 ELSE n - 1 - 0 + 1) = n
    BY <1>3
  <2>4. QED
    BY <2>2, <2>3, <1>6
<1>8. PICK at : at = [a \in S |-> place[a]]
  OBVIOUS
<1>9. at \in [S -> range]
  <2>1. \A a \in S : place[a] \in range
    BY <1>3, <1>4, <1>6
  <2>2. QED
    BY <2>1, <1>8
<1>10. \A a, b \in S : at[a] = at[b] => a = b
  <2>1. ASSUME NEW a \in S, NEW b \in S, a # b PROVE at[a] # at[b]
    <3>1. place[a] < place[b] \/ place[b] < place[a]
      BY <1>1, <2>1, <1>5
    <3>2. place[a] \in Nat /\ place[b] \in Nat
      BY <1>4
    <3>3. QED
      BY <3>1, <3>2, <1>8
  <2>2. QED
    BY <2>1
<1>11. at \in Injection(S, range)
  BY <1>9, <1>10 DEF Injection, IsInjective
<1>12. at \in Surjection(S, range)
  BY <1>2, <1>7, <1>11, FS_Injection
<1>13. \A i \in range : \E a \in S : at[a] = i
  BY <1>12 DEF Surjection
<1>14. \A i \in Nat : i < n => \E a \in S : place[a] = i
  BY <1>3, <1>8, <1>6, <1>13
<1>15. QED
  BY <1>2, <1>3, <1>4, <1>5, <1>14 DEF Placed

\* place[a] is the number of those below a.
Numbered(S, place) == place = [a \in S |-> Cardinality({x \in S : x < a})]

\* The least comes first.
PlacedInTurn(S, place) ==
  /\ Cardinality(S) \in Nat
  /\ \A a \in S : place[a] \in Nat /\ place[a] < Cardinality(S)
  /\ \A a, b \in S : a < b => place[a] < place[b]
  /\ \A i \in Nat : i < Cardinality(S) => \E a \in S : place[a] = i

\* So it is with numbers and their order.
LEMMA NumberPlaces ==
  ASSUME NEW S \in SUBSET Nat, IsFiniteSet(S), NEW place, Numbered(S, place)
  PROVE  PlacedInTurn(S, place)
<1>1. place = [a \in S |-> Cardinality({x \in S : x < a})]
  BY DEF Numbered
<1>2. PICK before : before = [a \in S |-> {x \in S : x < a}]
  OBVIOUS
<1>3. \A a \in S : before[a] \in SUBSET S /\ a \notin before[a] /\ place[a] = Cardinality(before[a])
  <2>1. ASSUME NEW a \in S PROVE before[a] \in SUBSET S /\ a \notin before[a] /\ place[a] = Cardinality(before[a])
    <3>1. a \in Nat /\ before[a] = {x \in S : x < a} /\ place[a] = Cardinality({x \in S : x < a})
      BY <1>1, <1>2
    <3>2. ~(a < a)
      BY <3>1
    <3>3. QED
      BY <3>1, <3>2
  <2>2. QED
    BY <2>1
<1>4. \A a, b \in S : a \in before[b] <=> a < b
  BY <1>2
<1>5. S \subseteq Nat
  OBVIOUS
<1>6. \A a, b \in S : a # b => a \in before[b] \/ b \in before[a]
  BY <1>4, <1>5
<1>7. \A a, b, c \in S : a \in before[b] /\ b \in before[c] => a \in before[c]
  BY <1>4, <1>5
<1>8. Ordered(S, before, place)
  BY <1>3, <1>6, <1>7, Zenon DEF Ordered
<1>9. Placed(S, before, place)
  BY <1>8, Places, Zenon
<1>10. QED
  BY <1>4, <1>9 DEF Placed, PlacedInTurn

--------------------------------------------------------------------------------
(* ClusterPlan: a plan that is ready is one the manifest allows, whatever preflight finds, and a migration is honest. *)

Found == {"open", "good", "absent", "locked", "changed"}

\* What may block a plan, at first and at preflight.
PlanIssues == {"NO_PRIMARY_AVAILABLE", "BLOCKING_CONFLICT", "BUDGET_EXCEEDED", "PRIMARY", "ADVISOR"}

\* What a plan is.
Plans ==
  [status : {"none", "ready", "blocked"}, primary : 0..3, advisors : SUBSET Domain, rejected : SUBSET Domain,
   degraded : SUBSET Domain, issues : SUBSET PlanIssues,
   consumed : 0..4]

\* A manifest with three domains, and a task.
ManifestTyped ==
  /\ DOMAIN cluster.domains = Domain /\ cluster.max \in {0, 1, 2} /\ task \in {{}, Word}

\* A plan that is ready is the one the manifest gives, and preflight drops only advisors that need not be there.
PlanReady ==
  /\ plan.primary = Primary /\ Primary \in Domain /\ Issues = {} /\ plan.issues = {}
  /\ plan.degraded \subseteq Selected /\ plan.rejected \intersect Selected \subseteq plan.degraded
  /\ \A d \in plan.degraded : checks[d] # "open" /\ ~cluster.domains[d].required
  /\ \A d \in References : checks[d] \in {"open", "good"} \/ d \in plan.degraded

\* Once preflight is over, or left out, every reference is accounted for.
PlanSettled ==
  /\ plan.advisors = Selected \ plan.degraded /\ plan.consumed = 1 + Cardinality(plan.advisors)
  /\ checks # NoChecks => \A d \in References : checks[d] # "open"

\* Where a plan stands.
PlanStands ==
  /\ ManifestTyped /\ plan \in Plans /\ checks \in [Domain -> Found] /\ plan.status \in {"ready", "blocked"}
  /\ plan.status = "blocked" => plan.issues # {} /\ plan.consumed = 0
  /\ plan.status = "ready" => PlanReady
  /\ phase = "preflight" => plan.status = "ready" /\ plan.advisors = Selected
  /\ plan.status = "ready" /\ phase # "preflight" => PlanSettled
  /\ phase = "traced" => trace.advisors = plan.advisors /\ trace.rejected = plan.rejected /\ (plan.degraded # {} => trace.deviated)

\* What a migration leaves that writes.
Migration(out) ==
  IF out = "json" THEN [manifest |-> "canonical", report |-> "report"] ELSE [manifest |-> "report", report |-> "none"]

\* Where a migration stands.
MigrationStands ==
  /\ legacy \in Legacies /\ plan = NoPlan
  /\ phase \in {"migrate", "write"} => files = NoOutput
  /\ phase = "report" => files = [manifest |-> "canonical", report |-> "none"]
  /\ phase = "migrated" => files = NoOutput \/ files = Migration(legacy.out)
  /\ phase # "migrate" =>
       cluster = [domains |-> Migrated(legacy),
                  status |-> MigrationStatus(Migrated(legacy), legacy.format = "packages" /\ legacy.rules)]
  /\ phase \in {"write", "report"} \/ files.manifest = "canonical" => cluster.status # "validation_failed"

\* Everything known of the command.
ClusterKnows ==
  \/ phase \in {"plan", "refused"} /\ ManifestTyped /\ plan = NoPlan /\ checks = NoChecks /\ files = NoOutput
  \/ phase \in {"preflight", "planned", "traced"} /\ PlanStands /\ files = NoOutput
  \/ phase \in {"migrate", "write", "report", "crashed", "migrated"} /\ MigrationStands

\* Of numbers, those with fewer than k below them are k at most.
LEMMA FirstFew ==
  ASSUME NEW S \in SUBSET Nat, IsFiniteSet(S), NEW k \in Nat, NEW T, T = {a \in S : Cardinality({x \in S : x < a}) < k}
  PROVE  IsFiniteSet(T) /\ Cardinality(T) \in Nat /\ Cardinality(T) <= k
<1>1. PICK place : place = [a \in S |-> Cardinality({x \in S : x < a})]
  OBVIOUS
<1>2. PlacedInTurn(S, place)
  <2>1. Numbered(S, place)
    BY <1>1 DEF Numbered
  <2>2. QED
    BY <2>1, NumberPlaces, Zenon
<1>3. /\ \A a \in S : place[a] \in Nat
      /\ \A a, b \in S : a < b => place[a] < place[b]
  BY <1>2 DEF PlacedInTurn
<1>4. \A a, b \in S : place[a] = place[b] => a = b
  <2>1. \A a \in S : a \in Nat
    OBVIOUS
  <2>2. QED
    BY <1>3, <2>1
<1>5. T = {a \in S : place[a] < k}
  BY <1>1
<1>6. PICK range : range = 0..k - 1
  OBVIOUS
<1>7. IsFiniteSet(range) /\ Cardinality(range) = k
  <2>1. 0 \in Int /\ k - 1 \in Int
    OBVIOUS
  <2>2. IsFiniteSet(0..k - 1) /\ Cardinality(0..k - 1) = IF 0 > k - 1 THEN 0 ELSE k - 1 - 0 + 1
    BY <2>1, FS_Interval
  <2>3. (IF 0 > k - 1 THEN 0 ELSE k - 1 - 0 + 1) = k
    OBVIOUS
  <2>4. QED
    BY <1>6, <2>2, <2>3
<1>8. PICK at : at = [a \in T |-> place[a]]
  OBVIOUS
<1>9. at \in [T -> range]
  <2>1. \A a \in T : place[a] \in range
    BY <1>3, <1>5, <1>6
  <2>2. QED
    BY <1>8, <2>1
<1>10. at \in Injection(T, range)
  BY <1>4, <1>5, <1>8, <1>9 DEF Injection, IsInjective
<1>11. IsFiniteSet(T) /\ Cardinality(T) <= Cardinality(range)
  BY <1>7, <1>10, FS_Injection
<1>12. QED
  BY <1>7, <1>11, FS_CardinalityType

\* A task scores a number.
LEMMA ScoreIs ==
  ASSUME ManifestTyped, NEW d \in Domain
  PROVE  Score(d) \in Nat
<1>1. IsFiniteSet(task)
  BY ClusterAssumption, FS_EmptySet DEF ManifestTyped
<1>2. Matched(d) \in SUBSET task
  BY DEF Matched
<1>3. IsFiniteSet(Matched(d)) /\ Cardinality(Matched(d)) \in Nat
  BY <1>1, <1>2, FS_Subset, FS_CardinalityType
<1>4. QED
  BY <1>3 DEF Score

\* The domains are finitely many numbers.
LEMMA DomainIs == \A S \in SUBSET Domain : S \in SUBSET Nat /\ IsFiniteSet(S)
<1>1. \A n \in Nat : IsFiniteSet(1..n)
  BY FS_Interval
<1>2. IsFiniteSet(Domain)
  BY <1>1 DEF Domain
<1>3. Domain \subseteq Nat
  BY DEF Domain
<1>4. QED
  BY <1>2, <1>3, FS_Subset

\* The primary is a matching candidate that no other beats.
LEMMA PrimaryIs ==
  ASSUME ManifestTyped
  PROVE  \/ Primary = 0
         \/ /\ Primary \in Candidates("primary-candidate") /\ Primary \in Domain /\ Primary # 0
            /\ \A d \in Candidates("primary-candidate") : Score(d) <= Score(Primary)
<1>1. PICK S : S = Candidates("primary-candidate")
  OBVIOUS
<1>2. S \in SUBSET Domain
  BY <1>1 DEF Candidates, Role, ManifestTyped
<1>3. PICK score : score = [d \in Domain |-> Score(d)]
  OBVIOUS
<1>4. \A d \in Domain : score[d] \in Nat /\ score[d] = Score(d)
  BY <1>3, ScoreIs
<1>5. PICK first \in [Domain -> BOOLEAN] : first = [d \in Domain |-> Contains(cluster.priority, d)]
  <2>1. \A d \in Domain : Contains(cluster.priority, d) \in BOOLEAN
    BY DEF Contains
  <2>2. QED
    BY <2>1
<1>6. ASSUME NEW a \in Domain, NEW b \in Domain
      PROVE  Before(a, b) <=> score[a] > score[b] \/ (score[a] = score[b] /\ IF first[a] = first[b] THEN a < b ELSE first[a])
  BY <1>4, <1>5 DEF Before
<1>7. PICK before : before = [b \in S |-> {a \in S : Before(a, b)}]
  OBVIOUS
<1>8. /\ \A a, b \in S : a \in before[b] <=>
           score[a] > score[b] \/ (score[a] = score[b] /\ IF first[a] = first[b] THEN a < b ELSE first[a])
      /\ \A b \in S : before[b] \in SUBSET S
  BY <1>2, <1>6, <1>7
<1>9. \A d \in S : d \in Nat /\ score[d] \in Nat /\ first[d] \in BOOLEAN
  BY <1>2, <1>4, <1>5 DEF Domain
<1>10. PICK place : place = [a \in S |-> Cardinality(before[a])]
  OBVIOUS
<1>11. Ordered(S, before, place)
  <2>1. \A a \in S : before[a] \in SUBSET S /\ a \notin before[a] /\ place[a] = Cardinality(before[a])
    BY <1>8, <1>9, <1>10
  <2>2. \A a, b \in S : a # b => a \in before[b] \/ b \in before[a]
    BY <1>8, <1>9
  <2>3. \A a, b, c \in S : a \in before[b] /\ b \in before[c] => a \in before[c]
    BY <1>8, <1>9
  <2>4. QED
    BY <2>1, <2>2, <2>3, Zenon DEF Ordered
<1>12. Placed(S, before, place)
  <2>1. IsFiniteSet(S)
    BY <1>2, DomainIs
  <2>2. QED
    BY <1>11, <2>1, Places, Zenon
<1>13. CASE S = {}
  BY <1>1, <1>13 DEF Primary
<1>14. CASE S # {}
  <2>1. IsFiniteSet(S) /\ Cardinality(S) \in Nat
    BY <1>2, DomainIs, FS_CardinalityType
  <2>2. 0 < Cardinality(S)
    BY <1>14, <2>1, FS_EmptySet
  <2>3. PICK d \in S : place[d] = 0
    BY <1>12, <2>2 DEF Placed
  <2>4. \A e \in S \ {d} : d \in before[e]
    <3>1. ASSUME NEW e \in S, e # d, d \notin before[e] PROVE FALSE
      <4>1. e \in before[d]
        BY <1>11, <3>1 DEF Ordered
      <4>2. place[e] < place[d] /\ place[e] \in Nat
        BY <1>12, <4>1 DEF Placed
      <4>3. QED
        BY <2>3, <4>2
    <3>2. QED
      BY <3>1
  <2>5. S \ {d} \subseteq Beaten[d]
    BY <1>2, <1>7, <2>4 DEF Beaten
  <2>6. Primary = CHOOSE x \in S : S \ {x} \subseteq Beaten[x]
    BY <1>1, <1>14 DEF Primary, Foremost
  <2>7. Primary \in S /\ \A e \in S \ {Primary} : Before(Primary, e)
    <3>1. Primary \in S /\ S \ {Primary} \subseteq Beaten[Primary]
      BY <2>5, <2>6
    <3>2. QED
      BY <1>2, <3>1 DEF Beaten
  <2>8. PICK p \in S : p = Primary
    BY <2>7
  <2>9. ASSUME NEW e \in S PROVE score[e] <= score[p]
    <3>1. CASE e = p
      BY <1>9, <3>1
    <3>2. CASE e # p
      <4>1. Before(p, e)
        BY <2>7, <2>8, <3>2
      <4>2. score[p] > score[e] \/ score[p] = score[e]
        BY <1>2, <1>6, <4>1
      <4>3. QED
        BY <1>9, <4>2
    <3>3. QED
      BY <3>1, <3>2
  <2>10. p \in Domain /\ p # 0
    BY <1>2 DEF Domain
  <2>11. QED
    BY <1>1, <1>2, <1>4, <2>8, <2>9, <2>10
<1>15. QED
  BY <1>13, <1>14

\* Advisors are selected among the candidates with a real hypothesis, within the budget, and the primary is none of them.
LEMMA SelectedIs ==
  ASSUME ManifestTyped
  PROVE  /\ Selected \in SUBSET Domain /\ IsFiniteSet(Selected) /\ Cardinality(Selected) \in Nat /\ Cardinality(Selected) <= 3
         /\ \A d \in Selected : d \in Candidates("advisor") /\ cluster.domains[d].hypothesis = "long"
         /\ cluster.max # 0 => 1 + Cardinality(Selected) <= cluster.max
         /\ Primary \notin Selected
<1>1. Candidates("advisor") \in SUBSET Domain
  BY DEF Candidates, Role, ManifestTyped
<1>2. Earnest \in SUBSET Candidates("advisor") /\ \A d \in Earnest : cluster.domains[d].hypothesis = "long"
  BY DEF Earnest, Offered
<1>3. MaxAdvisors \in Nat /\ MaxAdvisors <= 2 /\ (cluster.max # 0 => MaxAdvisors = cluster.max - 1) /\ cluster.max \in Nat
  BY DEF MaxAdvisors, ManifestTyped
<1>4. PICK S, k : S = Earnest /\ k = MaxAdvisors
  OBVIOUS
<1>5. S \in SUBSET Nat /\ IsFiniteSet(S) /\ k \in Nat
  BY <1>1, <1>2, <1>3, <1>4, DomainIs
<1>6. PICK T : T = {a \in S : Cardinality({x \in S : x < a}) < k}
  OBVIOUS
<1>7. IsFiniteSet(T) /\ Cardinality(T) \in Nat /\ Cardinality(T) <= k
  BY <1>5, <1>6, FirstFew
<1>8. Selected = T
  BY <1>4, <1>6 DEF Selected
<1>9. Selected \in SUBSET Earnest
  BY DEF Selected
<1>10. Primary \notin Selected
  <2>1. \A d \in Selected : cluster.domains[d].role = "advisor" /\ d # 0
    BY <1>1, <1>2, <1>9 DEF Candidates, Role, Domain
  <2>2. Primary # 0 => cluster.domains[Primary].role = "primary-candidate"
    BY PrimaryIs DEF Candidates, Role
  <2>3. QED
    BY <2>1, <2>2
<1>11. QED
  BY <1>1, <1>2, <1>3, <1>4, <1>7, <1>8, <1>9, <1>10

\* What is known of a plan and of a migration is enough for what the model promises.
LEMMA ClusterTells == ClusterKnows => ClusterInv
<1>1. CASE phase \in {"plan", "refused"} /\ ManifestTyped /\ plan = NoPlan /\ checks = NoChecks /\ files = NoOutput
  BY <1>1 DEF ClusterInv, ReadyIsAllowed, PreflightFailsClosed, PlanIsOfOnePiece, MigrationIsHonest, NoPlan, NoOutput
<1>2. CASE phase \in {"preflight", "planned", "traced"} /\ PlanStands /\ files = NoOutput
  <2>1. MigrationIsHonest
    BY <1>2 DEF MigrationIsHonest, NoOutput
  <2>2. PlanStands /\ ManifestTyped /\ plan \in Plans /\ plan.status \in {"ready", "blocked"}
    BY <1>2 DEF PlanStands
  <2>3. CASE plan.status = "blocked"
    <3>1. plan.issues # {} /\ plan.consumed = 0
      BY <2>2, <2>3 DEF PlanStands
    <3>2. QED
      BY <2>1, <2>3, <3>1 DEF ClusterInv, ReadyIsAllowed, PreflightFailsClosed, PlanIsOfOnePiece
  <2>4. CASE plan.status = "ready"
    <3>1. PlanReady /\ (phase # "preflight" => PlanSettled) /\ (phase = "preflight" => plan.advisors = Selected)
      BY <2>2, <2>4 DEF PlanStands
    <3>2. /\ Selected \in SUBSET Domain /\ IsFiniteSet(Selected) /\ Cardinality(Selected) \in Nat
          /\ \A d \in Selected : d \in Candidates("advisor") /\ cluster.domains[d].hypothesis = "long"
          /\ cluster.max # 0 => 1 + Cardinality(Selected) <= cluster.max
          /\ Primary \notin Selected
      BY <2>2, SelectedIs
    <3>3. /\ plan.primary = Primary /\ Primary \in Candidates("primary-candidate")
          /\ \A d \in Candidates("primary-candidate") : Score(d) <= Score(Primary)
          /\ Primary \in Domain /\ Primary # 0
      BY <2>2, <3>1, PrimaryIs DEF PlanReady, Domain
    <3>4. PICK A : A = plan.advisors /\ A \in SUBSET Selected
      BY <3>1 DEF PlanSettled
    <3>5. PICK together : together = {plan.primary} \union A
      OBVIOUS
    <3>6. cluster.max # 0 => Cardinality(together) <= cluster.max
      <4>1. IsFiniteSet(A) /\ Cardinality(A) <= Cardinality(Selected) /\ Cardinality(A) \in Nat
        BY <3>2, <3>4, FS_Subset, FS_CardinalityType
      <4>2. together = A \union {Primary} /\ Primary \notin A
        BY <3>2, <3>3, <3>4, <3>5
      <4>3. Cardinality(together) = Cardinality(A) + 1
        BY <4>1, <4>2, FS_AddElement
      <4>4. cluster.max \in Nat
        BY <2>2 DEF ManifestTyped
      <4>5. QED
        BY <3>2, <4>1, <4>3, <4>4
    <3>7. ~({cluster.relation[2], cluster.relation[3]} \subseteq together /\ cluster.relation[1] = "blocks")
      <4>1. SUFFICES ASSUME {cluster.relation[2], cluster.relation[3]} \subseteq together, cluster.relation[1] = "blocks" PROVE FALSE
        OBVIOUS
      <4>2. {cluster.relation[2], cluster.relation[3]} \subseteq {Primary} \union Selected
        BY <3>3, <3>4, <3>5, <4>1
      <4>3. Conflicting({Primary} \union Selected)
        BY <4>1, <4>2 DEF Conflicting
      <4>4. "BLOCKING_CONFLICT" \in Issues
        BY <3>3, <4>3 DEF Issues
      <4>5. QED
        BY <3>1, <4>4 DEF PlanReady
    <3>8. ReadyIsAllowed
      BY <3>2, <3>3, <3>4, <3>5, <3>6, <3>7 DEF ReadyIsAllowed
    <3>9. PreflightFailsClosed
      BY <3>1 DEF PreflightFailsClosed, PlanReady, PlanSettled
    <3>10. PlanIsOfOnePiece
      <4>1. plan.issues = {}
        BY <3>1 DEF PlanReady
      <4>2. phase # "preflight" => plan.consumed = 1 + Cardinality(plan.advisors)
        BY <3>1 DEF PlanSettled
      <4>3. phase = "traced" => trace.advisors \intersect trace.rejected = {} /\ (plan.degraded # {} => trace.deviated)
        BY <2>2, <3>1 DEF PlanStands, PlanReady, PlanSettled
      <4>4. QED
        BY <2>4, <4>1, <4>2, <4>3 DEF PlanIsOfOnePiece
    <3>11. QED
      BY <2>1, <3>8, <3>9, <3>10 DEF ClusterInv
  <2>5. QED
    BY <2>2, <2>3, <2>4
<1>3. CASE phase \in {"migrate", "write", "report", "crashed", "migrated"} /\ MigrationStands
  <2>1. plan = NoPlan /\ plan.status = "none" /\ plan.issues = {}
    BY <1>3 DEF MigrationStands, NoPlan
  <2>2. ReadyIsAllowed /\ PreflightFailsClosed /\ PlanIsOfOnePiece
    BY <2>1 DEF ReadyIsAllowed, PreflightFailsClosed, PlanIsOfOnePiece
  <2>3. ASSUME files.manifest = "canonical"
        PROVE  /\ Valid(cluster.domains)
               /\ Role("primary-candidate", cluster.domains) = {i \in DOMAIN legacy.entries : legacy.entries[i].role = "primary"}
               /\ cluster.status = "complete" => ~(legacy.format = "packages" /\ legacy.rules)
    <3>1. phase # "migrate"
      BY <1>3, <2>3 DEF MigrationStands, NoOutput
    <3>2. PICK domains, status : /\ domains = Migrated(legacy)
                                 /\ status = MigrationStatus(domains, legacy.format = "packages" /\ legacy.rules)
      OBVIOUS
    <3>3. cluster = [domains |-> domains, status |-> status] /\ status # "validation_failed"
      BY <1>3, <2>3, <3>1, <3>2 DEF MigrationStands
    <3>4. cluster.domains = domains /\ cluster.status = status
      BY <3>3
    <3>5. Valid(domains) /\ (status = "complete" => ~(legacy.format = "packages" /\ legacy.rules))
      BY <3>2, <3>3 DEF MigrationStatus
    <3>6. Role("primary-candidate", domains) = {i \in DOMAIN legacy.entries : legacy.entries[i].role = "primary"}
      <4>1. /\ DOMAIN domains = DOMAIN legacy.entries
            /\ \A i \in DOMAIN legacy.entries : domains[i].role = MigratedRole(legacy.format, legacy.entries[i].role)
        BY <3>2 DEF Migrated, Entry
      <4>2. \A i \in DOMAIN legacy.entries : MigratedRole(legacy.format, legacy.entries[i].role) = "primary-candidate"
                                             <=> legacy.entries[i].role = "primary"
        BY DEF MigratedRole
      <4>3. QED
        BY <4>1, <4>2 DEF Role
    <3>7. QED
      BY <3>4, <3>5, <3>6
  <2>4. phase = "migrated" /\ files # NoOutput => files = Migration(legacy.out)
    BY <1>3 DEF MigrationStands
  <2>5. MigrationIsHonest
    BY <2>3, <2>4 DEF MigrationIsHonest, Migration
  <2>6. QED
    BY <2>2, <2>5 DEF ClusterInv
<1>4. QED
  BY <1>1, <1>2, <1>3 DEF ClusterKnows

\* A manifest has three domains.
LEMMA ManifestsAreTyped == \A c \in Manifests : DOMAIN c.domains = Domain /\ c.max \in {0, 1, 2}
<1>1. ASSUME NEW c \in Manifests PROVE DOMAIN c.domains = Domain /\ c.max \in {0, 1, 2}
  <2>1. PICK A, B, C : A = Primaries /\ B = Primaries \union Advisors /\ C = Advisors \union {Entry("critic", Word, "none", TRUE)}
    OBVIOUS
  <2>2. c.domains \in A \X B \X C /\ c.max \in {0, 1, 2}
    BY <2>1 DEF Manifests
  <2>3. DOMAIN c.domains = 1..3
    BY <2>2
  <2>4. QED
    BY <2>2, <2>3 DEF Domain
<1>2. QED
  BY <1>1

\* The command starts in order.
LEMMA ClusterStart == ClusterInit => ClusterKnows
<1>1. SUFFICES ASSUME ClusterInit PROVE ClusterKnows
  OBVIOUS
<1>2. plan = NoPlan /\ checks = NoChecks /\ files = NoOutput
  BY <1>1 DEF ClusterInit
<1>3. CASE cluster \in Manifests /\ task \in {{}, Word} /\ phase = "plan" /\ legacy = 0
  BY <1>2, <1>3, ManifestsAreTyped DEF ClusterKnows, ManifestTyped
<1>4. CASE cluster = 0 /\ task = {} /\ phase = "migrate" /\ legacy \in Legacies
  <2>1. files.manifest = "none"
    BY <1>2 DEF NoOutput
  <2>2. QED
    BY <1>2, <1>4, <2>1 DEF ClusterKnows, MigrationStands
<1>5. QED
  BY <1>1, <1>3, <1>4 DEF ClusterInit

\* What depends on the manifest and the task alone.
LEMMA SameManifest ==
  ASSUME cluster' = cluster, task' = task
  PROVE  Primary' = Primary /\ Selected' = Selected /\ Issues' = Issues /\ (ManifestTyped => ManifestTyped')
<1>1. \A r : Role(r, cluster'.domains) = Role(r, cluster.domains)
  BY DEF Role
<1>2. Candidates("primary-candidate")' = Candidates("primary-candidate") /\ Candidates("advisor")' = Candidates("advisor")
  BY <1>1 DEF Candidates, Met, Matched
<1>3. \A a, b : Before(a, b)' <=> Before(a, b)
  BY DEF Before, Score, Matched
<1>4. Primary' = Primary
  <2>1. Beaten' = Beaten
    BY <1>3 DEF Beaten
  <2>2. PICK S, beaten : S = Candidates("primary-candidate") /\ beaten = Beaten
    OBVIOUS
  <2>3. Candidates("primary-candidate")' = S /\ Beaten' = beaten
    BY <1>2, <2>1, <2>2
  <2>4. QED
    BY <2>2, <2>3, Zenon DEF Primary
<1>5. Offered' = Offered
  BY <1>2, <1>4 DEF Offered
<1>6. Earnest' = Earnest /\ MaxAdvisors' = MaxAdvisors
  BY <1>5 DEF Earnest, MaxAdvisors
<1>7. Selected' = Selected
  BY <1>6 DEF Selected
<1>8. Exceeds' = Exceeds
  BY <1>5, <1>6 DEF Exceeds
<1>9. \A c : Conflicting(c)' <=> Conflicting(c)
  BY DEF Conflicting
<1>10. Issues' = Issues
  BY <1>4, <1>7, <1>8, <1>9 DEF Issues
<1>11. ManifestTyped => ManifestTyped'
  BY DEF ManifestTyped
<1>12. QED
  BY <1>4, <1>7, <1>10, <1>11

\* A plan is ready when nothing blocks it.
LEMMA PlanUseKeeps ==
  ASSUME ClusterKnows, PlanUse
  PROVE  ClusterKnows'
<1>1. phase = "plan" /\ UNCHANGED <<cluster, task, checks, trace, legacy, files>>
  BY DEF PlanUse
<1>2. ManifestTyped /\ plan = NoPlan /\ checks = NoChecks /\ files = NoOutput
  BY <1>1 DEF ClusterKnows
<1>3. Primary' = Primary /\ Selected' = Selected /\ Issues' = Issues /\ ManifestTyped'
  BY <1>1, <1>2, SameManifest
<1>4. CASE ~Valid(cluster.domains)
  <2>1. phase' = "refused" /\ plan' = plan
    BY <1>4 DEF PlanUse
  <2>2. QED
    BY <1>1, <1>2, <1>3, <2>1 DEF ClusterKnows, NoChecks
<1>5. CASE Valid(cluster.domains)
  <2>1. PICK status, rejected, consumed :
          /\ status = IF Issues = {} THEN "ready" ELSE "blocked"
          /\ rejected = IF Primary = 0 THEN {} ELSE Domain \ ({Primary} \union Selected \union
                                     Candidates("critic") \union Candidates("primary-candidate"))
          /\ consumed = IF Issues = {} THEN 1 + Cardinality(Selected) ELSE 0
    OBVIOUS
  <2>2. plan' = [status |-> status, primary |-> Primary, advisors |-> Selected, rejected |-> rejected, degraded |-> {},
                 issues |-> Issues, consumed |-> consumed]
    BY <1>5, <2>1 DEF PlanUse
  <2>3. phase' \in (IF Issues = {} THEN {"preflight", "planned"} ELSE {"planned"})
    BY <1>5 DEF PlanUse
  <2>4. /\ Selected \in SUBSET Domain /\ Cardinality(Selected) \in Nat /\ Cardinality(Selected) <= 3
    BY <1>2, SelectedIs
  <2>5. Primary \in 0..3 /\ (Primary # 0 => Primary \in Domain)
    BY <1>2, PrimaryIs DEF Domain
  <2>6. Primary = 0 => Issues # {}
    BY DEF Issues
  <2>7. Issues \in SUBSET PlanIssues
    BY DEF Issues, PlanIssues
  <2>8. rejected \in SUBSET Domain /\ rejected \intersect Selected = {}
    BY <2>1
  <2>9. plan' \in Plans
    BY <2>1, <2>2, <2>4, <2>5, <2>7, <2>8 DEF Plans
  <2>10. checks' = NoChecks /\ checks' \in [Domain -> Found]
    BY <1>1, <1>2 DEF NoChecks, Found
  <2>11. CASE Issues # {}
    <3>1. phase' = "planned" /\ plan'.status = "blocked" /\ plan'.issues # {} /\ plan'.consumed = 0
      BY <2>1, <2>2, <2>3, <2>11
    <3>2. PlanStands'
      BY <1>3, <2>9, <2>10, <3>1 DEF PlanStands
    <3>3. QED
      BY <1>1, <1>2, <3>1, <3>2 DEF ClusterKnows
  <2>12. CASE Issues = {}
    <3>1. /\ phase' \in {"preflight", "planned"} /\ plan'.status = "ready" /\ plan'.issues = {}
          /\ plan'.primary = Primary /\ plan'.advisors = Selected /\ plan'.rejected = rejected /\ plan'.degraded = {}
          /\ plan'.consumed = 1 + Cardinality(Selected)
      BY <2>1, <2>2, <2>3, <2>12
    <3>2. Primary \in Domain
      BY <2>5, <2>6, <2>12
    <3>3. \A d \in Domain : checks'[d] = "open"
      BY <2>10 DEF NoChecks
    <3>4. PlanReady'
      <4>1. References' \subseteq Domain
        BY <1>3, <2>4, <3>1, <3>2 DEF References
      <4>2. QED
        BY <1>3, <2>8, <2>12, <3>1, <3>2, <3>3, <4>1 DEF PlanReady
    <3>5. PlanSettled'
      BY <1>3, <2>10, <3>1 DEF PlanSettled, NoChecks
    <3>6. PlanStands'
      BY <1>3, <2>9, <2>10, <3>1, <3>4, <3>5 DEF PlanStands
    <3>7. QED
      BY <1>1, <1>2, <3>1, <3>6 DEF ClusterKnows
  <2>13. QED
    BY <2>11, <2>12
<1>6. QED
  BY <1>4, <1>5

\* A plan that is blocked.
LEMMA BlockedIs ==
  ASSUME NEW p \in Plans, NEW issue \in {"PRIMARY", "ADVISOR"}, NEW q, q = Blocked(p, issue)
  PROVE  q \in Plans /\ q.status = "blocked" /\ q.issues # {} /\ q.consumed = 0
<1>1. PICK issues : issues = p.issues \union {issue}
  OBVIOUS
<1>2. issues # {} /\ issues \in SUBSET PlanIssues
  BY <1>1 DEF Plans, PlanIssues
<1>3. PICK primary \in 0..3, advisors \in SUBSET Domain, rejected \in SUBSET Domain, degraded \in SUBSET Domain :
        p.primary = primary /\ p.advisors = advisors /\ p.rejected = rejected /\ p.degraded = degraded
  BY DEF Plans
<1>4. q = [status |-> "blocked", primary |-> primary, advisors |-> advisors, rejected |-> rejected, degraded |-> degraded,
           issues |-> issues, consumed |-> 0]
  BY <1>1, <1>3 DEF Blocked, Plans
<1>5. q \in Plans
  BY <1>2, <1>4 DEF Plans
<1>6. QED
  BY <1>2, <1>4, <1>5

\* A reference that is not good blocks the plan, or is dropped when it need not be there.
LEMMA CheckReferenceKeeps ==
  ASSUME ClusterKnows, CheckReference
  PROVE  ClusterKnows'
<1>1. phase = "preflight" /\ UNCHANGED <<cluster, task, trace, legacy, files>>
  BY DEF CheckReference
<1>2. PlanStands /\ files = NoOutput
  BY <1>1 DEF ClusterKnows
<1>3. ManifestTyped /\ plan \in Plans /\ checks \in [Domain -> Found] /\ plan.status = "ready" /\ PlanReady /\ plan.advisors = Selected
  BY <1>1, <1>2 DEF PlanStands
<1>4. Primary' = Primary /\ Selected' = Selected /\ Issues' = Issues /\ ManifestTyped'
  BY <1>1, <1>3, SameManifest
<1>5. PICK d \in Unchecked, found \in {"good", "absent", "locked", "changed"} :
        /\ checks' = [checks EXCEPT ![d] = found]
        /\ \/ found = "good" /\ UNCHANGED <<plan, phase>>
           \/ /\ found # "good" /\ d # plan.primary /\ CanDegrade(d)
              /\ plan' = Dropped(plan, d) /\ phase' = phase
           \/ /\ found # "good" /\ (d = plan.primary \/ ~CanDegrade(d))
              /\ plan' = Blocked(plan, IF d = plan.primary THEN "PRIMARY" ELSE "ADVISOR") /\ phase' = "planned"
  BY DEF CheckReference
<1>6. /\ plan.primary = Primary /\ Primary \in Domain /\ Issues = {} /\ plan.issues = {}
      /\ plan.degraded \subseteq Selected /\ plan.rejected \intersect Selected \subseteq plan.degraded
      /\ \A e \in plan.degraded : checks[e] # "open" /\ ~cluster.domains[e].required
      /\ \A e \in References : checks[e] \in {"open", "good"} \/ e \in plan.degraded
  BY <1>3 DEF PlanReady
<1>7. Selected \in SUBSET Domain
  BY <1>3, SelectedIs
<1>8. References \in SUBSET Domain /\ References = {Primary} \union Selected /\ d \in References /\ checks[d] = "open"
  BY <1>6, <1>7 DEF References, Unchecked
<1>9. checks' \in [Domain -> Found]
  BY <1>3, <1>5, <1>8 DEF Found
<1>10. checks'[d] = found /\ \A e \in Domain : e # d => checks'[e] = checks[e]
  BY <1>3, <1>5, <1>8
<1>11. CASE found = "good" /\ UNCHANGED <<plan, phase>>
  <2>1. plan' = plan /\ phase' = "preflight" /\ References' = References
    BY <1>1, <1>4, <1>11 DEF References
  <2>2. PlanReady'
    BY <1>1, <1>4, <1>6, <1>7, <1>8, <1>10, <1>11, <2>1 DEF PlanReady
  <2>3. PlanStands'
    BY <1>3, <1>4, <1>9, <2>1, <2>2 DEF PlanStands
  <2>4. QED
    BY <1>1, <1>2, <2>1, <2>3 DEF ClusterKnows
<1>12. CASE found # "good" /\ d # plan.primary /\ CanDegrade(d) /\ plan' = Dropped(plan, d) /\ phase' = phase
  <2>1. PICK rejected, degraded : rejected = plan.rejected \union {d} /\ degraded = plan.degraded \union {d}
    OBVIOUS
  <2>2. plan' = [plan EXCEPT !.rejected = rejected, !.degraded = degraded]
    BY <1>3, <1>12, <2>1 DEF Dropped, Plans
  <2>3. rejected \in SUBSET Domain /\ degraded \in SUBSET Domain
    BY <1>3, <1>8, <2>1 DEF Plans
  <2>4. /\ plan' \in Plans /\ plan'.rejected = rejected /\ plan'.degraded = degraded /\ plan'.status = plan.status
        /\ plan'.primary = plan.primary /\ plan'.advisors = plan.advisors /\ plan'.issues = plan.issues
    BY <1>3, <2>2, <2>3 DEF Plans
  <2>5. References' = References
    BY <1>4, <2>4 DEF References
  <2>6. d \in Selected /\ ~cluster.domains[d].required
    BY <1>6, <1>8, <1>12 DEF CanDegrade
  <2>7. degraded \subseteq Selected /\ rejected \intersect Selected \subseteq degraded
    BY <1>6, <2>1, <2>6
  <2>8. \A e \in degraded : checks'[e] # "open" /\ ~cluster.domains[e].required
    BY <1>6, <1>7, <1>10, <2>1, <2>6
  <2>9. \A e \in References : checks'[e] \in {"open", "good"} \/ e \in degraded
    BY <1>6, <1>8, <1>10, <2>1
  <2>10. PlanReady'
    BY <1>1, <1>4, <1>6, <2>4, <2>5, <2>7, <2>8, <2>9 DEF PlanReady
  <2>11. PlanStands'
    BY <1>1, <1>3, <1>4, <1>9, <1>12, <2>4, <2>10 DEF PlanStands
  <2>12. QED
    BY <1>1, <1>2, <1>12, <2>11 DEF ClusterKnows
<1>13. CASE plan' = Blocked(plan, IF d = plan.primary THEN "PRIMARY" ELSE "ADVISOR") /\ phase' = "planned"
  <2>1. PICK issue \in {"PRIMARY", "ADVISOR"} : plan' = Blocked(plan, issue)
    BY <1>13
  <2>2. plan' \in Plans /\ plan'.status = "blocked" /\ plan'.issues # {} /\ plan'.consumed = 0
    BY <1>3, <2>1, BlockedIs
  <2>3. PlanStands'
    BY <1>4, <1>9, <1>13, <2>2 DEF PlanStands
  <2>4. QED
    BY <1>1, <1>2, <1>13, <2>3 DEF ClusterKnows
<1>14. QED
  BY <1>5, <1>11, <1>12, <1>13

\* At the end of preflight the dropped advisors leave the plan.
LEMMA PreflightEndsKeeps ==
  ASSUME ClusterKnows, PreflightEnds
  PROVE  ClusterKnows'
<1>1. phase = "preflight" /\ UNCHANGED <<cluster, task, checks, trace, legacy, files>> /\ phase' = "planned" /\ Unchecked = {}
  BY DEF PreflightEnds
<1>2. PlanStands /\ files = NoOutput
  BY <1>1 DEF ClusterKnows
<1>3. ManifestTyped /\ plan \in Plans /\ checks \in [Domain -> Found] /\ plan.status = "ready" /\ PlanReady /\ plan.advisors = Selected
  BY <1>1, <1>2 DEF PlanStands
<1>4. Primary' = Primary /\ Selected' = Selected /\ Issues' = Issues /\ ManifestTyped'
  BY <1>1, <1>3, SameManifest
<1>5. PICK kept, consumed : kept = plan.advisors \ plan.degraded /\ consumed = 1 + Cardinality(kept)
  OBVIOUS
<1>6. plan' = [plan EXCEPT !.advisors = kept, !.consumed = consumed]
  BY <1>5 DEF PreflightEnds
<1>7. kept \in SUBSET Domain /\ consumed \in 0..4
  <2>1. Selected \in SUBSET Domain /\ IsFiniteSet(Selected) /\ Cardinality(Selected) \in Nat /\ Cardinality(Selected) <= 3
    BY <1>3, SelectedIs
  <2>2. kept \in SUBSET Selected
    BY <1>3, <1>5
  <2>3. IsFiniteSet(kept) /\ Cardinality(kept) <= Cardinality(Selected) /\ Cardinality(kept) \in Nat
    BY <2>1, <2>2, FS_Subset, FS_CardinalityType
  <2>4. QED
    BY <1>5, <2>1, <2>2, <2>3
<1>8. /\ plan' \in Plans /\ plan'.rejected = plan.rejected /\ plan'.degraded = plan.degraded /\ plan'.status = plan.status
      /\ plan'.primary = plan.primary /\ plan'.advisors = kept /\ plan'.issues = plan.issues /\ plan'.consumed = consumed
  BY <1>3, <1>6, <1>7 DEF Plans
<1>9. References' = References
  BY <1>4, <1>8 DEF References
<1>10. PlanReady'
  BY <1>1, <1>3, <1>4, <1>8, <1>9 DEF PlanReady
<1>11. PlanSettled'
  <2>1. \A d \in References : checks[d] # "open"
    BY <1>1 DEF Unchecked
  <2>2. QED
    BY <1>1, <1>3, <1>4, <1>5, <1>8, <1>9, <2>1 DEF PlanSettled
<1>12. PlanStands'
  BY <1>1, <1>3, <1>4, <1>8, <1>10, <1>11 DEF PlanStands
<1>13. QED
  BY <1>1, <1>2, <1>12 DEF ClusterKnows

\* The trace is of the plan as it stands.
LEMMA ExecuteKeeps ==
  ASSUME ClusterKnows, Execute
  PROVE  ClusterKnows'
<1>1. phase = "planned" /\ UNCHANGED <<cluster, task, plan, checks, legacy, files>> /\ phase' = "traced"
  BY DEF Execute
<1>2. PlanStands /\ files = NoOutput
  BY <1>1 DEF ClusterKnows
<1>3. Primary' = Primary /\ Selected' = Selected /\ Issues' = Issues /\ ManifestTyped'
  BY <1>1, <1>2, SameManifest DEF PlanStands
<1>4. PICK status, loaded : trace' = TraceOf(status, loaded)
  BY DEF Execute
<1>5. trace'.advisors = plan.advisors /\ trace'.rejected = plan.rejected /\ (plan.degraded # {} => trace'.deviated)
  BY <1>4 DEF TraceOf
<1>6. References' = References
  BY <1>1, <1>3 DEF References
<1>7. plan.status = "ready" => PlanReady' /\ PlanSettled'
  BY <1>1, <1>2, <1>3, <1>6 DEF PlanStands, PlanReady, PlanSettled
<1>8. PlanStands'
  BY <1>1, <1>2, <1>3, <1>5, <1>7 DEF PlanStands
<1>9. QED
  BY <1>1, <1>2, <1>8 DEF ClusterKnows

\* A migration decides what may be written.
LEMMA MigrateKeeps ==
  ASSUME ClusterKnows, Migrate
  PROVE  ClusterKnows'
<1>1. phase = "migrate" /\ UNCHANGED <<task, plan, checks, trace, legacy, files>>
  BY DEF Migrate
<1>2. legacy \in Legacies /\ plan = NoPlan /\ files = NoOutput
  BY <1>1 DEF ClusterKnows, MigrationStands
<1>3. PICK domains, status : /\ domains = Migrated(legacy)
                             /\ status = MigrationStatus(domains, legacy.format = "packages" /\ legacy.rules)
  OBVIOUS
<1>4. /\ cluster' = [domains |-> domains, status |-> status]
      /\ phase' = IF status = "validation_failed" \/ legacy.out = "none" THEN "migrated" ELSE "write"
  BY <1>3 DEF Migrate
<1>5. phase' \in {"migrated", "write"} /\ (phase' = "write" => cluster'.status # "validation_failed") /\ files'.manifest # "canonical"
  BY <1>1, <1>2, <1>4 DEF NoOutput
<1>6. (Migrated(legacy))' = domains /\ (MigrationStatus(Migrated(legacy), legacy.format = "packages" /\ legacy.rules))' = status
  <2>1. legacy' = legacy
    BY <1>1
  <2>2. QED
    BY <1>3, <2>1, Zenon
<1>7. MigrationStands'
  BY <1>1, <1>2, <1>4, <1>5, <1>6 DEF MigrationStands
<1>8. QED
  BY <1>5, <1>7 DEF ClusterKnows

\* Only a migration that validates is written.
LEMMA WriteMigrationKeeps ==
  ASSUME ClusterKnows, WriteMigration
  PROVE  ClusterKnows'
<1>1. phase \in {"write", "report"} /\ UNCHANGED <<cluster, task, plan, checks, trace, legacy>>
  BY DEF WriteMigration
<1>2. MigrationStands
  BY <1>1 DEF ClusterKnows
<1>3. /\ phase' \in {"report", "migrated", "crashed"} /\ cluster.status # "validation_failed" /\ phase # "migrate"
      /\ phase' = "report" => files' = [manifest |-> "canonical", report |-> "none"]
      /\ phase' = "migrated" => files' = Migration(legacy.out)
  <2>1. cluster.status # "validation_failed"
    BY <1>1, <1>2 DEF MigrationStands
  <2>2. CASE phase = "write"
    <3>1. files = NoOutput
      BY <1>2, <2>2 DEF MigrationStands
    <3>2. \/ files' = [files EXCEPT !.manifest = "canonical"] /\ phase' = "report"
          \/ files' = [files EXCEPT !.manifest = "torn"] /\ phase' = "crashed"
      BY <2>2 DEF WriteMigration
    <3>3. QED
      BY <2>1, <2>2, <3>1, <3>2 DEF NoOutput
  <2>3. CASE phase = "report"
    <3>1. files = [manifest |-> "canonical", report |-> "none"]
      BY <1>2, <2>3 DEF MigrationStands
    <3>2. \/ files' = [files EXCEPT ![ReportPath] = "report"] /\ phase' = "migrated"
          \/ files' = [files EXCEPT ![ReportPath] = "torn"] /\ phase' = "crashed"
      BY <2>3 DEF WriteMigration
    <3>3. CASE legacy.out = "json"
      BY <2>1, <2>3, <3>1, <3>2, <3>3 DEF ReportPath, Migration
    <3>4. CASE legacy.out # "json"
      BY <2>1, <2>3, <3>1, <3>2, <3>4 DEF ReportPath, Migration
    <3>5. QED
      BY <3>3, <3>4
  <2>4. QED
    BY <1>1, <2>2, <2>3
<1>4. (Migrated(legacy))' = Migrated(legacy)
      /\ (MigrationStatus(Migrated(legacy), legacy.format = "packages" /\ legacy.rules))'
           = MigrationStatus(Migrated(legacy), legacy.format = "packages" /\ legacy.rules)
  BY <1>1, Zenon
<1>5. MigrationStands'
  BY <1>1, <1>2, <1>3, <1>4 DEF MigrationStands
<1>6. QED
  BY <1>3, <1>5 DEF ClusterKnows

\* Every step keeps what is known of a plan and of a migration.
LEMMA ClusterStep ==
  ASSUME ClusterKnows, ClusterNext \/ UNCHANGED clusterVars
  PROVE  ClusterKnows'
<1>1. CASE UNCHANGED clusterVars
  <2>1. cluster' = cluster /\ task' = task /\ phase' = phase /\ plan' = plan /\ checks' = checks /\ trace' = trace
        /\ legacy' = legacy /\ files' = files
    BY <1>1 DEF clusterVars
  <2>2. Primary' = Primary /\ Selected' = Selected /\ Issues' = Issues /\ (ManifestTyped => ManifestTyped')
    BY <2>1, SameManifest
  <2>3. References' = References
    BY <2>1, <2>2 DEF References
  <2>4. PlanStands => PlanStands'
    BY <2>1, <2>2, <2>3 DEF PlanStands, PlanReady, PlanSettled, NoChecks
  <2>5. (Migrated(legacy))' = Migrated(legacy)
        /\ (MigrationStatus(Migrated(legacy), legacy.format = "packages" /\ legacy.rules))'
             = MigrationStatus(Migrated(legacy), legacy.format = "packages" /\ legacy.rules)
    BY <2>1, Zenon
  <2>6. MigrationStands => MigrationStands'
    BY <2>1, <2>5 DEF MigrationStands
  <2>7. QED
    BY <2>1, <2>2, <2>4, <2>6 DEF ClusterKnows
<1>2. CASE ClusterNext
  BY <1>2, PlanUseKeeps, CheckReferenceKeeps, PreflightEndsKeeps, ExecuteKeeps, MigrateKeeps, WriteMigrationKeeps DEF ClusterNext
<1>3. QED
  BY <1>1, <1>2

--------------------------------------------------------------------------------
(* Discovery: what a command answers is true of what it read, whoever changes the store meanwhile. *)

\* What an asset is, whose fit is more than what speaks against its relevance.
Sorts ==
  {a \in [yanked : BOOLEAN, loadable : BOOLEAN, legible : BOOLEAN, against : Nat, fit : Nat, relevance : Int] :
     a.fit >= 2 => a.relevance >= 0}

\* While nobody else changes the store, what was read is what is there.
StillThere ==
  asked.quiet => active = asked.listed /\ \A n \in Legibles : asked.read[n] = shelf[n][asked.listed[n]]

\* The types of the variables.
DiscoveryTyped ==
  /\ shelf \in [Ident -> [1..2 -> Sorts]] /\ active \in [Ident -> 0..2] /\ output \in Outputs
  /\ asked \in [verb : {"none", "available", "match", "select", "route", "postvalidate"}, listed : [Ident -> 0..2],
                read : [Ident -> Sorts], step : {"idle", "read", "policy", "done"}, limit : Int, quiet : BOOLEAN]

\* Everything known of a command under way.
DiscoveryKnows ==
  /\ DiscoveryTyped
  /\ asked.step \in {"idle", "read"} => verdict = NoVerdict
  /\ asked.step \in {"read", "policy"} => StillThere
  /\ asked.step = "policy" =>
       Legibles = Listed /\ \E load \in Ident : \E said : verdict = Verdict("policy", load, said) /\ StrongFits = {load}
  /\ DiscoveryAgrees

\* The score of what may be read is a number, high enough when the words fit, positive when the metadata fits.
LEMMA Scores ==
  ASSUME NEW a \in Sorts
  PROVE  /\ FitScore(a) \in Int /\ (FitScore(a) >= 6 <=> a.fit >= 2 \/ a.relevance >= 6)
         /\ (a.relevance >= 2 => FitScore(a) > 0)
<1>1. PICK fit \in Nat, relevance \in Int : fit = a.fit /\ relevance = a.relevance /\ (fit >= 2 => relevance >= 0)
  BY DEF Sorts
<1>2. FitScore(a) = (IF fit >= 2 THEN 3 * fit ELSE 0) + relevance
  BY <1>1 DEF FitScore
<1>3. QED
  BY <1>1, <1>2

\* What the sort gives of a set of domains: every one at its place, and nobody else.
LEMMA RankedIs ==
  ASSUME Idents \in Nat, NEW read \in [Ident -> Sorts], NEW S \in SUBSET Ident, NEW ranked, ranked = Ranked(read, S)
  PROVE  /\ ranked \in Seq(S) /\ Len(ranked) = Cardinality(S)
         /\ \A n \in S : \E i \in 1..Len(ranked) : ranked[i] = n
         /\ \A n \in S : Ahead(read, S, n) = {} => Len(ranked) > 0 /\ ranked[1] = n
<1>1. IsFiniteSet(S)
  <2>1. \A n \in Nat : IsFiniteSet(1..n)
    BY FS_Interval
  <2>2. S \in SUBSET (1..Idents)
    BY DEF Ident
  <2>3. QED
    BY <2>1, <2>2, FS_Subset
<1>2. PICK score : score = [n \in S |-> FitScore(read[n])]
  OBVIOUS
<1>3. \A n \in S : score[n] \in Int
  BY <1>2, Scores
<1>4. \A n \in S : n \in Nat
  BY DEF Ident
<1>5. PICK before : before = [n \in S |-> Ahead(read, S, n)]
  OBVIOUS
<1>6. \A n \in S : before[n] \in SUBSET S /\ \A m \in S : m \in before[n] <=> score[m] > score[n] \/ (score[m] = score[n] /\ m < n)
  <2>1. ASSUME NEW n \in S
        PROVE  before[n] \in SUBSET S /\ \A m \in S : m \in before[n] <=> score[m] > score[n] \/ (score[m] = score[n] /\ m < n)
    BY <1>2, <1>5 DEF Ahead
  <2>2. QED
    BY <2>1
<1>7. PICK place : place = [n \in S |-> Cardinality(before[n])]
  OBVIOUS
<1>8. \A n \in S : n \notin before[n]
  BY <1>3, <1>4, <1>6
<1>9. \A m, n \in S : m # n => m \in before[n] \/ n \in before[m]
  BY <1>3, <1>4, <1>6
<1>10. \A l, m, n \in S : l \in before[m] /\ m \in before[n] => l \in before[n]
  BY <1>3, <1>4, <1>6
<1>11. Ordered(S, before, place)
  BY <1>6, <1>7, <1>8, <1>9, <1>10 DEF Ordered
<1>12. Placed(S, before, place)
  BY <1>1, <1>11, Places, Zenon
<1>13. PICK k \in Nat : k = Cardinality(S)
  BY <1>12 DEF Placed
<1>14. /\ \A n \in S : place[n] \in Nat /\ place[n] < k
       /\ \A m, n \in S : m \in before[n] => place[m] < place[n]
       /\ \A i \in Nat : i < k => \E n \in S : place[n] = i
  BY <1>12, <1>13 DEF Placed
<1>15. \A n \in S : place[n] = Cardinality(Ahead(read, S, n))
  BY <1>5, <1>7
<1>16. ranked = [i \in 1..k |-> CHOOSE n \in S : Cardinality(Ahead(read, S, n)) = i - 1]
  BY <1>13 DEF Ranked
<1>17. ASSUME NEW i \in 1..k PROVE ranked[i] \in S /\ place[ranked[i]] = i - 1
  <2>1. i - 1 \in Nat /\ i - 1 < k
    BY <1>13
  <2>2. PICK n \in S : place[n] = i - 1
    BY <1>14, <2>1
  <2>3. \E m \in S : Cardinality(Ahead(read, S, m)) = i - 1
    BY <1>15, <2>2
  <2>4. ranked[i] = CHOOSE m \in S : Cardinality(Ahead(read, S, m)) = i - 1
    BY <1>16
  <2>5. ranked[i] \in S /\ Cardinality(Ahead(read, S, ranked[i])) = i - 1
    BY <2>3, <2>4
  <2>6. QED
    BY <1>15, <2>5
<1>18. ranked \in Seq(S) /\ Len(ranked) = k
  <2>1. ranked \in [1..k -> S]
    BY <1>16, <1>17
  <2>2. QED
    BY <1>13, <2>1
<1>19. \A m, n \in S : place[m] = place[n] => m = n
  BY <1>9, <1>14
<1>20. ASSUME NEW n \in S PROVE place[n] + 1 \in 1..k /\ ranked[place[n] + 1] = n
  <2>1. PICK i \in 1..k : i = place[n] + 1
    BY <1>13, <1>14
  <2>2. ranked[i] \in S /\ place[ranked[i]] = place[n]
    BY <1>13, <1>14, <1>17, <2>1
  <2>3. QED
    BY <1>19, <2>1, <2>2
<1>21. \A n \in S : \E i \in 1..Len(ranked) : ranked[i] = n
  BY <1>18, <1>20
<1>22. ASSUME NEW n \in S, Ahead(read, S, n) = {} PROVE Len(ranked) > 0 /\ ranked[1] = n
  <2>1. place[n] = 0
    <3>1. Cardinality({}) = 0
      BY FS_EmptySet
    <3>2. QED
      BY <1>15, <1>22, <3>1
  <2>2. 1 \in 1..k /\ ranked[1] = n
    BY <1>20, <2>1
  <2>3. QED
    BY <1>13, <1>18, <2>2
<1>23. QED
  BY <1>13, <1>18, <1>21, <1>22

\* Every domain listed is accounted for once, or outmatched by one that is not rejected.
Accounts(candidates, listed, read) ==
  /\ \A c, d \in candidates : c[1] = d[1] => c = d
  /\ \A n \in listed : \/ \E c \in candidates : c[1] = n
                       \/ \E c \in candidates : FitScore(read[c[1]]) > FitScore(read[n]) /\ c[2] # "rejected"

\* What Says says.
LEMMA SaysIs ==
  ASSUME NEW S, NEW decision
  PROVE  /\ \A c : c \in Says(S, decision) <=> c[1] \in S /\ c = <<c[1], decision>>
         /\ \A n \in S : <<n, decision>> \in Says(S, decision)
<1>1. \A c : c \in Says(S, decision) => \E n \in S : c = <<n, decision>>
  BY DEF Says
<1>2. \A n \in S : <<n, decision>> \in Says(S, decision)
  BY DEF Says
<1>3. QED
  BY <1>1, <1>2

\* Two groups, one of them strong, weak or ambiguous, account for all when those outside score less than one of the group.
LEMMA TwoGroups ==
  ASSUME NEW listed, NEW read, NEW rejected, NEW named, NEW decision, decision # "rejected", named \intersect rejected = {}, named # {},
         \A n \in listed : n \in named \/ n \in rejected \/ \A m \in named : FitScore(read[m]) > FitScore(read[n])
  PROVE  Accounts(Says(named, decision) \union Says(rejected, "rejected"), listed, read)
<1>1. PICK A, R : A = Says(named, decision) /\ R = Says(rejected, "rejected")
  OBVIOUS
<1>2. /\ \A c : c \in A <=> c[1] \in named /\ c = <<c[1], decision>>
      /\ \A c : c \in R <=> c[1] \in rejected /\ c = <<c[1], "rejected">>
      /\ \A n \in named : <<n, decision>> \in A
      /\ \A n \in rejected : <<n, "rejected">> \in R
  BY <1>1, SaysIs
<1>3. ASSUME NEW c \in A \union R, NEW d \in A \union R, c[1] = d[1] PROVE c = d
  <2>1. CASE c \in A /\ d \in A
    BY <1>2, <1>3, <2>1
  <2>2. CASE c \in R /\ d \in R
    BY <1>2, <1>3, <2>2
  <2>3. CASE c \in A /\ d \in R
    BY <1>2, <1>3, <2>3
  <2>4. CASE c \in R /\ d \in A
    BY <1>2, <1>3, <2>4
  <2>5. QED
    BY <2>1, <2>2, <2>3, <2>4
<1>4. ASSUME NEW n \in listed
      PROVE  \/ \E c \in A \union R : c[1] = n
             \/ \E c \in A \union R : FitScore(read[c[1]]) > FitScore(read[n]) /\ c[2] # "rejected"
  <2>1. CASE n \in named
    <3>1. PICK c : c = <<n, decision>>
      OBVIOUS
    <3>2. c \in A \union R /\ c[1] = n
      BY <1>2, <2>1, <3>1
    <3>3. QED
      BY <3>2, Zenon
  <2>2. CASE n \in rejected
    <3>1. PICK c : c = <<n, "rejected">>
      OBVIOUS
    <3>2. c \in A \union R /\ c[1] = n
      BY <1>2, <2>2, <3>1
    <3>3. QED
      BY <3>2, Zenon
  <2>3. CASE \A m \in named : FitScore(read[m]) > FitScore(read[n])
    <3>1. PICK m \in named : TRUE
      OBVIOUS
    <3>2. PICK c : c = <<m, decision>>
      OBVIOUS
    <3>3. c \in A /\ c[1] = m /\ c[2] = decision
      BY <1>2, <3>2
    <3>4. QED
      BY <2>3, <3>1, <3>3
  <2>4. QED
    BY <2>1, <2>2, <2>3
<1>5. QED
  BY <1>1, <1>3, <1>4 DEF Accounts

\* And so do three, or only those that are rejected.
LEMMA ThreeGroups ==
  ASSUME NEW listed, NEW read, NEW rejected, NEW strong, NEW weak, strong \intersect rejected = {}, weak \intersect rejected = {},
         strong \intersect weak = {}, strong # {},
         \A n \in listed : n \in strong \/ n \in weak \/ n \in rejected \/ \A m \in strong : FitScore(read[m]) > FitScore(read[n])
  PROVE  Accounts((Says(strong, "strong_match") \union Says(weak, "weak_match")) \union Says(rejected, "rejected"), listed, read)
<1>1. PICK A, B, R : A = Says(strong, "strong_match") /\ B = Says(weak, "weak_match") /\ R = Says(rejected, "rejected")
  OBVIOUS
<1>2. /\ \A c : c \in A <=> c[1] \in strong /\ c = <<c[1], "strong_match">>
      /\ \A c : c \in B <=> c[1] \in weak /\ c = <<c[1], "weak_match">>
      /\ \A c : c \in R <=> c[1] \in rejected /\ c = <<c[1], "rejected">>
  BY <1>1, SaysIs
<1>3. /\ \A n \in strong : <<n, "strong_match">> \in A
      /\ \A n \in weak : <<n, "weak_match">> \in B
      /\ \A n \in rejected : <<n, "rejected">> \in R
  BY <1>1, SaysIs
<1>4. PICK all : all = (A \union B) \union R
  OBVIOUS
<1>5. \A c \in all : \/ c[1] \in strong /\ c = <<c[1], "strong_match">>
                     \/ c[1] \in weak /\ c = <<c[1], "weak_match">>
                     \/ c[1] \in rejected /\ c = <<c[1], "rejected">>
  BY <1>2, <1>4
<1>6. ASSUME NEW c \in all, NEW d \in all, c[1] = d[1] PROVE c = d
  <2>1. CASE c[1] \in strong
    BY <1>5, <1>6, <2>1
  <2>2. CASE c[1] \in weak
    BY <1>5, <1>6, <2>2
  <2>3. CASE c[1] \in rejected
    BY <1>5, <1>6, <2>3
  <2>4. QED
    BY <1>5, <2>1, <2>2, <2>3
<1>7. ASSUME NEW n \in listed
      PROVE  \/ \E c \in all : c[1] = n
             \/ \E c \in all : FitScore(read[c[1]]) > FitScore(read[n]) /\ c[2] # "rejected"
  <2>1. CASE n \in strong
    <3>1. PICK c : c = <<n, "strong_match">>
      OBVIOUS
    <3>2. c \in all /\ c[1] = n
      BY <1>3, <1>4, <2>1, <3>1
    <3>3. QED
      BY <3>2
  <2>2. CASE n \in weak
    <3>1. PICK c : c = <<n, "weak_match">>
      OBVIOUS
    <3>2. c \in all /\ c[1] = n
      BY <1>3, <1>4, <2>2, <3>1
    <3>3. QED
      BY <3>2
  <2>3. CASE n \in rejected
    <3>1. PICK c : c = <<n, "rejected">>
      OBVIOUS
    <3>2. c \in all /\ c[1] = n
      BY <1>3, <1>4, <2>3, <3>1
    <3>3. QED
      BY <3>2
  <2>4. CASE \A m \in strong : FitScore(read[m]) > FitScore(read[n])
    <3>1. PICK m \in strong : TRUE
      OBVIOUS
    <3>2. PICK c : c = <<m, "strong_match">>
      OBVIOUS
    <3>3. c \in all /\ c[1] = m /\ c[2] = "strong_match"
      BY <1>3, <1>4, <3>2
    <3>4. QED
      BY <2>4, <3>1, <3>3
  <2>5. QED
    BY <2>1, <2>2, <2>3, <2>4
<1>8. QED
  BY <1>1, <1>4, <1>6, <1>7 DEF Accounts

\* When everybody is rejected, everybody is accounted for.
LEMMA OneGroup ==
  ASSUME NEW listed, NEW read, NEW R, NEW T, listed \subseteq T \union R
  PROVE  Accounts(Says(T, "rejected") \union Says(R, "rejected"), listed, read)
<1>1. PICK A : A = Says(T, "rejected") \union Says(R, "rejected")
  OBVIOUS
<1>2. \A c \in A : c = <<c[1], "rejected">>
  BY <1>1, SaysIs
<1>3. \A n \in T \union R : <<n, "rejected">> \in A
  BY <1>1, SaysIs
<1>4. \A c, d \in A : c[1] = d[1] => c = d
  BY <1>2
<1>5. ASSUME NEW n \in listed PROVE \E c \in A : c[1] = n
  <2>1. PICK c : c = <<n, "rejected">>
    OBVIOUS
  <2>2. c \in A /\ c[1] = n
    BY <1>3, <2>1
  <2>3. QED
    BY <2>2
<1>6. QED
  BY <1>1, <1>4, <1>5 DEF Accounts

\* What route answers before the policy is asked.
LEMMA RoutedIs ==
  ASSUME DiscoveryTyped, Legibles = Listed
  PROVE  \/ \E load \in Ident : \E said : Routed = Verdict("policy", load, said) /\ StrongFits = {load} /\ Accounts(said, Listed, asked.read)
         \/ \E s \in {"SKIP_NO_LOCAL_DOMAIN", "ASK_AMBIGUOUS_DOMAIN", "SKIP_WEAK_FIT"} : \E said :
              /\ Routed = Verdict(s, 0, said)
              /\ Accounts(said, Listed, asked.read)
<1>1. PICK read \in [Ident -> Sorts] : read = asked.read
  BY DEF DiscoveryTyped
<1>2. PICK listed, rejected, strong, weak : listed = Listed /\ rejected = Rejected /\ strong = StrongFits /\ weak = WeakFits
  OBVIOUS
<1>3. listed \in SUBSET Ident /\ rejected \in SUBSET listed
  BY <1>2 DEF Rejected, Listed, Legibles
<1>4. strong = {n \in listed \ rejected : FitScore(read[n]) >= 6} /\ weak = {n \in listed \ rejected : FitScore(read[n]) \in 1..5}
  BY <1>1, <1>2 DEF StrongFits, WeakFits
<1>5. PICK score : score = [n \in listed |-> FitScore(read[n])]
  OBVIOUS
<1>6. \A n \in listed : score[n] \in Int /\ score[n] = FitScore(read[n])
  BY <1>3, <1>5, Scores
<1>7. /\ \A n \in listed : n \in strong <=> n \notin rejected /\ score[n] >= 6
      /\ \A n \in listed : n \in weak <=> n \notin rejected /\ score[n] \in 1..5
      /\ strong \in SUBSET listed /\ weak \in SUBSET listed
  BY <1>4, <1>6
<1>8. /\ strong \intersect rejected = {} /\ weak \intersect rejected = {} /\ strong \intersect weak = {}
      /\ \A n \in listed : n \in strong \/ n \in weak \/ n \in rejected \/ score[n] <= 0
  BY <1>6, <1>7
<1>9. IsFiniteSet(strong)
  <2>1. \A n \in Nat : IsFiniteSet(1..n)
    BY FS_Interval
  <2>2. strong \in SUBSET (1..Idents) /\ Idents \in Nat
    BY <1>3, <1>7, DiscoveryAssumption DEF Ident
  <2>3. QED
    BY <2>1, <2>2, FS_Subset
<1>10. Cardinality(strong) \in Nat
  BY <1>9, FS_CardinalityType
<1>11. CASE strong = {} /\ weak = {}
  <2>1. PICK said : said = Says(listed \ rejected, "rejected") \union Says(rejected, "rejected")
    OBVIOUS
  <2>2. Routed = Verdict("SKIP_NO_LOCAL_DOMAIN", 0, said)
    BY <1>2, <1>11, <2>1 DEF Routed
  <2>3. listed \subseteq (listed \ rejected) \union rejected
    OBVIOUS
  <2>4. Accounts(said, listed, read)
    BY <2>1, <2>3, OneGroup
  <2>5. QED
    BY <1>1, <1>2, <2>2, <2>4
<1>12. CASE ~(strong = {} /\ weak = {}) /\ Cardinality(strong) > 1
  <2>1. PICK said : said = Says(strong, "ambiguous") \union Says(rejected, "rejected")
    OBVIOUS
  <2>2. Routed = Verdict("ASK_AMBIGUOUS_DOMAIN", 0, said)
    BY <1>2, <1>12, <2>1 DEF Routed
  <2>3. strong # {}
    BY <1>12, FS_EmptySet
  <2>4. \A n \in listed : n \in strong \/ n \in rejected \/ \A m \in strong : score[m] > score[n]
    BY <1>6, <1>7
  <2>5. \A n \in listed : n \in strong \/ n \in rejected \/ \A m \in strong : FitScore(read[m]) > FitScore(read[n])
    BY <1>6, <1>7, <2>4
  <2>6. Accounts(said, listed, read)
    BY <1>8, <2>1, <2>3, <2>5, TwoGroups
  <2>7. QED
    BY <1>1, <1>2, <2>2, <2>6
<1>13. CASE ~(strong = {} /\ weak = {}) /\ Cardinality(strong) = 1
  <2>1. PICK said : said = (Says(strong, "strong_match") \union Says(weak, "weak_match")) \union Says(rejected, "rejected")
    OBVIOUS
  <2>2. PICK load : strong = {load}
    BY <1>9, <1>13, FS_Singleton
  <2>3. load \in Ident /\ load = CHOOSE n \in strong : TRUE
    BY <1>3, <1>7, <2>2
  <2>4. Routed = Verdict("policy", load, said)
    BY <1>2, <1>13, <2>1, <2>3 DEF Routed
  <2>5. \A n \in listed : n \in strong \/ n \in weak \/ n \in rejected \/ \A m \in strong : score[m] > score[n]
    BY <1>6, <1>7, <1>8
  <2>6. \A n \in listed : n \in strong \/ n \in weak \/ n \in rejected \/ \A m \in strong : FitScore(read[m]) > FitScore(read[n])
    BY <1>6, <1>7, <2>5
  <2>7. strong # {}
    BY <2>2
  <2>8. Accounts(said, listed, read)
    BY <1>8, <2>1, <2>6, <2>7, ThreeGroups
  <2>9. QED
    BY <1>1, <1>2, <2>2, <2>3, <2>4, <2>8
<1>14. CASE ~(strong = {} /\ weak = {}) /\ ~(Cardinality(strong) > 1) /\ Cardinality(strong) # 1
  <2>1. PICK said : said = Says(weak, "weak_match") \union Says(rejected, "rejected")
    OBVIOUS
  <2>2. Routed = Verdict("SKIP_WEAK_FIT", 0, said)
    BY <1>2, <1>14, <2>1 DEF Routed
  <2>3. Cardinality(strong) = 0
    BY <1>10, <1>14
  <2>4. strong = {} /\ weak # {}
    BY <1>9, <1>14, <2>3, FS_EmptySet
  <2>5. \A n \in listed : n \in weak \/ n \in rejected \/ \A m \in weak : score[m] > score[n]
    BY <1>6, <1>7, <1>8, <2>4
  <2>6. \A n \in listed : n \in weak \/ n \in rejected \/ \A m \in weak : FitScore(read[m]) > FitScore(read[n])
    BY <1>6, <1>7, <2>5
  <2>7. Accounts(said, listed, read)
    BY <1>8, <2>1, <2>4, <2>6, TwoGroups
  <2>8. QED
    BY <1>1, <1>2, <2>2, <2>7
<1>15. QED
  BY <1>11, <1>12, <1>13, <1>14

\* A list cut short begins the list.
LEMMA CutIs ==
  ASSUME NEW S, NEW s \in Seq(S), NEW limit \in Int
  PROVE  IsPrefix(Cut(s, limit), s)
<1>1. PICK k \in Nat : k = Len(s)
  OBVIOUS
<1>2. PICK last \in Int : last = IF limit = 0 THEN 3 ELSE IF limit < 0 THEN k + limit ELSE limit
  BY <1>1
<1>3. PICK n \in Int : n = (IF last < k THEN last ELSE k) /\ n <= k
  BY <1>1, <1>2
<1>4. Cut(s, limit) = SubSeq(s, 1, n)
  BY <1>1, <1>2, <1>3 DEF Cut
<1>5. CASE n < 1
  <2>1. SubSeq(s, 1, n) = << >>
    BY <1>3, <1>5
  <2>2. SubSeq(s, 1, 0) = << >> /\ SubSeq(<< >>, 1, 0) = << >> /\ Len(<< >>) = 0 /\ 0 <= k
    BY <1>1
  <2>3. PICK r : r = Cut(s, limit) /\ r = << >>
    BY <1>4, <2>1
  <2>4. IsPrefix(r, s)
    BY <1>1, <2>2, <2>3 DEF IsPrefix
  <2>5. QED
    BY <2>3, <2>4
<1>6. CASE n >= 1
  <2>1. PICK r : r = SubSeq(s, 1, n)
    OBVIOUS
  <2>2. r \in Seq(S) /\ Len(r) = n
    BY <1>1, <1>3, <1>6, <2>1
  <2>3. SubSeq(r, 1, n) = r
    BY <2>2
  <2>4. QED
    BY <1>1, <1>3, <1>4, <2>1, <2>2, <2>3 DEF IsPrefix
<1>7. QED
  BY <1>3, <1>5, <1>6

\* The files there are, and what has not been read, are assets.
AllSort(a) ==
  /\ a \in Sorts /\ [a EXCEPT !.yanked = TRUE] \in Sorts /\ [a EXCEPT !.loadable = FALSE] \in Sorts
  /\ [a EXCEPT !.loadable = FALSE, !.legible = FALSE] \in Sorts /\ [a EXCEPT !.legible = FALSE, !.loadable = FALSE] \in Sorts

\* The asset of three counts, and what it becomes when a flag is turned.
LEMMA PlainSorts ==
  ASSUME NEW against \in Nat, NEW fit \in Nat, NEW relevance \in Int, fit < 2 \/ relevance >= 0
  PROVE  AllSort(Plain(against, fit, relevance))
<1>1. PICK a : a = Plain(against, fit, relevance)
  OBVIOUS
<1>2. a \in Sorts
  BY <1>1 DEF Sorts, Plain
<1>3. [a EXCEPT !.yanked = TRUE] \in Sorts /\ [a EXCEPT !.loadable = FALSE] \in Sorts
  BY <1>2 DEF Sorts
<1>4. [a EXCEPT !.loadable = FALSE, !.legible = FALSE] \in Sorts
  BY <1>2 DEF Sorts
<1>5. [a EXCEPT !.legible = FALSE, !.loadable = FALSE] \in Sorts
  BY <1>2 DEF Sorts
<1>6. QED
  BY <1>1, <1>2, <1>3, <1>4, <1>5, Zenon DEF AllSort

\* All that may lie on the shelf, or be read, is an asset.
LEMMA AssetsSort == Assets \union {Gone, Unread} \subseteq Sorts
<1>1. AllSort(Plain(0, 0, 0)) /\ AllSort(Plain(0, 0, 4)) /\ AllSort(Plain(0, 0, 6)) /\ AllSort(Plain(0, 1, 2))
  BY PlainSorts
<1>2. AllSort(Plain(1, 2, 0)) /\ AllSort(Plain(2, 2, 0)) /\ AllSort(Plain(0, 2, 0))
  BY PlainSorts
<1>3. AllSort(Plain(0, 0, -1)) /\ AllSort(Plain(0, 0, -2))
  BY PlainSorts
<1>4. QED
  BY <1>1, <1>2, <1>3, Zenon DEF Assets, Gone, Unread, AllSort

\* A verdict that names nobody and judges nothing agrees with everything, and so does one that only accounts for all.
Unspoken == verdict.status \notin {"LOAD_STRONG_FIT", "told", "judged"} /\ verdict.candidates = {}

\* It agrees with everything.
LEMMA Unsaid == Unspoken => DiscoveryAgrees
BY DEF Unspoken, DiscoveryAgrees, LoadsTheOnlyFit, RouteAccountsForAll, CommandsAgree, JudgedOnce

\* A verdict that accounts for all.
Accounting == verdict.status \notin {"LOAD_STRONG_FIT", "told", "judged"} /\ Accounts(verdict.candidates, Listed, asked.read)

\* It agrees, when it names nobody to load.
LEMMA Accounted == Accounting => DiscoveryAgrees
BY DEF Accounting, Accounts, DiscoveryAgrees, LoadsTheOnlyFit, RouteAccountsForAll, CommandsAgree, JudgedOnce

\* The fields of a verdict.
LEMMA VerdictIs ==
  ASSUME NEW status, NEW load, NEW candidates, NEW v, v = Verdict(status, load, candidates)
  PROVE  /\ v.status = status /\ v.load = load /\ v.candidates = candidates
         /\ v.hints = {} /\ v.dropped = {} /\ v.ranking = <<>>
BY DEF Verdict

\* Before a command there is nothing to agree with.
LEMMA DiscoveryStart == DiscoveryInit => DiscoveryKnows
<1>1. SUFFICES ASSUME DiscoveryInit PROVE DiscoveryKnows
  OBVIOUS
<1>2. verdict = Verdict("none", 0, {})
  BY <1>1 DEF DiscoveryInit, NoVerdict
<1>3. DiscoveryAgrees
  BY <1>2, VerdictIs, Unsaid DEF Unspoken
<1>4. shelf \in [Ident -> [1..2 -> Sorts]]
  BY <1>1, AssetsSort DEF DiscoveryInit
<1>5. active \in [Ident -> 0..2]
  BY <1>1 DEF DiscoveryInit
<1>6. output \in Outputs
  BY <1>1 DEF DiscoveryInit, EmptyOutput, Outputs
<1>7. asked \in [verb : {"none", "available", "match", "select", "route", "postvalidate"}, listed : [Ident -> 0..2],
                 read : [Ident -> Sorts], step : {"idle", "read", "policy", "done"}, limit : Int, quiet : BOOLEAN]
  BY <1>1, AssetsSort DEF DiscoveryInit, NotAsking, Asking
<1>8. asked.step = "idle"
  BY <1>1 DEF DiscoveryInit, NotAsking, Asking
<1>9. QED
  BY <1>1, <1>3, <1>4, <1>5, <1>6, <1>7, <1>8 DEF DiscoveryKnows, DiscoveryTyped, DiscoveryInit

\* An ended command leaves only its verdict to agree with.
LEMMA CommandEnds ==
  ASSUME DiscoveryTyped', DiscoveryAgrees', asked'.step = "done"
  PROVE  DiscoveryKnows'
BY DEF DiscoveryKnows

\* A command begins with a listing of what is installed.
LEMMA AskKeeps ==
  ASSUME DiscoveryKnows, Ask
  PROVE  DiscoveryKnows'
<1>1. PICK verb \in {"available", "match", "select", "route"}, limit \in {-1, 0, 1}, needed \in BOOLEAN, settled \in BOOLEAN :
        /\ asked' = Asking(verb, active, limit, IF settled THEN "done" ELSE "read")
        /\ verdict' = IF ~settled THEN verdict
                      ELSE Verdict(IF needed THEN "SKIP_NO_LOCAL_DOMAIN" ELSE "SKIP_NO_JUDGMENT_NEEDED", 0, {})
  BY DEF Ask
<1>2. asked.step = "idle" /\ UNCHANGED <<shelf, active, output, changes>> /\ verdict = Verdict("none", 0, {})
  BY DEF Ask, NoVerdict
<1>3. shelf \in [Ident -> [1..2 -> Sorts]] /\ active \in [Ident -> 0..2] /\ output \in Outputs
  BY DEF DiscoveryKnows, DiscoveryTyped
<1>4. PICK unread \in [Ident -> Sorts] : unread = [n \in Ident |-> Unread]
  BY AssetsSort
<1>5. PICK step \in {"done", "read"} : step = IF settled THEN "done" ELSE "read"
  OBVIOUS
<1>6. asked' = [verb |-> verb, listed |-> active, read |-> unread, step |-> step, limit |-> limit, quiet |-> TRUE]
  BY <1>1, <1>4, <1>5 DEF Asking
<1>7. DiscoveryTyped' /\ asked'.step = step /\ asked'.listed = active /\ asked'.read = unread
  BY <1>2, <1>3, <1>4, <1>5, <1>6 DEF DiscoveryTyped
<1>8. CASE settled
  <2>1. PICK s \in {"SKIP_NO_LOCAL_DOMAIN", "SKIP_NO_JUDGMENT_NEEDED"} : verdict' = Verdict(s, 0, {})
    BY <1>1, <1>8
  <2>2. verdict'.status = s /\ verdict'.candidates = {}
    BY <2>1, VerdictIs
  <2>3. Unspoken'
    BY <2>2 DEF Unspoken
  <2>4. DiscoveryAgrees'
    BY <2>3, Unsaid, PTL
  <2>5. QED
    BY <1>5, <1>7, <1>8, <2>4, CommandEnds
<1>9. CASE ~settled
  <2>1. verdict' = Verdict("none", 0, {}) /\ step = "read"
    BY <1>1, <1>2, <1>5, <1>9
  <2>2. Unspoken'
    BY <2>1, VerdictIs DEF Unspoken
  <2>3. DiscoveryAgrees'
    BY <2>2, Unsaid, PTL
  <2>4. StillThere'
    <3>1. asked'.listed = active' /\ \A n \in Ident : asked'.read[n] = Unread
      BY <1>2, <1>4, <1>7
    <3>2. QED
      BY <3>1 DEF StillThere, Legibles, Listed
  <2>5. QED
    BY <1>7, <2>1, <2>3, <2>4 DEF DiscoveryKnows, NoVerdict
<1>10. QED
  BY <1>8, <1>9

\* Reading the next domain keeps what was read true.
LEMMA LookKeeps ==
  ASSUME DiscoveryKnows, Look
  PROVE  DiscoveryKnows'
<1>1. PICK n \in Listed \ Legibles :
        IF Unreadable(asked.verb, shelf[n][asked.listed[n]])
        THEN asked' = [asked EXCEPT !.step = "done"] /\ verdict' = Verdict("threw", 0, {})
        ELSE asked' = [asked EXCEPT !.read[n] = shelf[n][asked.listed[n]]] /\ verdict' = verdict
  BY DEF Look
<1>2. asked.step = "read" /\ UNCHANGED <<shelf, active, output, changes>>
  BY DEF Look
<1>3. DiscoveryTyped /\ verdict = Verdict("none", 0, {}) /\ StillThere
  BY <1>2 DEF DiscoveryKnows, NoVerdict
<1>4. n \in Ident /\ asked.listed[n] \in 1..2 /\ shelf[n][asked.listed[n]] \in Sorts
  BY <1>3 DEF Listed, DiscoveryTyped
<1>5. CASE Unreadable(asked.verb, shelf[n][asked.listed[n]])
  <2>1. asked' = [asked EXCEPT !.step = "done"] /\ verdict' = Verdict("threw", 0, {})
    BY <1>1, <1>5
  <2>2. Unspoken'
    BY <2>1, VerdictIs DEF Unspoken
  <2>3. DiscoveryAgrees'
    BY <2>2, Unsaid, PTL
  <2>4. DiscoveryTyped' /\ asked'.step = "done"
    BY <1>2, <1>3, <2>1 DEF DiscoveryTyped
  <2>5. QED
    BY <2>3, <2>4, CommandEnds
<1>6. CASE ~Unreadable(asked.verb, shelf[n][asked.listed[n]])
  <2>1. asked' = [asked EXCEPT !.read[n] = shelf[n][asked.listed[n]]] /\ verdict' = Verdict("none", 0, {})
    BY <1>1, <1>3, <1>6
  <2>2. Unspoken'
    BY <2>1, VerdictIs DEF Unspoken
  <2>3. DiscoveryAgrees'
    BY <2>2, Unsaid, PTL
  <2>4. PICK asset \in Sorts : asset = shelf[n][asked.listed[n]]
    BY <1>4
  <2>5. /\ asked'.read = [asked.read EXCEPT ![n] = asset] /\ asked'.step = "read" /\ asked'.listed = asked.listed
        /\ asked'.quiet = asked.quiet
    BY <1>2, <1>3, <2>1, <2>4 DEF DiscoveryTyped
  <2>6. DiscoveryTyped'
    BY <1>2, <1>3, <1>4, <2>1, <2>4 DEF DiscoveryTyped
  <2>7. StillThere'
    <3>1. SUFFICES ASSUME asked.quiet
                   PROVE  active' = asked'.listed /\ \A m \in Legibles' : asked'.read[m] = shelf'[m][asked'.listed[m]]
      BY <2>5 DEF StillThere
    <3>2. active = asked.listed /\ \A m \in Legibles : asked.read[m] = shelf[m][asked.listed[m]]
      BY <1>3, <3>1 DEF StillThere
    <3>3. ASSUME NEW m \in Legibles' PROVE m = n \/ (m \in Legibles /\ asked'.read[m] = asked.read[m])
      BY <1>3, <1>4, <2>5 DEF Legibles, Listed, DiscoveryTyped
    <3>4. asked'.read[n] = asset
      BY <1>3, <1>4, <2>5 DEF DiscoveryTyped
    <3>5. QED
      BY <1>2, <2>4, <2>5, <3>2, <3>3, <3>4
  <2>8. QED
    BY <2>1, <2>3, <2>5, <2>6, <2>7 DEF DiscoveryKnows, NoVerdict
<1>7. QED
  BY <1>5, <1>6

\* What a list is when nothing but the step of the command changes.
LEMMA OnlyTheStep ==
  ASSUME DiscoveryTyped, asked'.read = asked.read, asked'.listed = asked.listed
  PROVE  /\ Listed' = Listed /\ Legibles' = Legibles /\ Hints' = Hints /\ Ranking' = Ranking /\ DroppedDomains' = DroppedDomains
         /\ StrongFits' = StrongFits /\ Rejected' = Rejected
<1>1. Listed' = Listed
  BY DEF Listed
<1>2. Legibles' = Legibles
  BY <1>1 DEF Legibles
<1>3. Rejected' = Rejected
  BY <1>2 DEF Rejected
<1>4. DroppedDomains' = DroppedDomains
  BY <1>2 DEF DroppedDomains
<1>5. Hints' = Hints
  BY <1>2, <1>4 DEF Hints
<1>6. StrongFits' = StrongFits
  BY <1>2, <1>3 DEF StrongFits
<1>7. PICK S : S = {n \in Legibles \ Rejected : FitScore(asked.read[n]) > 0}
  OBVIOUS
<1>8. S = {n \in Legibles' \ Rejected' : FitScore(asked'.read[n]) > 0}
  BY <1>2, <1>3, <1>7
<1>9. Ranking = Ranked(asked.read, S) /\ Ranking' = Ranked(asked'.read, S)
  BY <1>7, <1>8, Zenon DEF Ranking
<1>10. QED
  BY <1>1, <1>2, <1>3, <1>4, <1>5, <1>6, <1>9

\* What select ranks.
Rankable == {n \in Legibles \ Rejected : FitScore(asked.read[n]) > 0}

\* The ranking holds everybody rankable, and first whom nobody is ahead of.
LEMMA RankingIs ==
  ASSUME DiscoveryTyped
  PROVE  /\ Ranking \in Seq(Rankable) /\ Rankable \in SUBSET Ident
         /\ \A n \in Rankable : n \in ToSet(Ranking)
         /\ \A n \in Rankable : Ahead(asked.read, Rankable, n) = {} => Len(Ranking) > 0 /\ Ranking[1] = n
<1>1. PICK S : S = Rankable
  OBVIOUS
<1>2. S \in SUBSET Ident
  BY <1>1 DEF Rankable, Legibles, Listed
<1>3. PICK read \in [Ident -> Sorts] : read = asked.read
  BY DEF DiscoveryTyped
<1>4. PICK ranked : ranked = Ranked(read, S)
  OBVIOUS
<1>5. ranked = Ranking
  BY <1>1, <1>3, <1>4 DEF Ranking, Rankable
<1>6. /\ ranked \in Seq(S) /\ Len(ranked) = Cardinality(S)
      /\ \A n \in S : \E i \in 1..Len(ranked) : ranked[i] = n
      /\ \A n \in S : Ahead(read, S, n) = {} => Len(ranked) > 0 /\ ranked[1] = n
  BY <1>2, <1>4, RankedIs, DiscoveryAssumption
<1>7. \A n \in S : n \in ToSet(ranked)
  BY <1>6 DEF ToSet
<1>8. QED
  BY <1>1, <1>2, <1>3, <1>5, <1>6, <1>7

\* What match hints at, select ranks or a boundary excludes.
LEMMA HintsAreRanked ==
  ASSUME DiscoveryTyped
  PROVE  /\ \A n \in Hints : n \in ToSet(Ranking) \/ Excluded(asked.read[n])
         /\ Hints \intersect DroppedDomains = {}
         /\ \A n \in Legibles : asked.read[n] = Gone => n \in DroppedDomains
<1>1. ASSUME NEW n \in Hints, ~Excluded(asked.read[n]) PROVE n \in ToSet(Ranking)
  <2>1. PICK a \in Sorts : a = asked.read[n]
    BY DEF Hints, Legibles, Listed, DiscoveryTyped
  <2>2. n \in Legibles /\ ~a.yanked /\ a.relevance >= 2
    BY <1>1, <2>1 DEF Hints, DroppedDomains
  <2>3. FitScore(a) > 0
    BY <2>2, Scores
  <2>4. n \in Rankable
    BY <1>1, <2>1, <2>2, <2>3 DEF Rankable, Rejected
  <2>5. QED
    BY <2>4, RankingIs
<1>2. Hints \intersect DroppedDomains = {}
  BY DEF Hints
<1>3. ASSUME NEW n \in Legibles, asked.read[n] = Gone PROVE n \in DroppedDomains
  BY <1>3 DEF DroppedDomains, Gone, Plain
<1>4. QED
  BY <1>1, <1>2, <1>3

\* A verdict that is told agrees when the commands do.
Telling == verdict.status = "told" /\ verdict.candidates = {} /\ CommandsAgree

\* And so the whole.
LEMMA Told == Telling => DiscoveryAgrees
BY DEF Telling, DiscoveryAgrees, LoadsTheOnlyFit, RouteAccountsForAll, JudgedOnce

\* The conclusion of a command is drawn from what it read.
LEMMA ConcludeKeeps ==
  ASSUME DiscoveryKnows, Conclude
  PROVE  DiscoveryKnows'
<1>1. /\ asked.step = "read" /\ Legibles = Listed /\ UNCHANGED <<shelf, active, output, changes>>
      /\ asked' = [asked EXCEPT !.step = IF verdict'.status = "policy" THEN "policy" ELSE "done"]
  BY DEF Conclude
<1>2. DiscoveryTyped /\ StillThere
  BY <1>1 DEF DiscoveryKnows
<1>3. PICK step \in {"policy", "done"} : step = IF verdict'.status = "policy" THEN "policy" ELSE "done"
  OBVIOUS
<1>4. asked' = [asked EXCEPT !.step = step]
  BY <1>1, <1>3
<1>5. /\ DiscoveryTyped' /\ asked'.step = step /\ asked'.read = asked.read /\ asked'.listed = asked.listed
      /\ asked'.verb = asked.verb /\ asked'.limit = asked.limit /\ asked'.quiet = asked.quiet
  BY <1>1, <1>2, <1>4 DEF DiscoveryTyped
<1>6. /\ Listed' = Listed /\ Legibles' = Legibles /\ Hints' = Hints /\ Ranking' = Ranking /\ DroppedDomains' = DroppedDomains
      /\ StrongFits' = StrongFits
  BY <1>2, <1>5, OnlyTheStep
<1>7. PICK none : none = NoVerdict /\ none = Verdict("none", 0, {})
  BY DEF NoVerdict
<1>8. none = [status |-> "none", load |-> 0, checked |-> Gone, candidates |-> {}, ranking |-> <<>>, hints |-> {}, dropped |-> {},
              exit |-> -1, trace |-> "none"]
  BY <1>7 DEF Verdict
<1>9. ASSUME verdict'.status = "told", verdict'.candidates = {}, CommandsAgree' PROVE DiscoveryKnows'
  <2>1. Telling'
    BY <1>9 DEF Telling
  <2>2. DiscoveryAgrees'
    BY <2>1, Told, PTL
  <2>3. step = "done"
    BY <1>3, <1>9
  <2>4. QED
    BY <1>5, <2>2, <2>3, CommandEnds
<1>10. /\ \A n \in Hints : n \in ToSet(Ranking) \/ Excluded(asked.read[n])
       /\ Hints \intersect DroppedDomains = {}
       /\ \A n \in Listed : asked.read[n] = Gone => n \in DroppedDomains
  BY <1>1, <1>2, HintsAreRanked
<1>11. CASE asked.verb = "available"
  <2>1. PICK hints : hints = {n \in Legibles : ~asked.read[n].yanked}
    OBVIOUS
  <2>2. verdict' = [none EXCEPT !.status = "told", !.hints = hints]
    BY <1>7, <1>11, <2>1 DEF Conclude
  <2>3. verdict'.status = "told" /\ verdict'.candidates = {}
    BY <1>8, <2>2
  <2>4. CommandsAgree'
    BY <1>5, <1>11 DEF CommandsAgree
  <2>5. QED
    BY <1>9, <2>3, <2>4
<1>12. CASE asked.verb = "match"
  <2>1. PICK hints, dropped : hints = Hints /\ dropped = DroppedDomains
    OBVIOUS
  <2>2. verdict' = [none EXCEPT !.status = "told", !.hints = hints, !.dropped = dropped]
    BY <1>7, <1>12, <2>1 DEF Conclude
  <2>3. /\ verdict'.status = "told" /\ verdict'.candidates = {} /\ verdict'.hints = hints /\ verdict'.dropped = dropped
        /\ verdict'.ranking = <<>>
    BY <1>8, <2>2
  <2>4. IsPrefix(verdict'.ranking, Ranking)
    <3>1. PICK r : r = Ranking /\ r \in Seq(Rankable)
      BY <1>2, RankingIs
    <3>2. SubSeq(r, 1, 0) = << >> /\ SubSeq(<< >>, 1, 0) = << >> /\ Len(<< >>) = 0 /\ 0 <= Len(r)
      BY <3>1
    <3>3. IsPrefix(<<>>, r)
      BY <3>2 DEF IsPrefix
    <3>4. QED
      BY <2>3, <3>1, <3>3
  <2>5. CommandsAgree'
    BY <1>5, <1>6, <1>10, <2>1, <2>3, <2>4 DEF CommandsAgree
  <2>6. QED
    BY <1>9, <2>3, <2>5
<1>13. CASE asked.verb = "select"
  <2>1. PICK ranking : ranking = Cut(Ranking, asked.limit)
    OBVIOUS
  <2>2. verdict' = [none EXCEPT !.status = "told", !.ranking = ranking]
    BY <1>7, <1>13, <2>1 DEF Conclude
  <2>3. /\ verdict'.status = "told" /\ verdict'.candidates = {} /\ verdict'.hints = {} /\ verdict'.dropped = {}
        /\ verdict'.ranking = ranking
    BY <1>8, <2>2
  <2>4. IsPrefix(ranking, Ranking)
    <3>1. asked.limit \in Int
      BY <1>2 DEF DiscoveryTyped
    <3>2. Ranking \in Seq(Rankable)
      BY <1>2, RankingIs
    <3>3. QED
      BY <2>1, <3>1, <3>2, CutIs
  <2>5. CommandsAgree'
    BY <1>5, <1>6, <1>10, <1>13, <2>3, <2>4 DEF CommandsAgree
  <2>6. QED
    BY <1>9, <2>3, <2>5
<1>14. CASE asked.verb \notin {"available", "match", "select"}
  <2>1. verdict' = Routed
    BY <1>14 DEF Conclude
  <2>2. CASE \E load \in Ident : \E said : Routed = Verdict("policy", load, said) /\ StrongFits = {load} /\ Accounts(said, Listed, asked.read)
    <3>1. PICK load \in Ident : \E said : Routed = Verdict("policy", load, said) /\ StrongFits = {load} /\ Accounts(said, Listed, asked.read)
      BY <2>2
    <3>2. PICK said : Routed = Verdict("policy", load, said) /\ StrongFits = {load} /\ Accounts(said, Listed, asked.read)
      BY <3>1
    <3>3. verdict' = Verdict("policy", load, said) /\ verdict'.status = "policy" /\ verdict'.candidates = said
      BY <2>1, <3>2, VerdictIs
    <3>4. Accounting'
      BY <1>5, <1>6, <3>2, <3>3 DEF Accounting
    <3>5. DiscoveryAgrees'
      BY <3>4, Accounted, PTL
    <3>6. step = "policy"
      BY <1>3, <3>3
    <3>7. StillThere'
      BY <1>1, <1>2, <1>5, <1>6 DEF StillThere
    <3>8. Legibles' = Listed' /\ StrongFits' = {load}
      BY <1>1, <1>6, <3>2
    <3>9. QED
      BY <1>5, <3>3, <3>5, <3>6, <3>7, <3>8 DEF DiscoveryKnows
  <2>3. CASE \E s \in {"SKIP_NO_LOCAL_DOMAIN", "ASK_AMBIGUOUS_DOMAIN", "SKIP_WEAK_FIT"} : \E said :
               Routed = Verdict(s, 0, said) /\ Accounts(said, Listed, asked.read)
    <3>1. PICK s \in {"SKIP_NO_LOCAL_DOMAIN", "ASK_AMBIGUOUS_DOMAIN", "SKIP_WEAK_FIT"} : \E said :
                 Routed = Verdict(s, 0, said) /\ Accounts(said, Listed, asked.read)
      BY <2>3
    <3>2. PICK said : Routed = Verdict(s, 0, said) /\ Accounts(said, Listed, asked.read)
      BY <3>1
    <3>3. verdict'.status = s /\ verdict'.candidates = said
      BY <2>1, <3>2, VerdictIs
    <3>4. Accounting'
      BY <1>5, <1>6, <3>2, <3>3 DEF Accounting
    <3>5. DiscoveryAgrees'
      BY <3>4, Accounted, PTL
    <3>6. step = "done"
      BY <1>3, <3>3
    <3>7. QED
      BY <1>5, <3>5, <3>6, CommandEnds
  <2>4. QED
    BY <1>1, <1>2, <2>2, <2>3, RoutedIs
<1>15. QED
  BY <1>11, <1>12, <1>13, <1>14

\* The one strong fit is the only domain that fits by its words, and ranks first.
LEMMA TheOnlyFit ==
  ASSUME DiscoveryTyped, Legibles = Listed, NEW load, StrongFits = {load}
  PROVE  /\ {n \in Listed : FitsByWords(asked.read[n])} = {load}
         /\ Head(Ranking) = load /\ load \in Listed
<1>1. PICK read \in [Ident -> Sorts] : read = asked.read
  BY DEF DiscoveryTyped
<1>2. Listed \in SUBSET Ident
  BY DEF Listed
<1>3. PICK score : score = [n \in Ident |-> FitScore(read[n])]
  OBVIOUS
<1>4. \A n \in Ident : score[n] \in Int /\ (score[n] >= 6 <=> read[n].fit >= 2 \/ read[n].relevance >= 6)
  BY <1>3, Scores
<1>5. \A n \in Listed : n \in StrongFits <=> n \notin Rejected /\ score[n] >= 6
  BY <1>1, <1>2, <1>3 DEF StrongFits
<1>6. \A n \in Listed : n \in Rejected <=> read[n].yanked \/ read[n].against >= 2
  BY <1>1 DEF Rejected, Excluded
<1>7. \A n \in Listed : read[n] \in Sorts /\ read[n].against \in Nat
  BY <1>2 DEF Sorts
<1>8. \A n \in Listed : FitsByWords(read[n]) <=> n \in StrongFits
  BY <1>2, <1>4, <1>5, <1>6, <1>7 DEF FitsByWords
<1>9. load \in Listed
  BY DEF StrongFits
<1>10. {n \in Listed : FitsByWords(asked.read[n])} = {load}
  BY <1>1, <1>8, <1>9
<1>11. \A n \in Rankable : n \in Listed /\ n \notin Rejected
  BY DEF Rankable
<1>12. score[load] >= 6 /\ load \notin Rejected
  BY <1>5, <1>9
<1>13. load \in Rankable
  BY <1>1, <1>2, <1>3, <1>4, <1>9, <1>12 DEF Rankable
<1>14. \A n \in Rankable : n # load => score[n] < score[load]
  BY <1>2, <1>4, <1>5, <1>9, <1>11, <1>12
<1>15. Ahead(asked.read, Rankable, load) = {}
  <2>1. \A n \in Rankable : n \in Ident
    BY <1>2, <1>11
  <2>2. ASSUME NEW n \in Ahead(asked.read, Rankable, load) PROVE FALSE
    <3>1. n \in Rankable /\ (score[n] > score[load] \/ (score[n] = score[load] /\ n < load))
      BY <1>1, <1>2, <1>3, <1>9, <2>1, <2>2 DEF Ahead
    <3>2. n # load
      BY <1>2, <1>4, <1>9, <3>1 DEF Ident
    <3>3. QED
      BY <1>2, <1>4, <1>9, <1>14, <2>1, <3>1, <3>2
  <2>3. QED
    BY <2>2
<1>16. QED
  BY <1>9, <1>10, <1>13, <1>15, RankingIs

\* The policy looks at the domain again.
LEMMA CheckTrustKeeps ==
  ASSUME DiscoveryKnows, CheckTrust
  PROVE  DiscoveryKnows'
<1>1. asked.step = "policy" /\ UNCHANGED <<shelf, active, output, changes>> /\ asked' = [asked EXCEPT !.step = "done"]
  BY DEF CheckTrust
<1>2. DiscoveryTyped /\ StillThere /\ Legibles = Listed /\ RouteAccountsForAll
  BY <1>1 DEF DiscoveryKnows, DiscoveryAgrees
<1>3. PICK load \in Ident : \E said : verdict = Verdict("policy", load, said) /\ StrongFits = {load}
  BY <1>1 DEF DiscoveryKnows
<1>4. PICK said : verdict = Verdict("policy", load, said) /\ StrongFits = {load}
  BY <1>3
<1>5. verdict.load = load /\ verdict.candidates = said
  BY <1>4, VerdictIs
<1>6. /\ DiscoveryTyped' /\ asked'.step = "done" /\ asked'.read = asked.read /\ asked'.listed = asked.listed
      /\ asked'.verb = asked.verb /\ asked'.quiet = asked.quiet
  BY <1>1, <1>2 DEF DiscoveryTyped
<1>7. Listed' = Listed /\ Ranking' = Ranking
  BY <1>2, <1>6, OnlyTheStep
<1>8. said # {} => Accounts(said, Listed, asked.read)
  BY <1>2, <1>5 DEF RouteAccountsForAll, Accounts
<1>9. PICK seen : seen = Installed(load)
  OBVIOUS
<1>10. verdict' = IF active[load] # 0 /\ ~seen.legible THEN Verdict("threw", 0, {})
                  ELSE IF Trusted(load) THEN [verdict EXCEPT !.status = "LOAD_STRONG_FIT", !.checked = seen]
                  ELSE [verdict EXCEPT !.status = "BLOCK_POLICY_FAILED", !.load = 0]
  BY <1>5, <1>9 DEF CheckTrust
<1>11. verdict = [status |-> "policy", load |-> load, checked |-> Gone, candidates |-> said, ranking |-> <<>>, hints |-> {},
                  dropped |-> {}, exit |-> -1, trace |-> "none"]
  BY <1>4 DEF Verdict
<1>12. CASE active[load] # 0 /\ ~seen.legible
  <2>1. verdict' = Verdict("threw", 0, {})
    BY <1>10, <1>12
  <2>2. Unspoken'
    BY <2>1, VerdictIs DEF Unspoken
  <2>3. DiscoveryAgrees'
    BY <2>2, Unsaid, PTL
  <2>4. QED
    BY <1>6, <2>3, CommandEnds
<1>13. CASE ~(active[load] # 0 /\ ~seen.legible) /\ Trusted(load)
  <2>1. verdict' = [verdict EXCEPT !.status = "LOAD_STRONG_FIT", !.checked = seen]
    BY <1>10, <1>13
  <2>2. /\ verdict'.status = "LOAD_STRONG_FIT" /\ verdict'.load = load /\ verdict'.checked = seen /\ verdict'.candidates = said
    BY <1>11, <2>1
  <2>3. {n \in Listed : FitsByWords(asked.read[n])} = {load} /\ Head(Ranking) = load /\ load \in Listed
    BY <1>2, <1>4, TheOnlyFit
  <2>4. active[load] # 0 /\ ~seen.yanked
    BY <1>9, <1>13 DEF Trusted
  <2>5. ASSUME asked.quiet PROVE seen = asked.read[load]
    <3>1. active = asked.listed /\ asked.read[load] = shelf[load][asked.listed[load]]
      BY <1>2, <2>3, <2>5 DEF StillThere
    <3>2. QED
      BY <1>9, <2>4, <3>1 DEF Installed
  <2>6. {n \in Listed' : FitsByWords(asked'.read[n])} = {load}
    BY <1>6, <1>7, <2>3
  <2>7. load \in DroppedDomains' => ~asked'.read[load].loadable
    <3>1. ~asked'.read[load].yanked
      BY <2>6 DEF FitsByWords
    <3>2. QED
      BY <3>1 DEF DroppedDomains
  <2>8. LoadsTheOnlyFit'
    BY <1>6, <1>7, <2>2, <2>3, <2>4, <2>5, <2>6, <2>7 DEF LoadsTheOnlyFit
  <2>9. RouteAccountsForAll'
    BY <1>6, <1>7, <1>8, <2>2 DEF RouteAccountsForAll, Accounts
  <2>10. CommandsAgree' /\ JudgedOnce'
    BY <2>2 DEF CommandsAgree, JudgedOnce
  <2>11. QED
    BY <1>6, <2>8, <2>9, <2>10, CommandEnds DEF DiscoveryAgrees
<1>14. CASE ~(active[load] # 0 /\ ~seen.legible) /\ ~Trusted(load)
  <2>1. verdict' = [verdict EXCEPT !.status = "BLOCK_POLICY_FAILED", !.load = 0]
    BY <1>10, <1>14
  <2>2. verdict'.status = "BLOCK_POLICY_FAILED" /\ verdict'.candidates = said
    BY <1>11, <2>1
  <2>3. CASE said = {}
    <3>1. Unspoken'
      BY <2>2, <2>3 DEF Unspoken
    <3>2. DiscoveryAgrees'
      BY <3>1, Unsaid, PTL
    <3>3. QED
      BY <1>6, <3>2, CommandEnds
  <2>4. CASE said # {}
    <3>1. Accounting'
      BY <1>6, <1>7, <1>8, <2>2, <2>4 DEF Accounting
    <3>2. DiscoveryAgrees'
      BY <3>1, Accounted, PTL
    <3>3. QED
      BY <1>6, <3>2, CommandEnds
  <2>5. QED
    BY <2>3, <2>4
<1>15. QED
  BY <1>12, <1>13, <1>14

\* Judging an output tells each thing once.
LEMMA PostvalidateKeeps ==
  ASSUME DiscoveryKnows, Postvalidate
  PROVE  DiscoveryKnows'
<1>1. /\ asked.step = "idle" /\ UNCHANGED <<shelf, active, changes>> /\ asked' = [asked EXCEPT !.verb = "postvalidate", !.step = "done"]
      /\ output' \in Outputs /\ output'.used <= output'.terms
  BY DEF Postvalidate
<1>2. DiscoveryTyped
  BY DEF DiscoveryKnows
<1>3. DiscoveryTyped' /\ asked'.step = "done" /\ asked'.verb = "postvalidate"
  BY <1>1, <1>2 DEF DiscoveryTyped
<1>4. PICK none : none = NoVerdict /\ none = Verdict("none", 0, {})
  BY DEF NoVerdict
<1>5. none = [status |-> "none", load |-> 0, checked |-> Gone, candidates |-> {}, ranking |-> <<>>, hints |-> {}, dropped |-> {},
              exit |-> -1, trace |-> "none"]
  BY <1>4 DEF Verdict
<1>6. PICK n \in Ident, written \in BOOLEAN :
        IF active[n] = 0 \/ ~Installed(n).legible
        THEN verdict' = [none EXCEPT !.status = IF active[n] = 0 THEN "refused" ELSE "threw",
                                     !.exit = IF active[n] = 0 THEN 2 ELSE 1]
        ELSE verdict' = [none EXCEPT !.status = "judged", !.exit = IF Violations(output') > 0 THEN 1 ELSE 0,
                                     !.trace = IF ~written THEN "none"
                                               ELSE IF Violations(output') > 0 THEN "fail" ELSE "pass"]
  BY <1>4 DEF Postvalidate
<1>7. CASE active[n] = 0 \/ ~Installed(n).legible
  <2>1. PICK s \in {"refused", "threw"}, exit \in {1, 2} : verdict' = [none EXCEPT !.status = s, !.exit = exit]
    BY <1>6, <1>7
  <2>2. Unspoken'
    BY <1>5, <2>1 DEF Unspoken
  <2>3. DiscoveryAgrees'
    BY <2>2, Unsaid, PTL
  <2>4. QED
    BY <1>3, <2>3, CommandEnds
<1>8. CASE ~(active[n] = 0 \/ ~Installed(n).legible)
  <2>1. PICK exit : exit = IF Violations(output') > 0 THEN 1 ELSE 0
    BY Zenon
  <2>2. PICK mark : mark = IF ~written THEN "none" ELSE IF Violations(output') > 0 THEN "fail" ELSE "pass"
    BY Zenon
  <2>3. verdict' = [none EXCEPT !.status = "judged", !.exit = exit, !.trace = mark]
    BY <1>6, <1>8, <2>1, <2>2
  <2>4. verdict'.status = "judged" /\ verdict'.exit = exit /\ verdict'.trace = mark /\ verdict'.candidates = {}
    BY <1>5, <2>3
  <2>5. PICK o \in Outputs : o = output' /\ o.used <= o.terms
    BY <1>1
  <2>6. Violations(o) > 0 <=> o.used > 0 \/ o.outside > 0
    BY DEF Violations, Outputs
  <2>7. Violations(o) + Warnings(o) + Passes(o) = o.terms + 1 + (IF o.checks = "none" THEN 0 ELSE 1) + 1 + o.risks
    BY DEF Violations, Warnings, Passes, Outputs
  <2>8. (exit = 1) = (o.used > 0 \/ o.outside > 0) /\ (mark # "none" => (mark = "fail") = (exit = 1))
    <3>1. exit = IF Violations(o) > 0 THEN 1 ELSE 0
      BY <2>1, <2>5, Zenon
    <3>2. mark = IF ~written THEN "none" ELSE IF Violations(o) > 0 THEN "fail" ELSE "pass"
      BY <2>2, <2>5, Zenon
    <3>3. QED
      BY <2>6, <3>1, <3>2
  <2>9. JudgedOnce'
    BY <2>4, <2>5, <2>7, <2>8 DEF JudgedOnce
  <2>10. LoadsTheOnlyFit' /\ RouteAccountsForAll' /\ CommandsAgree'
    BY <1>3, <2>4 DEF LoadsTheOnlyFit, RouteAccountsForAll, CommandsAgree
  <2>11. QED
    BY <1>3, <2>9, <2>10, CommandEnds DEF DiscoveryAgrees
<1>9. QED
  BY <1>7, <1>8

\* What another process installs or removes does not touch what was read.
LEMMA StoreChangesKeeps ==
  ASSUME DiscoveryKnows, StoreChanges
  PROVE  DiscoveryKnows'
<1>1. /\ asked.verb \notin {"none", "postvalidate"} /\ asked.step # "done" /\ UNCHANGED <<verdict, output>>
      /\ asked' = [asked EXCEPT !.quiet = FALSE]
  BY DEF StoreChanges
<1>2. DiscoveryTyped
  BY DEF DiscoveryKnows
<1>3. PICK n \in Ident :
        \/ \E asset \in Assets, v \in 1..2 :
             /\ v = active[n] + 1 /\ shelf' = [shelf EXCEPT ![n][v] = asset] /\ active' = [active EXCEPT ![n] = v]
        \/ active[n] # 0 /\ active' = [active EXCEPT ![n] = 0] /\ shelf' = [shelf EXCEPT ![n] = [v \in 1..2 |-> Gone]]
  BY DEF StoreChanges
<1>4. shelf' \in [Ident -> [1..2 -> Sorts]] /\ active' \in [Ident -> 0..2]
  <2>1. shelf \in [Ident -> [1..2 -> Sorts]] /\ active \in [Ident -> 0..2]
    BY <1>2 DEF DiscoveryTyped
  <2>2. CASE \E asset \in Assets, v \in 1..2 :
               /\ v = active[n] + 1 /\ shelf' = [shelf EXCEPT ![n][v] = asset] /\ active' = [active EXCEPT ![n] = v]
    BY <2>1, <2>2, AssetsSort
  <2>3. CASE active[n] # 0 /\ active' = [active EXCEPT ![n] = 0] /\ shelf' = [shelf EXCEPT ![n] = [v \in 1..2 |-> Gone]]
    BY <2>1, <2>3, AssetsSort
  <2>4. QED
    BY <1>3, <2>2, <2>3
<1>5. /\ DiscoveryTyped' /\ asked'.step = asked.step /\ asked'.read = asked.read /\ asked'.listed = asked.listed
      /\ asked'.verb = asked.verb /\ asked'.quiet = FALSE
  BY <1>1, <1>2, <1>4 DEF DiscoveryTyped
<1>6. Listed' = Listed /\ Legibles' = Legibles /\ StrongFits' = StrongFits
  BY <1>2, <1>5, OnlyTheStep
<1>7. StillThere'
  BY <1>5 DEF StillThere
<1>8. CASE asked.step = "policy"
  <2>1. Legibles = Listed /\ RouteAccountsForAll
    BY <1>8 DEF DiscoveryKnows, DiscoveryAgrees
  <2>2. PICK load \in Ident : \E said : verdict = Verdict("policy", load, said) /\ StrongFits = {load}
    BY <1>8 DEF DiscoveryKnows
  <2>3. PICK said : verdict = Verdict("policy", load, said) /\ StrongFits = {load}
    BY <2>2
  <2>4. verdict'.status = "policy" /\ verdict' = verdict
    BY <1>1, <2>3, VerdictIs
  <2>5. LoadsTheOnlyFit' /\ CommandsAgree' /\ JudgedOnce'
    BY <2>4 DEF LoadsTheOnlyFit, CommandsAgree, JudgedOnce
  <2>6. RouteAccountsForAll'
    BY <1>5, <1>6, <2>1, <2>4 DEF RouteAccountsForAll
  <2>7. QED
    BY <1>5, <1>6, <1>7, <1>8, <2>1, <2>3, <2>4, <2>5, <2>6 DEF DiscoveryKnows, DiscoveryAgrees
<1>9. CASE asked.step # "policy"
  <2>1. asked.step \in {"idle", "read"}
    BY <1>1, <1>2, <1>9 DEF DiscoveryTyped
  <2>2. verdict' = NoVerdict
    BY <1>1, <2>1 DEF DiscoveryKnows
  <2>3. Unspoken'
    BY <2>2, VerdictIs DEF Unspoken, NoVerdict
  <2>4. DiscoveryAgrees'
    BY <2>3, Unsaid, PTL
  <2>5. QED
    BY <1>5, <1>7, <1>9, <2>2, <2>4 DEF DiscoveryKnows
<1>10. QED
  BY <1>8, <1>9

\* Every step keeps what is known of a discovery.
LEMMA DiscoveryStep ==
  ASSUME DiscoveryKnows, DiscoveryNext \/ UNCHANGED discoveryVars
  PROVE  DiscoveryKnows'
<1>1. CASE UNCHANGED discoveryVars
  <2>1. /\ shelf' = shelf /\ active' = active /\ asked' = asked /\ verdict' = verdict /\ output' = output
    BY <1>1 DEF discoveryVars
  <2>2. /\ Listed' = Listed /\ Legibles' = Legibles /\ Hints' = Hints /\ Ranking' = Ranking /\ StrongFits' = StrongFits
    BY <2>1, OnlyTheStep DEF DiscoveryKnows
  <2>3. DroppedDomains' = DroppedDomains
    BY <2>1, <2>2 DEF DroppedDomains
  <2>4. DiscoveryTyped' /\ (asked.step \in {"idle", "read"} => verdict = NoVerdict)
    BY <2>1 DEF DiscoveryKnows, DiscoveryTyped
  <2>5. asked.step \in {"read", "policy"} => StillThere'
    BY <2>1, <2>2 DEF DiscoveryKnows, StillThere
  <2>6. DiscoveryAgrees'
    BY <2>1, <2>2, <2>3 DEF DiscoveryKnows, DiscoveryAgrees, LoadsTheOnlyFit, RouteAccountsForAll, CommandsAgree, JudgedOnce
  <2>7. asked.step = "policy" =>
          Legibles = Listed /\ \E load \in Ident : \E said : verdict = Verdict("policy", load, said) /\ StrongFits = {load}
    BY DEF DiscoveryKnows
  <2>8. QED
    BY <2>1, <2>2, <2>4, <2>5, <2>6, <2>7 DEF DiscoveryKnows
<1>2. CASE DiscoveryNext
  BY <1>2, AskKeeps, LookKeeps, ConcludeKeeps, CheckTrustKeeps, PostvalidateKeeps, StoreChangesKeeps DEF DiscoveryNext
<1>3. QED
  BY <1>1, <1>2

--------------------------------------------------------------------------------
(* TraceLog: what a page holds in order, a reading gives in order, whatever is cut off or cleared meanwhile. *)

Lines == [records : SUBSET Nat, parses : BOOLEAN, open : BOOLEAN]

\* One record on a line.
Single(records) == \E r \in Nat : records = {r}

\* What a page promises a reader.
PageHolds(page) ==
  /\ \A i \in 1..Len(page) : page[i].open => i = Len(page)
  /\ \A i \in 1..Len(page) : page[i].parses => Single(page[i].records)
  /\ \A i, j \in 1..Len(page) : i < j => \A r \in page[i].records, q \in page[j].records : r < q

\* What is on its lines, and what of it no append can spoil.
Within(page, r) == \E i \in 1..Len(page) : r \in page[i].records

\* A record that no later append can spoil.
Safe(page, r) == \E i \in 1..Len(page) : r \in page[i].records /\ page[i].parses /\ ~page[i].open

\* The pages of all days, and the records on them.
PagesHold ==
  /\ pages \in [1..Days -> Seq(Lines)] /\ today \in 1..Days /\ recorded \in Nat /\ erased \subseteq 1..recorded
  /\ \A d \in 1..Days : PageHolds(pages[d]) /\ (today < d => pages[d] = <<>>)
  /\ \A d \in 1..Days : \A r : Within(pages[d], r) => r \in 1..recorded /\ r \notin erased
  /\ \A d, e \in 1..Days : \A r, q : d < e /\ Within(pages[d], r) /\ Within(pages[e], q) => r < q

\* The readings and clearings there may be.
Scribes ==
  [verb : {"none", "read", "clear"}, todo : SUBSET (1..Days), got : Seq(Nat), due : SUBSET Nat, past : SUBSET Nat, latest : 0..2]

\* A sequence of numbers in order.
Increases(s) == \A i, j \in 1..Len(s) : i < j => s[i] < s[j]

\* A reading under way, with what it has read and owes.
Reads(todo, got, due, past) ==
  /\ past \subseteq erased /\ Increases(got)
  /\ \A i \in 1..Len(got) : got[i] \in 1..recorded /\ got[i] \notin past
  /\ \A i \in 1..Len(got), d \in todo : \A r : Within(pages[d], r) => got[i] < r
  /\ \A r \in due : r \in erased \/ (\E i \in 1..Len(got) : got[i] = r) \/ (\E d \in todo : Safe(pages[d], r))

\* The same of a scribe.
ReadsOn(w) == Reads(w.todo, w.got, w.due, w.past)

\* A clearing under way.
ClearsOn(w) == \A r \in w.due : r \in erased \/ (\E d \in w.todo : Within(pages[d], r))

\* What a scribe owes.
Fits(w) == (w.verb = "read" => ReadsOn(w)) /\ (w.verb = "clear" => ClearsOn(w))

\* What the last reading has shown.
Histories == [got : Seq(Nat), shown : Seq(Nat), latest : 0..2, due : SUBSET Nat, past : SUBSET Nat]

\* Everything known of the traces.
TraceKnows ==
  /\ PagesHold /\ scribe \in [Scribe -> Scribes] /\ history \in Histories
  /\ \A s \in Scribe : \A w \in Scribes : scribe[s] = w => Fits(w)
  /\ TracesAreTrue

\* What a reading of a page gives.
Tells(page, got) ==
  /\ got \in Seq(Nat) /\ Increases(got)
  /\ \A i \in 1..Len(got) : Within(page, got[i])
  /\ \A r : Safe(page, r) => \E i \in 1..Len(got) : got[i] = r

\* A reading of a page gives its records in order, all that are safe, and no others.
LEMMA ParsedHolds ==
  ASSUME NEW page \in Seq(Lines), PageHolds(page), NEW got, got = Parsed(page)
  PROVE  Tells(page, got)
<1>1. PICK lines : lines = Parsing(page)
  OBVIOUS
<1>2. Len(page) \in Nat /\ DOMAIN page = 1..Len(page) /\ \A k \in 1..Len(page) : page[k] \in Lines
  OBVIOUS
<1>3. lines \in SUBSET Nat /\ lines \subseteq 1..Len(page) /\ \A k \in 1..Len(page) : k \in lines <=> page[k].parses
  BY <1>1, <1>2 DEF Parsing
<1>4. IsFiniteSet(lines)
  <2>1. \A n \in Nat : IsFiniteSet(1..n)
    BY FS_Interval
  <2>2. QED
    BY <1>2, <1>3, <2>1, FS_Subset
<1>5. PICK place : place = [a \in lines |-> Cardinality({x \in lines : x < a})]
  OBVIOUS
<1>6. PlacedInTurn(lines, place)
  <2>1. Numbered(lines, place)
    BY <1>5 DEF Numbered
  <2>2. QED
    BY <1>3, <1>4, <2>1, NumberPlaces, Zenon
<1>7. /\ Cardinality(lines) \in Nat
      /\ \A a \in lines : place[a] \in Nat /\ place[a] < Cardinality(lines)
      /\ \A a, b \in lines : a < b => place[a] < place[b]
      /\ \A i \in Nat : i < Cardinality(lines) => \E a \in lines : place[a] = i
  BY <1>6 DEF PlacedInTurn
<1>8. PICK n : n = Cardinality(lines)
  OBVIOUS
<1>9. ASSUME NEW i \in 1..n PROVE Ith(lines, i) \in lines /\ place[Ith(lines, i)] = i - 1
  <2>1. \E a \in lines : place[a] = i - 1
    BY <1>7, <1>8
  <2>2. \E a \in lines : Cardinality({j \in lines : j < a}) = i - 1
    <3>1. PICK a \in lines : place[a] = i - 1
      BY <2>1
    <3>2. place[a] = Cardinality({j \in lines : j < a})
      BY <1>5, <3>1
    <3>3. QED
      BY <3>1, <3>2
  <2>3. Ith(lines, i) \in lines /\ Cardinality({j \in lines : j < Ith(lines, i)}) = i - 1
    BY <2>2 DEF Ith
  <2>4. place[Ith(lines, i)] = Cardinality({j \in lines : j < Ith(lines, i)})
    BY <1>5, <2>3
  <2>5. QED
    BY <2>3, <2>4
<1>10. PICK at : at = [i \in 1..n |-> Ith(lines, i)]
  OBVIOUS
<1>11. \A i \in 1..n : at[i] \in lines /\ place[at[i]] = i - 1
  BY <1>9, <1>10
<1>12. got = [i \in 1..n |-> RecordOf(page[at[i]])]
  BY <1>1, <1>8, <1>10 DEF Parsed
<1>13. \A k \in lines : page[k].records = {RecordOf(page[k])} /\ RecordOf(page[k]) \in Nat
  <2>1. ASSUME NEW k \in lines PROVE page[k].records = {RecordOf(page[k])} /\ RecordOf(page[k]) \in Nat
    <3>1. PICK r \in Nat : page[k].records = {r}
      BY <1>3 DEF PageHolds, Single
    <3>2. RecordOf(page[k]) = r
      BY <3>1 DEF RecordOf
    <3>3. QED
      BY <3>1, <3>2
  <2>2. QED
    BY <2>1
<1>14. PICK record : record = [k \in lines |-> RecordOf(page[k])]
  OBVIOUS
<1>15. \A k \in lines : page[k].records = {record[k]} /\ record[k] \in Nat
  BY <1>13, <1>14
<1>16. n \in Nat /\ got = [i \in 1..n |-> record[at[i]]]
  BY <1>7, <1>8, <1>11, <1>12, <1>14
<1>17. got \in Seq(Nat) /\ Len(got) = n
  BY <1>11, <1>15, <1>16
<1>18. Increases(got)
  <2>1. ASSUME NEW i \in 1..n, NEW j \in 1..n, i < j PROVE got[i] < got[j]
    <3>1. at[i] \in lines /\ at[j] \in lines /\ place[at[i]] < place[at[j]]
      BY <1>11, <2>1
    <3>2. at[i] < at[j]
      <4>1. at[i] \in Nat /\ at[j] \in Nat
        BY <1>3, <3>1
      <4>2. at[i] # at[j] /\ ~(at[j] < at[i])
        BY <1>7, <3>1
      <4>3. QED
        BY <4>1, <4>2
    <3>3. \A r \in page[at[i]].records, q \in page[at[j]].records : r < q
      BY <1>3, <3>1, <3>2 DEF PageHolds
    <3>4. QED
      BY <1>15, <1>16, <3>1, <3>3
  <2>2. QED
    BY <1>17, <2>1 DEF Increases
<1>19. \A i \in 1..n : Within(page, got[i])
  BY <1>3, <1>11, <1>15, <1>16 DEF Within
<1>20. ASSUME NEW r, Safe(page, r) PROVE \E i \in 1..n : got[i] = r
  <2>1. PICK k \in 1..Len(page) : r \in page[k].records /\ page[k].parses
    BY <1>20 DEF Safe
  <2>2. k \in lines /\ record[k] = r
    BY <1>3, <1>15, <2>1
  <2>3. place[k] + 1 \in 1..n /\ place[k] \in Nat
    BY <1>7, <1>8, <2>2
  <2>4. PICK i \in 1..n : i = place[k] + 1
    BY <2>3
  <2>5. at[i] \in lines /\ place[at[i]] = place[k]
    BY <1>11, <2>3, <2>4
  <2>6. at[i] = k
    <3>1. place[k] \in Nat /\ place[at[i]] = place[k]
      BY <2>3, <2>5
    <3>2. at[i] \in Nat /\ k \in Nat
      BY <1>3, <2>2, <2>5
    <3>3. ~(place[at[i]] < place[k]) /\ ~(place[k] < place[at[i]])
      BY <3>1
    <3>4. ~(at[i] < k) /\ ~(k < at[i])
      BY <1>7, <2>2, <2>5, <3>3
    <3>5. QED
      BY <3>4, <3>2
  <2>7. QED
    BY <1>16, <2>2, <2>4, <2>6
<1>21. QED
  BY <1>17, <1>18, <1>19, <1>20 DEF Tells

\* What a sequence is after one of its elements was replaced, or another appended.
LEMMA PageReplaced ==
  ASSUME NEW S, NEW s \in Seq(S), NEW new \in S, NEW l, l = Len(s), l # 0, NEW after, after = [s EXCEPT ![l] = new]
  PROVE  after \in Seq(S) /\ Len(after) = l /\ after[l] = new /\ \A k \in 1..l : k # l => after[k] = s[k]
OBVIOUS

\* What a sequence becomes when a member is appended.
LEMMA Extended ==
  ASSUME NEW S, NEW s \in Seq(S), NEW new \in S, NEW l, l = Len(s), NEW after, after = Append(s, new)
  PROVE  after \in Seq(S) /\ Len(after) = l + 1 /\ after[l + 1] = new /\ \A k \in 1..l : after[k] = s[k]
OBVIOUS

\* The lines of a page of this length.
LEMMA PageLines ==
  ASSUME NEW page \in Seq(Lines), NEW l, l = Len(page), NEW k \in 1..l
  PROVE  page[k].records \in SUBSET Nat /\ page[k].parses \in BOOLEAN /\ page[k].open \in BOOLEAN
<1>1. page[k] \in Lines
  OBVIOUS
<1>2. QED
  BY <1>1 DEF Lines

\* All that is on a page came before n.
Below(page, n) == \A r : Within(page, r) => r < n

\* A page after n came to it.
Follows(page, n, after) ==
  /\ after \in Seq(Lines) /\ after # <<>> /\ PageHolds(after)
  /\ \A r : Within(after, r) <=> Within(page, r) \/ r = n
  /\ \A r : Safe(page, r) => Safe(after, r)

\* A line with nothing but n and what was there.
Adds(old, n, new) == new \in Lines /\ \A r : r \in new.records <=> r \in old \/ r = n

\* A line that joins the last one of a page, whose line feed is missing.
LEMMA JoinedHolds ==
  ASSUME NEW page \in Seq(Lines), PageHolds(page), NEW n \in Nat, Below(page, n),
         NEW new, Adds(page[Len(page)].records, n, new), ~new.parses, NEW l, l = Len(page), l # 0, page[l].open,
         NEW after, after = [page EXCEPT ![l] = new]
  PROVE  Follows(page, n, after)
<1>1. new \in Lines /\ \A r : r \in new.records <=> r \in page[l].records \/ r = n
  BY DEF Adds
<1>2. l \in Nat /\ l \in 1..l
  OBVIOUS
<1>3. after \in Seq(Lines) /\ Len(after) = l
  BY <1>1, PageReplaced
<1>4. after[l] = new /\ \A k \in 1..l : k # l => after[k] = page[k]
  BY <1>1, PageReplaced
<1>5. \A i \in 1..l : (page[i].open => i = l) /\ (page[i].parses => Single(page[i].records))
  BY DEF PageHolds
<1>6. \A i, j \in 1..l : i < j => \A r \in page[i].records, q \in page[j].records : r < q
  BY DEF PageHolds
<1>7. \A i \in 1..l : \A r \in page[i].records : r < n
  BY DEF Within, Below
<1>8. \A i \in 1..l : (after[i].open => i = l) /\ (after[i].parses => Single(after[i].records))
  BY <1>4, <1>5
<1>9. ASSUME NEW i \in 1..l, NEW j \in 1..l, i < j, NEW r \in after[i].records, NEW q \in after[j].records PROVE r < q
  <2>1. i # l
    BY <1>2, <1>9
  <2>2. r \in page[i].records
    BY <1>4, <1>9, <2>1
  <2>3. CASE j # l
    <3>1. q \in page[j].records
      BY <1>4, <1>9, <2>3
    <3>2. QED
      BY <1>6, <1>9, <2>2, <3>1
  <2>4. CASE j = l
    <3>1. q \in page[l].records \/ q = n
      BY <1>1, <1>4, <1>9, <2>4
    <3>2. QED
      BY <1>2, <1>6, <1>7, <1>9, <2>2, <2>4, <3>1
  <2>5. QED
    BY <2>3, <2>4
<1>10. PageHolds(after)
  BY <1>3, <1>8, <1>9 DEF PageHolds
<1>11. ASSUME NEW r, Within(after, r) PROVE Within(page, r) \/ r = n
  <2>1. PICK k \in 1..l : r \in after[k].records
    BY <1>3, <1>11 DEF Within
  <2>2. CASE k # l
    <3>1. r \in page[k].records
      BY <1>4, <2>1, <2>2
    <3>2. QED
      BY <3>1 DEF Within
  <2>3. CASE k = l
    <3>1. r \in page[l].records \/ r = n
      BY <1>1, <1>4, <2>1, <2>3
    <3>2. QED
      BY <1>2, <3>1 DEF Within
  <2>4. QED
    BY <2>2, <2>3
<1>12. ASSUME NEW r, Safe(page, r) PROVE Safe(after, r)
  <2>1. PICK k \in 1..l : r \in page[k].records /\ page[k].parses /\ ~page[k].open
    BY <1>12 DEF Safe
  <2>2. k # l
    BY <2>1
  <2>3. after[k] = page[k]
    BY <1>4, <2>2
  <2>4. QED
    BY <1>3, <2>1, <2>3 DEF Safe
<1>13. ASSUME NEW r, Within(page, r) \/ r = n PROVE Within(after, r)
  <2>1. \E k \in 1..l : r \in after[k].records
    <3>1. CASE r = n
      BY <1>1, <1>2, <1>4, <3>1
    <3>2. CASE Within(page, r)
      <4>1. PICK k \in 1..l : r \in page[k].records
        BY <3>2 DEF Within
      <4>2. r \in after[k].records
        BY <1>1, <1>4, <4>1
      <4>3. QED
        BY <4>2
    <3>3. QED
      BY <1>13, <3>1, <3>2
  <2>2. QED
    BY <1>3, <2>1 DEF Within
<1>14. after # <<>>
  BY <1>3
<1>15. QED
  BY <1>3, <1>10, <1>11, <1>12, <1>13, <1>14 DEF Follows

\* A line behind the others, of which none is open.
LEMMA AddedHolds ==
  ASSUME NEW page \in Seq(Lines), PageHolds(page), NEW n \in Nat, Below(page, n),
         NEW new, Adds({}, n, new), Single(new.records),
         NEW l, l = Len(page), l # 0 => ~page[l].open, NEW after, after = Append(page, new)
  PROVE  Follows(page, n, after)
<1>1. new \in Lines /\ \A r : r \in new.records <=> r = n
  BY DEF Adds
<1>2. l \in Nat /\ \A k \in 1..l + 1 : k = l + 1 \/ k \in 1..l
  OBVIOUS
<1>3. after \in Seq(Lines) /\ Len(after) = l + 1
  BY <1>1, Extended
<1>4. after[l + 1] = new /\ \A k \in 1..l : after[k] = page[k]
  BY <1>1, Extended
<1>5. \A i \in 1..l : ~page[i].open /\ (page[i].parses => Single(page[i].records))
  BY <1>2 DEF PageHolds
<1>6. \A i, j \in 1..l : i < j => \A r \in page[i].records, q \in page[j].records : r < q
  BY DEF PageHolds
<1>7. \A i \in 1..l : \A r \in page[i].records : r < n
  BY DEF Within, Below
<1>8. \A i \in 1..l + 1 : (after[i].open => i = l + 1) /\ (after[i].parses => Single(after[i].records))
  BY <1>2, <1>4, <1>5
<1>9. ASSUME NEW i \in 1..l + 1, NEW j \in 1..l + 1, i < j, NEW r \in after[i].records, NEW q \in after[j].records PROVE r < q
  <2>1. i \in 1..l
    BY <1>2, <1>9
  <2>2. r \in page[i].records
    BY <1>4, <1>9, <2>1
  <2>3. CASE j \in 1..l
    <3>1. q \in page[j].records
      BY <1>4, <1>9, <2>3
    <3>2. QED
      BY <1>6, <1>9, <2>1, <2>2, <2>3, <3>1
  <2>4. CASE j = l + 1
    <3>1. q = n
      BY <1>1, <1>4, <1>9, <2>4
    <3>2. QED
      BY <1>7, <2>1, <2>2, <3>1
  <2>5. QED
    BY <1>2, <2>3, <2>4
<1>10. PageHolds(after)
  BY <1>3, <1>8, <1>9 DEF PageHolds
<1>11. ASSUME NEW r, Within(after, r) PROVE Within(page, r) \/ r = n
  <2>1. PICK k \in 1..l + 1 : r \in after[k].records
    BY <1>3, <1>11 DEF Within
  <2>2. CASE k \in 1..l
    <3>1. r \in page[k].records
      BY <1>4, <2>1, <2>2
    <3>2. QED
      BY <2>2, <3>1 DEF Within
  <2>3. CASE k = l + 1
    BY <1>1, <1>4, <2>1, <2>3
  <2>4. QED
    BY <1>2, <2>2, <2>3
<1>12. ASSUME NEW r, Safe(page, r) PROVE Safe(after, r)
  <2>1. PICK k \in 1..l : r \in page[k].records /\ page[k].parses /\ ~page[k].open
    BY <1>12 DEF Safe
  <2>2. k \in 1..l + 1 /\ after[k] = page[k]
    BY <1>2, <1>4
  <2>3. QED
    BY <1>3, <2>1, <2>2 DEF Safe
<1>13. ASSUME NEW r, Within(page, r) \/ r = n PROVE Within(after, r)
  <2>1. \E k \in 1..l + 1 : r \in after[k].records
    <3>1. CASE r = n
      BY <1>1, <1>2, <1>4, <3>1
    <3>2. CASE Within(page, r)
      <4>1. PICK k \in 1..l : r \in page[k].records
        BY <3>2 DEF Within
      <4>2. k \in 1..l + 1 /\ r \in after[k].records
        BY <1>2, <1>4, <4>1
      <4>3. QED
        BY <4>2
    <3>3. QED
      BY <1>13, <3>1, <3>2
  <2>2. QED
    BY <1>3, <2>1 DEF Within
<1>14. after # <<>>
  BY <1>3
<1>15. QED
  BY <1>3, <1>10, <1>11, <1>12, <1>13, <1>14 DEF Follows

\* An append puts its record behind all others and spoils none that is safe.
LEMMA AppendedHolds ==
  ASSUME NEW page \in Seq(Lines), PageHolds(page), NEW n \in Nat, Below(page, n),
         NEW parses \in BOOLEAN, NEW open \in BOOLEAN, NEW after, after = Appended(page, Line({n}, parses, open))
  PROVE  Follows(page, n, after)
<1>1. PICK l : l = Len(page)
  OBVIOUS
<1>2. l \in Nat /\ (page # <<>> <=> l # 0)
  BY <1>1
<1>3. CASE page # <<>> /\ page[l].open
  <2>1. PICK new : new = [records |-> page[l].records \union {n}, parses |-> FALSE, open |-> open]
    OBVIOUS
  <2>2. page[l].records \in SUBSET Nat
    BY <1>1, <1>2, <1>3, PageLines
  <2>3. new \in Lines
    <3>1. page[l].records \union {n} \in SUBSET Nat
      BY <2>2
    <3>2. QED
      BY <2>1, <3>1 DEF Lines
  <2>4. ~new.parses /\ Adds(page[Len(page)].records, n, new)
    BY <1>1, <2>1, <2>3 DEF Adds
  <2>5. after = [page EXCEPT ![l] = new]
    BY <1>1, <1>3, <2>1 DEF Appended, Line
  <2>6. QED
    BY <1>1, <1>2, <1>3, <2>3, <2>4, <2>5, JoinedHolds
<1>4. CASE ~(page # <<>> /\ page[l].open)
  <2>1. PICK new : new = [records |-> {n}, parses |-> parses, open |-> open]
    OBVIOUS
  <2>2. new \in Lines
    BY <2>1 DEF Lines
  <2>3. Single(new.records) /\ Adds({}, n, new)
    BY <2>1, <2>2 DEF Single, Adds
  <2>4. after = Append(page, new)
    BY <1>1, <1>4, <2>1 DEF Appended, Line
  <2>5. QED
    BY <1>1, <1>2, <1>4, <2>2, <2>3, <2>4, AddedHolds
<1>5. QED
  BY <1>3, <1>4

\* An empty page has nothing on it.
LEMMA NothingWithin == ASSUME NEW r PROVE ~Within(<<>>, r) /\ ~Safe(<<>>, r)
BY DEF Within, Safe

\* What is safe is there.
LEMMA SafeIsWithin == ASSUME NEW page, NEW r, Safe(page, r) PROVE Within(page, r)
BY DEF Safe, Within

\* Contents are what is on a page.
LEMMA ContentsAreWithin == ASSUME NEW page \in Seq(Lines), NEW r PROVE r \in Contents(page) <=> Within(page, r)
<1>1. PICK l : l = Len(page) /\ DOMAIN page = 1..l
  OBVIOUS
<1>2. r \in Contents(page) <=> \E line \in ToSet(page) : r \in line.records
  BY DEF Contents
<1>3. \A line : line \in ToSet(page) <=> \E k \in 1..l : line = page[k]
  BY <1>1 DEF ToSet
<1>4. QED
  BY <1>1, <1>2, <1>3 DEF Within

\* The pages may lose what is erased and get what is recorded next.
PagesMove ==
  /\ PagesHold' /\ erased \subseteq erased' /\ recorded' \in {recorded, recorded + 1}
  /\ \A d \in 1..Days : \A r : Within(pages[d], r) => Within(pages'[d], r) \/ r \in erased'
  /\ \A d \in 1..Days : \A r : Safe(pages[d], r) => Safe(pages'[d], r) \/ r \in erased'
  /\ \A d \in 1..Days : \A r : Within(pages'[d], r) => Within(pages[d], r) \/ (r = recorded + 1 /\ recorded' = recorded + 1)

\* A command under way is not misled by that.
LEMMA FitsStay == ASSUME PagesHold, PagesMove, NEW w \in Scribes, Fits(w) PROVE Fits(w)'
<1>1. /\ w.todo \in SUBSET (1..Days) /\ w.got \in Seq(Nat) /\ w.due \in SUBSET Nat /\ w.past \in SUBSET Nat
      /\ recorded \in Nat
  BY DEF Scribes, PagesHold
<1>2. PICK todo \in SUBSET (1..Days), got \in Seq(Nat), due \in SUBSET Nat, past \in SUBSET Nat : todo = w.todo /\ got = w.got /\ due = w.due /\ past = w.past
  BY <1>1
<1>3. /\ erased \subseteq erased' /\ recorded' \in {recorded, recorded + 1}
      /\ \A d \in 1..Days : \A r : Within(pages[d], r) => Within(pages'[d], r) \/ r \in erased'
      /\ \A d \in 1..Days : \A r : Safe(pages[d], r) => Safe(pages'[d], r) \/ r \in erased'
      /\ \A d \in 1..Days : \A r : Within(pages'[d], r) => Within(pages[d], r) \/ (r = recorded + 1 /\ recorded' = recorded + 1)
  BY DEF PagesMove
<1>4. ASSUME w.verb = "read" PROVE ReadsOn(w)'
  <2>1. /\ past \subseteq erased /\ Increases(got)
        /\ \A i \in 1..Len(got) : got[i] \in 1..recorded /\ got[i] \notin past
        /\ \A i \in 1..Len(got), d \in todo : \A r : Within(pages[d], r) => got[i] < r
        /\ \A r \in due : r \in erased \/ (\E i \in 1..Len(got) : got[i] = r) \/ (\E d \in todo : Safe(pages[d], r))
    BY <1>2, <1>4 DEF Fits, ReadsOn, Reads
  <2>2. past \subseteq erased'
    BY <1>3, <2>1
  <2>3. \A i \in 1..Len(got) : got[i] \in 1..recorded'
    BY <1>1, <1>3, <2>1
  <2>4. ASSUME NEW i \in 1..Len(got), NEW d \in todo, NEW r, Within(pages'[d], r) PROVE got[i] < r
    <3>1. got[i] \in 1..recorded /\ d \in 1..Days
      BY <2>1
    <3>2. Within(pages[d], r) \/ r = recorded + 1
      BY <1>3, <2>4, <3>1
    <3>3. QED
      BY <1>1, <2>1, <3>1, <3>2
  <2>5. ASSUME NEW r \in due PROVE r \in erased' \/ (\E i \in 1..Len(got) : got[i] = r) \/ (\E d \in todo : Safe(pages'[d], r))
    <3>1. CASE r \in erased
      BY <1>3, <3>1
    <3>2. CASE \E d \in todo : Safe(pages[d], r)
      BY <1>3, <3>2
    <3>3. QED
      BY <2>1, <3>1, <3>2
  <2>6. QED
    BY <1>2, <2>1, <2>2, <2>3, <2>4, <2>5 DEF ReadsOn, Reads
<1>5. ASSUME w.verb = "clear" PROVE ClearsOn(w)'
  <2>1. \A r \in due : r \in erased \/ (\E d \in todo : Within(pages[d], r))
    BY <1>2, <1>5 DEF Fits, ClearsOn
  <2>2. ASSUME NEW r \in due PROVE r \in erased' \/ (\E d \in todo : Within(pages'[d], r))
    <3>1. CASE r \in erased
      BY <1>3, <3>1
    <3>2. CASE \E d \in todo : Within(pages[d], r)
      BY <1>3, <3>2
    <3>3. QED
      BY <2>1, <3>1, <3>2
  <2>3. QED
    BY <1>2, <2>2 DEF ClearsOn
<1>6. QED
  BY <1>4, <1>5 DEF Fits

\* Pages that stay are moved.
LEMMA PagesStay == ASSUME PagesHold, UNCHANGED <<pages, today, recorded, erased>> PROVE PagesMove
BY DEF PagesHold, PagesMove

\* One of them moves on, or none, and the others go on as they did.
LEMMA ScribesStay ==
  ASSUME TraceKnows, PagesMove, NEW s \in Scribe, NEW w \in Scribes, Fits(w)',
         scribe' = [scribe EXCEPT ![s] = w] \/ scribe' = scribe
  PROVE  scribe' \in [Scribe -> Scribes] /\ \A t \in Scribe : \A v \in Scribes : scribe'[t] = v => Fits(v)'
<1>1. PagesHold /\ scribe \in [Scribe -> Scribes] /\ \A t \in Scribe : \A v \in Scribes : scribe[t] = v => Fits(v)
  BY DEF TraceKnows
<1>2. scribe' \in [Scribe -> Scribes]
  BY <1>1
<1>3. ASSUME NEW t \in Scribe, NEW v \in Scribes, scribe'[t] = v PROVE Fits(v)'
  <2>1. CASE scribe'[t] = scribe[t]
    <3>1. Fits(v)
      BY <1>1, <1>3, <2>1
    <3>2. QED
      BY <1>1, <3>1, FitsStay
  <2>2. CASE scribe'[t] # scribe[t]
    <3>1. v = w
      BY <1>1, <1>3, <2>2
    <3>2. QED
      BY <3>1
  <2>3. QED
    BY <2>1, <2>2
<1>4. QED
  BY <1>2, <1>3

\* What is known of the pages and the commands under way says what is known when no reading ends.
LEMMA TraceKept ==
  ASSUME TraceKnows, PagesMove, NEW s \in Scribe, NEW w \in Scribes, Fits(w)',
         scribe' = [scribe EXCEPT ![s] = w] \/ scribe' = scribe, UNCHANGED history
  PROVE  TraceKnows'
<1>1. scribe' \in [Scribe -> Scribes] /\ \A t \in Scribe : \A v \in Scribes : scribe'[t] = v => Fits(v)'
  BY ScribesStay
<1>2. PagesHold' /\ history' \in Histories
  BY DEF PagesMove, TraceKnows
<1>3. TracesAreTrue'
  BY DEF TraceKnows, TracesAreTrue, HistoryIsTrue, LatestAreShown
<1>4. QED
  BY <1>1, <1>2, <1>3 DEF TraceKnows

\* A command that rests is not misled.
LEMMA RestFits == AtRest \in Scribes /\ Fits(AtRest) /\ Fits(AtRest)'
<1>1. AtRest \in Scribes
  <2>1. <<>> \in Seq(Nat)
    OBVIOUS
  <2>2. QED
    BY <2>1 DEF AtRest, Scribes
<1>2. Fits(AtRest) /\ Fits(AtRest)'
  BY DEF AtRest, Fits
<1>3. QED
  BY <1>1, <1>2

\* It holds at first.
LEMMA TraceStart == ASSUME TraceInit PROVE TraceKnows
<1>1. PagesHold
  <2>1. pages \in [1..Days -> Seq(Lines)] /\ \A d \in 1..Days : pages[d] = <<>>
    BY DEF TraceInit
  <2>2. today \in 1..Days /\ recorded \in Nat /\ erased \subseteq 1..recorded
    BY TraceAssumption DEF TraceInit
  <2>3. \A d \in 1..Days : PageHolds(pages[d])
    BY <2>1 DEF PageHolds
  <2>4. \A d \in 1..Days : \A r : ~Within(pages[d], r)
    BY <2>1, NothingWithin
  <2>5. QED
    BY <2>1, <2>2, <2>3, <2>4 DEF PagesHold
<1>2. scribe \in [Scribe -> Scribes] /\ \A s \in Scribe : \A w \in Scribes : scribe[s] = w => Fits(w)
  BY RestFits DEF TraceInit
<1>3. history \in Histories /\ TracesAreTrue
  <2>1. history = [got |-> <<>>, shown |-> <<>>, latest |-> 0, due |-> {}, past |-> {}]
    BY DEF TraceInit, NoHistory
  <2>2. <<>> \in Seq(Nat) /\ Len(<<>>) = 0
    OBVIOUS
  <2>3. history \in Histories
    BY <2>1, <2>2 DEF Histories
  <2>4. HistoryIsTrue /\ LatestAreShown
    BY <2>1, <2>2 DEF HistoryIsTrue, LatestAreShown, ToSet
  <2>5. QED
    BY <2>3, <2>4 DEF TracesAreTrue
<1>4. QED
  BY <1>1, <1>2, <1>3 DEF TraceKnows

\* A record comes behind all others.
LEMMA RecordStep == ASSUME TraceKnows, RecordTrace PROVE PagesMove /\ UNCHANGED <<scribe, history>>
<1>1. PagesHold /\ recorded' = recorded + 1 /\ erased' = erased /\ today' = today /\ UNCHANGED <<scribe, history>>
  BY DEF TraceKnows, RecordTrace
<1>2. PICK fate \in {"whole", "unended", "part", "nothing"} :
        pages' = IF fate = "nothing" THEN pages
                 ELSE [pages EXCEPT ![today] = Appended(@, Line({recorded + 1}, fate # "part", fate # "whole"))]
  BY DEF RecordTrace
<1>3. /\ pages \in [1..Days -> Seq(Lines)] /\ today \in 1..Days /\ recorded \in Nat /\ erased \subseteq 1..recorded
      /\ \A d \in 1..Days : PageHolds(pages[d]) /\ (today < d => pages[d] = <<>>)
      /\ \A d \in 1..Days : \A r : Within(pages[d], r) => r \in 1..recorded /\ r \notin erased
      /\ \A d, e \in 1..Days : \A r, q : d < e /\ Within(pages[d], r) /\ Within(pages[e], q) => r < q
  BY <1>1 DEF PagesHold
<1>4. recorded \in Nat
  BY <1>3
<1>5. erased \subseteq 1..recorded
  BY <1>3
<1>6. today \in Nat /\ Days \in Nat
  <2>1. today \in 1..Days /\ Days \in Nat
    BY <1>3, TraceAssumption
  <2>2. QED
    BY <2>1
<1>7. \A d \in 1..Days : PageHolds(pages[d]) /\ (today < d => pages[d] = <<>>)
  BY <1>3
<1>8. PICK n \in Nat : n = recorded + 1
  BY <1>4
<1>9. n \notin 1..recorded /\ 1..recorded \subseteq 1..n /\ n \in 1..n /\ \A r \in 1..recorded : r < n
  BY <1>4, <1>8
<1>10. CASE fate = "nothing"
  <2>1. pages' = pages
    BY <1>2, <1>10
  <2>2. PagesHold'
    BY <1>1, <1>3, <1>8, <1>9, <2>1 DEF PagesHold
  <2>3. QED
    BY <1>1, <2>1, <2>2 DEF PagesMove
<1>11. CASE fate # "nothing"
  <2>1. PICK page \in Seq(Lines) : page = pages[today]
    BY <1>3
  <2>2. PICK parses \in BOOLEAN, open \in BOOLEAN : parses = (fate # "part") /\ open = (fate # "whole")
    OBVIOUS
  <2>3. PICK after : after = Appended(page, Line({n}, parses, open))
    OBVIOUS
  <2>4. pages' = [pages EXCEPT ![today] = after]
    BY <1>2, <1>3, <1>8, <1>11, <2>1, <2>2, <2>3
  <2>5. Below(page, n) /\ PageHolds(page)
    BY <1>3, <1>9, <2>1 DEF Below
  <2>6. Follows(page, n, after)
    BY <2>3, <2>5, AppendedHolds
  <2>7. /\ after \in Seq(Lines) /\ PageHolds(after)
        /\ \A r : Within(after, r) <=> Within(page, r) \/ r = n
        /\ \A r : Safe(page, r) => Safe(after, r)
    BY <2>6 DEF Follows
  <2>8. pages' \in [1..Days -> Seq(Lines)] /\ pages'[today] = after /\ \A d \in 1..Days : d # today => pages'[d] = pages[d]
    BY <1>3, <2>4, <2>7
  <2>9. \A d \in 1..Days : PageHolds(pages'[d]) /\ (today < d => pages'[d] = <<>>)
    <3>1. ~(today < today)
      BY <1>6
    <3>2. QED
      BY <1>7, <2>7, <2>8, <3>1
  <2>10. \A d \in 1..Days : \A r : Within(pages'[d], r) => Within(pages[d], r) \/ (d = today /\ r = n)
    BY <2>1, <2>7, <2>8
  <2>11. \A d \in 1..Days : \A r : Within(pages'[d], r) => r \in 1..n /\ r \notin erased
    BY <1>3, <1>9, <2>10
  <2>12. ASSUME NEW d \in 1..Days, NEW e \in 1..Days, NEW r, NEW q, d < e, Within(pages'[d], r), Within(pages'[e], q)
         PROVE r < q
    <3>1. d # today
      <4>1. CASE d = today
        <5>1. pages'[e] = <<>>
          BY <2>9, <2>12, <4>1
        <5>2. QED
          BY <2>12, <5>1, NothingWithin
      <4>2. QED
        BY <4>1
    <3>2. Within(pages[d], r) /\ r \in 1..recorded
      BY <1>3, <2>10, <2>12, <3>1
    <3>3. CASE Within(pages[e], q)
      BY <1>3, <2>12, <3>2, <3>3
    <3>4. CASE q = n
      BY <1>9, <3>2, <3>4
    <3>5. Within(pages[e], q) \/ q = n
      BY <2>10, <2>12
    <3>6. QED
      BY <3>3, <3>4, <3>5
  <2>13. PagesHold'
    <3>1. recorded' = n /\ today' \in 1..Days /\ erased' \subseteq 1..n
      BY <1>1, <1>3, <1>5, <1>8, <1>9
    <3>2. QED
      BY <1>1, <2>8, <2>9, <2>11, <2>12, <3>1 DEF PagesHold
  <2>14. \A d \in 1..Days : \A r : Within(pages[d], r) => Within(pages'[d], r)
    BY <2>1, <2>7, <2>8
  <2>15. \A d \in 1..Days : \A r : Safe(pages[d], r) => Safe(pages'[d], r)
    BY <2>1, <2>7, <2>8
  <2>16. QED
    BY <1>1, <1>8, <2>10, <2>13, <2>14, <2>15 DEF PagesMove
<1>12. QED
  BY <1>1, <1>10, <1>11

\* The next day begins with no page.
LEMMA DayStep == ASSUME TraceKnows, NextDay PROVE PagesMove /\ UNCHANGED <<scribe, history>>
<1>1. PagesHold /\ today < Days /\ today' = today + 1 /\ UNCHANGED <<pages, recorded, erased, scribe, history>>
  BY DEF TraceKnows, NextDay
<1>2. today \in 1..Days /\ Days \in Nat /\ \A d \in 1..Days : today < d => pages[d] = <<>>
  BY <1>1, TraceAssumption DEF PagesHold
<1>3. today' \in 1..Days /\ \A d \in 1..Days : today' < d => today < d
  BY <1>1, <1>2
<1>4. PagesHold'
  BY <1>1, <1>2, <1>3 DEF PagesHold
<1>5. QED
  BY <1>1, <1>4 DEF PagesMove

\* What a page that is no file holds, nothing, and what the files hold is on their pages.
LEMMA FilesHold ==
  ASSUME PagesHold
  PROVE  /\ Files \in SUBSET (1..Days)
         /\ \A r : r \in Kept => \E d \in Files : Within(pages[d], r)
         /\ \A r : r \in Sealed => \E d \in Files : Safe(pages[d], r)
<1>1. pages \in [1..Days -> Seq(Lines)] /\ \A d \in 1..Days : PageHolds(pages[d])
  BY DEF PagesHold
<1>2. Files \in SUBSET (1..Days)
  BY DEF Files
<1>3. ASSUME NEW r, r \in Kept PROVE \E d \in Files : Within(pages[d], r)
  <2>1. PICK d \in Files : r \in ToSet(Parsed(pages[d]))
    BY <1>3 DEF Kept
  <2>2. PICK page \in Seq(Lines) : page = pages[d]
    BY <1>1, <1>2
  <2>3. PICK got : got = Parsed(page)
    OBVIOUS
  <2>4. PageHolds(page)
    BY <1>1, <1>2, <2>2
  <2>5. got \in Seq(Nat) /\ \A i \in 1..Len(got) : Within(page, got[i])
    BY <2>3, <2>4, ParsedHolds DEF Tells
  <2>6. r \in ToSet(got) /\ DOMAIN got = 1..Len(got)
    BY <2>1, <2>2, <2>3, <2>5
  <2>7. PICK i \in 1..Len(got) : r = got[i]
    BY <2>6 DEF ToSet
  <2>8. QED
    BY <2>2, <2>5, <2>7
<1>4. ASSUME NEW r, r \in Sealed PROVE \E d \in Files : Safe(pages[d], r)
  <2>1. PICK d \in Files : r \in UNION {line.records : line \in {l \in ToSet(pages[d]) : l.parses /\ ~l.open}}
    BY <1>4 DEF Sealed
  <2>2. PICK page \in Seq(Lines) : page = pages[d]
    BY <1>1, <1>2
  <2>3. PICK line \in ToSet(page) : line.parses /\ ~line.open /\ r \in line.records
    BY <2>1, <2>2
  <2>4. PICK i \in DOMAIN page : line = page[i]
    BY <2>3 DEF ToSet
  <2>5. DOMAIN page = 1..Len(page)
    OBVIOUS
  <2>6. Safe(page, r)
    BY <2>3, <2>4, <2>5 DEF Safe
  <2>7. QED
    BY <2>2, <2>6
<1>5. QED
  BY <1>2, <1>3, <1>4

\* A reading begins with the files there are, and owes what no append can spoil.
LEMMA StartReadingStep ==
  ASSUME TraceKnows, NEW s \in Scribe, StartReading(s)
  PROVE  PagesMove /\ history' = history /\ \E w \in Scribes : scribe' = [scribe EXCEPT ![s] = w] /\ Fits(w)'
<1>1. PagesHold /\ PagesMove /\ UNCHANGED <<pages, recorded, erased, history>>
  <2>1. PagesHold /\ UNCHANGED <<pages, today, recorded, erased, history>>
    BY DEF TraceKnows, StartReading
  <2>2. QED
    BY <2>1, PagesStay
<1>2. PICK latest \in {0, 1, 2} :
        scribe' = [scribe EXCEPT ![s] = Started("read", Sealed, erased, latest)]
  BY DEF StartReading
<1>3. PICK w : w = [verb |-> "read", todo |-> Files, got |-> <<>>, due |-> Sealed, past |-> erased, latest |-> latest]
  OBVIOUS
<1>4. scribe' = [scribe EXCEPT ![s] = w]
  BY <1>2, <1>3 DEF Started
<1>5. /\ Files \in SUBSET (1..Days) /\ erased \in SUBSET Nat
      /\ \A r : r \in Sealed => \E d \in Files : Safe(pages[d], r)
  BY <1>1, FilesHold DEF PagesHold
<1>6. Sealed \in SUBSET Nat
  <2>1. ASSUME NEW r \in Sealed PROVE r \in Nat
    <3>1. PICK d \in Files : Safe(pages[d], r)
      BY <1>5
    <3>2. Within(pages[d], r) /\ d \in 1..Days
      BY <1>5, <3>1, SafeIsWithin
    <3>3. r \in 1..recorded /\ recorded \in Nat
      BY <1>1, <3>2 DEF PagesHold
    <3>4. QED
      BY <3>3
  <2>2. QED
    BY <2>1
<1>7. <<>> \in Seq(Nat) /\ Len(<<>>) = 0 /\ latest \in 0..2
  OBVIOUS
<1>8. w \in Scribes
  BY <1>3, <1>5, <1>6, <1>7 DEF Scribes
<1>9. PICK todo, due, past, got : todo = Files /\ due = Sealed /\ past = erased /\ got = <<>>
  OBVIOUS
<1>10. w.verb = "read" /\ w.todo = todo /\ w.due = due /\ w.past = past /\ w.got = got
  BY <1>3, <1>9
<1>11. past \subseteq erased' /\ Len(got) = 0 /\ Increases(got) /\ \A r \in due : \E d \in todo : Safe(pages'[d], r)
  BY <1>1, <1>5, <1>7, <1>9 DEF Increases
<1>12. ReadsOn(w)'
  BY <1>10, <1>11 DEF ReadsOn, Reads
<1>13. Fits(w)'
  BY <1>10, <1>12 DEF Fits
<1>14. QED
  BY <1>1, <1>4, <1>8, <1>13

\* A clearing begins with the files there are, and owes what parses in them.
LEMMA StartClearingStep ==
  ASSUME TraceKnows, NEW s \in Scribe, StartClearing(s)
  PROVE  PagesMove /\ history' = history /\ \E w \in Scribes : scribe' = [scribe EXCEPT ![s] = w] /\ Fits(w)'
<1>1. PagesHold /\ PagesMove /\ UNCHANGED <<pages, recorded, erased, history>>
  <2>1. PagesHold /\ UNCHANGED <<pages, today, recorded, erased, history>>
    BY DEF TraceKnows, StartClearing
  <2>2. QED
    BY <2>1, PagesStay
<1>2. scribe' = [scribe EXCEPT ![s] = Started("clear", Kept, {}, 0)]
  BY DEF StartClearing
<1>3. PICK w : w = [verb |-> "clear", todo |-> Files, got |-> <<>>, due |-> Kept, past |-> {}, latest |-> 0]
  OBVIOUS
<1>4. scribe' = [scribe EXCEPT ![s] = w]
  BY <1>2, <1>3 DEF Started
<1>5. Files \in SUBSET (1..Days) /\ \A r : r \in Kept => \E d \in Files : Within(pages[d], r)
  BY <1>1, FilesHold
<1>6. Kept \in SUBSET Nat
  <2>1. ASSUME NEW r \in Kept PROVE r \in Nat
    <3>1. PICK d \in Files : Within(pages[d], r)
      BY <1>5
    <3>2. r \in 1..recorded /\ recorded \in Nat
      BY <1>1, <1>5, <3>1 DEF PagesHold
    <3>3. QED
      BY <3>2
  <2>2. QED
    BY <2>1
<1>7. <<>> \in Seq(Nat) /\ 0 \in 0..2
  OBVIOUS
<1>8. w \in Scribes
  BY <1>3, <1>5, <1>6, <1>7 DEF Scribes
<1>9. PICK todo, due : todo = Files /\ due = Kept
  OBVIOUS
<1>10. w.verb = "clear" /\ w.todo = todo /\ w.due = due
  BY <1>3, <1>9
<1>11. \A r \in due : \E d \in todo : Within(pages'[d], r)
  BY <1>1, <1>5, <1>9
<1>12. ClearsOn(w)'
  BY <1>10, <1>11 DEF ClearsOn
<1>13. Fits(w)'
  BY <1>10, <1>12 DEF Fits
<1>14. QED
  BY <1>1, <1>4, <1>8, <1>13

\* A clearing ends, which has erased all it owed.
LEMMA EndClearingStep ==
  ASSUME TraceKnows, NEW s \in Scribe, EndClearing(s)
  PROVE  PagesMove /\ history' = history /\ \E w \in Scribes : scribe' = [scribe EXCEPT ![s] = w] /\ Fits(w)'
<1>1. PagesHold /\ UNCHANGED <<pages, today, recorded, history>> /\ scribe' = [scribe EXCEPT ![s] = AtRest]
  BY DEF TraceKnows, EndClearing
<1>2. PICK v \in Scribes : v = scribe[s] /\ Fits(v)
  BY DEF TraceKnows
<1>3. v.verb = "clear" /\ v.todo = {} /\ erased' = erased \union v.due
  BY <1>2 DEF EndClearing
<1>4. \A r \in v.due : r \in erased
  BY <1>2, <1>3 DEF Fits, ClearsOn
<1>5. erased' = erased
  BY <1>3, <1>4
<1>6. PagesMove
  BY <1>1, <1>5, PagesStay
<1>7. QED
  BY <1>1, <1>6, RestFits

\* A reading that has read one more page, the first that is left.
LEMMA OneMorePage ==
  ASSUME PagesHold, NEW todo \in SUBSET (1..Days), NEW got \in Seq(Nat), NEW due, NEW past, Reads(todo, got, due, past),
         NEW first \in todo, \A d \in todo : first <= d,
         NEW more \in Seq(Nat), more = Parsed(pages[first]), NEW all, all = got \o more
  PROVE  all \in Seq(Nat) /\ Reads(todo \ {first}, all, due, past)
<1>1. /\ past \subseteq erased /\ Increases(got)
      /\ \A i \in 1..Len(got) : got[i] \in 1..recorded /\ got[i] \notin past
      /\ \A i \in 1..Len(got), d \in todo : \A r : Within(pages[d], r) => got[i] < r
      /\ \A r \in due : r \in erased \/ (\E i \in 1..Len(got) : got[i] = r) \/ (\E d \in todo : Safe(pages[d], r))
  BY DEF Reads
<1>2. PICK page \in Seq(Lines) : page = pages[first] /\ PageHolds(page)
  BY DEF PagesHold
<1>3. /\ Increases(more)
      /\ \A i \in 1..Len(more) : Within(page, more[i])
      /\ \A r : Safe(page, r) => \E i \in 1..Len(more) : more[i] = r
  <2>1. Tells(page, more)
    BY <1>2, ParsedHolds, Zenon
  <2>2. QED
    BY <2>1 DEF Tells
<1>4. PICK k \in Nat, m \in Nat : k = Len(got) /\ m = Len(more)
  OBVIOUS
<1>5. all \in Seq(Nat) /\ Len(all) = k + m
  BY <1>4
<1>6. \A i \in 1..k + m : i \in 1..k \/ (i - k \in 1..m)
  BY <1>4
<1>7. (\A i \in 1..k : all[i] = got[i]) /\ (\A i \in 1..m : k + i \in 1..k + m /\ all[k + i] = more[i])
  BY <1>4
<1>8. \A i \in 1..k + m : all[i] \in Nat /\ (i \notin 1..k => all[i] = more[i - k])
  BY <1>4, <1>5, <1>6, <1>7
<1>9. \A i \in 1..k + m : i \in 1..k => i \in 1..Len(got)
  BY <1>4
<1>10. ASSUME NEW i \in 1..k + m, i \notin 1..k PROVE Within(page, all[i])
  BY <1>3, <1>4, <1>6, <1>8, <1>10
<1>11. \A r : Within(page, r) => r \in 1..recorded /\ r \notin erased
  BY <1>2 DEF PagesHold
<1>12. ASSUME NEW i \in 1..k + m PROVE all[i] \in 1..recorded /\ all[i] \notin past
  <2>1. CASE i \in 1..k
    BY <1>1, <1>7, <1>9, <2>1
  <2>2. CASE i \notin 1..k
    BY <1>1, <1>10, <1>11, <2>2
  <2>3. QED
    BY <2>1, <2>2
<1>13. ASSUME NEW i \in 1..k + m, NEW j \in 1..k + m, i < j PROVE all[i] < all[j]
  <2>1. CASE j \in 1..k
    <3>1. i \in 1..k
      BY <1>4, <1>13, <2>1
    <3>2. QED
      BY <1>1, <1>7, <1>9, <1>13, <2>1, <3>1 DEF Increases
  <2>2. CASE i \notin 1..k
    <3>1. j \notin 1..k /\ i - k \in 1..m /\ j - k \in 1..m /\ i - k < j - k
      BY <1>4, <1>6, <1>13, <2>2
    <3>2. more[i - k] < more[j - k]
      BY <1>3, <1>4, <3>1 DEF Increases
    <3>3. QED
      BY <1>8, <2>2, <3>1, <3>2
  <2>3. CASE i \in 1..k /\ j \notin 1..k
    <3>1. all[i] = got[i] /\ i \in 1..Len(got) /\ Within(pages[first], all[j])
      BY <1>2, <1>7, <1>9, <1>10, <2>3
    <3>2. QED
      BY <1>1, <3>1
  <2>4. QED
    BY <2>1, <2>2, <2>3
<1>14. ASSUME NEW i \in 1..k + m, NEW d \in todo \ {first}, NEW r, Within(pages[d], r) PROVE all[i] < r
  <2>1. CASE i \in 1..k
    BY <1>1, <1>7, <1>9, <1>14, <2>1
  <2>2. CASE i \notin 1..k
    <3>1. first < d
      <4>1. first \in 1..Days /\ d \in 1..Days /\ first <= d /\ first # d
        OBVIOUS
      <4>2. QED
        BY <4>1
    <3>2. Within(pages[first], all[i]) /\ first \in 1..Days /\ d \in 1..Days
      BY <1>2, <1>10, <2>2
    <3>3. QED
      BY <1>14, <3>1, <3>2 DEF PagesHold
  <2>3. QED
    BY <2>1, <2>2
<1>15. ASSUME NEW r \in due PROVE r \in erased \/ (\E i \in 1..k + m : all[i] = r) \/ (\E d \in todo \ {first} : Safe(pages[d], r))
  <2>1. CASE \E i \in 1..Len(got) : got[i] = r
    <3>1. PICK i \in 1..k : got[i] = r
      BY <1>4, <2>1
    <3>2. i \in 1..k + m /\ all[i] = r
      BY <1>4, <1>7, <3>1
    <3>3. QED
      BY <3>2
  <2>2. CASE Safe(page, r)
    <3>1. PICK i \in 1..m : more[i] = r
      BY <1>3, <1>4, <2>2
    <3>2. QED
      BY <1>7, <3>1
  <2>3. CASE \E d \in todo \ {first} : Safe(pages[d], r)
    BY <2>3
  <2>4. QED
    BY <1>1, <1>2, <2>1, <2>2, <2>3
<1>16. QED
  BY <1>1, <1>5, <1>12, <1>13, <1>14, <1>15 DEF Increases, Reads

\* What a command under way is.
LEMMA UnderWay ==
  ASSUME TraceKnows, NEW s \in Scribe
  PROVE  \E v \in Scribes : v = scribe[s] /\ Fits(v) /\ v.todo \in SUBSET (1..Days) /\ v.got \in Seq(Nat) /\ v.due \in SUBSET Nat
           /\ v.past \in SUBSET Nat /\ v.latest \in 0..2
<1>1. PICK v \in Scribes : v = scribe[s] /\ Fits(v)
  BY DEF TraceKnows
<1>2. v.todo \in SUBSET (1..Days) /\ v.got \in Seq(Nat) /\ v.due \in SUBSET Nat /\ v.past \in SUBSET Nat /\ v.latest \in 0..2
  BY DEF Scribes
<1>3. QED
  BY <1>1, <1>2

\* One page more is read.
LEMMA ReadFileStep ==
  ASSUME TraceKnows, NEW s \in Scribe, ReadFile(s)
  PROVE  PagesMove /\ history' = history /\ \E w \in Scribes : scribe' = [scribe EXCEPT ![s] = w] /\ Fits(w)'
<1>1. PagesHold /\ PagesMove /\ UNCHANGED <<pages, recorded, erased, history>>
  <2>1. PagesHold /\ UNCHANGED <<pages, today, recorded, erased, history>>
    BY DEF TraceKnows, ReadFile
  <2>2. QED
    BY <2>1, PagesStay
<1>2. PICK v \in Scribes : v = scribe[s] /\ Fits(v) /\ v.todo \in SUBSET (1..Days) /\ v.got \in Seq(Nat) /\ v.due \in SUBSET Nat
           /\ v.past \in SUBSET Nat /\ v.latest \in 0..2
  BY UnderWay
<1>3. PICK todo \in SUBSET (1..Days), got \in Seq(Nat), due \in SUBSET Nat, past \in SUBSET Nat :
        todo = v.todo /\ got = v.got /\ due = v.due /\ past = v.past
  BY <1>2
<1>4. v.verb = "read" /\ todo # {}
  BY <1>2, <1>3 DEF ReadFile
<1>5. PICK first : first = First(todo)
  OBVIOUS
<1>6. first \in todo /\ \A d \in todo : first <= d
  <2>1. todo \in SUBSET Nat
    <3>1. 1..Days \subseteq Nat
      BY TraceAssumption
    <3>2. QED
      BY <3>1
  <2>2. \E n \in todo : \A m \in todo : n <= m
    BY <1>4, <2>1, LeastOf
  <2>3. QED
    BY <1>5, <2>2 DEF First
<1>7. PICK page \in Seq(Lines) : page = pages[first] /\ PageHolds(page)
  BY <1>1, <1>6 DEF PagesHold
<1>8. PICK more \in Seq(Nat) : more = Parsed(pages[first])
  BY <1>7, ParsedHolds DEF Tells
<1>9. PICK all : all = got \o more
  OBVIOUS
<1>10. PICK w : w = [v EXCEPT !.todo = @ \ {first}, !.got = @ \o more]
  OBVIOUS
<1>11. scribe' = [scribe EXCEPT ![s] = w]
  BY <1>2, <1>3, <1>5, <1>8, <1>10 DEF ReadFile
<1>12. Reads(todo, got, due, past)
  BY <1>2, <1>3, <1>4 DEF Fits, ReadsOn
<1>13. all \in Seq(Nat) /\ Reads(todo \ {first}, all, due, past)
  BY <1>1, <1>6, <1>8, <1>9, <1>12, OneMorePage
<1>14. PICK rest : rest = todo \ {first}
  OBVIOUS
<1>15. w \in Scribes /\ w.verb = "read" /\ w.todo = rest /\ w.got = all /\ w.due = due /\ w.past = past
  BY <1>3, <1>4, <1>9, <1>10, <1>13, <1>14 DEF Scribes
<1>16. ReadsOn(w)'
  BY <1>1, <1>13, <1>14, <1>15 DEF ReadsOn, Reads
<1>17. Fits(w)'
  BY <1>15, <1>16 DEF Fits
<1>18. QED
  BY <1>1, <1>11, <1>15, <1>17

\* A reading that leaves out the first page that is left owes nothing of it.
LEMMA OneLessPage ==
  ASSUME PagesHold, NEW todo \in SUBSET (1..Days), NEW got \in Seq(Nat), NEW due \in SUBSET Nat, NEW past, Reads(todo, got, due, past),
         NEW first \in todo, NEW gone, gone = Contents(pages[first])
  PROVE  Reads(todo \ {first}, got, due \ gone, past)
<1>1. /\ past \subseteq erased /\ Increases(got)
      /\ \A i \in 1..Len(got) : got[i] \in 1..recorded /\ got[i] \notin past
      /\ \A i \in 1..Len(got), d \in todo : \A r : Within(pages[d], r) => got[i] < r
      /\ \A r \in due : r \in erased \/ (\E i \in 1..Len(got) : got[i] = r) \/ (\E d \in todo : Safe(pages[d], r))
  BY DEF Reads
<1>2. PICK page \in Seq(Lines) : page = pages[first]
  BY DEF PagesHold
<1>3. \A r : r \in gone <=> Within(pages[first], r)
  BY <1>2, ContentsAreWithin
<1>4. ASSUME NEW r \in due \ gone PROVE r \in erased \/ (\E i \in 1..Len(got) : got[i] = r) \/ (\E d \in todo \ {first} : Safe(pages[d], r))
  <2>1. ~Safe(pages[first], r)
    BY <1>2, <1>3, <1>4, SafeIsWithin
  <2>2. r \in erased \/ (\E i \in 1..Len(got) : got[i] = r) \/ (\E d \in todo : Safe(pages[d], r))
    BY <1>1, <1>4
  <2>3. QED
    BY <2>1, <2>2
<1>5. QED
  BY <1>1, <1>4 DEF Reads

\* A page is skipped.
LEMMA SkipFileStep ==
  ASSUME TraceKnows, NEW s \in Scribe, SkipFile(s)
  PROVE  PagesMove /\ history' = history /\ \E w \in Scribes : scribe' = [scribe EXCEPT ![s] = w] /\ Fits(w)'
<1>1. PagesHold /\ PagesMove /\ UNCHANGED <<pages, recorded, erased, history>>
  <2>1. PagesHold /\ UNCHANGED <<pages, today, recorded, erased, history>>
    BY DEF TraceKnows, SkipFile
  <2>2. QED
    BY <2>1, PagesStay
<1>2. PICK v \in Scribes : v = scribe[s] /\ Fits(v) /\ v.todo \in SUBSET (1..Days) /\ v.got \in Seq(Nat) /\ v.due \in SUBSET Nat
           /\ v.past \in SUBSET Nat /\ v.latest \in 0..2
  BY UnderWay
<1>3. PICK todo \in SUBSET (1..Days), got \in Seq(Nat), due \in SUBSET Nat, past \in SUBSET Nat :
        todo = v.todo /\ got = v.got /\ due = v.due /\ past = v.past
  BY <1>2
<1>4. v.verb = "read" /\ todo # {}
  BY <1>2, <1>3 DEF SkipFile
<1>5. PICK first : first = First(todo)
  OBVIOUS
<1>6. first \in todo
  <2>1. todo \in SUBSET Nat
    <3>1. 1..Days \subseteq Nat
      BY TraceAssumption
    <3>2. QED
      BY <3>1
  <2>2. \E n \in todo : \A m \in todo : n <= m
    BY <1>4, <2>1, LeastOf
  <2>3. QED
    BY <1>5, <2>2 DEF First
<1>7. PICK gone : gone = Contents(pages[first])
  OBVIOUS
<1>8. PICK w : w = [v EXCEPT !.todo = @ \ {first}, !.due = @ \ gone]
  OBVIOUS
<1>9. scribe' = [scribe EXCEPT ![s] = w]
  BY <1>2, <1>3, <1>5, <1>7, <1>8 DEF SkipFile
<1>10. Reads(todo, got, due, past)
  BY <1>2, <1>3, <1>4 DEF Fits, ReadsOn
<1>11. Reads(todo \ {first}, got, due \ gone, past)
  BY <1>1, <1>6, <1>7, <1>10, OneLessPage
<1>12. PICK rest, owed : rest = todo \ {first} /\ owed = due \ gone
  OBVIOUS
<1>13. w \in Scribes /\ w.verb = "read" /\ w.todo = rest /\ w.got = got /\ w.due = owed /\ w.past = past
  BY <1>3, <1>4, <1>8, <1>12 DEF Scribes
<1>14. ReadsOn(w)'
  BY <1>1, <1>11, <1>12, <1>13 DEF ReadsOn, Reads
<1>15. Fits(w)'
  BY <1>13, <1>14 DEF Fits
<1>16. QED
  BY <1>1, <1>9, <1>13, <1>15

\* An unlinked file takes its records with it: all that was on it is erased.
LEMMA UnlinkStep ==
  ASSUME TraceKnows, NEW s \in Scribe, UnlinkFile(s)
  PROVE  PagesMove /\ history' = history /\ \E w \in Scribes : scribe' = [scribe EXCEPT ![s] = w] /\ Fits(w)'
<1>1. PagesHold /\ UNCHANGED <<today, recorded, history>>
  BY DEF TraceKnows, UnlinkFile
<1>2. PICK v \in Scribes : v = scribe[s] /\ Fits(v) /\ v.todo \in SUBSET (1..Days) /\ v.got \in Seq(Nat) /\ v.due \in SUBSET Nat
           /\ v.past \in SUBSET Nat /\ v.latest \in 0..2
  BY UnderWay
<1>3. PICK d \in v.todo :
        /\ scribe' = [scribe EXCEPT ![s] = IF pages[d] = <<>> THEN AtRest ELSE [scribe[s] EXCEPT !.todo = @ \ {d}]]
        /\ pages' = [pages EXCEPT ![d] = <<>>] /\ erased' = erased \union Contents(pages[d])
  BY <1>2 DEF UnlinkFile
<1>4. v.verb = "clear" /\ d \in 1..Days
  BY <1>2 DEF UnlinkFile
<1>5. /\ pages \in [1..Days -> Seq(Lines)] /\ today \in 1..Days /\ recorded \in Nat
      /\ \A e \in 1..Days : PageHolds(pages[e]) /\ (today < e => pages[e] = <<>>)
  BY <1>1 DEF PagesHold
<1>6. erased \subseteq 1..recorded
  BY <1>1 DEF PagesHold
<1>7. \A e \in 1..Days : \A r : Within(pages[e], r) => r \in 1..recorded /\ r \notin erased
  BY <1>1 DEF PagesHold
<1>8. \A e, f \in 1..Days : \A r, q : e < f /\ Within(pages[e], r) /\ Within(pages[f], q) => r < q
  BY <1>1 DEF PagesHold
<1>9. PICK page \in Seq(Lines) : page = pages[d]
  BY <1>4, <1>5
<1>10. PICK gone : gone = Contents(page)
  OBVIOUS
<1>11. (\A r : r \in gone <=> Within(pages[d], r)) /\ erased' = erased \union gone
  BY <1>3, <1>9, <1>10, ContentsAreWithin
<1>12. /\ pages' \in [1..Days -> Seq(Lines)] /\ pages'[d] = <<>>
       /\ \A e \in 1..Days : e # d => pages'[e] = pages[e]
  <2>1. <<>> \in Seq(Lines)
    OBVIOUS
  <2>2. QED
    BY <1>3, <1>4, <1>5, <2>1
<1>13. \A e \in 1..Days : \A r : Within(pages'[e], r) => e # d /\ Within(pages[e], r)
  BY <1>12, NothingWithin
<1>14. ASSUME NEW e \in 1..Days, NEW r, Within(pages'[e], r) PROVE r \notin erased'
  <2>1. e # d /\ Within(pages[e], r) /\ r \in 1..recorded /\ r \notin erased
    BY <1>7, <1>13, <1>14
  <2>2. ASSUME Within(pages[d], r) PROVE FALSE
    <3>1. e \in Nat /\ d \in Nat /\ r \in Nat
      <4>1. Days \in Nat
        BY TraceAssumption
      <4>2. QED
        BY <1>4, <1>5, <2>1, <4>1
    <3>2. e < d \/ d < e
      BY <2>1, <3>1
    <3>3. r < r
      BY <1>4, <1>8, <2>1, <2>2, <3>2
    <3>4. QED
      BY <3>1, <3>3
  <2>3. QED
    BY <1>11, <2>1, <2>2
<1>15. \A r \in gone : r \in 1..recorded
  BY <1>4, <1>7, <1>11
<1>16. \A e \in 1..Days : PageHolds(pages'[e]) /\ (today < e => pages'[e] = <<>>)
  <2>1. PageHolds(<<>>)
    BY DEF PageHolds
  <2>2. QED
    BY <1>5, <1>12, <2>1
<1>17. PagesHold'
  <2>1. erased' \subseteq 1..recorded
    BY <1>6, <1>11, <1>15
  <2>2. \A e \in 1..Days : \A r : Within(pages'[e], r) => r \in 1..recorded /\ r \notin erased'
    BY <1>7, <1>13, <1>14
  <2>3. \A e, f \in 1..Days : \A r, q : e < f /\ Within(pages'[e], r) /\ Within(pages'[f], q) => r < q
    BY <1>8, <1>13
  <2>4. QED
    BY <1>1, <1>5, <1>12, <1>16, <2>1, <2>2, <2>3 DEF PagesHold
<1>18. \A e \in 1..Days : \A r : Within(pages[e], r) => Within(pages'[e], r) \/ r \in erased'
  BY <1>11, <1>12
<1>19. \A e \in 1..Days : \A r : Safe(pages[e], r) => Safe(pages'[e], r) \/ r \in erased'
  <2>1. ASSUME NEW e \in 1..Days, NEW r, Safe(pages[e], r) PROVE Safe(pages'[e], r) \/ r \in erased'
    <3>1. Within(pages[e], r)
      BY <2>1, SafeIsWithin
    <3>2. QED
      BY <1>11, <1>12, <2>1, <3>1
  <2>2. QED
    BY <2>1
<1>20. PagesMove
  BY <1>1, <1>5, <1>11, <1>13, <1>17, <1>18, <1>19 DEF PagesMove
<1>21. CASE pages[d] = <<>>
  <2>1. scribe' = [scribe EXCEPT ![s] = AtRest]
    BY <1>3, <1>21
  <2>2. QED
    BY <1>1, <1>20, <2>1, RestFits
<1>22. CASE pages[d] # <<>>
  <2>1. PICK w : w = [v EXCEPT !.todo = @ \ {d}]
    OBVIOUS
  <2>2. scribe' = [scribe EXCEPT ![s] = w]
    BY <1>2, <1>3, <1>22, <2>1
  <2>3. PICK rest, due : rest = v.todo \ {d} /\ due = v.due
    OBVIOUS
  <2>4. w \in Scribes /\ w.verb = "clear" /\ w.todo = rest /\ w.due = due
    BY <1>4, <2>1, <2>3 DEF Scribes
  <2>5. Fits(v)'
    BY <1>1, <1>2, <1>20, FitsStay
  <2>6. \A r \in due : r \in erased' \/ (\E e \in v.todo : Within(pages'[e], r))
    BY <1>4, <2>3, <2>5 DEF Fits, ClearsOn
  <2>7. \A r \in due : r \in erased' \/ (\E e \in rest : Within(pages'[e], r))
    BY <1>13, <1>2, <2>3, <2>6
  <2>8. ClearsOn(w)'
    BY <2>4, <2>7 DEF ClearsOn
  <2>9. Fits(w)'
    BY <2>4, <2>8 DEF Fits
  <2>10. QED
    BY <1>1, <1>20, <2>2, <2>4, <2>9
<1>23. QED
  BY <1>21, <1>22

\* What stands in s from place m to place n.
IsPiece(piece, s, m, n) ==
  /\ piece \in Seq(Nat) /\ Len(piece) = (IF m <= n THEN n - m + 1 ELSE 0)
  /\ \A i \in 1..n - m + 1 : piece[i] = s[m + i - 1]

\* SubSeq gives it.
LEMMA PieceIs ==
  ASSUME NEW s, NEW m \in Int, NEW n \in Int, \A i \in m..n : s[i] \in Nat
  PROVE  IsPiece(SubSeq(s, m, n), s, m, n)
BY SubSeqProperties DEF IsPiece

\* The last of a reading, turned round, are as many as asked for, and later than all the others.
LEMMA LatestTells ==
  ASSUME NEW got \in Seq(Nat), Increases(got), NEW count \in 1..2, NEW shown, shown = Latest(got, count)
  PROVE  /\ shown \in Seq(Nat) /\ Len(shown) <= count /\ ToSet(shown) \subseteq ToSet(got)
         /\ \A k \in ToSet(got) \ ToSet(shown) : Len(shown) = count /\ \A m \in ToSet(shown) : k < m
<1>1. PICK n \in Nat : n = Len(got)
  OBVIOUS
<1>2. ToSet(got) = {got[i] : i \in 1..n} /\ \A i \in 1..n : got[i] \in Nat
  BY <1>1 DEF ToSet
<1>3. PICK c \in 0..n : c = IF count >= n THEN n ELSE count
  OBVIOUS
<1>4. PICK last \in Seq(Nat) : Len(last) = c /\ (\A i \in 1..c : last[i] = got[n - c + i]) /\ shown = Reverse(last)
  <2>1. CASE count >= n
    BY <1>1, <1>3, <2>1 DEF Latest
  <2>2. CASE ~(count >= n)
    <3>1. PICK piece : piece = SubSeq(got, n - count + 1, n)
      OBVIOUS
    <3>2. n - count + 1 \in 1..n + 1 /\ n \in n - count + 1 - 1..n
      BY <1>1, <2>2
    <3>3. piece \in Seq(Nat) /\ Len(piece) = count /\ \A i \in 1..count : piece[i] = got[n - count + i]
      <4>1. PICK m : m = n - count + 1
        OBVIOUS
      <4>2. m \in Int /\ n \in Int /\ \A i \in m..n : got[i] \in Nat
        BY <1>1, <3>2, <4>1
      <4>3. piece = SubSeq(got, m, n)
        BY <3>1, <4>1, Zenon
      <4>4. /\ piece \in Seq(Nat) /\ Len(piece) = (IF m <= n THEN n - m + 1 ELSE 0)
            /\ \A i \in 1..n - m + 1 : piece[i] = got[m + i - 1]
        <5>1. IsPiece(SubSeq(got, m, n), got, m, n)
          BY <4>2, PieceIs, Zenon
        <5>2. IsPiece(piece, got, m, n)
          BY <4>3, <5>1, Zenon
        <5>3. QED
          BY <5>2, Zenon DEF IsPiece
      <4>5. n - m + 1 = count /\ m <= n /\ \A i \in 1..count : m + i - 1 = n - count + i
        BY <2>2, <4>1
      <4>6. QED
        BY <4>4, <4>5
    <3>4. shown = Reverse(piece)
      BY <1>1, <2>2, <3>1 DEF Latest
    <3>5. c = count
      BY <1>3, <2>2
    <3>6. piece \in Seq(Nat) /\ Len(piece) = c /\ (\A i \in 1..c : piece[i] = got[n - c + i]) /\ shown = Reverse(piece)
      BY <3>3, <3>4, <3>5
    <3>7. QED
      BY <3>6, Zenon
  <2>3. QED
    BY <2>1, <2>2
<1>5. shown = [i \in 1..c |-> last[c - i + 1]]
  BY <1>4 DEF Reverse
<1>6. c \in Nat /\ c <= n
  BY <1>3
<1>7. \A i \in 1..c : c - i + 1 \in 1..c /\ n - c + (c - i + 1) = n - i + 1
  BY <1>6
<1>8. \A i \in 1..c : last[c - i + 1] = got[n - i + 1] /\ last[c - i + 1] \in Nat
  <2>1. \A i \in 1..c : last[i] = got[n - c + i] /\ last[i] \in Nat
    BY <1>4
  <2>2. ASSUME NEW i \in 1..c PROVE last[c - i + 1] = got[n - i + 1] /\ last[c - i + 1] \in Nat
    <3>1. PICK j \in 1..c : j = c - i + 1 /\ n - c + j = n - i + 1
      BY <1>7
    <3>2. last[j] = got[n - c + j] /\ last[j] \in Nat
      BY <2>1
    <3>3. QED
      BY <3>1, <3>2
  <2>3. QED
    BY <2>2
<1>9. shown \in Seq(Nat) /\ Len(shown) = c /\ DOMAIN shown = 1..c
  BY <1>5, <1>6, <1>8
<1>10. \A i \in 1..c : shown[i] = got[n - i + 1]
  BY <1>5, <1>8
<1>11. \A m : m \in ToSet(shown) <=> \E i \in 1..c : m = got[n - i + 1]
  <2>1. \A m : m \in ToSet(shown) <=> \E i \in 1..c : m = shown[i]
    BY <1>9 DEF ToSet
  <2>2. ASSUME NEW m PROVE m \in ToSet(shown) <=> \E i \in 1..c : m = got[n - i + 1]
    <3>1. m \in ToSet(shown) <=> \E i \in 1..c : m = shown[i]
      BY <2>1, Zenon
    <3>2. QED
      BY <1>10, <3>1, Zenon
  <2>3. QED
    BY <2>2, Zenon
<1>12. ASSUME NEW k \in ToSet(got), k \notin ToSet(shown) PROVE c = count /\ \A m \in ToSet(shown) : k < m
  <2>1. PICK j \in 1..n : k = got[j]
    BY <1>2
  <2>2. j \in 1..n - c
    <3>1. CASE j > n - c
      <4>1. n - j + 1 \in 1..c /\ n - (n - j + 1) + 1 = j
        BY <1>3, <3>1
      <4>2. QED
        BY <1>11, <1>12, <2>1, <4>1
    <3>2. QED
      BY <1>3, <3>1
  <2>3. c = count
    BY <1>3, <2>2
  <2>4. ASSUME NEW i \in 1..c PROVE k < got[n - i + 1]
    <3>1. n - i + 1 \in 1..n /\ j < n - i + 1
      BY <1>3, <2>2
    <3>2. QED
      BY <1>1, <2>1, <3>1 DEF Increases
  <2>5. QED
    BY <1>11, <2>3, <2>4
<1>13. ToSet(shown) \subseteq ToSet(got)
  <2>1. \A i \in 1..c : n - i + 1 \in 1..n
    BY <1>3
  <2>2. QED
    BY <1>2, <1>11, <2>1
<1>14. c <= count
  BY <1>3
<1>15. QED
  BY <1>9, <1>12, <1>13, <1>14

\* A reading ends, having given all that it owed and is not cleared, in order.
LEMMA EndReadingStep == ASSUME TraceKnows, NEW s \in Scribe, EndReading(s) PROVE TraceKnows'
<1>1. PagesHold /\ PagesMove /\ UNCHANGED <<pages, recorded, erased>> /\ scribe' = [scribe EXCEPT ![s] = AtRest]
  <2>1. PagesHold /\ UNCHANGED <<pages, today, recorded, erased>> /\ scribe' = [scribe EXCEPT ![s] = AtRest]
    BY DEF TraceKnows, EndReading
  <2>2. QED
    BY <2>1, PagesStay
<1>2. PICK v \in Scribes : v = scribe[s] /\ Fits(v) /\ v.todo \in SUBSET (1..Days) /\ v.got \in Seq(Nat) /\ v.due \in SUBSET Nat
           /\ v.past \in SUBSET Nat /\ v.latest \in 0..2
  BY UnderWay
<1>3. PICK got \in Seq(Nat), due \in SUBSET Nat, past \in SUBSET Nat, latest \in 0..2 :
        got = v.got /\ due = v.due /\ past = v.past /\ latest = v.latest
  BY <1>2
<1>4. v.verb = "read" /\ v.todo = {}
  BY <1>2 DEF EndReading
<1>5. Reads({}, got, due, past)
  BY <1>2, <1>3, <1>4 DEF Fits, ReadsOn
<1>6. PICK shown : shown = Latest(got, latest)
  OBVIOUS
<1>7. history' = [got |-> got, shown |-> shown, latest |-> latest, due |-> due \ erased, past |-> past]
  BY <1>2, <1>3, <1>6 DEF EndReading
<1>8. shown \in Seq(Nat)
  <2>1. CASE latest = 0
    <3>1. shown = Reverse(got)
      BY <1>6, <2>1 DEF Latest
    <3>2. PICK n \in Nat : n = Len(got)
      OBVIOUS
    <3>3. \A i \in 1..n : got[i] \in Nat /\ n - i + 1 \in 1..n
      BY <3>2
    <3>4. shown = [i \in 1..n |-> got[n - i + 1]]
      BY <3>1, <3>2 DEF Reverse
    <3>5. \A i \in 1..n : got[n - i + 1] \in Nat
      BY <3>3
    <3>6. QED
      BY <3>4, <3>5
  <2>2. CASE latest # 0
    <3>1. latest \in 1..2 /\ Increases(got)
      BY <1>5, <2>2 DEF Reads
    <3>2. QED
      BY <1>6, <3>1, LatestTells
  <2>3. QED
    BY <2>1, <2>2
<1>9. history' \in Histories
  BY <1>3, <1>7, <1>8 DEF Histories
<1>10. HistoryIsTrue'
  <2>1. \A i, j \in 1..Len(got) : i < j => got[i] < got[j]
    BY <1>5 DEF Reads, Increases
  <2>2. \A m : m \in ToSet(got) <=> \E i \in 1..Len(got) : m = got[i]
    <3>1. DOMAIN got = 1..Len(got)
      OBVIOUS
    <3>2. QED
      BY <3>1 DEF ToSet
  <2>3. \A i \in 1..Len(got) : got[i] \notin past
    BY <1>5 DEF Reads
  <2>4. ToSet(got) \intersect past = {}
    BY <2>2, <2>3
  <2>5. \A r \in due : r \in erased \/ \E i \in 1..Len(got) : got[i] = r
    BY <1>5 DEF Reads
  <2>6. due \ erased \subseteq ToSet(got)
    BY <2>2, <2>5
  <2>7. history'.got = got /\ history'.past = past /\ history'.due = due \ erased
    BY <1>7
  <2>8. QED
    BY <2>1, <2>4, <2>6, <2>7 DEF HistoryIsTrue
<1>11. LatestAreShown'
  <2>1. history'.got = got /\ history'.shown = shown /\ history'.latest = latest
    BY <1>7
  <2>2. ASSUME latest > 0
        PROVE  /\ Len(shown) <= latest /\ ToSet(shown) \subseteq ToSet(got)
               /\ \A k \in ToSet(got) \ ToSet(shown) : Len(shown) = latest /\ \A m \in ToSet(shown) : k < m
    <3>1. latest \in 1..2 /\ Increases(got)
      BY <1>5, <2>2 DEF Reads
    <3>2. QED
      BY <1>6, <3>1, LatestTells
  <2>3. QED
    BY <2>1, <2>2 DEF LatestAreShown
<1>12. scribe' \in [Scribe -> Scribes] /\ \A t \in Scribe : \A w \in Scribes : scribe'[t] = w => Fits(w)'
  BY <1>1, RestFits, ScribesStay
<1>13. QED
  BY <1>1, <1>9, <1>10, <1>11, <1>12 DEF TraceKnows, TracesAreTrue, PagesMove

\* Every step keeps it.
LEMMA TraceStep == ASSUME TraceKnows, TraceNext \/ UNCHANGED traceVars PROVE TraceKnows'
<1>1. ASSUME PagesMove, UNCHANGED <<scribe, history>> PROVE TraceKnows'
  <2>1. PagesHold' /\ scribe' \in [Scribe -> Scribes] /\ history' \in Histories
    BY <1>1 DEF TraceKnows, PagesMove
  <2>2. ASSUME NEW s \in Scribe, NEW w \in Scribes, scribe'[s] = w PROVE Fits(w)'
    <3>1. Fits(w) /\ PagesHold
      BY <1>1, <2>2 DEF TraceKnows
    <3>2. QED
      BY <1>1, <3>1, FitsStay
  <2>3. TracesAreTrue'
    BY <1>1 DEF TraceKnows, TracesAreTrue, HistoryIsTrue, LatestAreShown
  <2>4. QED
    BY <2>1, <2>2, <2>3 DEF TraceKnows
<1>2. ASSUME PagesMove, history' = history,
             NEW s \in Scribe, \E w \in Scribes : scribe' = [scribe EXCEPT ![s] = w] /\ Fits(w)'
      PROVE  TraceKnows'
  BY <1>2, TraceKept
<1>3. CASE RecordTrace
  BY <1>1, <1>3, RecordStep
<1>4. CASE NextDay
  BY <1>1, <1>4, DayStep
<1>5. ASSUME NEW s \in Scribe,
             StartReading(s) \/ ReadFile(s) \/ SkipFile(s) \/ EndReading(s) \/ StartClearing(s) \/ UnlinkFile(s) \/ EndClearing(s)
      PROVE  TraceKnows'
  <2>1. CASE StartReading(s)
    BY <1>2, <2>1, StartReadingStep
  <2>2. CASE ReadFile(s)
    BY <1>2, <2>2, ReadFileStep
  <2>3. CASE EndReading(s)
    BY <2>3, EndReadingStep
  <2>4. CASE StartClearing(s)
    BY <1>2, <2>4, StartClearingStep
  <2>5. CASE UnlinkFile(s)
    BY <1>2, <2>5, UnlinkStep
  <2>6. CASE EndClearing(s)
    BY <1>2, <2>6, EndClearingStep
  <2>7. CASE SkipFile(s)
    BY <1>2, <2>7, SkipFileStep
  <2>8. QED
    BY <1>5, <2>1, <2>2, <2>3, <2>4, <2>5, <2>6, <2>7
<1>6. CASE UNCHANGED traceVars
  <2>1. PagesHold /\ UNCHANGED <<pages, today, recorded, erased, scribe, history>>
    BY <1>6 DEF traceVars, TraceKnows
  <2>2. QED
    BY <1>1, <2>1, PagesStay
<1>7. QED
  BY <1>3, <1>4, <1>5, <1>6 DEF TraceNext

--------------------------------------------------------------------------------
(* ProtectAsset: assets that commands protect, unlock and recover, on paths that they share. *)

KeeperSteps == {"rest", "asked", "checked", "authorized", "staged", "packing", "cleaning", "cleaned"}

\* An asset file.
AssetRecords ==
  [kind : {"none", "torn", "whole"}, access : {"public", "licensed"}, locked : BOOLEAN, profile : {"none", "scrypt", "argon2id"},
   password : Password \union {"none"}, code : Nat, body : Nat]

\* What a command has in memory.
KeeperRecords ==
  [verb : {"none", "protect", "unlock", "show", "recover"}, at : KeeperSteps, file : Place \union {"none"}, out : Place \union {"none"},
   password : Password \union {"none"}, code : Nat, profile : {"none", "scrypt", "argon2id"}, made : AssetRecords, fresh : Nat,
   source : AssetRecords, begun : Nat]

\* What an owner was told.
TaleRecords ==
  [out : Place, at : Nat, verb : {"none", "protect", "unlock", "show", "recover"}, password : Password \union {"none"}, old : Nat,
   code : Nat, body : Nat]

\* Types.
ProtectTyped ==
  /\ assets \in [Place -> AssetRecords] /\ writes \in [Place -> Nat] /\ keeper \in [Keeper -> KeeperRecords]
  /\ dir \in [Keeper -> {"none", "cipher", "plain"}] /\ codes \in Nat /\ told \subseteq TaleRecords /\ left \in Nat /\ misfortunes \in Nat

\* What the manifest of one asset says of its payload.
IsReal(asset) == asset.kind = "whole" => (asset.locked <=> asset.access = "licensed") /\ (asset.locked <=> asset.profile # "none")

\* An asset that was made opens as the command that made it will tell.
MadeFits(c) ==
  /\ c.made.kind = "whole" /\ c.made.body = c.source.body /\ c.verb # "show"
  /\ c.verb = "unlock" => ~c.made.locked
  /\ c.verb # "unlock" => c.made.password = c.password /\ c.made.code = c.fresh
  /\ c.verb = "recover" => c.fresh # c.code

\* What a command has packed is at its output, as long as nobody has written there since.
PackIsSeen(c) ==
  /\ c.begun <= writes[c.out] /\ writes[c.out] # 0
  /\ writes[c.out] = c.begun => assets[c.out] = c.made

\* A command has an asset in hand from its staging to its end, and a code that was made before it.
InHand(c) ==
  /\ c.at # "rest" => c.file \in Place /\ c.out \in Place
  /\ c.code <= codes
  /\ c.at \in {"rest", "asked", "checked", "authorized"} => c.made = NoAsset
  /\ c.at \in {"staged", "packing", "cleaned"} => c.made # NoAsset
  /\ c.at = "authorized" => c.verb = "unlock"
  /\ c.made # NoAsset => MadeFits(c) /\ (c.at \in {"cleaning", "cleaned"} => PackIsSeen(c))
  /\ IsReal(c.made)

\* What a temporary directory holds was opened by the password that was typed in.
DirFits(c, holds) ==
  /\ holds # "none" => c.at \in {"staged", "packing", "cleaning"}
  /\ holds = "plain" => (c.source.locked => c.source.password = c.password)

\* What was told holds until the file is written again.
TaleHolds(t) ==
  /\ t.at <= writes[t.out]
  /\ writes[t.out] = t.at =>
       /\ assets[t.out].kind = "whole" /\ assets[t.out].body = t.body
       /\ t.verb = "unlock" => ~assets[t.out].locked
       /\ t.verb # "unlock" => assets[t.out].password = t.password /\ assets[t.out].code = t.code
       /\ t.verb = "recover" => assets[t.out].code # t.old

\* What is known between two steps.
ProtectKnows ==
  /\ ProtectTyped
  /\ \A k \in Keeper : InHand(keeper[k]) /\ DirFits(keeper[k], dir[k])
  /\ \A x \in Place : IsReal(assets[x])
  /\ \A t \in told : TaleHolds(t)
  /\ left <= misfortunes

\* What is known of a command before it moves.
LEMMA KeeperKnows ==
  ASSUME ProtectKnows, NEW k \in Keeper
  PROVE  /\ keeper[k] \in KeeperRecords /\ InHand(keeper[k]) /\ DirFits(keeper[k], dir[k]) /\ dir[k] \in {"none", "cipher", "plain"}
         /\ ProtectTyped
BY DEF ProtectKnows, ProtectTyped

\* The assets that there always are.
LEMMA AssetFacts ==
  /\ NoAsset \in AssetRecords /\ Torn \in AssetRecords /\ NoAsset.kind = "none" /\ Torn.kind = "torn" /\ IsReal(NoAsset) /\ IsReal(Torn)
  /\ \A body \in Nat : Public(body) \in AssetRecords /\ IsReal(Public(body)) /\ Public(body).kind = "whole" /\ Public(body).body = body
                       /\ ~Public(body).locked
BY DEF NoAsset, Torn, Public, Asset, AssetRecords, IsReal

\* A command as it starts.
LEMMA CommandFacts ==
  ASSUME NEW verb \in {"none", "protect", "unlock", "show", "recover"}, NEW at \in {"rest", "asked"}, NEW x \in Place \union {"none"},
         NEW y \in Place \union {"none"}, NEW w \in Password \union {"none"}, NEW c \in Nat, c <= codes, at = "asked" => x \in Place /\ y \in Place,
         NEW with, with = Command(verb, at, x, y, w, c)
  PROVE  with \in KeeperRecords /\ InHand(with) /\ with.at = at
<1>1. with = [verb |-> verb, at |-> at, file |-> x, out |-> y, password |-> w, code |-> c, profile |-> "none",
               made |-> NoAsset, fresh |-> 0, source |-> NoAsset, begun |-> 0]
  BY DEF Command
<1>2. with \in KeeperRecords
  BY <1>1, AssetFacts DEF KeeperRecords, KeeperSteps
<1>3. with.at = at /\ with.file = x /\ with.out = y /\ with.code = c /\ with.made = NoAsset
  BY <1>1
<1>4. QED
  BY <1>2, <1>3, AssetFacts DEF InHand

\* A command at rest.
LEMMA RestFacts ==
  ASSUME codes \in Nat
  PROVE  AtEase \in KeeperRecords /\ InHand(AtEase) /\ AtEase.at = "rest"
<1>1. 0 <= codes /\ AtEase = Command("none", "rest", "none", "none", "none", 0)
  BY DEF AtEase
<1>2. QED
  BY <1>1, CommandFacts

\* One command moves, and may have written to a path: the others' assets are there, or it is seen that they are not.
LEMMA ProtectKeeps ==
  ASSUME ProtectKnows, NEW k \in Keeper, NEW with \in KeeperRecords, Goes(k, with), InHand(with)', DirFits(with, dir'[k]),
         dir' \in [Keeper -> {"none", "cipher", "plain"}], \A j \in Keeper \ {k} : dir'[j] = dir[j],
         assets' \in [Place -> AssetRecords], writes' \in [Place -> Nat], codes' \in Nat, codes <= codes',
         \A x \in Place : IsReal(assets'[x]),
         \A x \in Place : (writes'[x] = writes[x] /\ assets'[x] = assets[x]) \/ writes[x] < writes'[x],
         told' \subseteq TaleRecords, \A t \in told' \ told : TaleHolds(t)', left' \in Nat, misfortunes' \in Nat, left' <= misfortunes'
  PROVE  ProtectKnows'
<1>1. keeper' \in [Keeper -> KeeperRecords] /\ keeper'[k] = with /\ \A j \in Keeper \ {k} : keeper'[j] = keeper[j]
  BY DEF Goes, ProtectKnows, ProtectTyped
<1>2. ProtectTyped'
  BY <1>1 DEF ProtectTyped
<1>3. ASSUME NEW j \in Keeper \ {k} PROVE InHand(keeper[j])' /\ DirFits(keeper[j], dir[j])'
  <2>1. PICK c : c = keeper[j]
    OBVIOUS
  <2>2. c \in KeeperRecords /\ InHand(c) /\ DirFits(c, dir[j]) /\ keeper'[j] = c /\ dir'[j] = dir[j]
    BY <1>1, <2>1 DEF ProtectKnows, ProtectTyped
  <2>3. (c.made # NoAsset /\ c.at \in {"cleaning", "cleaned"}) => PackIsSeen(c)'
    <3>1. SUFFICES ASSUME c.made # NoAsset, c.at \in {"cleaning", "cleaned"} PROVE PackIsSeen(c)'
      OBVIOUS
    <3>2. c.out \in Place /\ PackIsSeen(c) /\ c.begun \in Nat
      BY <2>2, <3>1 DEF InHand, KeeperRecords
    <3>3. writes[c.out] \in Nat /\ writes'[c.out] \in Nat
      BY <3>2 DEF ProtectKnows, ProtectTyped
    <3>4. QED
      BY <3>2, <3>3 DEF PackIsSeen
  <2>4. c.code <= codes'
    BY <2>2 DEF InHand, KeeperRecords, ProtectKnows, ProtectTyped
  <2>5. InHand(c)'
    BY <2>2, <2>3, <2>4 DEF InHand
  <2>6. QED
    BY <2>2, <2>5 DEF DirFits, InHand, PackIsSeen
<1>4. InHand(keeper[k])' /\ DirFits(keeper[k], dir[k])'
  BY <1>1 DEF DirFits, InHand, PackIsSeen
<1>5. ASSUME NEW t \in told' PROVE TaleHolds(t)'
  <2>1. CASE t \in told
    <3>1. TaleHolds(t) /\ t.out \in Place /\ t.at \in Nat
      BY <2>1 DEF ProtectKnows, ProtectTyped, TaleRecords
    <3>2. writes[t.out] \in Nat /\ writes'[t.out] \in Nat
      BY <3>1 DEF ProtectKnows, ProtectTyped
    <3>3. QED
      BY <3>1, <3>2 DEF TaleHolds
  <2>2. CASE t \notin told
    BY <2>2
  <2>3. QED
    BY <2>1, <2>2
<1>6. QED
  BY <1>2, <1>3, <1>4, <1>5 DEF ProtectKnows

\* A command that neither writes nor tells.
LEMMA CalmKeeps ==
  ASSUME ProtectKnows, NEW k \in Keeper, NEW with \in KeeperRecords, Goes(k, with), InHand(with)', DirFits(with, dir'[k]),
         dir' \in [Keeper -> {"none", "cipher", "plain"}], \A j \in Keeper \ {k} : dir'[j] = dir[j],
         codes' \in Nat, codes <= codes', assets' = assets, writes' = writes, told' = told, left' \in Nat, misfortunes' \in Nat,
         left' <= misfortunes'
  PROVE  ProtectKnows'
<1>1. /\ assets' \in [Place -> AssetRecords] /\ writes' \in [Place -> Nat] /\ \A x \in Place : IsReal(assets'[x])
      /\ told' \subseteq TaleRecords
  BY DEF ProtectKnows, ProtectTyped
<1>2. \A t \in told' \ told : TaleHolds(t)'
  OBVIOUS
<1>3. QED
  BY <1>1, <1>2, ProtectKeeps

\* A command is begun.
LEMMA BeginCommandStep == ASSUME ProtectKnows, NEW k \in Keeper, BeginCommand(k) PROVE ProtectKnows'
<1>1. /\ keeper[k].at = "rest" /\ UNCHANGED <<assets, writes, dir, codes, told, left, misfortunes>>
  BY DEF BeginCommand
<1>2. PICK verb \in {"protect", "unlock", "show", "recover"}, x \in Place, y \in Place, w \in Password, c \in 1..codes :
        Goes(k, Command(verb, "asked", x, y, w, c))
  BY DEF BeginCommand
<1>3. PICK with : with = Command(verb, "asked", x, y, w, c)
  OBVIOUS
<1>4. codes \in Nat /\ c \in Nat /\ c <= codes
  BY DEF ProtectKnows, ProtectTyped
<1>5. with \in KeeperRecords /\ InHand(with) /\ with.at = "asked"
  BY <1>3, <1>4, CommandFacts
<1>6. InHand(with)'
  BY <1>1, <1>5 DEF InHand, PackIsSeen
<1>7. dir[k] = "none"
  BY <1>1, KeeperKnows DEF DirFits
<1>8. DirFits(with, dir'[k])
  BY <1>1, <1>7 DEF DirFits
<1>9. codes' \in Nat /\ codes <= codes' /\ left' \in Nat /\ misfortunes' \in Nat /\ left' <= misfortunes'
      /\ dir' \in [Keeper -> {"none", "cipher", "plain"}]
  BY <1>1 DEF ProtectKnows, ProtectTyped
<1>10. QED
  BY <1>1, <1>2, <1>3, <1>5, <1>6, <1>8, <1>9, CalmKeeps

\* A command ends without an output.
LEMMA EndedKeeps ==
  ASSUME ProtectKnows, NEW k \in Keeper, keeper[k].at \in {"asked", "checked", "authorized"}, Ended(k),
         UNCHANGED <<assets, writes, told, left, misfortunes>>
  PROVE  ProtectKnows'
<1>1. codes' = codes /\ dir' = dir /\ Goes(k, AtEase)
  BY DEF Ended
<1>2. codes' \in Nat /\ codes <= codes' /\ left' \in Nat /\ misfortunes' \in Nat /\ left' <= misfortunes' /\ codes \in Nat
      /\ dir' \in [Keeper -> {"none", "cipher", "plain"}]
  BY <1>1 DEF ProtectKnows, ProtectTyped
<1>3. AtEase \in KeeperRecords /\ InHand(AtEase)'
  BY <1>1, <1>2, RestFacts DEF InHand, PackIsSeen
<1>4. DirFits(AtEase, dir'[k])
  BY <1>1, KeeperKnows DEF DirFits
<1>5. QED
  BY <1>1, <1>2, <1>3, <1>4, CalmKeeps

\* What is known of the file that a command opens.
LEMMA InputFacts ==
  ASSUME ProtectKnows, NEW k \in Keeper, keeper[k].at # "rest"
  PROVE  Input(k) \in AssetRecords /\ IsReal(Input(k))
BY KeeperKnows DEF Input, InHand, ProtectKnows, ProtectTyped

\* A command goes on and its record of the file changes with it.
LEMMA StagedKeeps ==
  ASSUME ProtectKnows, NEW k \in Keeper, keeper[k].at \in {"asked", "authorized"}, NEW asset \in AssetRecords, NEW fresh \in Nat,
         NEW holds \in {"cipher", "plain"}, Staged(k, asset, fresh, holds), codes' \in Nat, codes <= codes',
         UNCHANGED <<assets, writes, told, left, misfortunes>>, asset.kind = "whole", IsReal(asset), asset.body = Input(k).body,
         keeper[k].verb # "show", keeper[k].verb = "unlock" => ~asset.locked,
         keeper[k].verb # "unlock" => asset.password = keeper[k].password /\ asset.code = fresh,
         keeper[k].verb = "recover" => fresh # keeper[k].code,
         holds = "plain" => (Input(k).locked => Input(k).password = keeper[k].password)
  PROVE  ProtectKnows'
<1>1. PICK c : c = keeper[k]
  OBVIOUS
<1>2. PICK source : source = Input(k)
  OBVIOUS
<1>3. source \in AssetRecords /\ c \in KeeperRecords /\ InHand(c) /\ asset # NoAsset
  BY <1>1, <1>2, KeeperKnows, InputFacts, AssetFacts
<1>4. PICK with : with = [c EXCEPT !.at = "staged", !.made = asset, !.fresh = fresh, !.source = source]
  OBVIOUS
<1>5. with \in KeeperRecords
  <2>1. PICK mid : mid = [c EXCEPT !.at = "staged", !.made = asset]
    OBVIOUS
  <2>2. "staged" \in KeeperSteps
    BY DEF KeeperSteps
  <2>3. mid \in KeeperRecords
    BY <1>3, <2>1, <2>2 DEF KeeperRecords
  <2>4. with = [mid EXCEPT !.fresh = fresh, !.source = source]
    BY <1>4, <2>1
  <2>5. QED
    BY <1>3, <2>3, <2>4 DEF KeeperRecords
<1>6. with.at = "staged" /\ with.made = asset /\ with.fresh = fresh /\ with.source = source /\ with.verb = c.verb /\ with.code = c.code
      /\ with.password = c.password /\ with.file = c.file /\ with.out = c.out
  BY <1>3, <1>4 DEF KeeperRecords
<1>7. MadeFits(with)
  BY <1>1, <1>2, <1>6 DEF MadeFits
<1>8. c.code <= codes'
  BY <1>3 DEF InHand, KeeperRecords, ProtectKnows, ProtectTyped
<1>9. InHand(with)'
  BY <1>1, <1>3, <1>6, <1>7, <1>8 DEF InHand, MadeFits, IsReal
<1>10. Goes(k, with) /\ dir' = [dir EXCEPT ![k] = holds]
  BY <1>1, <1>2, <1>4 DEF Staged
<1>11. dir' \in [Keeper -> {"none", "cipher", "plain"}] /\ dir'[k] = holds /\ \A j \in Keeper \ {k} : dir'[j] = dir[j]
  BY <1>10 DEF ProtectKnows, ProtectTyped
<1>12. DirFits(with, dir'[k])
  BY <1>1, <1>2, <1>6, <1>11 DEF DirFits
<1>13. left' \in Nat /\ misfortunes' \in Nat /\ left' <= misfortunes'
  BY DEF ProtectKnows, ProtectTyped
<1>14. QED
  BY <1>5, <1>9, <1>10, <1>11, <1>12, <1>13, CalmKeeps

\* An asset is opened to be protected.
LEMMA OpenToProtectStep == ASSUME ProtectKnows, NEW k \in Keeper, OpenToProtect(k) PROVE ProtectKnows'
<1>1. keeper[k].at = "asked" /\ keeper[k].verb = "protect" /\ UNCHANGED <<assets, writes, told, left, misfortunes>>
  BY DEF OpenToProtect
<1>2. CASE Ended(k)
  BY <1>1, <1>2, EndedKeeps
<1>3. CASE codes' = codes + 1 /\ Staged(k, Protected(Input(k), keeper[k].password, codes + 1), codes + 1, "cipher")
  <2>1. codes \in Nat /\ codes' \in Nat /\ codes <= codes'
    BY <1>3 DEF ProtectKnows, ProtectTyped
  <2>2. PICK asset, fresh : asset = Protected(Input(k), keeper[k].password, codes + 1) /\ fresh = codes + 1
    OBVIOUS
  <2>3. keeper[k].password \in Password \union {"none"} /\ Input(k).body \in Nat /\ fresh \in Nat
    BY <1>1, <2>1, <2>2, KeeperKnows, InputFacts DEF KeeperRecords, AssetRecords
  <2>4. asset = [kind |-> "whole", access |-> "licensed", locked |-> TRUE, profile |-> "argon2id", password |-> keeper[k].password,
                 code |-> fresh, body |-> Input(k).body]
    BY <2>2 DEF Protected, Asset
  <2>5. asset \in AssetRecords /\ asset.kind = "whole" /\ IsReal(asset) /\ asset.body = Input(k).body
        /\ asset.password = keeper[k].password /\ asset.code = fresh
    BY <2>3, <2>4 DEF AssetRecords, IsReal
  <2>6. QED
    BY <1>1, <1>3, <2>1, <2>2, <2>3, <2>5, StagedKeeps
<1>4. QED
  BY <1>2, <1>3 DEF OpenToProtect

\* An asset is opened by its recovery code.
LEMMA OpenToRecoverStep == ASSUME ProtectKnows, NEW k \in Keeper, OpenToRecover(k) PROVE ProtectKnows'
<1>1. keeper[k].at = "asked" /\ keeper[k].verb = "recover" /\ UNCHANGED <<assets, writes, told, left, misfortunes>>
  BY DEF OpenToRecover
<1>2. CASE Ended(k)
  BY <1>1, <1>2, EndedKeeps
<1>3. CASE /\ Input(k).kind = "whole" /\ Input(k).access = "licensed"
           /\ codes' = codes + 1 /\ Staged(k, Recovered(Input(k), keeper[k].password, codes + 1), codes + 1, "cipher")
  <2>1. codes \in Nat /\ codes' \in Nat /\ codes <= codes'
    BY <1>3 DEF ProtectKnows, ProtectTyped
  <2>2. PICK asset, fresh : asset = Recovered(Input(k), keeper[k].password, codes + 1) /\ fresh = codes + 1
    OBVIOUS
  <2>3. keeper[k].password \in Password \union {"none"} /\ Input(k) \in AssetRecords /\ IsReal(Input(k)) /\ fresh \in Nat
    BY <1>1, <2>1, <2>2, KeeperKnows, InputFacts DEF KeeperRecords
  <2>4. asset = [kind |-> Input(k).kind, access |-> Input(k).access, locked |-> Input(k).locked, profile |-> "argon2id",
                 password |-> keeper[k].password, code |-> fresh, body |-> Input(k).body]
    BY <2>2 DEF Recovered, Asset
  <2>5. asset \in AssetRecords /\ asset.kind = "whole" /\ IsReal(asset) /\ asset.body = Input(k).body
        /\ asset.password = keeper[k].password /\ asset.code = fresh
    BY <1>3, <2>3, <2>4 DEF AssetRecords, IsReal
  <2>6. fresh # keeper[k].code
    BY <2>1, <2>2, KeeperKnows DEF InHand, KeeperRecords
  <2>7. QED
    BY <1>1, <1>3, <2>1, <2>2, <2>3, <2>5, <2>6, StagedKeeps
<1>4. QED
  BY <1>2, <1>3 DEF OpenToRecover

\* What a command that goes on without an asset keeps.
LEMMA GoesOnKeeps ==
  ASSUME ProtectKnows, NEW k \in Keeper, NEW with \in KeeperRecords, Goes(k, with), with.at \in {"checked", "authorized", "cleaning"},
         with.made = NoAsset, with.file = keeper[k].file, with.out = keeper[k].out, with.code = keeper[k].code,
         with.at = "authorized" => with.verb = "unlock", keeper[k].at # "rest", DirFits(with, dir'[k]),
         dir' \in [Keeper -> {"none", "cipher", "plain"}], \A j \in Keeper \ {k} : dir'[j] = dir[j],
         UNCHANGED <<assets, writes, codes, told, left>>, misfortunes' \in Nat, misfortunes <= misfortunes'
  PROVE  ProtectKnows'
<1>1. codes' \in Nat /\ codes <= codes' /\ left' \in Nat /\ left' <= misfortunes'
  BY DEF ProtectKnows, ProtectTyped
<1>2. InHand(with)'
  BY KeeperKnows, AssetFacts DEF InHand, IsReal
<1>3. QED
  BY <1>1, <1>2, CalmKeeps

\* The three openings of an unlock.
LEMMA OpenToUnlockStep == ASSUME ProtectKnows, NEW k \in Keeper, OpenToUnlock(k) PROVE ProtectKnows'
<1>1. keeper[k].at = "asked" /\ UNCHANGED <<assets, writes, told, left, misfortunes>>
  BY DEF OpenToUnlock
<1>2. CASE Ended(k)
  BY <1>1, <1>2, EndedKeeps
<1>3. CASE Goes(k, [keeper[k] EXCEPT !.at = "checked", !.profile = Input(k).profile]) /\ UNCHANGED <<dir, codes>>
  <2>1. PICK c, profile : c = keeper[k] /\ profile = Input(k).profile
    OBVIOUS
  <2>2. c \in KeeperRecords /\ InHand(c) /\ profile \in {"none", "scrypt", "argon2id"} /\ "checked" \in KeeperSteps /\ dir[k] = "none"
    BY <1>1, <2>1, KeeperKnows, InputFacts DEF AssetRecords, KeeperSteps, DirFits
  <2>3. PICK with : with = [c EXCEPT !.at = "checked", !.profile = profile]
    OBVIOUS
  <2>4. with \in KeeperRecords /\ with.at = "checked" /\ with.made = c.made /\ with.file = c.file /\ with.out = c.out /\ with.code = c.code
    BY <2>2, <2>3 DEF KeeperRecords
  <2>5. with.made = NoAsset
    BY <1>1, <2>1, <2>2, <2>4 DEF InHand
  <2>6. dir' \in [Keeper -> {"none", "cipher", "plain"}] /\ misfortunes' \in Nat /\ misfortunes <= misfortunes' /\ DirFits(with, dir'[k])
    BY <1>1, <1>3, <2>2 DEF ProtectKnows, ProtectTyped, DirFits
  <2>7. QED
    BY <1>1, <1>3, <2>1, <2>3, <2>4, <2>5, <2>6, GoesOnKeeps
<1>4. QED
  BY <1>2, <1>3 DEF OpenToUnlock

\* The second, which authorizes.
LEMMA LoadAuthorizedStep == ASSUME ProtectKnows, NEW k \in Keeper, LoadAuthorized(k) PROVE ProtectKnows'
<1>1. keeper[k].at = "checked" /\ UNCHANGED <<assets, writes, told, left, misfortunes>>
  BY DEF LoadAuthorized
<1>2. CASE Ended(k)
  BY <1>1, <1>2, EndedKeeps
<1>3. CASE keeper[k].verb = "unlock" /\ Goes(k, [keeper[k] EXCEPT !.at = "authorized"]) /\ UNCHANGED <<dir, codes>>
  <2>1. PICK c : c = keeper[k]
    OBVIOUS
  <2>2. c \in KeeperRecords /\ InHand(c) /\ "authorized" \in KeeperSteps /\ dir[k] = "none"
    BY <1>1, <2>1, KeeperKnows DEF KeeperSteps, DirFits
  <2>3. PICK with : with = [c EXCEPT !.at = "authorized"]
    OBVIOUS
  <2>4. with \in KeeperRecords /\ with.at = "authorized" /\ with.made = c.made /\ with.file = c.file /\ with.out = c.out /\ with.code = c.code
        /\ with.verb = c.verb
    BY <2>2, <2>3 DEF KeeperRecords
  <2>5. with.made = NoAsset
    BY <1>1, <2>1, <2>2, <2>4 DEF InHand
  <2>6. dir' \in [Keeper -> {"none", "cipher", "plain"}] /\ misfortunes' \in Nat /\ misfortunes <= misfortunes' /\ DirFits(with, dir'[k])
    BY <1>1, <1>3, <2>2 DEF ProtectKnows, ProtectTyped, DirFits
  <2>7. QED
    BY <1>1, <1>3, <2>1, <2>3, <2>4, <2>5, <2>6, GoesOnKeeps
<1>4. QED
  BY <1>2, <1>3 DEF LoadAuthorized

\* The third, whose payload is decrypted.
LEMMA OpenAgainStep == ASSUME ProtectKnows, NEW k \in Keeper, OpenAgain(k) PROVE ProtectKnows'
<1>1. keeper[k].at = "authorized" /\ codes' = codes /\ UNCHANGED <<assets, writes, told, left, misfortunes>>
  BY DEF OpenAgain
<1>2. PICK c : c = keeper[k]
  OBVIOUS
<1>3. c \in KeeperRecords /\ InHand(c) /\ dir[k] = "none" /\ c.verb = "unlock" /\ Input(k) \in AssetRecords
  BY <1>1, <1>2, KeeperKnows, InputFacts DEF InHand, DirFits
<1>4. CASE Ended(k)
  BY <1>1, <1>4, EndedKeeps
<1>5. CASE Decrypts(Input(k), keeper[k].profile, keeper[k].password) /\ Staged(k, Unlocked(Input(k)), 0, "plain")
  <2>1. PICK asset : asset = Unlocked(Input(k))
    OBVIOUS
  <2>2. Input(k).body \in Nat
    BY <1>3 DEF AssetRecords
  <2>3. asset \in AssetRecords /\ IsReal(asset) /\ asset.kind = "whole" /\ asset.body = Input(k).body /\ ~asset.locked
    BY <2>1, <2>2, AssetFacts DEF Unlocked
  <2>4. codes' \in Nat /\ codes <= codes'
    BY <1>1 DEF ProtectKnows, ProtectTyped
  <2>5. QED
    BY <1>1, <1>2, <1>3, <1>5, <2>1, <2>3, <2>4, StagedKeeps DEF Decrypts
<1>6. CASE Goes(k, [keeper[k] EXCEPT !.at = "cleaning"]) /\ dir' = [dir EXCEPT ![k] = "cipher"]
  <2>1. PICK with : with = [c EXCEPT !.at = "cleaning"]
    OBVIOUS
  <2>2. "cleaning" \in KeeperSteps
    BY DEF KeeperSteps
  <2>3. with \in KeeperRecords /\ with.at = "cleaning" /\ with.made = c.made /\ with.file = c.file /\ with.out = c.out /\ with.code = c.code
    BY <1>3, <2>1, <2>2 DEF KeeperRecords
  <2>4. with.made = NoAsset
    BY <1>1, <1>2, <1>3, <2>3 DEF InHand
  <2>5. dir' \in [Keeper -> {"none", "cipher", "plain"}] /\ dir'[k] = "cipher" /\ \A j \in Keeper \ {k} : dir'[j] = dir[j]
    BY <1>6 DEF ProtectKnows, ProtectTyped
  <2>6. misfortunes' \in Nat /\ misfortunes <= misfortunes' /\ DirFits(with, dir'[k])
    BY <1>1, <2>3, <2>5 DEF ProtectKnows, ProtectTyped, DirFits
  <2>7. /\ Goes(k, with) /\ with.at \in {"checked", "authorized", "cleaning"} /\ ~(with.at = "authorized")
        /\ with.file = keeper[k].file /\ with.out = keeper[k].out /\ with.code = keeper[k].code /\ keeper[k].at # "rest"
    BY <1>1, <1>2, <1>6, <2>1, <2>3
  <2>8. QED
    BY <1>1, <2>3, <2>4, <2>5, <2>6, <2>7, GoesOnKeeps, Zenon
<1>7. QED
  BY <1>4, <1>5, <1>6 DEF OpenAgain

\* A write is seen by its count.
LEMMA WroteFacts ==
  ASSUME ProtectKnows, NEW x \in Place, NEW asset \in AssetRecords, IsReal(asset), Wrote(x, asset)
  PROVE  /\ assets' \in [Place -> AssetRecords] /\ writes' \in [Place -> Nat] /\ \A y \in Place : IsReal(assets'[y])
         /\ \A y \in Place : (writes'[y] = writes[y] /\ assets'[y] = assets[y]) \/ writes[y] < writes'[y]
         /\ writes'[x] = writes[x] + 1 /\ assets'[x] = asset /\ writes[x] \in Nat
<1>1. assets \in [Place -> AssetRecords] /\ writes \in [Place -> Nat] /\ \A y \in Place : IsReal(assets[y])
  BY DEF ProtectKnows, ProtectTyped
<1>2. writes'[x] = writes[x] + 1 /\ assets'[x] = asset /\ writes[x] \in Nat
  BY <1>1 DEF Wrote
<1>3. \A y \in Place \ {x} : writes'[y] = writes[y] /\ assets'[y] = assets[y]
  BY <1>1 DEF Wrote
<1>4. assets' \in [Place -> AssetRecords] /\ writes' \in [Place -> Nat]
  BY <1>1 DEF Wrote
<1>5. writes[x] < writes'[x]
  BY <1>2
<1>6. QED
  BY <1>1, <1>2, <1>3, <1>4, <1>5

\* A pack fails, and nothing will be told of it.
LEMMA FailsKeeps ==
  ASSUME ProtectKnows, NEW k \in Keeper, keeper[k].at \in {"staged", "packing"}, misfortunes' = misfortunes + 1,
         Goes(k, [keeper[k] EXCEPT !.at = "cleaning", !.made = NoAsset]), UNCHANGED <<assets, writes, dir, codes, told, left>>
  PROVE  ProtectKnows'
<1>1. PICK c : c = keeper[k]
  OBVIOUS
<1>2. c \in KeeperRecords /\ DirFits(c, dir[k]) /\ "cleaning" \in KeeperSteps
  BY <1>1, KeeperKnows DEF KeeperSteps
<1>3. PICK with : with = [c EXCEPT !.at = "cleaning", !.made = NoAsset]
  OBVIOUS
<1>4. with \in KeeperRecords /\ with.at = "cleaning" /\ with.made = NoAsset /\ with.file = c.file /\ with.out = c.out /\ with.code = c.code
      /\ with.source = c.source /\ with.password = c.password
  BY <1>2, <1>3, AssetFacts DEF KeeperRecords
<1>5. DirFits(with, dir'[k]) /\ dir' \in [Keeper -> {"none", "cipher", "plain"}] /\ misfortunes' \in Nat /\ misfortunes <= misfortunes'
  BY <1>2, <1>4 DEF DirFits, ProtectKnows, ProtectTyped
<1>6. QED
  BY <1>1, <1>3, <1>4, <1>5, GoesOnKeeps

\* A command that holds an asset and writes.
LEMMA PacksKeeps ==
  ASSUME ProtectKnows, NEW k \in Keeper, keeper[k].at \in {"staged", "packing"}, NEW asset \in AssetRecords, IsReal(asset),
         Wrote(keeper[k].out, asset), NEW at \in {"packing", "cleaning"}, NEW begun \in Nat,
         Goes(k, [keeper[k] EXCEPT !.at = at, !.begun = begun]), UNCHANGED <<dir, codes, told, left, misfortunes>>,
         at = "cleaning" => begun = 0 \/ (begun = writes[keeper[k].out] + 1 /\ asset = keeper[k].made)
  PROVE  ProtectKnows'
<1>1. PICK c : c = keeper[k]
  OBVIOUS
<1>2. c \in KeeperRecords /\ DirFits(c, dir[k]) /\ InHand(c) /\ at \in KeeperSteps /\ c.out \in Place /\ c.made # NoAsset
  BY <1>1, KeeperKnows DEF KeeperSteps, InHand
<1>3. PICK with : with = [c EXCEPT !.at = at, !.begun = begun]
  OBVIOUS
<1>4. with \in KeeperRecords /\ with.at = at /\ with.begun = begun /\ with.made = c.made /\ with.file = c.file /\ with.out = c.out
      /\ with.code = c.code /\ with.source = c.source /\ with.password = c.password /\ with.verb = c.verb /\ with.fresh = c.fresh
  BY <1>2, <1>3 DEF KeeperRecords
<1>5. /\ assets' \in [Place -> AssetRecords] /\ writes' \in [Place -> Nat] /\ \A y \in Place : IsReal(assets'[y])
      /\ \A y \in Place : (writes'[y] = writes[y] /\ assets'[y] = assets[y]) \/ writes[y] < writes'[y]
      /\ writes'[c.out] = writes[c.out] + 1 /\ assets'[c.out] = asset /\ writes[c.out] \in Nat
  BY <1>1, <1>2, WroteFacts
<1>6. at = "cleaning" => PackIsSeen(with)'
  BY <1>1, <1>4, <1>5 DEF PackIsSeen
<1>7. MadeFits(with)
  BY <1>2, <1>4 DEF InHand, MadeFits
<1>8. InHand(with)'
  BY <1>2, <1>4, <1>6, <1>7 DEF InHand, MadeFits, IsReal
<1>9. DirFits(with, dir'[k]) /\ dir' \in [Keeper -> {"none", "cipher", "plain"}] /\ misfortunes' \in Nat /\ left' \in Nat
      /\ left' <= misfortunes' /\ codes' \in Nat /\ codes <= codes' /\ told' \subseteq TaleRecords
  BY <1>2, <1>4 DEF DirFits, ProtectKnows, ProtectTyped
<1>10. Goes(k, with)
  BY <1>1, <1>3
<1>11. \A t \in told' \ told : TaleHolds(t)'
  OBVIOUS
<1>12. QED
  BY <1>4, <1>5, <1>8, <1>9, <1>10, <1>11, ProtectKeeps

\* A pack begins, and shows as a torn file.
LEMMA BeginPackStep == ASSUME ProtectKnows, NEW k \in Keeper, BeginPack(k) PROVE ProtectKnows'
<1>1. keeper[k].at = "staged" /\ UNCHANGED <<dir, codes, told, left>>
  BY DEF BeginPack
<1>2. CASE /\ Wrote(keeper[k].out, Torn) /\ UNCHANGED misfortunes
           /\ Goes(k, [keeper[k] EXCEPT !.at = "packing", !.begun = writes[keeper[k].out] + 1])
  <2>1. PICK begun : begun = writes[keeper[k].out] + 1
    OBVIOUS
  <2>2. keeper[k].out \in Place
    BY <1>1, KeeperKnows DEF InHand
  <2>3. begun \in Nat
    BY <2>1, <2>2 DEF ProtectKnows, ProtectTyped
  <2>4. QED
    BY <1>1, <1>2, <2>1, <2>3, AssetFacts, PacksKeeps
<1>3. CASE /\ misfortunes' = misfortunes + 1 /\ UNCHANGED <<assets, writes>>
           /\ Goes(k, [keeper[k] EXCEPT !.at = "cleaning", !.made = NoAsset])
  BY <1>1, <1>3, FailsKeeps
<1>4. QED
  BY <1>2, <1>3 DEF BeginPack

\* A pack ends: with its asset, torn by another, or failed.
LEMMA EndPackStep == ASSUME ProtectKnows, NEW k \in Keeper, EndPack(k) PROVE ProtectKnows'
<1>1. keeper[k].at = "packing" /\ UNCHANGED <<dir, codes, told, left>>
  BY DEF EndPack
<1>2. CASE /\ Wrote(keeper[k].out, keeper[k].made) /\ UNCHANGED misfortunes
           /\ Goes(k, [keeper[k] EXCEPT !.at = "cleaning", !.begun = writes[keeper[k].out] + 1])
  <2>1. PICK begun : begun = writes[keeper[k].out] + 1
    OBVIOUS
  <2>2. keeper[k].out \in Place /\ keeper[k].made \in AssetRecords /\ IsReal(keeper[k].made)
    BY <1>1, KeeperKnows DEF InHand, KeeperRecords
  <2>3. begun \in Nat
    BY <2>1, <2>2 DEF ProtectKnows, ProtectTyped
  <2>4. QED
    BY <1>1, <1>2, <2>1, <2>2, <2>3, PacksKeeps
<1>3. CASE /\ Wrote(keeper[k].out, Torn) /\ UNCHANGED misfortunes
           /\ Goes(k, [keeper[k] EXCEPT !.at = "cleaning", !.begun = 0])
  BY <1>1, <1>3, AssetFacts, PacksKeeps
<1>4. CASE /\ misfortunes' = misfortunes + 1 /\ UNCHANGED <<assets, writes>>
           /\ Goes(k, [keeper[k] EXCEPT !.at = "cleaning", !.made = NoAsset])
  BY <1>1, <1>4, FailsKeeps
<1>5. QED
  BY <1>2, <1>3, <1>4 DEF EndPack

\* The plaintext of a directory is one at most.
LEMMA PlaintextFacts == ASSUME ProtectKnows, NEW k \in Keeper PROVE left + Plaintext(k) \in Nat /\ left + Plaintext(k) <= misfortunes + 1
<1>1. Plaintext(k) \in {0, 1}
  BY DEF Plaintext
<1>2. QED
  BY <1>1 DEF ProtectKnows, ProtectTyped

\* A command is done with its directory, and goes to its rest.
LEMMA RestsKeeps ==
  ASSUME ProtectKnows, NEW k \in Keeper, Goes(k, AtEase), dir' \in [Keeper -> {"none", "cipher", "plain"}], dir'[k] = "none",
         \A j \in Keeper \ {k} : dir'[j] = dir[j], UNCHANGED <<assets, writes, codes>>, left' \in Nat, misfortunes' \in Nat,
         left' <= misfortunes', told' \subseteq TaleRecords, \A t \in told' \ told : TaleHolds(t)'
  PROVE  ProtectKnows'
<1>1. codes \in Nat /\ codes' \in Nat /\ codes <= codes' /\ assets' \in [Place -> AssetRecords] /\ writes' \in [Place -> Nat]
      /\ \A x \in Place : IsReal(assets'[x])
  BY DEF ProtectKnows, ProtectTyped
<1>2. AtEase \in KeeperRecords /\ InHand(AtEase)'
  BY <1>1, RestFacts DEF InHand, PackIsSeen
<1>3. DirFits(AtEase, dir'[k])
  BY DEF DirFits
<1>4. QED
  BY <1>1, <1>2, <1>3, ProtectKeeps

\* The directory is removed, or left with a warning.
LEMMA CleanStep == ASSUME ProtectKnows, NEW k \in Keeper, Clean(k) PROVE ProtectKnows'
<1>1. /\ keeper[k].at = "cleaning" /\ dir' = [dir EXCEPT ![k] = "none"] /\ UNCHANGED <<assets, writes, codes, told>>
      /\ UNCHANGED <<left, misfortunes>> \/ (misfortunes' = misfortunes + 1 /\ left' = left + Plaintext(k))
  BY DEF Clean
<1>2. left' \in Nat /\ misfortunes' \in Nat /\ left' <= misfortunes' /\ told' \subseteq TaleRecords
  BY <1>1, PlaintextFacts DEF ProtectKnows, ProtectTyped
<1>3. dir' \in [Keeper -> {"none", "cipher", "plain"}] /\ dir'[k] = "none" /\ \A j \in Keeper \ {k} : dir'[j] = dir[j]
  BY <1>1 DEF ProtectKnows, ProtectTyped
<1>4. CASE keeper[k].made = NoAsset
  <2>1. Goes(k, AtEase)
    BY <1>4 DEF Clean
  <2>2. \A t \in told' \ told : TaleHolds(t)'
    BY <1>1
  <2>3. QED
    BY <1>1, <1>2, <1>3, <2>1, <2>2, RestsKeeps
<1>5. CASE keeper[k].made # NoAsset
  <2>1. PICK c : c = keeper[k]
    OBVIOUS
  <2>2. c \in KeeperRecords /\ InHand(c) /\ "cleaned" \in KeeperSteps
    BY <2>1, KeeperKnows DEF KeeperSteps
  <2>3. PICK with : with = [c EXCEPT !.at = "cleaned"]
    OBVIOUS
  <2>4. with \in KeeperRecords /\ with.at = "cleaned" /\ with.begun = c.begun /\ with.made = c.made /\ with.file = c.file /\ with.out = c.out
        /\ with.code = c.code /\ with.source = c.source /\ with.password = c.password /\ with.verb = c.verb /\ with.fresh = c.fresh
    BY <2>2, <2>3 DEF KeeperRecords
  <2>5. InHand(with)'
    BY <1>1, <1>5, <2>1, <2>2, <2>4 DEF InHand, MadeFits, PackIsSeen, IsReal
  <2>6. DirFits(with, dir'[k])
    BY <1>3 DEF DirFits
  <2>7. Goes(k, with)
    BY <1>5, <2>1, <2>3 DEF Clean
  <2>8. codes' \in Nat /\ codes <= codes'
    BY <1>1 DEF ProtectKnows, ProtectTyped
  <2>9. QED
    BY <1>1, <1>2, <1>3, <2>4, <2>5, <2>6, <2>7, <2>8, CalmKeeps
<1>6. QED
  BY <1>4, <1>5

\* What was made is told.
LEMMA TellStep == ASSUME ProtectKnows, NEW k \in Keeper, Tell(k) PROVE ProtectKnows'
<1>1. keeper[k].at = "cleaned" /\ Goes(k, AtEase) /\ UNCHANGED <<assets, writes, dir, codes, left, misfortunes>>
  BY DEF Tell
<1>2. PICK c : c = keeper[k]
  OBVIOUS
<1>3. PICK tale : tale = [out |-> c.out, at |-> c.begun, verb |-> c.verb, password |-> c.password, old |-> c.code, code |-> c.fresh,
                          body |-> c.source.body]
  OBVIOUS
<1>4. told' = told \union {tale}
  BY <1>2, <1>3 DEF Tell
<1>5. c \in KeeperRecords /\ c.out \in Place /\ MadeFits(c) /\ PackIsSeen(c) /\ c.source.body \in Nat /\ dir[k] = "none"
  BY <1>1, <1>2, KeeperKnows DEF InHand, DirFits, KeeperRecords, AssetRecords
<1>6. tale \in TaleRecords
  BY <1>3, <1>5 DEF TaleRecords, KeeperRecords
<1>7. tale.out = c.out /\ tale.at = c.begun /\ tale.verb = c.verb /\ tale.password = c.password /\ tale.old = c.code /\ tale.code = c.fresh
      /\ tale.body = c.source.body
  BY <1>3
<1>8. TaleHolds(tale)
  BY <1>5, <1>7 DEF TaleHolds, MadeFits, PackIsSeen
<1>9. TaleHolds(tale)'
  BY <1>1, <1>8 DEF TaleHolds
<1>10. \A t \in told' \ told : TaleHolds(t)'
  BY <1>4, <1>9
<1>11. told' \subseteq TaleRecords /\ left' \in Nat /\ misfortunes' \in Nat /\ left' <= misfortunes' /\ dir' = dir
       /\ dir' \in [Keeper -> {"none", "cipher", "plain"}]
  BY <1>1, <1>4, <1>6 DEF ProtectKnows, ProtectTyped
<1>12. QED
  BY <1>1, <1>5, <1>10, <1>11, RestsKeeps

\* A command is killed, with what its directory holds.
LEMMA KilledStep == ASSUME ProtectKnows, NEW k \in Keeper, Killed(k) PROVE ProtectKnows'
<1>1. /\ Goes(k, AtEase) /\ dir' = [dir EXCEPT ![k] = "none"] /\ UNCHANGED <<assets, writes, codes, told>>
      /\ misfortunes' = misfortunes + 1 /\ left' = left + Plaintext(k)
  BY DEF Killed
<1>2. left' \in Nat /\ misfortunes' \in Nat /\ left' <= misfortunes' /\ told' \subseteq TaleRecords
  BY <1>1, PlaintextFacts DEF ProtectKnows, ProtectTyped
<1>3. dir' \in [Keeper -> {"none", "cipher", "plain"}] /\ dir'[k] = "none" /\ \A j \in Keeper \ {k} : dir'[j] = dir[j]
  BY <1>1 DEF ProtectKnows, ProtectTyped
<1>4. \A t \in told' \ told : TaleHolds(t)'
  BY <1>1
<1>5. QED
  BY <1>1, <1>2, <1>3, <1>4, RestsKeeps

\* Every step of protection keeps what is known.
LEMMA ProtectStep == ASSUME ProtectKnows, ProtectNext \/ UNCHANGED protectVars PROVE ProtectKnows'
<1>1. CASE ProtectNext
  BY <1>1, BeginCommandStep, OpenToProtectStep, OpenToRecoverStep, OpenToUnlockStep, LoadAuthorizedStep, OpenAgainStep, BeginPackStep,
     EndPackStep, CleanStep, TellStep, KilledStep DEF ProtectNext
<1>2. CASE UNCHANGED protectVars
  BY <1>2 DEF protectVars, ProtectKnows, ProtectTyped, InHand, MadeFits, PackIsSeen, DirFits, TaleHolds, IsReal
<1>3. QED
  BY <1>1, <1>2

\* It is known at first.
LEMMA ProtectStart == ProtectInit => ProtectKnows
<1>1. SUFFICES ASSUME ProtectInit PROVE ProtectKnows
  OBVIOUS
<1>2. PICK w \in Password : w = CHOOSE v \in Password : TRUE
  BY ProtectAssumption
<1>3. ASSUME NEW profile \in {"scrypt", "argon2id"}, NEW body \in Nat, NEW code \in Nat
      PROVE  Locked(body, profile, code) \in AssetRecords /\ IsReal(Locked(body, profile, code))
  <2>1. PICK asset : asset = [kind |-> "whole", access |-> "licensed", locked |-> TRUE, profile |-> profile, password |-> w,
                              code |-> code, body |-> body]
    OBVIOUS
  <2>2. asset = Locked(body, profile, code)
    BY <1>2, <2>1 DEF Locked, Asset
  <2>3. asset \in AssetRecords /\ IsReal(asset)
    BY <2>1 DEF AssetRecords, IsReal
  <2>4. QED
    BY <2>2, <2>3
<1>4. PICK kinds : kinds = {NoAsset, Public(1), Locked(2, "scrypt", 0), Locked(3, "argon2id", 1)}
  OBVIOUS
<1>5. \A asset \in kinds : asset \in AssetRecords /\ IsReal(asset)
  BY <1>3, <1>4, AssetFacts
<1>6. assets \in [Place -> kinds]
  BY <1>1, <1>4 DEF ProtectInit
<1>7. assets \in [Place -> AssetRecords] /\ \A x \in Place : IsReal(assets[x])
  BY <1>5, <1>6
<1>8. writes = [x \in Place |-> 0] /\ keeper = [k \in Keeper |-> AtEase] /\ dir = [k \in Keeper |-> "none"] /\ codes = 1 /\ told = {}
      /\ left = 0 /\ misfortunes = 0
  BY <1>1 DEF ProtectInit
<1>9. AtEase \in KeeperRecords /\ InHand(AtEase) /\ AtEase.at = "rest"
  BY <1>8, RestFacts
<1>10. ProtectTyped
  BY <1>7, <1>8, <1>9 DEF ProtectTyped
<1>11. \A k \in Keeper : InHand(keeper[k]) /\ DirFits(keeper[k], dir[k])
  BY <1>8, <1>9 DEF DirFits
<1>12. QED
  BY <1>7, <1>8, <1>10, <1>11 DEF ProtectKnows

\* What is known is what the invariant says.
LEMMA ProtectTells == ProtectKnows => ProtectionHolds
<1>1. SUFFICES ASSUME ProtectKnows PROVE ProtectionHolds
  OBVIOUS
<1>2. AccessIsReal
  BY <1>1 DEF ProtectKnows, AccessIsReal, IsReal
<1>3. WhatWasToldOpens
  BY <1>1 DEF ProtectKnows, WhatWasToldOpens, TaleHolds
<1>4. \A k \in Keeper : DirFits(keeper[k], dir[k])
  BY <1>1 DEF ProtectKnows
<1>5. PlaintextIsEarned
  BY <1>1, <1>4 DEF ProtectKnows, PlaintextIsEarned, DirFits
<1>6. QED
  BY <1>2, <1>3, <1>5 DEF ProtectionHolds

--------------------------------------------------------------------------------
(* SafeArchive: what the inspection of an archive says of its entries, however many. *)

\* The names in a path.
PathNames == {"mimetype", "a", "A", "b"}

\* The places of entries.
EntryPlaces == Paths \union {<<"b">>}

\* What the entries of an archive are, wherever they lie.
EntryRecords == [path : EntryPlaces, start : Nat, packed : Nat, size : Nat, stored : BOOLEAN]

\* What an archive is.
ArchiveRecords == [entries : Seq(EntryRecords), flaw : Flaws \union {"none"}]

\* The entry that the sort puts next to one, if there is any behind it.
LEMMA NextEntry ==
  ASSUME NEW e \in Seq(EntryRecords), NEW i \in 1..Len(e), NEW j \in 1..Len(e), Earlier(e, i, j)
  PROVE  \E k \in 1..Len(e) : /\ Earlier(e, i, k) /\ e[k].start <= e[j].start
                              /\ \A q \in 1..Len(e) : ~(Earlier(e, i, q) /\ Earlier(e, q, k))
<1>1. PICK all : all = 1..Len(e)
  OBVIOUS
<1>2. all \subseteq Nat /\ i \in all /\ j \in all /\ \A q \in all : e[q].start \in Nat
  <2>1. \A q \in all : e[q] \in EntryRecords
    BY <1>1
  <2>2. \A q \in all : e[q].start \in Nat
    BY <2>1 DEF EntryRecords
  <2>3. all \subseteq Nat
    BY <1>1
  <2>4. QED
    BY <1>1, <2>2, <2>3
<1>3. PICK later : later = {q \in all : Earlier(e, i, q)}
  OBVIOUS
<1>4. PICK starts : starts = {e[q].start : q \in later}
  OBVIOUS
<1>5. starts \in SUBSET Nat /\ e[j].start \in starts /\ j \in later
  BY <1>2, <1>3, <1>4
<1>6. PICK first \in starts : \A m \in starts : first <= m
  BY <1>5, LeastOf
<1>7. PICK firsts : firsts = {q \in later : e[q].start = first}
  OBVIOUS
<1>8. firsts \in SUBSET Nat /\ firsts # {}
  BY <1>2, <1>3, <1>4, <1>6, <1>7
<1>9. PICK k \in firsts : \A q \in firsts : k <= q
  BY <1>8, LeastOf
<1>10. k \in all /\ Earlier(e, i, k) /\ e[k].start = first /\ first <= e[j].start
  BY <1>3, <1>5, <1>6, <1>7, <1>9
<1>11. ASSUME NEW q \in all, Earlier(e, i, q), Earlier(e, q, k) PROVE FALSE
  <2>1. q \in later /\ e[q].start \in starts
    BY <1>3, <1>4, <1>11
  <2>2. first <= e[q].start /\ first \in Nat /\ e[q].start \in Nat /\ q \in Nat /\ k \in Nat
    BY <1>2, <1>5, <1>6, <1>10, <2>1
  <2>3. e[q].start = first /\ q < k
    BY <1>10, <1>11, <2>2 DEF Earlier
  <2>4. q \in firsts
    BY <1>7, <2>1, <2>3
  <2>5. QED
    BY <1>9, <2>2, <2>3, <2>4
<1>12. QED
  BY <1>1, <1>10, <1>11

\* Comparing each entry with the one before it in the sort tells of any two of them.
LEMMA ApartInOrder ==
  ASSUME NEW e \in Seq(EntryRecords), ~Overlapping(e), NEW i \in 1..Len(e), NEW j \in 1..Len(e), Earlier(e, i, j)
  PROVE  End(e[i]) <= e[j].start
<1>1. PICK k \in 1..Len(e) : /\ Earlier(e, i, k) /\ e[k].start <= e[j].start
                             /\ \A q \in 1..Len(e) : ~(Earlier(e, i, q) /\ Earlier(e, q, k))
  BY NextEntry
<1>2. ~(e[k].start < End(e[i]))
  BY <1>1 DEF Overlapping
<1>3. e[k] \in EntryRecords /\ e[i] \in EntryRecords /\ e[j] \in EntryRecords
  OBVIOUS
<1>4. e[k].start \in Nat /\ e[j].start \in Nat /\ e[i].start \in Nat /\ e[i].packed \in Nat
  BY <1>3 DEF EntryRecords
<1>5. End(e[i]) \in Nat
  BY <1>4 DEF End
<1>6. QED
  BY <1>1, <1>2, <1>4, <1>5

\* So no two entries share a byte.
LEMMA EntriesApart ==
  ASSUME NEW e \in Seq(EntryRecords), ~Overlapping(e), NEW i \in 1..Len(e), NEW j \in 1..Len(e), i # j
  PROVE  End(e[i]) <= e[j].start \/ End(e[j]) <= e[i].start
<1>1. e[i] \in EntryRecords /\ e[j] \in EntryRecords
  OBVIOUS
<1>2. e[j].start \in Nat /\ e[i].start \in Nat
  BY <1>1 DEF EntryRecords
<1>3. Earlier(e, i, j) \/ Earlier(e, j, i)
  BY <1>2 DEF Earlier
<1>4. QED
  BY <1>3, ApartInOrder

\* A path has a name, and a tree below its first.
LEMMA PathsAre == ASSUME NEW p \in EntryPlaces PROVE p \in Seq(PathNames) /\ Len(p) \in Nat /\ 1 <= Len(p)
<1>1. p = <<"mimetype">> \/ p = <<"a">> \/ p = <<"A">> \/ p = <<"a", "b">> \/ p = <<"b">>
  BY DEF Paths, EntryPlaces
<1>2. CASE p = <<"mimetype">>
  BY <1>2 DEF PathNames
<1>3. CASE p = <<"a">>
  BY <1>3 DEF PathNames
<1>4. CASE p = <<"A">>
  BY <1>4 DEF PathNames
<1>5. CASE p = <<"a", "b">>
  BY <1>5 DEF PathNames
<1>6. CASE p = <<"b">>
  BY <1>6 DEF PathNames
<1>7. QED
  BY <1>1, <1>2, <1>3, <1>4, <1>5, <1>6

\* In lower case a path has as many names.
LEMMA LowerPath ==
  ASSUME NEW p \in Seq(PathNames)
  PROVE  /\ Lower(p) \in Seq(PathNames) /\ Len(Lower(p)) = Len(p)
         /\ \A i \in 1..Len(p) : Lower(p)[i] = IF p[i] = "A" THEN "a" ELSE p[i]
<1>1. Lower(p) = [i \in 1..Len(p) |-> IF p[i] = "A" THEN "a" ELSE p[i]]
  BY DEF Lower
<1>2. \A i \in 1..Len(p) : (IF p[i] = "A" THEN "a" ELSE p[i]) \in PathNames
  <2>1. "a" \in PathNames /\ \A i \in 1..Len(p) : p[i] \in PathNames
    BY DEF PathNames
  <2>2. QED
    BY <2>1
<1>3. QED
  BY <1>1, <1>2

\* The first names of a path in lower case are those of the path, in lower case.
LEMMA LowerStart ==
  ASSUME NEW p \in Seq(PathNames), NEW n \in 1..Len(p)
  PROVE  Lower(SubSeq(p, 1, n)) = SubSeq(Lower(p), 1, n)
<1>1. PICK s : s = SubSeq(p, 1, n)
  OBVIOUS
<1>2. s \in Seq(PathNames) /\ Len(s) = n /\ \A i \in 1..n : s[i] = p[i]
  BY <1>1
<1>3. PICK q : q = Lower(p)
  OBVIOUS
<1>4. q \in Seq(PathNames) /\ Len(q) = Len(p) /\ \A i \in 1..Len(p) : q[i] = IF p[i] = "A" THEN "a" ELSE p[i]
  BY <1>3, LowerPath
<1>5. SubSeq(q, 1, n) = [i \in 1..n |-> q[i]]
  BY <1>4
<1>6. Lower(s) = [i \in 1..n |-> IF s[i] = "A" THEN "a" ELSE s[i]]
  BY <1>2 DEF Lower
<1>7. \A i \in 1..n : q[i] = IF s[i] = "A" THEN "a" ELSE s[i]
  BY <1>2, <1>4
<1>8. QED
  BY <1>1, <1>3, <1>5, <1>6, <1>7

\* Neither of two entries is, or lies in, the other's place in a tree that does not tell cases apart.
LEMMA PlacesApart ==
  ASSUME NEW e \in Seq(EntryRecords), ~Colliding(e), ~PathConflicts(e), NEW i \in 1..Len(e), NEW j \in 1..Len(e), i # j
  PROVE  ~IsPrefix(Lower(e[i].path), Lower(e[j].path))
<1>1. e[i] \in EntryRecords /\ e[j] \in EntryRecords
  OBVIOUS
<1>2. PICK p : p = e[i].path
  OBVIOUS
<1>3. PICK q : q = e[j].path
  OBVIOUS
<1>4. p \in EntryPlaces /\ q \in EntryPlaces
  BY <1>1, <1>2, <1>3 DEF EntryRecords
<1>5. p \in Seq(PathNames) /\ Len(p) \in Nat /\ 1 <= Len(p) /\ q \in Seq(PathNames) /\ Len(q) \in Nat /\ 1 <= Len(q)
  BY <1>4, PathsAre
<1>6. PICK low : low = Lower(p)
  OBVIOUS
<1>7. PICK deep : deep = Lower(q)
  OBVIOUS
<1>8. low \in Seq(PathNames) /\ Len(low) = Len(p) /\ deep \in Seq(PathNames) /\ Len(deep) = Len(q)
  BY <1>5, <1>6, <1>7, LowerPath
<1>9. low # deep
  <2>1. i < j \/ j < i
    OBVIOUS
  <2>2. QED
    BY <2>1, <1>2, <1>3, <1>6, <1>7 DEF Colliding
<1>10. SUFFICES ASSUME IsPrefix(low, deep) PROVE FALSE
  BY <1>2, <1>3, <1>6, <1>7
<1>11. Len(p) <= Len(q) /\ SubSeq(low, 1, Len(p)) = SubSeq(deep, 1, Len(p))
  BY <1>8, <1>10 DEF IsPrefix
<1>12. SubSeq(low, 1, Len(p)) = low
  BY <1>5, <1>8
<1>13. CASE Len(p) = Len(q)
  <2>1. SubSeq(deep, 1, Len(q)) = deep
    BY <1>5, <1>8
  <2>2. QED
    BY <2>1, <1>9, <1>11, <1>12, <1>13
<1>14. CASE Len(p) < Len(q)
  <2>1. Len(p) \in 1..Len(q) /\ Len(p) \in 1..Len(q) - 1
    BY <1>5, <1>14
  <2>2. Lower(SubSeq(q, 1, Len(p))) = low
    BY <2>1, <1>5, <1>7, <1>11, <1>12, LowerStart
  <2>3. QED
    BY <2>1, <2>2, <1>2, <1>3, <1>6 DEF PathConflicts
<1>15. QED
  BY <1>5, <1>11, <1>13, <1>14

\* What some of the files hold, uncompressed, is at most what the inspection counts for the entries.
LEMMA HoldingIsCounted ==
  ASSUME parcel \in ArchiveRecords, NEW paths
  PROVE  Cardinality(Holding(paths)) <= Cardinality(UnitsOf(parcel.entries)) /\ IsFiniteSet(Holding(paths)) /\ IsFiniteSet(UnitsOf(parcel.entries))
<1>1. PICK e : e = parcel.entries
  OBVIOUS
<1>2. e \in Seq(EntryRecords) /\ Len(e) \in Nat
  BY <1>1 DEF ArchiveRecords
<1>3. PICK held : held = Holding(paths)
  OBVIOUS
<1>4. PICK units : units = UnitsOf(e)
  OBVIOUS
<1>5. IsFiniteSet(units)
  <2>1. \A n \in Nat : IsFiniteSet(1..n)
    BY FS_Interval
  <2>2. MaxEntry \in Nat
    BY ArchiveAssumption
  <2>3. IsFiniteSet((1..Len(e)) \X (1..MaxEntry))
    BY <1>2, <2>1, <2>2, FS_Product
  <2>4. units \in SUBSET ((1..Len(e)) \X (1..MaxEntry))
    BY <1>4 DEF UnitsOf
  <2>5. QED
    BY <2>3, <2>4, FS_Subset
<1>6. PICK of : of = [h \in held |-> CHOOSE i \in 1..Len(e) : e[i].path = h[1] /\ h[2] <= e[i].size]
  OBVIOUS
<1>7. ASSUME NEW h \in held PROVE of[h] \in 1..Len(e) /\ e[of[h]].path = h[1] /\ h[2] <= e[of[h]].size
  <2>1. \E i \in 1..Len(e) : e[i].path = h[1] /\ h[2] <= e[i].size
    BY <1>1, <1>3 DEF Holding
  <2>2. QED
    BY <2>1, <1>6
<1>8. ASSUME NEW h \in held PROVE h = <<h[1], h[2]>> /\ h[2] \in 1..MaxEntry
  BY <1>3 DEF Holding
<1>9. PICK put : put = [h \in held |-> <<of[h], h[2]>>]
  OBVIOUS
<1>10. ASSUME NEW h \in held PROVE put[h] \in units
  <2>1. put[h] = <<of[h], h[2]>> /\ put[h][1] = of[h] /\ put[h][2] = h[2]
    BY <1>9
  <2>2. put[h] \in (1..Len(e)) \X (1..MaxEntry)
    BY <2>1, <1>7, <1>8
  <2>3. QED
    BY <2>1, <2>2, <1>4, <1>7 DEF UnitsOf
<1>11. ASSUME NEW g \in held, NEW h \in held, put[g] = put[h] PROVE g = h
  <2>1. of[g] = of[h] /\ g[2] = h[2]
    BY <1>9, <1>11
  <2>2. g[1] = h[1]
    BY <2>1, <1>7
  <2>3. QED
    BY <2>1, <2>2, <1>8
<1>12. put \in [held -> units]
  BY <1>9, <1>10
<1>13. put \in Injection(held, units)
  BY <1>11, <1>12 DEF Injection, IsInjective
<1>14. Cardinality(held) <= Cardinality(units) /\ IsFiniteSet(held)
  BY <1>5, <1>13, FS_Injection
<1>15. QED
  BY <1>1, <1>3, <1>4, <1>5, <1>14

\* Every archive that is downloaded is one of those.
LEMMA FetchedIs == ASSUME FetchArchive PROVE parcel' \in ArchiveRecords
<1>1. MaxEntry \in Nat /\ Central \in Nat /\ MaxEntries \in Nat
  BY ArchiveAssumption
<1>2. Entries \subseteq EntryRecords
  <2>1. ASSUME NEW x \in Entries PROVE x \in EntryRecords
    <3>1. PICK start \in 0..Central - 1, packed \in 0..1, size \in 0..MaxEntry + 1, path \in Paths, stored \in BOOLEAN :
            x = [path |-> path, start |-> start, packed |-> packed, size |-> size, stored |-> stored]
      BY DEF Entries
    <3>2. start \in Nat /\ size \in Nat /\ packed \in Nat /\ path \in EntryPlaces
      BY <1>1 DEF EntryPlaces
    <3>3. QED
      BY <3>1, <3>2 DEF EntryRecords
  <2>2. QED
    BY <2>1
<1>3. StoredEntries \subseteq EntryRecords
  BY <1>2 DEF StoredEntries
<1>4. ASSUME NEW n \in Nat, NEW records \in SUBSET EntryRecords, NEW e \in [1..n -> records] PROVE e \in Seq(EntryRecords)
  <2>1. e \in Seq(records)
    OBVIOUS
  <2>2. QED
    BY <2>1
<1>5. ASSUME NEW stored \in BOOLEAN, NEW s \in Nat, NEW u \in Nat PROVE Simple(stored, s, u) \in Seq(EntryRecords)
  <2>1. PICK first : first = [path |-> <<"mimetype">>, start |-> 0, packed |-> 1, size |-> 1, stored |-> stored]
    OBVIOUS
  <2>2. PICK second : second = [path |-> <<"a", "b">>, start |-> 2, packed |-> 1, size |-> s, stored |-> FALSE]
    OBVIOUS
  <2>3. PICK third : third = [path |-> <<"b">>, start |-> 4, packed |-> 1, size |-> u, stored |-> FALSE]
    OBVIOUS
  <2>4. <<"mimetype">> \in EntryPlaces /\ <<"a", "b">> \in EntryPlaces /\ <<"b">> \in EntryPlaces
    BY DEF Paths, EntryPlaces
  <2>5. first \in EntryRecords
    BY <2>1, <2>4 DEF EntryRecords
  <2>6. second \in EntryRecords
    BY <2>2, <2>4 DEF EntryRecords
  <2>7. third \in EntryRecords
    BY <2>3, <2>4 DEF EntryRecords
  <2>8. Simple(stored, s, u) = <<first, second, third>>
    BY <2>1, <2>2, <2>3 DEF Simple
  <2>9. QED
    BY <2>5, <2>6, <2>7, <2>8
<1>6. ASSUME NEW e \in Seq(EntryRecords) PROVE Flawless(e) \in ArchiveRecords
  BY DEF Flawless, ArchiveRecords
<1>7. CASE \E n \in 1..MaxEntries : \E e \in [1..n -> StoredEntries] : parcel' = Flawless(e)
  BY <1>1, <1>3, <1>4, <1>6, <1>7
<1>8. CASE \E n \in 1..MaxEntries - 1 : \E e \in [1..n -> Entries] : parcel' = Flawless(e)
  <2>1. PICK n \in 1..MaxEntries - 1 : \E e \in [1..n -> Entries] : parcel' = Flawless(e)
    BY <1>8
  <2>2. n \in Nat
    BY <1>1
  <2>3. QED
    BY <2>1, <2>2, <1>2, <1>4, <1>6
<1>9. CASE \E stored \in BOOLEAN, s \in 0..MaxEntry + 1, t \in 0..MaxEntry + 1 : parcel' = Flawless(Simple(stored, s, t))
  <2>1. PICK stored \in BOOLEAN, s \in 0..MaxEntry + 1, u \in 0..MaxEntry + 1 : parcel' = Flawless(Simple(stored, s, u))
    BY <1>9
  <2>2. s \in Nat /\ u \in Nat
    BY <1>1
  <2>3. QED
    BY <2>1, <2>2, <1>5, <1>6
<1>10. CASE \E f \in Flaws : parcel' = [entries |-> Simple(TRUE, 1, 1), flaw |-> f]
  <2>1. Simple(TRUE, 1, 1) \in Seq(EntryRecords)
    BY <1>5
  <2>2. PICK f \in Flaws : parcel' = [entries |-> Simple(TRUE, 1, 1), flaw |-> f]
    BY <1>10
  <2>3. QED
    BY <2>1, <2>2 DEF ArchiveRecords
<1>11. QED
  BY <1>7, <1>8, <1>9, <1>10 DEF FetchArchive

\* An archive that was inspected and found to be the registry's: all that is promised of what is written.
LEMMA InspectedIsSafe ==
  ASSUME parcel \in ArchiveRecords, Preflighted(parcel), Bound(parcel)
  PROVE  WrittenIsSafe
<1>1. PICK e : e = parcel.entries
  OBVIOUS
<1>2. e \in Seq(EntryRecords) /\ parcel.flaw \in Flaws \union {"none"}
  BY <1>1 DEF ArchiveRecords
<1>3. parcel.flaw = "none"
  BY <1>2 DEF Preflighted, Bound, Flaws
<1>4. /\ \A i \in 1..Len(e) : End(e[i]) <= Central
      /\ ~Colliding(e) /\ ~Overlapping(e) /\ ~PathConflicts(e) /\ BeginsWithMimetype(e) /\ WithinLimits(e)
  BY <1>1 DEF Preflighted
<1>5. \A i, j \in 1..Len(e) : i # j =>
        /\ End(e[i]) <= e[j].start \/ End(e[j]) <= e[i].start
        /\ ~IsPrefix(Lower(e[i].path), Lower(e[j].path))
  BY <1>2, <1>4, EntriesApart, PlacesApart
<1>6. \E i \in 1..Len(e) : e[i].start = 0 /\ e[i].path = <<"mimetype">> /\ e[i].stored
  BY <1>4 DEF BeginsWithMimetype
<1>7. (\A i \in 1..Len(e) : e[i].size <= MaxEntry) /\ Cardinality(UnitsOf(e)) <= MaxTotal
  BY <1>4 DEF WithinLimits
<1>8. Cardinality(Holding(staging)) <= MaxTotal
  <2>1. PICK held : held = Holding(staging)
    OBVIOUS
  <2>2. PICK units : units = UnitsOf(e)
    OBVIOUS
  <2>3. Cardinality(held) <= Cardinality(units) /\ IsFiniteSet(held) /\ IsFiniteSet(units)
    BY <2>1, <2>2, <1>1, HoldingIsCounted
  <2>4. Cardinality(held) \in Nat /\ Cardinality(units) \in Nat /\ MaxTotal \in Nat
    BY <2>3, FS_CardinalityType, ArchiveAssumption
  <2>5. Cardinality(held) <= MaxTotal
    BY <2>2, <2>3, <2>4, <1>7
  <2>6. QED
    BY <2>1, <2>5
<1>9. QED
  BY <1>1, <1>3, <1>4, <1>5, <1>6, <1>7, <1>8 DEF WrittenIsSafe

\* What is known between two steps: of the archive and what is written of it, of the destination, and of what a removal
\* has left.
ArchiveKnows ==
  /\ parcel \in ArchiveRecords
  /\ bench \in {"look", "write"} \/ staging # {} => Preflighted(parcel) /\ Bound(parcel)
  /\ bench \in {"download", "preflight", "look"} => staging = {}
  /\ staging \subseteq PathsOf(parcel) \union {<<>>}
  /\ target.whose = "ours" =>
       target.paths = PathsOf(parcel) /\ staging = {} /\ bench \in {"renamed", "done", "failed", "dead"}
  /\ foreign = "full" => target = [whose |-> "theirs", paths |-> {<<"a">>}]
  /\ bench \in {"renamed", "done"} => target.whose = "ours"
  /\ bench \notin {"done", "failed", "dead"} => tempThere /\ "download" \notin stuck
  /\ bench \notin {"discard", "failed", "dead"} => stuck = {}
  /\ bench \in {"discard", "failed"} /\ staging # {} => "staging" \in stuck
  /\ bench \in {"done", "failed"} => (tempThere <=> "download" \in stuck)
  /\ bench = "failed" /\ target.whose = "ours" => stuck = {"download"}

\* It holds before the download.
LEMMA ArchiveStart == ASSUME ArchiveInit PROVE ArchiveKnows
<1>1. NoParcel \in ArchiveRecords
  BY DEF NoParcel, ArchiveRecords
<1>2. QED
  BY <1>1 DEF ArchiveInit, ArchiveKnows, Absent

\* A step that leaves the archive, and what was made of it, alone.
LEMMA ArchiveIdle == ASSUME ArchiveKnows, UNCHANGED archiveVars PROVE ArchiveKnows'
BY DEF ArchiveKnows, archiveVars

\* Every step of the extraction, and of those who share its destination, keeps it.
LEMMA ArchiveStep == ASSUME ArchiveKnows, ArchiveNext \/ UNCHANGED archiveVars PROVE ArchiveKnows'
<1>1. CASE UNCHANGED archiveVars
  BY <1>1, ArchiveIdle
<1>2. CASE FetchArchive
  <2>1. parcel' \in ArchiveRecords
    BY <1>2, FetchedIs
  <2>2. /\ bench = "download" /\ bench' = "preflight" /\ staging = {} /\ target.whose # "ours"
        /\ UNCHANGED <<tempThere, staging, target, foreign, stuck>>
    BY <1>2 DEF FetchArchive, ArchiveKnows
  <2>3. QED
    BY <2>1, <2>2 DEF ArchiveKnows
<1>3. CASE Preflight
  <2>1. /\ bench = "preflight" /\ staging = {} /\ bench' \in {"look", "discard"}
        /\ bench' = "look" => Preflighted(parcel) /\ Bound(parcel)
        /\ UNCHANGED <<parcel, tempThere, staging, target, foreign, stuck>>
    BY <1>3 DEF Preflight, Thrown, ArchiveKnows
  <2>2. QED
    BY <2>1 DEF ArchiveKnows
<1>4. CASE MakeStaging
  <2>1. /\ bench = "look" /\ staging = {} /\ target.whose # "ours"
        /\ (bench' = "write" /\ staging' = {<<>>}) \/ (bench' = "discard" /\ staging' = {})
        /\ UNCHANGED <<parcel, tempThere, target, foreign, stuck>>
    BY <1>4 DEF MakeStaging, Thrown, ArchiveKnows
  <2>2. QED
    BY <2>1 DEF ArchiveKnows
<1>5. CASE WriteEntry
  <2>1. PICK i \in 1..Len(parcel.entries) : staging' = staging \union {parcel.entries[i].path}
    BY <1>5 DEF WriteEntry
  <2>2. parcel.entries[i].path \in PathsOf(parcel)
    BY DEF PathsOf
  <2>3. /\ staging' \subseteq PathsOf(parcel) \union {<<>>} /\ bench = "write" /\ target.whose # "ours"
        /\ UNCHANGED <<parcel, bench, tempThere, target, foreign, stuck>>
    BY <2>1, <2>2, <1>5 DEF WriteEntry, ArchiveKnows
  <2>4. QED
    BY <2>3 DEF ArchiveKnows
<1>6. CASE Rename
  <2>1. ~(<<>> \in PathsOf(parcel))
    <3>1. ASSUME NEW i \in 1..Len(parcel.entries) PROVE parcel.entries[i].path # <<>>
      <4>1. parcel.entries \in Seq(EntryRecords)
        BY DEF ArchiveKnows, ArchiveRecords
      <4>2. parcel.entries[i] \in EntryRecords
        BY <4>1
      <4>3. parcel.entries[i].path \in EntryPlaces
        BY <4>2 DEF EntryRecords
      <4>4. 1 <= Len(parcel.entries[i].path)
        BY <4>3, PathsAre
      <4>5. Len(<<>>) = 0
        OBVIOUS
      <4>6. QED
        BY <4>4, <4>5
    <3>2. QED
      BY <3>1 DEF PathsOf
  <2>2. CASE target.paths = {}
    <3>1. /\ target' = [whose |-> "ours", paths |-> staging \ {<<>>}] /\ staging' = {} /\ bench' = "renamed"
          /\ UNCHANGED <<parcel, tempThere, foreign, stuck>> /\ PathsOf(parcel) \subseteq staging /\ bench = "write"
      BY <1>6, <2>2 DEF Rename
    <3>2. staging \ {<<>>} = PathsOf(parcel)
      BY <2>1, <3>1 DEF ArchiveKnows
    <3>3. foreign # "full"
      <4>1. PICK one : one = [whose |-> "theirs", paths |-> {<<"a">>}]
        OBVIOUS
      <4>2. one.paths = {<<"a">>}
        BY <4>1
      <4>3. one.paths # {}
        BY <4>2
      <4>4. foreign = "full" => target = one
        BY <4>1 DEF ArchiveKnows
      <4>5. QED
        BY <2>2, <4>3, <4>4
    <3>4. QED
      BY <3>1, <3>2, <3>3 DEF ArchiveKnows
  <2>3. CASE target.paths # {}
    <3>1. /\ bench = "write" /\ bench' = "undo" /\ target.whose # "ours"
          /\ UNCHANGED <<parcel, tempThere, staging, target, foreign, stuck>>
      BY <1>6, <2>3 DEF Rename, ArchiveKnows
    <3>2. QED
      BY <3>1 DEF ArchiveKnows
  <2>4. QED
    BY <2>2, <2>3
<1>7. CASE Fail
  <2>1. /\ bench \in {"download", "look", "write"} /\ bench' = Thrown /\ target.whose # "ours"
        /\ UNCHANGED <<parcel, tempThere, staging, target, foreign, stuck>>
    BY <1>7 DEF Fail, ArchiveKnows
  <2>2. (bench' = "discard" /\ staging = {}) \/ (bench' = "undo" /\ staging # {})
    BY <2>1 DEF Thrown
  <2>3. QED
    BY <2>1, <2>2 DEF ArchiveKnows
<1>8. CASE Undo
  <2>1. /\ bench = "undo" /\ bench' = "discard" /\ target.whose # "ours" /\ stuck = {}
        /\ UNCHANGED <<parcel, tempThere, target, foreign>>
    BY <1>8 DEF Undo, ArchiveKnows
  <2>2. (staging' = {} /\ stuck' = {}) \/ (staging' \subseteq staging /\ staging # {} /\ stuck' = {"staging"})
    BY <2>1, <1>8 DEF Undo
  <2>3. QED
    BY <2>1, <2>2 DEF ArchiveKnows
<1>9. CASE Discard
  <2>1. /\ bench \in {"renamed", "discard"} /\ tempThere /\ "download" \notin stuck
        /\ bench = "renamed" => stuck = {} /\ target.whose = "ours"
        /\ bench = "discard" => target.whose # "ours"
        /\ UNCHANGED <<parcel, staging, target, foreign>>
    BY <1>9 DEF Discard, ArchiveKnows
  <2>2. CASE tempThere' = FALSE /\ bench' = (IF bench = "renamed" THEN "done" ELSE "failed") /\ UNCHANGED stuck
    BY <2>1, <2>2 DEF ArchiveKnows
  <2>3. CASE bench' = "failed" /\ stuck' = stuck \union {"download"} /\ UNCHANGED tempThere
    BY <2>1, <2>3 DEF ArchiveKnows
  <2>4. QED
    BY <2>2, <2>3, <1>9 DEF Discard
<1>10. CASE Crash
  BY <1>10 DEF Crash, ArchiveKnows
<1>11. CASE OtherMakes
  <2>1. /\ bench \in {"look", "write"} /\ target'.whose = "theirs" /\ target.whose # "ours"
        /\ foreign' = "full" => target' = [whose |-> "theirs", paths |-> {<<"a">>}]
        /\ UNCHANGED <<parcel, bench, tempThere, staging, stuck>>
    BY <1>11 DEF OtherMakes, ArchiveKnows
  <2>2. QED
    BY <2>1 DEF ArchiveKnows
<1>12. QED
  BY <1>1, <1>2, <1>3, <1>4, <1>5, <1>6, <1>7, <1>8, <1>9, <1>10, <1>11 DEF ArchiveNext

\* What is promised of an extraction.
LEMMA ArchiveTells == ArchiveKnows => ArchivesAreSafe
<1>1. SUFFICES ASSUME ArchiveKnows PROVE ArchivesAreSafe
  OBVIOUS
<1>2. WrittenIsSafe
  <2>1. CASE staging = {}
    BY <2>1 DEF WrittenIsSafe
  <2>2. CASE staging # {}
    BY <1>1, <2>2, InspectedIsSafe DEF ArchiveKnows
  <2>3. QED
    BY <2>1, <2>2
<1>3. ExtractionIsWhole
  BY <1>1 DEF ArchiveKnows, ExtractionIsWhole
<1>4. QED
  BY <1>2, <1>3 DEF ArchivesAreSafe
================================================================================
