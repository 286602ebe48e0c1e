-------------------------------- MODULE Discovery --------------------------------
(***************************************************************************)
(* The discovery commands of retired/src/agent.js for one task: each lists *)
(* the installed domains and then reads them one by one, while another     *)
(* process may install or remove one.  Words are counted, not spelled: an  *)
(* asset is what the task hits in it.                                      *)
(***************************************************************************)
EXTENDS Integers, SequencesExt

CONSTANTS
  Idents,     \* the number of domain names, in the order of the listing
  MaxChanges  \* bound on installs and removals by others

ASSUME DiscoveryAssumption == Idents \in Nat /\ MaxChanges \in Nat

VARIABLES
  shelf,    \* shelf[n][v]: the asset file of version v of domain n
  active,   \* active[n]: its active version in the package index, 0 when not installed
  asked,    \* the command under way: verb, versions listed, assets read, what it does next
  verdict,  \* what it answered
  output,   \* the agent's output that postvalidate read, as counts
  changes

discoveryVars == <<shelf, active, asked, verdict, output, changes>>

Ident == 1..Idents

\* loadable: the load plan says so; legible: its container opens without a key; against: hits in a
\* does_not_apply_when; fit: hits in an applies_when; relevance: the score of its description, insight and keywords.
Plain(against, fit, relevance) ==
  [yanked |-> FALSE, loadable |-> TRUE, legible |-> TRUE, against |-> against, fit |-> fit, relevance |-> relevance]

Assets == {Plain(0, 0, 0), Plain(0, 0, 4), Plain(0, 0, 6), Plain(0, 1, 2), Plain(1, 2, 0), Plain(2, 2, 0),
           [Plain(0, 2, 0) EXCEPT !.yanked = TRUE], [Plain(0, 2, 0) EXCEPT !.loadable = FALSE],
           [Plain(0, 0, 0) EXCEPT !.loadable = FALSE, !.legible = FALSE]}

\* A file that is not there, and one not yet read.
Gone == [Plain(0, 0, -1) EXCEPT !.legible = FALSE, !.loadable = FALSE]

Unread == Plain(0, 0, -2)

Asking(verb, listed, limit, step) ==
  [verb |-> verb, listed |-> listed, read |-> [n \in Ident |-> Unread], step |-> step, limit |-> limit, quiet |-> TRUE]

NotAsking == Asking("none", [n \in Ident |-> 0], 0, "idle")

Verdict(status, load, candidates) ==
  [status |-> status, load |-> load, checked |-> Gone, candidates |-> candidates, ranking |-> <<>>, hints |-> {}, dropped |-> {},
   exit |-> -1, trace |-> "none"]

NoVerdict == Verdict("none", 0, {})

Outputs == [terms : {0, 2}, used : {0, 1}, wrong : {0, 1}, checks : {"none", "traced", "untraced"}, outside : {0, 1},
            risks : {0, 1}]

EmptyOutput == [terms |-> 0, used |-> 0, wrong |-> 0, checks |-> "none", outside |-> 0, risks |-> 0]

DiscoveryInit ==
  /\ shelf \in [Ident -> [1..2 -> Assets \union {Gone}]] /\ \A n \in Ident : shelf[n][2] = Gone
  /\ active = [n \in Ident |-> IF shelf[n][1] = Gone THEN 0 ELSE 1]
  /\ asked = NotAsking /\ verdict = NoVerdict /\ output = EmptyOutput /\ changes = 0

--------------------------------------------------------------------------------

Listed == {n \in Ident : asked.listed[n] # 0}

\* readContainer throws; readDiscoveryAsset makes an invalid plan of it.
Unreadable(verb, asset) == verb \in {"select", "route"} /\ ~asset.legible

Legibles == {n \in Listed : asked.read[n] # Unread}

\* Mutant of Excluded: one word is enough.
ExcludedByOne(asset) == asset.against >= 1

Excluded(asset) == asset.against >= 2

FitScore(asset) == (IF asset.fit >= 2 THEN 3 * asset.fit ELSE 0) + asset.relevance

\* Those of S that the sort, which is stable, puts before n.
Ahead(read, S, n) ==
  {m \in S : \/ FitScore(read[m]) > FitScore(read[n])
             \/ FitScore(read[m]) = FitScore(read[n]) /\ m < n}

Ranked(read, S) == [i \in 1..Cardinality(S) |-> CHOOSE n \in S : Cardinality(Ahead(read, S, n)) = i - 1]

Rejected == {n \in Legibles : asked.read[n].yanked \/ Excluded(asked.read[n])}

\* What select ranks.
Ranking == Ranked(asked.read, {n \in Legibles \ Rejected : FitScore(asked.read[n]) > 0})

\* slice(0, limit): 0 stands for 3, a negative limit counts from the end.
Cut(s, limit) ==
  LET last == CASE limit = 0 -> 3 [] limit < 0 -> Len(s) + limit [] OTHER -> limit IN
  SubSeq(s, 1, IF last < Len(s) THEN last ELSE Len(s))

DroppedDomains == {n \in Legibles : ~asked.read[n].loadable \/ asked.read[n].yanked}

Hints == {n \in Legibles \ DroppedDomains : asked.read[n].relevance >= 2}

\* Mutant of StrongFits: a weak fit is strong enough.
AnyFit == {n \in Legibles \ Rejected : FitScore(asked.read[n]) > 0}

StrongFits == {n \in Legibles \ Rejected : FitScore(asked.read[n]) >= 6}

WeakFits == {n \in Legibles \ Rejected : FitScore(asked.read[n]) \in 1..5}

Says(S, decision) == {<<n, decision>> : n \in S}

\* The decision of route but for the caller policy, which only a single strong fit asks for.
Routed ==
  LET rejected == Says(Rejected, "rejected") IN
  IF StrongFits = {} /\ WeakFits = {} THEN Verdict("SKIP_NO_LOCAL_DOMAIN", 0, Says(Legibles \ Rejected, "rejected") \union rejected)
  ELSE IF Cardinality(StrongFits) > 1 THEN Verdict("ASK_AMBIGUOUS_DOMAIN", 0, Says(StrongFits, "ambiguous") \union rejected)
  ELSE IF Cardinality(StrongFits) = 1
       THEN Verdict("policy", CHOOSE n \in StrongFits : TRUE,
                   (Says(StrongFits, "strong_match") \union Says(WeakFits, "weak_match")) \union rejected)
  ELSE Verdict("SKIP_WEAK_FIT", 0, Says(WeakFits, "weak_match") \union rejected)

--------------------------------------------------------------------------------

Ask ==
  /\ asked.step = "idle" /\ verdict = NoVerdict
  /\ \E verb \in {"available", "match", "select", "route"}, limit \in {-1, 0, 1}, needed \in BOOLEAN :
       /\ verb # "select" => limit = 0
       /\ verb # "route" => needed
       /\ LET settled == verb = "route" /\ (~needed \/ \A n \in Ident : active[n] = 0) IN
          /\ asked' = Asking(verb, active, limit, IF settled THEN "done" ELSE "read")
          /\ verdict' = IF ~settled THEN verdict
                        ELSE Verdict(IF needed THEN "SKIP_NO_LOCAL_DOMAIN" ELSE "SKIP_NO_JUDGMENT_NEEDED", 0, {})
  /\ UNCHANGED <<shelf, active, output, changes>>

Look ==
  /\ asked.step = "read"
  /\ \E n \in Listed \ Legibles :
       /\ \A m \in Listed : m < n => asked.read[m] # Unread
       /\ LET asset == shelf[n][asked.listed[n]] IN
          IF Unreadable(asked.verb, asset)
          THEN asked' = [asked EXCEPT !.step = "done"] /\ verdict' = Verdict("threw", 0, {})
          ELSE asked' = [asked EXCEPT !.read[n] = asset] /\ verdict' = verdict
  /\ UNCHANGED <<shelf, active, output, changes>>

Conclude ==
  /\ asked.step = "read" /\ Legibles = Listed
  /\ verdict' = CASE asked.verb = "available" ->
                    [NoVerdict EXCEPT !.status = "told", !.hints = {n \in Legibles : ~asked.read[n].yanked}]
                  [] asked.verb = "match" -> [NoVerdict EXCEPT !.status = "told", !.hints = Hints, !.dropped = DroppedDomains]
                  [] asked.verb = "select" -> [NoVerdict EXCEPT !.status = "told", !.ranking = Cut(Ranking, asked.limit)]
                  [] OTHER -> Routed
  /\ asked' = [asked EXCEPT !.step = IF verdict'.status = "policy" THEN "policy" ELSE "done"]
  /\ UNCHANGED <<shelf, active, output, changes>>

Installed(n) == IF active[n] = 0 THEN Gone ELSE shelf[n][active[n]]

\* Mutant of Trusted: a yanked domain may be loaded.
TrustedAnyway(n) == active[n] # 0

\* All else that checkTrust finds is a warning: no entitlement, deprecated, not locked by a human.
Trusted(n) == active[n] # 0 /\ ~Installed(n).yanked

\* checkTrust looks the name up again.
CheckTrust ==
  /\ asked.step = "policy"
  /\ LET n == verdict.load
         seen == Installed(n) IN
     verdict' = IF active[n] # 0 /\ ~seen.legible THEN Verdict("threw", 0, {})
                ELSE IF Trusted(n) THEN [verdict EXCEPT !.status = "LOAD_STRONG_FIT", !.checked = seen]
                ELSE [verdict EXCEPT !.status = "BLOCK_POLICY_FAILED", !.load = 0]
  /\ asked' = [asked EXCEPT !.step = "done"]
  /\ UNCHANGED <<shelf, active, output, changes>>

Violations(o) == o.used + o.outside

Warnings(o) == o.wrong + (IF o.checks = "untraced" THEN 1 ELSE 0) + o.risks

\* Mutant of Passes: the line on boundaries is printed whatever was found.
PassesAlways(o) ==
  (o.terms - o.used) + (1 - o.wrong) + (IF o.checks = "traced" THEN 1 ELSE 0) + 1

\* One misunderstanding and one axiom with a boundary are looked for, and any number of banned terms.
Passes(o) ==
  (o.terms - o.used) + (1 - o.wrong) + (IF o.checks = "traced" THEN 1 ELSE 0)
    + (IF o.outside = 0 THEN 1 ELSE 0)

\* The trace may fail to be written; the exit code stands.
Postvalidate ==
  /\ asked.step = "idle" /\ verdict = NoVerdict
  /\ output' \in {o \in Outputs : o.used <= o.terms}
  /\ \E n \in Ident, written \in BOOLEAN :
       IF active[n] = 0 \/ ~Installed(n).legible
       THEN verdict' = [NoVerdict EXCEPT !.status = IF active[n] = 0 THEN "refused" ELSE "threw",
                                         !.exit = IF active[n] = 0 THEN 2 ELSE 1]
       ELSE verdict' = [NoVerdict EXCEPT !.status = "judged", !.exit = IF Violations(output') > 0 THEN 1 ELSE 0,
                                         !.trace = IF ~written THEN "none"
                                                   ELSE IF Violations(output') > 0 THEN "fail" ELSE "pass"]
  /\ asked' = [asked EXCEPT !.verb = "postvalidate", !.step = "done"]
  /\ UNCHANGED <<shelf, active, changes>>

\* Another process installs a first or a second version, or removes a domain with its files.
StoreChanges ==
  /\ changes < MaxChanges /\ changes' = changes + 1 /\ asked.verb \notin {"none", "postvalidate"} /\ asked.step # "done"
  /\ \E n \in Ident :
       \/ \E asset \in Assets, v \in 1..2 :
            /\ v = active[n] + 1 /\ shelf' = [shelf EXCEPT ![n][v] = asset] /\ active' = [active EXCEPT ![n] = v]
       \/ active[n] # 0 /\ active' = [active EXCEPT ![n] = 0] /\ shelf' = [shelf EXCEPT ![n] = [v \in 1..2 |-> Gone]]
  /\ asked' = [asked EXCEPT !.quiet = FALSE]
  /\ UNCHANGED <<verdict, output>>

DiscoveryNext == Ask \/ Look \/ Conclude \/ CheckTrust \/ Postvalidate \/ StoreChanges

--------------------------------------------------------------------------------

\* Fits by the words themselves, as the help describes a strong fit: two in one applies_when, or three in the metadata.
FitsByWords(asset) == ~asset.yanked /\ asset.against < 2 /\ (asset.fit >= 2 \/ asset.relevance >= 6)

\* A routed domain is the only one that fits by its words, select would name it first, it was not yanked when the policy
\* looked, and what the policy looked at is what was scored when nothing changed meanwhile. Match would drop it for its load
\* plan only, which route does not ask about: "do not load any domain in dropped" is not kept by route.
LoadsTheOnlyFit ==
  verdict.status = "LOAD_STRONG_FIT" =>
    /\ {n \in Listed : FitsByWords(asked.read[n])} = {verdict.load}
    /\ Head(Ranking) = verdict.load
    /\ verdict.load \in DroppedDomains => ~asked.read[verdict.load].loadable
    /\ ~verdict.checked.yanked /\ (asked.quiet => verdict.checked = asked.read[verdict.load])

\* An answered route accounts once for every domain but those that others outmatch.
RouteAccountsForAll ==
  verdict.candidates # {} =>
    /\ \A c, d \in verdict.candidates : c[1] = d[1] => c = d
    /\ \A n \in Listed : \/ \E c \in verdict.candidates : c[1] = n
                         \/ \E c \in verdict.candidates : FitScore(asked.read[c[1]]) > FitScore(asked.read[n])
                                                            /\ c[2] # "rejected"

\* The commands agree on what they read: what match hints at, select ranks unless a boundary excludes it; what match
\* drops, it does not hint at; the best ranked come first and the limit only shortens the list from its end.
CommandsAgree ==
  asked.step = "done" /\ asked.verb \in {"match", "select"} /\ verdict.status = "told" =>
    /\ \A n \in Hints : n \in ToSet(Ranking) \/ Excluded(asked.read[n])
    /\ verdict.hints \intersect verdict.dropped = {}
    /\ IsPrefix(verdict.ranking, Ranking)
    /\ asked.verb = "match" => \A n \in Listed : asked.read[n] = Gone => n \in verdict.dropped

\* The exit code and the trace of a judged output say the same, and each thing looked for is told once.
JudgedOnce ==
  verdict.status = "judged" =>
    /\ (verdict.exit = 1) = (output.used > 0 \/ output.outside > 0)
    /\ verdict.trace # "none" => (verdict.trace = "fail") = (verdict.exit = 1)
    /\ Violations(output) + Warnings(output) + Passes(output)
         = output.terms + 1 + (IF output.checks = "none" THEN 0 ELSE 1) + 1 + output.risks

DiscoveryAgrees == LoadsTheOnlyFit /\ RouteAccountsForAll /\ CommandsAgree /\ JudgedOnce
================================================================================
