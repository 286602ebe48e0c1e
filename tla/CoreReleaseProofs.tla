---------------------------- MODULE CoreReleaseProofs ----------------------------
(***************************************************************************)
(* Proofs about CoreRelease for every set of commands, of commits and any  *)
(* amount of interference: what is retained and published is the release's *)
(* commit, failures leave nothing, and a publication was approved.         *)
(*                                                                         *)
(* The order of the steps of each command is in its Program; the first     *)
(* lemmas read it off, and everything after them speaks of steps by name.  *)
(*                                                                         *)
(* And, in a part of its own at the end, proofs about BoundedFile for      *)
(* every limit, every buffer length and every length the file may take.    *)
(***************************************************************************)
EXTENDS CoreRelease, BoundedFile, TLAPS

(***************************************************************************)
(* The order of the steps.                                                 *)
(***************************************************************************)

LEMMA CheckSteps ==
  /\ DOMAIN Program.check = 1..6 /\ Len(Program.check) = 6
  /\ Program.check[1] = "head" /\ Program.check[2] = "tree" /\ Program.check[3] = "tag"
  /\ Program.check[4] = "status" /\ Program.check[5] = "index" /\ Program.check[6] = "bind"
BY DEF Program, Inspect

\* The steps of prepare, one by one.
LEMMA PrepareSteps ==
  LET steps == Program.prepare IN
  /\ DOMAIN steps = 1..21 /\ Len(steps) = 21
  /\ steps[1] = "dests" /\ steps[2] = "head" /\ steps[3] = "tree" /\ steps[4] = "tag" /\ steps[5] = "status"
  /\ steps[6] = "index" /\ steps[7] = "bind" /\ steps[8] = "temp" /\ steps[9] = "npm" /\ steps[10] = "source"
  /\ steps[11] = "gates" /\ steps[12] = "pack" /\ steps[13] = "build" /\ steps[14] = "keepArtifact"
  /\ steps[15] = "keepEvidence" /\ steps[16] = "head" /\ steps[17] = "tree" /\ steps[18] = "tag"
  /\ steps[19] = "status" /\ steps[20] = "index" /\ steps[21] = "bind"
BY DEF Program, Inspect

\* The steps of guard, one by one.
LEMMA GuardSteps ==
  LET steps == Program.guard IN
  /\ DOMAIN steps = 1..18 /\ Len(steps) = 18
  /\ steps[1] = "npm" /\ steps[2] = "evidence" /\ steps[3] = "artifact" /\ steps[4] = "head" /\ steps[5] = "tree"
  /\ steps[6] = "tag" /\ steps[7] = "status" /\ steps[8] = "index" /\ steps[9] = "bind" /\ steps[10] = "bound"
  /\ steps[11] = "head" /\ steps[12] = "tree" /\ steps[13] = "tag" /\ steps[14] = "status" /\ steps[15] = "index"
  /\ steps[16] = "bind" /\ steps[17] = "bound" /\ steps[18] = "lookup"
BY DEF Program, ReadCandidate, Inspect

\* The steps of publish, one by one.
LEMMA PublishSteps ==
  LET steps == Program.publish IN
  /\ DOMAIN steps = 1..29 /\ Len(steps) = 29
  /\ steps[1] = "temp" /\ steps[2] = "npm" /\ steps[3] = "evidence" /\ steps[4] = "artifact" /\ steps[5] = "head"
  /\ steps[6] = "tree" /\ steps[7] = "tag" /\ steps[8] = "status" /\ steps[9] = "index" /\ steps[10] = "bind"
  /\ steps[11] = "bound" /\ steps[12] = "source" /\ steps[13] = "secure" /\ steps[14] = "head" /\ steps[15] = "tree"
  /\ steps[16] = "tag" /\ steps[17] = "status" /\ steps[18] = "index" /\ steps[19] = "bind" /\ steps[20] = "bound"
  /\ steps[21] = "lookup" /\ steps[22] = "head" /\ steps[23] = "tree" /\ steps[24] = "tag" /\ steps[25] = "status"
  /\ steps[26] = "index" /\ steps[27] = "bind" /\ steps[28] = "bound" /\ steps[29] = "publish"
BY DEF Program, Rebind, ReadCandidate, Inspect

\* The steps of smoke, one by one.
LEMMA SmokeSteps ==
  LET steps == Program.smoke IN
  /\ DOMAIN steps = 1..13 /\ Len(steps) = 13
  /\ steps[1] = "temp" /\ steps[2] = "npm" /\ steps[3] = "evidence" /\ steps[4] = "artifact" /\ steps[5] = "head"
  /\ steps[6] = "tree" /\ steps[7] = "tag" /\ steps[8] = "status" /\ steps[9] = "index" /\ steps[10] = "bind"
  /\ steps[11] = "bound" /\ steps[12] = "secure" /\ steps[13] = "install"
BY DEF Program, ReadCandidate, Inspect

\* The steps of invariant, one by one.
LEMMA InvariantSteps ==
  LET steps == Program.invariant IN
  /\ DOMAIN steps = 1..4 /\ Len(steps) = 4
  /\ steps[1] = "temp" /\ steps[2] = "npm" /\ steps[3] = "source" /\ steps[4] = "packs"
BY DEF Program

\* The step that comes after the present one.
Follows(p, step) == job[p].at + 1 \in DOMAIN Steps(p) /\ Steps(p)[job[p].at + 1] = step

\* The steps that look at the checkout.
Sights == {"tree", "tag", "status", "index", "bind"}

\* A job follows the table of its command.
LEMMA Tables ==
  ASSUME NEW p \in Job, CoreTypeOK
  PROVE  \/ job[p].command = "check" /\ Steps(p) = Program.check
         \/ job[p].command = "prepare" /\ Steps(p) = Program.prepare
         \/ job[p].command = "guard" /\ Steps(p) = Program.guard
         \/ job[p].command = "publish" /\ Steps(p) = Program.publish
         \/ job[p].command = "smoke" /\ Steps(p) = Program.smoke
         \/ job[p].command = "invariant" /\ Steps(p) = Program.invariant
BY ZenonT(40) DEF CoreTypeOK, Steps, Program

\* What is done before a step that relies on it, and what is not done before it.
LEMMA StepsBefore ==
  ASSUME NEW p \in Job, CoreTypeOK
  PROVE  /\ At(p, "source") /\ job[p].command = "prepare" => After(p, "bind")
         /\ At(p, "gates") => After(p, "source")
         /\ At(p, "pack") => After(p, "source")
         /\ At(p, "build") => After(p, "bind")
         /\ At(p, "keepArtifact") => After(p, "pack")
         /\ At(p, "keepEvidence") => After(p, "build")
         /\ At(p, "evidence") \/ At(p, "artifact") => ~After(p, "bound") /\ job[p].command # "prepare"
         /\ At(p, "bound") => After(p, "bind")
         /\ At(p, "lookup") => After(p, "bound") /\ After(p, "bind")
         /\ At(p, "publish") => After(p, "bind") /\ After(p, "bound") /\ After(p, "lookup")
         /\ job[p].at > 0 /\ job[p].at \notin DOMAIN Steps(p) /\ job[p].command = "prepare" =>
              After(p, "keepArtifact") /\ After(p, "keepEvidence")
<1> job[p].at \in Nat \ {0}
  BY DEF CoreTypeOK
<1>1. CASE job[p].command = "check"
  BY <1>1, Tables, CheckSteps DEF At, After
<1>2. CASE job[p].command = "prepare"
  BY <1>2, Tables, PrepareSteps DEF At, After
<1>3. CASE job[p].command = "guard"
  BY <1>3, Tables, GuardSteps DEF At, After
<1>4. CASE job[p].command = "publish"
  BY <1>4, Tables, PublishSteps DEF At, After
<1>5. CASE job[p].command = "smoke"
  BY <1>5, Tables, SmokeSteps DEF At, After
<1>6. CASE job[p].command = "invariant"
  BY <1>6, Tables, InvariantSteps DEF At, After
<1>7. QED
  BY <1>1, <1>2, <1>3, <1>4, <1>5, <1>6, Tables

\* Only prepare builds and keeps files, and it looks no version up.
LEMMA StepsOfPrepare ==
  ASSUME NEW p \in Job, CoreTypeOK
  PROVE  /\ At(p, "gates") \/ At(p, "pack") \/ At(p, "build") \/ At(p, "keepArtifact") \/ At(p, "keepEvidence") =>
              job[p].command = "prepare"
         /\ At(p, "lookup") \/ At(p, "publish") => job[p].command # "prepare"
<1>1. CASE job[p].command = "prepare"
  BY <1>1, Tables, PrepareSteps DEF At
<1>2. CASE job[p].command # "prepare"
  BY <1>2, Tables, CheckSteps, GuardSteps, PublishSteps, SmokeSteps, InvariantSteps DEF At
<1>3. QED
  BY <1>1, <1>2

\* What follows what: an inspection goes through all its steps, and after its lookup a
\* command inspects the release once more, and binds it, before it publishes.
LEMMA StepsFollow ==
  ASSUME NEW p \in Job, CoreTypeOK, NEW step, At(p, step)
  PROVE  /\ \A sight \in Sights : Follows(p, sight) => step \in {"head", "tree", "tag", "status", "index"}
         /\ step \in {"head", "tree", "tag", "status", "index"} => \E sight \in Sights : Follows(p, sight)
         /\ \A next \in {"status", "index", "bind", "bound", "publish"} :
              Follows(p, next) /\ (After(p, "lookup") \/ step = "lookup") =>
              step \in {"tag", "status", "index", "bind", "bound"}
<1> job[p].at \in Nat \ {0}
  BY DEF CoreTypeOK
<1>1. CASE job[p].command = "check"
  BY <1>1, Tables, CheckSteps DEF At, After, Follows, Sights
<1>2. CASE job[p].command = "prepare"
  BY <1>2, Tables, PrepareSteps DEF At, After, Follows, Sights
<1>3. CASE job[p].command = "guard"
  BY <1>3, Tables, GuardSteps DEF At, After, Follows, Sights
<1>4. CASE job[p].command = "publish"
  BY <1>4, Tables, PublishSteps DEF At, After, Follows, Sights
<1>5. CASE job[p].command = "smoke"
  BY <1>5, Tables, SmokeSteps DEF At, After, Follows, Sights
<1>6. CASE job[p].command = "invariant"
  BY <1>6, Tables, InvariantSteps DEF At, After, Follows, Sights
<1>7. QED
  BY <1>1, <1>2, <1>3, <1>4, <1>5, <1>6, Tables

\* A table has a finite number of steps.
LEMMA StepNumbers ==
  ASSUME NEW p \in Job, CoreTypeOK
  PROVE  Len(Steps(p)) \in Nat /\ DOMAIN Steps(p) = 1..Len(Steps(p))
BY CheckSteps, PrepareSteps, GuardSteps, PublishSteps, SmokeSteps, InvariantSteps, Tables, SMTT(20)

\* A command that goes on leaves its step behind and comes to the next; the others stay.
LEMMA Going ==
  ASSUME NEW p \in Job, CoreTypeOK, NEW step, At(p, step), Goes(p)
  PROVE  /\ \A q \in Job : job'[q].command = job[q].command /\ job'[q].end = job[q].end /\ (q # p => job'[q] = job[q])
         /\ \A q \in Job : \A s : After(q, s)' <=> After(q, s) \/ (q = p /\ s = step)
         /\ \A s : At(p, s)' <=> Follows(p, s)
         /\ \A q \in Job \ {p} : \A s : At(q, s)' <=> At(q, s)
<1>1. \A q \in Job : job'[q].command = job[q].command /\ job'[q].end = job[q].end /\ (q # p => job'[q] = job[q])
  BY DEF CoreTypeOK, Goes
<1>2. job'[p].at = job[p].at + 1 /\ job[p].at \in Nat \ {0}
  BY DEF CoreTypeOK, Goes
<1>3. \A q \in Job : Steps(q)' = Steps(q)
  BY <1>1 DEF Steps
<1>4. ASSUME NEW s PROVE After(p, s)' <=> After(p, s) \/ s = step
  <2>1. \A i : i \in 1..(job'[p].at - 1) <=> i \in 1..(job[p].at - 1) \/ i = job[p].at
    BY <1>2
  <2>2. QED
    BY <1>3, <2>1 DEF After, At
<1>5. \A q \in Job \ {p} : \A s : (After(q, s)' <=> After(q, s)) /\ (At(q, s)' <=> At(q, s))
  BY <1>1, <1>3 DEF After, At
<1>6. \A s : At(p, s)' <=> Follows(p, s)
  BY <1>1, <1>2, <1>3 DEF Follows, At
<1>7. QED
  BY <1>1, <1>4, <1>5, <1>6

(***************************************************************************)
(* What going on keeps, part by part.                                      *)
(***************************************************************************)

\* A step that is no look at the repository keeps what the command remembers of it.
LEMMA InspectionStays ==
  ASSUME CoreInv, NEW p \in Job, NEW step, At(p, step), Goes(p), step \notin Sights \union {"head"},
         UNCHANGED saw
  PROVE  InspectionHolds'
<1> USE DEF CoreInv
<1> SUFFICES ASSUME NEW q \in Job, ~Ended(q)', After(q, "bind")',
                    ~\E sight \in Sights : At(q, sight)'
             PROVE  saw'[q].head = Sha /\ saw'[q].tag = Sha
  BY DEF InspectionHolds, Sights
<1>1. After(q, "bind") /\ ~Ended(q)
  BY Going DEF Sights, Ended
<1>2. CASE q # p
  BY <1>1, <1>2, Going DEF InspectionHolds, Sights
<1>3. CASE q = p
  <2>1. ~\E sight \in Sights : At(p, sight)
    BY DEF At, Sights
  <2>2. QED
    BY <1>1, <1>3, <2>1 DEF InspectionHolds, Sights
<1>4. QED
  BY <1>2, <1>3

\* A step that makes and binds nothing keeps what has been made and bound.
LEMMA CandidateStays ==
  ASSUME CoreInv, NEW p \in Job, NEW step, At(p, step), Goes(p),
         step \notin {"source", "pack", "build", "bound"}, UNCHANGED <<source, held>>
  PROVE  CandidateIsTheCommit'
BY Going DEF CoreInv, CandidateIsTheCommit, Ended

\* A step that keeps no file leaves every file its owner.
LEMMA FilesStay ==
  ASSUME CoreInv, NEW p \in Job, NEW step, At(p, step), Goes(p),
         step \notin {"keepArtifact", "keepEvidence"}, UNCHANGED <<retained, created>>
  PROVE  FilesAreOwned'
<1> USE DEF CoreInv
<1>1. \A q \in Job : KeptBy(q)' = KeptBy(q)
  BY Going DEF KeptBy, File
<1>2. \A q \in Job : job'[q].command = job[q].command /\ job'[q].end = job[q].end
  BY Going
<1>3. \A q \in Job : /\ job'[q].command # "prepare" => created[q] = {}
                     /\ job'[q].command = "prepare" /\ ~Ended(q)' => created[q] = KeptBy(q)'
  BY <1>1, <1>2 DEF FilesAreOwned, Ended
<1>4. \A q \in Job, f \in File : retained[f] # None /\ retained[f].by = q =>
        retained[f].of = Torn \/ (retained[f].of = Sha /\ f \in created[q] /\ job'[q].end # "failed")
  BY <1>2 DEF FilesAreOwned
<1>5. QED
  BY <1>3, <1>4 DEF FilesAreOwned

\* After the lookup every step but the look at the tag keeps what the tag was seen to be.
LEMMA TagStays ==
  ASSUME CoreInv, NEW p \in Job, NEW step, At(p, step), Goes(p), step \notin {"lookup", "head", "tag"},
         UNCHANGED <<repo, decision, approved>>,
         \A q \in Job : saw'[q].tag = saw[q].tag
  PROVE  TagIsWatched'
<1> USE DEF CoreInv
<1> SUFFICES ASSUME NEW q \in Job, ~Ended(q)', After(q, "lookup")', (job[q].at \in DOMAIN Steps(q))'
             PROVE  /\ decision[q] = "publish" /\ (repo.tag = Sha => approved[q])
                    /\ \A next \in {"status", "index", "bind", "bound", "publish"} :
                         At(q, next)' /\ saw[q].tag = Sha => approved[q]
  BY DEF TagIsWatched
<1>1. After(q, "lookup") /\ ~Ended(q)
  BY Going DEF Ended
<1>2. CASE q # p
  BY <1>1, <1>2, Going DEF TagIsWatched, Steps
<1>3. CASE q = p
  <2>1. job[p].at \in DOMAIN Steps(p)
    BY DEF At
  <2>2. \A next \in {"status", "index", "bind", "bound", "publish"} :
          At(p, next)' => step \in {"status", "index", "bind", "bound"}
    BY <1>1, <1>3, Going, StepsFollow
  <2>3. QED
    BY <1>1, <1>3, <2>1, <2>2 DEF TagIsWatched
<1>4. QED
  BY <1>2, <1>3

\* The place of a command is a place again, whatever it moves to and however it ends.
LEMMA JobStays ==
  ASSUME CoreTypeOK, NEW p \in Job,
         \/ \E at \in Nat \ {0} : job' = [job EXCEPT ![p].at = at]
         \/ \E end \in {"failed", "done"} : job' = [job EXCEPT ![p].end = end]
  PROVE  job' \in [Job -> [command : DOMAIN Program, at : Nat \ {0}, end : {"running", "failed", "done"}]]
<1> DEFINE Place == [command : DOMAIN Program, at : Nat \ {0}, end : {"running", "failed", "done"}]
<1>1. job \in [Job -> Place]
  BY DEF CoreTypeOK
<1>2. ASSUME NEW at \in Nat \ {0}, job' = [job EXCEPT ![p].at = at] PROVE job' \in [Job -> Place]
  <2>1. [job[p] EXCEPT !.at = at] \in Place
    BY <1>1
  <2>2. job' = [job EXCEPT ![p] = [job[p] EXCEPT !.at = at]]
    BY <1>1, <1>2
  <2>3. QED
    BY <1>1, <2>1, <2>2
<1>3. ASSUME NEW end \in {"failed", "done"}, job' = [job EXCEPT ![p].end = end] PROVE job' \in [Job -> Place]
  <2>1. [job[p] EXCEPT !.end = end] \in Place
    BY <1>1
  <2>2. job' = [job EXCEPT ![p] = [job[p] EXCEPT !.end = end]]
    BY <1>1, <1>3
  <2>3. QED
    BY <1>1, <2>1, <2>2
<1>4. QED
  BY <1>2, <1>3

\* What every command does to the registry leaves there: nothing of its own but the release's commit.
RegistryIsRight == \A q \in Job : registry # None /\ registry.by = q => registry.of = Sha /\ registry.head = Sha

\* Who goes on has not ended: what is said of the end stays said.
LEMMA EndStays ==
  ASSUME CoreInv, NEW p \in Job, NEW step, At(p, step), Goes(p), FilesAreOwned', SkippedIsIdentical',
         RegistryIsRight', \A q \in Job : q # p => created'[q] = created[q] /\ private'[q] = private[q]
  PROVE  ReleaseIsTheCommit' /\ CommandLeavesNothing'
<1> USE DEF CoreInv
<1>1. job'[p].end = "running"
  BY Going DEF At
<1>2. ReleaseIsTheCommit'
  BY <1>1, Going DEF ReleaseIsTheCommit, FilesAreOwned, SkippedIsIdentical, RegistryIsRight, File
<1>3. CommandLeavesNothing'
  BY <1>1, Going DEF CommandLeavesNothing, FilesAreOwned, Ended, File
<1>4. QED
  BY <1>2, <1>3

\* A step that leaves the registry alone, and its part of each invariant.
LEMMA GoesOn ==
  ASSUME CoreInv, NEW p \in Job, NEW step, At(p, step), Goes(p),
         CoreTypeOK', InspectionHolds', CandidateIsTheCommit', FilesAreOwned', TagIsWatched',
         UNCHANGED <<registry, decision>>,
         \A q \in Job : q # p => created'[q] = created[q] /\ private'[q] = private[q]
  PROVE  CoreInv'
<1>1. SkippedIsIdentical' /\ RegistryIsRight'
  BY DEF CoreInv, SkippedIsIdentical, ReleaseIsTheCommit, RegistryIsRight
<1>2. ReleaseIsTheCommit' /\ CommandLeavesNothing'
  BY <1>1, EndStays
<1>3. QED
  BY <1>1, <1>2 DEF CoreInv

(***************************************************************************)
(* The inspection.                                                         *)
(***************************************************************************)

\* A look at the repository goes on to the next; only the look at the tag says what the tag is.
LEMMA LookKeepsInv ==
  ASSUME CoreInv, NEW p \in Job, NEW step \in {"head", "tree", "tag", "status", "index", "bind"}, At(p, step),
         NEW sight \in [head : Content, tag : Content, clean : BOOLEAN, index : Content], Sees(p, sight),
         step = "tag" => sight.tag = repo.tag,
         step \notin {"head", "tag"} => sight.tag = saw[p].tag,
         step = "bind" => sight.head = Sha /\ sight.tag = Sha,
         UNCHANGED <<repo, source, held, retained, created, registry, decision, private, approved, faults>>
  PROVE  CoreInv'
<1>1. Goes(p) /\ saw' = [saw EXCEPT ![p] = sight]
  BY DEF Sees
<1>2. CoreTypeOK /\ InspectionHolds /\ CandidateIsTheCommit /\ FilesAreOwned /\ TagIsWatched
  BY DEF CoreInv
<1>3. saw'[p] = sight /\ \A q \in Job : q # p => saw'[q] = saw[q]
  BY <1>1, <1>2 DEF CoreTypeOK
<1>4. CoreTypeOK'
  <2>1. job[p].at + 1 \in Nat \ {0}
    BY <1>2 DEF CoreTypeOK
  <2>2. job' \in [Job -> [command : DOMAIN Program, at : Nat \ {0}, end : {"running", "failed", "done"}]]
    BY <1>1, <1>2, <2>1, JobStays DEF Goes
  <2>3. QED
    BY <1>1, <1>2, <2>2 DEF CoreTypeOK
<1>5. InspectionHolds'
  <2> SUFFICES ASSUME NEW q \in Job, ~Ended(q)', After(q, "bind")', ~\E next \in Sights : At(q, next)'
               PROVE  saw'[q].head = Sha /\ saw'[q].tag = Sha
    BY DEF InspectionHolds, Sights
  <2>1. CASE q # p
    BY <1>1, <1>2, <1>3, <2>1, Going DEF InspectionHolds, Sights, Ended
  <2>2. CASE q = p
    <3>1. step = "bind"
      BY <1>1, <1>2, <2>2, Going, StepsFollow
    <3>2. QED
      BY <1>3, <2>2, <3>1
  <2>3. QED
    BY <2>1, <2>2
<1>6. CandidateIsTheCommit' /\ FilesAreOwned'
  BY <1>1, CandidateStays, FilesStay
<1>7. TagIsWatched'
  <2>1. CASE step \notin {"head", "tag"}
    <3>1. \A q \in Job : saw'[q].tag = saw[q].tag
      BY <1>3, <2>1
    <3>2. QED
      BY <1>1, <2>1, <3>1, TagStays
  <2>2. CASE step \in {"head", "tag"}
    <3> SUFFICES ASSUME NEW q \in Job, ~Ended(q)', After(q, "lookup")', (job[q].at \in DOMAIN Steps(q))'
                 PROVE  /\ decision[q] = "publish" /\ (repo.tag = Sha => approved[q])
                        /\ \A next \in {"status", "index", "bind", "bound", "publish"} :
                             At(q, next)' /\ saw'[q].tag = Sha => approved[q]
      BY DEF TagIsWatched
    <3>1. After(q, "lookup") /\ ~Ended(q)
      BY <1>1, <1>2, <2>2, Going DEF Ended
    <3>2. CASE q # p
      BY <1>1, <1>2, <1>3, <3>1, <3>2, Going DEF TagIsWatched, Steps
    <3>3. CASE q = p
      <4>1. decision[p] = "publish" /\ (repo.tag = Sha => approved[p])
        BY <1>2, <3>1, <3>3 DEF TagIsWatched, At
      <4>2. \A next \in {"status", "index", "bind", "bound", "publish"} : At(p, next)' => step = "tag"
        BY <1>1, <1>2, <2>2, <3>1, <3>3, Going, StepsFollow
      <4>3. QED
        BY <1>3, <3>3, <4>1, <4>2
    <3>4. QED
      BY <3>2, <3>3
  <2>3. QED
    BY <2>1, <2>2
<1>8. QED
  BY <1>1, <1>4, <1>5, <1>6, <1>7, GoesOn

\* The looks at the checkout.
LEMMA InspectsKeepsInv ==
  ASSUME CoreInv, NEW p \in Job, Inspects(p)
  PROVE  CoreInv'
<1> DEFINE Sight == [head : Content, tag : Content, clean : BOOLEAN, index : Content]
<1>1. saw[p] \in Sight /\ repo \in [head : Content, tag : Content, index : Content, work : Content] /\ None \in Content
  BY DEF CoreInv, CoreTypeOK, Content
<1>2. UNCHANGED <<repo, source, held, retained, created, registry, decision, private, approved, faults>>
  BY DEF Inspects
<1>3. CASE ReadHead(p)
  <2> DEFINE sight == [NoSight EXCEPT !.head = repo.head]
  <2>1. sight \in Sight
    BY <1>1 DEF NoSight
  <2>2. QED
    BY <1>2, <1>3, <2>1, LookKeepsInv DEF ReadHead
<1>4. CASE ReadTree(p)
  BY <1>1, <1>2, <1>4, LookKeepsInv DEF ReadTree
<1>5. CASE ReadTag(p)
  <2> DEFINE sight == [saw[p] EXCEPT !.tag = repo.tag]
  <2>1. sight \in Sight /\ sight.tag = repo.tag
    BY <1>1
  <2>2. QED
    BY <1>2, <1>5, <2>1, LookKeepsInv DEF ReadTag
<1>6. CASE ReadStatus(p)
  <2> DEFINE clean == (repo.head = repo.index /\ repo.index = repo.work)
             sight == [saw[p] EXCEPT !.clean = clean]
  <2>1. clean \in BOOLEAN
    OBVIOUS
  <2> HIDE DEF clean
  <2>2. sight \in Sight /\ sight.tag = saw[p].tag
    BY <1>1, <2>1
  <2>3. At(p, "status") /\ Sees(p, sight)
    BY <1>6 DEF ReadStatus, clean
  <2> HIDE DEF sight
  <2>4. QED
    BY <1>2, <2>2, <2>3, LookKeepsInv
<1>7. CASE ReadIndex(p)
  <2> DEFINE sight == [saw[p] EXCEPT !.index = repo.index]
  <2>1. sight \in Sight /\ sight.tag = saw[p].tag
    BY <1>1
  <2>2. QED
    BY <1>2, <1>7, <2>1, LookKeepsInv DEF ReadIndex
<1>8. CASE Bind(p)
  BY <1>1, <1>2, <1>8, LookKeepsInv DEF Bind, Agrees
<1>9. QED
  BY <1>3, <1>4, <1>5, <1>6, <1>7, <1>8 DEF Inspects

(***************************************************************************)
(* prepare.                                                                *)
(***************************************************************************)

LEMMA PlaceGoes ==
  ASSUME CoreTypeOK, NEW p \in Job, Goes(p)
  PROVE  job' \in [Job -> [command : DOMAIN Program, at : Nat \ {0}, end : {"running", "failed", "done"}]]
<1>1. job[p].at + 1 \in Nat \ {0}
  BY DEF CoreTypeOK
<1>2. QED
  BY <1>1, JobStays DEF Goes

\* A step that only makes a directory, or only checks, keeps the invariant.
LEMMA PlainStepKeepsInv ==
  ASSUME CoreInv, NEW p \in Job, NEW step, At(p, step), Goes(p),
         step \notin Sights \union {"head", "source", "pack", "build", "bound", "keepArtifact", "keepEvidence", "lookup"},
         UNCHANGED <<repo, saw, source, held, retained, created, registry, decision, approved, faults>>,
         private' \in [Job -> SUBSET {"temp", "npm"}],
         \A q \in Job : q # p => private'[q] = private[q]
  PROVE  CoreInv'
<1>1. CoreTypeOK'
  BY PlaceGoes DEF CoreInv, CoreTypeOK
<1>2. step \notin Sights \union {"head"} /\ step \notin {"source", "pack", "build", "bound"}
        /\ step \notin {"keepArtifact", "keepEvidence"} /\ step \notin {"lookup", "head", "tag"}
  BY DEF Sights
<1>3. InspectionHolds' /\ CandidateIsTheCommit' /\ FilesAreOwned'
  BY <1>2, InspectionStays, CandidateStays, FilesStay
<1>4. TagIsWatched'
  BY <1>2, TagStays
<1>5. QED
  BY <1>1, <1>3, <1>4, GoesOn

\* The steps of prepare that only need a place to work in.
LEMMA PlainPrepareKeepsInv ==
  ASSUME CoreInv, NEW p \in Job, Destinations(p) \/ MakeTemp(p) \/ ResolveNpm(p)
  PROVE  CoreInv'
<1>1. private \in [Job -> SUBSET {"temp", "npm"}]
  BY DEF CoreInv, CoreTypeOK
<1>2. private' \in [Job -> SUBSET {"temp", "npm"}] /\ \A q \in Job : q # p => private'[q] = private[q]
  BY <1>1 DEF Destinations, MakeTemp, ResolveNpm
<1>3. PICK step \in {"dests", "temp", "npm"} : At(p, step)
  BY DEF Destinations, MakeTemp, ResolveNpm
<1>4. step \notin Sights \union {"head", "source", "pack", "build", "bound", "keepArtifact", "keepEvidence", "lookup"}
  BY DEF Sights
<1>5. QED
  BY <1>2, <1>3, <1>4, PlainStepKeepsInv DEF Destinations, MakeTemp, ResolveNpm

\* The steps that use a verified copy and record nothing.
LEMMA PlainPublishKeepsInv ==
  ASSUME CoreInv, NEW p \in Job, Secure(p) \/ Uses(p)
  PROVE  CoreInv'
<1>1. private' \in [Job -> SUBSET {"temp", "npm"}] /\ \A q \in Job : q # p => private'[q] = private[q]
  BY DEF CoreInv, CoreTypeOK, Secure, Uses
<1>2. PICK step \in {"secure", "install", "packs"} : At(p, step)
  BY DEF Secure, Uses
<1>3. step \notin Sights \union {"head", "source", "pack", "build", "bound", "keepArtifact", "keepEvidence", "lookup"}
  BY DEF Sights
<1>4. QED
  BY <1>1, <1>2, <1>3, PlainStepKeepsInv DEF Secure, Uses

\* The first source may be altered by the gates, the second is that of the commit.
LEMMA SourceKeepsInv ==
  ASSUME CoreInv, NEW p \in Job, Materialize(p) \/ Gates(p)
  PROVE  CoreInv'
<1>1. CoreTypeOK /\ CandidateIsTheCommit /\ InspectionHolds /\ Goes(p)
  BY DEF CoreInv, Materialize, Gates
<1>2. PICK step \in {"source", "gates"} : At(p, step) /\ (step = "source" => Materialize(p)) /\ (step = "gates" => Gates(p))
  BY DEF Materialize, Gates
<1>3. /\ UNCHANGED <<repo, saw, held, retained, created, registry, decision, private, approved, faults>>
      /\ source' \in [Job -> {None} \union [one : Content, two : Content]]
      /\ \A q \in Job : q # p => source'[q] = source[q]
      /\ job[p].command = "prepare" => source'[p] \in [one : Content, two : {Sha}]
  <2>1. CASE step = "source"
    <3>1. Materialize(p) /\ saw[p].head \in Content
      BY <1>1, <1>2, <2>1 DEF CoreTypeOK
    <3>2. job[p].command = "prepare" => saw[p].head = Sha
      <4>1. job[p].command = "prepare" => After(p, "bind")
        BY <1>1, <1>2, <2>1, StepsBefore
      <4>2. ~Ended(p) /\ \A sight \in Sights : ~At(p, sight)
        BY <1>2, <2>1 DEF At, Ended, Sights
      <4>3. QED
        BY <1>1, <4>1, <4>2 DEF InspectionHolds, Sights
    <3>3. source' = [source EXCEPT ![p] = [one |-> saw[p].head, two |-> saw[p].head]]
      BY <3>1 DEF Materialize
    <3>4. source \in [Job -> {None} \union [one : Content, two : Content]]
      BY <1>1 DEF CoreTypeOK
    <3>5. QED
      BY <3>1, <3>2, <3>3, <3>4 DEF Materialize
  <2>2. CASE step = "gates"
    <3>1. Gates(p) /\ job[p].command = "prepare" /\ ~Ended(p)
      BY <1>1, <1>2, <2>2, StepsOfPrepare DEF At, Ended
    <3>2. source[p] \in [one : Content, two : {Sha}]
      BY <1>1, <1>2, <2>2, <3>1, StepsBefore DEF CandidateIsTheCommit
    <3>3. PICK one \in {source[p].one, "altered"} : source' = [source EXCEPT ![p].one = one]
      BY <3>1 DEF Gates
    <3>4. source \in [Job -> {None} \union [one : Content, two : Content]] /\ "altered" \in Content /\ Sha \in Content
      BY <1>1, CoreAssumption DEF CoreTypeOK, Content
    <3>5. [source[p] EXCEPT !.one = one] \in [one : Content, two : {Sha}]
      BY <3>2, <3>3, <3>4
    <3>6. source' = [source EXCEPT ![p] = [source[p] EXCEPT !.one = one]]
      BY <3>3, <3>4
    <3>7. [one : Content, two : {Sha}] \subseteq [one : Content, two : Content]
      BY <3>4
    <3>8. QED
      BY <3>1, <3>4, <3>5, <3>6, <3>7 DEF Gates
  <2>3. QED
    BY <1>2, <2>1, <2>2
<1>4. CoreTypeOK'
  BY <1>1, <1>3, PlaceGoes DEF CoreTypeOK
<1>5. CandidateIsTheCommit'
  BY <1>1, <1>2, <1>3, Going DEF CandidateIsTheCommit, Ended
<1>6. step \notin Sights \union {"head"}
  BY DEF Sights
<1>7. InspectionHolds' /\ FilesAreOwned' /\ TagIsWatched'
  BY <1>1, <1>2, <1>3, <1>6, InspectionStays, FilesStay, TagStays
<1>8. QED
  BY <1>1, <1>2, <1>3, <1>4, <1>5, <1>7, GoesOn

\* What is packed and described is the commit; what is bound is what was packed and described;
\* what is read is not bound yet.
LEMMA HeldKeepsInv ==
  ASSUME CoreInv, NEW p \in Job, Pack(p) \/ BuildEvidence(p) \/ ReadFile(p) \/ Bound(p)
  PROVE  CoreInv'
<1>1. CoreTypeOK /\ CandidateIsTheCommit /\ InspectionHolds /\ Goes(p)
  BY DEF CoreInv, Pack, BuildEvidence, ReadFile, Bound
<1>2. held \in [Job -> [evidence : Content, artifact : Content]] /\ Sha \in Content
  BY <1>1, CoreAssumption DEF CoreTypeOK, Content
<1>3. PICK step \in {"pack", "build", "evidence", "artifact", "bound"} :
        /\ At(p, step)
        /\ step = "pack" => Pack(p)
        /\ step = "build" => BuildEvidence(p)
        /\ step \in File => ReadFile(p) /\ retained[step] # None /\ held' = [held EXCEPT ![p][step] = retained[step].of]
        /\ step = "bound" => Bound(p)
  BY DEF Pack, BuildEvidence, ReadFile, Bound, File
<1>4. ~Ended(p) /\ \A sight \in Sights : ~At(p, sight)
  BY <1>3 DEF At, Ended, Sights
<1>5. /\ UNCHANGED <<repo, saw, source, retained, created, registry, decision, private, approved, faults>>
      /\ held' \in [Job -> [evidence : Content, artifact : Content]]
      /\ \A q \in Job : q # p => held'[q] = held[q]
      /\ step = "pack" => held'[p].artifact = Sha /\ held'[p].evidence = held[p].evidence
      /\ step = "build" => held'[p].evidence = Sha /\ held'[p].artifact = held[p].artifact
      /\ step = "bound" => held'[p].artifact = Sha /\ held'[p].evidence = Sha
  <2>1. CASE step = "pack"
    <3>1. Pack(p) /\ job[p].command = "prepare" /\ After(p, "source")
      BY <1>1, <1>3, <2>1, StepsOfPrepare, StepsBefore
    <3>2. source[p].one = Sha
      BY <1>1, <1>4, <3>1 DEF CandidateIsTheCommit, Pack, SamePacks
    <3>3. held' = [held EXCEPT ![p].artifact = Sha]
      BY <3>1, <3>2 DEF Pack
    <3>4. QED
      BY <1>2, <2>1, <3>1, <3>3 DEF Pack
  <2>2. CASE step = "build"
    <3>1. BuildEvidence(p) /\ After(p, "bind")
      BY <1>1, <1>3, <2>2, StepsBefore
    <3>2. saw[p].head = Sha
      BY <1>1, <1>4, <3>1 DEF InspectionHolds, Sights
    <3>3. held' = [held EXCEPT ![p].evidence = Sha]
      BY <3>1, <3>2 DEF BuildEvidence
    <3>4. QED
      BY <1>2, <2>2, <3>1, <3>3 DEF BuildEvidence
  <2>3. CASE step \in File
    <3>1. ReadFile(p) /\ retained[step].of \in Content
      BY <1>1, <1>3, <2>3 DEF CoreTypeOK, File
    <3>2. held' = [held EXCEPT ![p][step] = retained[step].of]
      BY <1>3, <2>3
    <3>3. QED
      BY <1>2, <2>3, <3>1, <3>2 DEF ReadFile, File
  <2>4. CASE step = "bound"
    <3>1. Bound(p) /\ After(p, "bind")
      BY <1>1, <1>3, <2>4, StepsBefore
    <3>2. saw[p].head = Sha
      BY <1>1, <1>4, <3>1 DEF InspectionHolds, Sights
    <3>3. QED
      BY <1>2, <2>4, <3>1, <3>2 DEF Bound, IsBound
  <2>5. QED
    BY <1>3, <2>1, <2>2, <2>3, <2>4 DEF File
<1>6. CoreTypeOK'
  BY <1>1, <1>5, PlaceGoes DEF CoreTypeOK
<1>7. CandidateIsTheCommit'
  <2> SUFFICES ASSUME NEW q \in Job, ~Ended(q)'
               PROVE  /\ job'[q].command = "prepare" =>
                           /\ After(q, "source")' => source[q] \in [one : Content, two : {Sha}]
                           /\ After(q, "pack")' => held'[q].artifact = Sha
                           /\ After(q, "build")' => held'[q].evidence = Sha
                      /\ After(q, "bound")' => held'[q].evidence = Sha /\ held'[q].artifact = Sha
    BY <1>5 DEF CandidateIsTheCommit
  <2>1. ~Ended(q) /\ job'[q].command = job[q].command
    BY <1>1, <1>3, Going DEF Ended
  <2>2. CASE q # p
    BY <1>1, <1>3, <1>5, <2>1, <2>2, Going DEF CandidateIsTheCommit
  <2>3. CASE q = p
    <3>1. \A s : After(p, s)' <=> After(p, s) \/ s = step
      BY <1>1, <1>3, Going
    <3>2. CASE step \in File
      BY <1>1, <1>3, <2>1, <2>3, <3>1, <3>2, StepsBefore DEF File
    <3>3. CASE step = "pack"
      BY <1>1, <1>5, <2>1, <2>3, <3>1, <3>3 DEF CandidateIsTheCommit
    <3>4. CASE step = "build"
      BY <1>1, <1>5, <2>1, <2>3, <3>1, <3>4 DEF CandidateIsTheCommit
    <3>5. CASE step = "bound"
      BY <1>1, <1>5, <2>1, <2>3, <3>1, <3>5 DEF CandidateIsTheCommit
    <3>6. QED
      BY <1>3, <3>2, <3>3, <3>4, <3>5 DEF File
  <2>4. QED
    BY <2>2, <2>3
<1>8. step \notin Sights \union {"head"}
  BY DEF Sights
<1>9. InspectionHolds' /\ FilesAreOwned' /\ TagIsWatched'
  BY <1>1, <1>3, <1>5, <1>8, InspectionStays, FilesStay, TagStays
<1>10. QED
  BY <1>1, <1>3, <1>5, <1>6, <1>7, <1>9, GoesOn

\* A file that prepare keeps is of the commit, and its own.
LEMMA KeepKeepsInv ==
  ASSUME CoreInv, NEW p \in Job, KeepArtifact(p) \/ KeepEvidence(p)
  PROVE  CoreInv'
<1>1. CoreTypeOK /\ CandidateIsTheCommit /\ InspectionHolds /\ FilesAreOwned /\ Goes(p)
  BY DEF CoreInv, KeepArtifact, KeepEvidence
<1> DEFINE KeepStep(f) == IF f = "artifact" THEN "keepArtifact" ELSE "keepEvidence"
<1>2. PICK kind \in File : At(p, KeepStep(kind)) /\ Keep(p, kind)
  BY DEF KeepArtifact, KeepEvidence, File
<1>3. UNCHANGED <<repo, saw, source, held, registry, decision, private, approved, faults>>
  BY DEF KeepArtifact, KeepEvidence
<1>4. held[p][kind] = Sha /\ ~Ended(p)
  <2>1. job[p].command = "prepare" /\ ~Ended(p)
    BY <1>1, <1>2, StepsOfPrepare DEF At, Ended
  <2>2. kind = "artifact" => After(p, "pack")
    BY <1>1, <1>2, StepsBefore
  <2>3. kind = "evidence" => After(p, "build")
    BY <1>1, <1>2, StepsBefore
  <2>4. QED
    BY <1>1, <1>2, <2>1, <2>2, <2>3 DEF CandidateIsTheCommit, File
<1>5. /\ retained' = [retained EXCEPT ![kind] = [by |-> p, of |-> Sha]]
      /\ created' = [created EXCEPT ![p] = @ \union {kind}]
      /\ retained \in [File -> {None} \union [by : Job \union {"before", "other"}, of : Content]]
      /\ created \in [Job -> SUBSET File] /\ Sha \in Content
  BY <1>1, <1>2, <1>4, CoreAssumption DEF Keep, CoreTypeOK, Content
<1>6. CoreTypeOK'
  <2>1. [by |-> p, of |-> Sha] \in [by : Job \union {"before", "other"}, of : Content]
    BY <1>5
  <2>2. retained' \in [File -> {None} \union [by : Job \union {"before", "other"}, of : Content]]
    BY <1>2, <1>5, <2>1
  <2>3. created' \in [Job -> SUBSET File]
    BY <1>2, <1>5
  <2>4. QED
    BY <1>1, <1>3, <2>2, <2>3, PlaceGoes DEF CoreTypeOK
<1>7. FilesAreOwned'
  <2> SUFFICES ASSUME NEW q \in Job
               PROVE  /\ job'[q].command # "prepare" => created'[q] = {}
                      /\ job'[q].command = "prepare" /\ ~Ended(q)' => created'[q] = KeptBy(q)'
                      /\ \A f \in File : retained'[f] # None /\ retained'[f].by = q =>
                           retained'[f].of = Torn
                             \/ (retained'[f].of = Sha /\ f \in created'[q] /\ job'[q].end # "failed")
    BY DEF FilesAreOwned
  <2>1. \A f \in File : After(q, KeepStep(f))' <=> After(q, KeepStep(f)) \/ (q = p /\ f = kind)
    BY <1>1, <1>2, Going DEF File
  <2>2. KeptBy(q)' = IF q = p THEN KeptBy(q) \union {kind} ELSE KeptBy(q)
    BY <1>2, <2>1 DEF KeptBy
  <2>3. /\ job'[q].command # "prepare" => created'[q] = {}
        /\ job'[q].command = "prepare" /\ ~Ended(q)' => created'[q] = KeptBy(q)'
    <3>1. job'[q].command = job[q].command /\ Ended(q)' = Ended(q)
      BY <1>1, <1>2, Going DEF Ended
    <3>2. CASE q = p
      <4>1. job[p].command = "prepare" /\ created'[p] = created[p] \union {kind}
        BY <1>1, <1>2, <1>5, StepsOfPrepare
      <4>2. QED
        BY <1>1, <1>4, <2>2, <3>1, <3>2, <4>1 DEF FilesAreOwned
    <3>3. CASE q # p
      BY <1>1, <1>5, <2>2, <3>1, <3>3 DEF FilesAreOwned
    <3>4. QED
      BY <3>2, <3>3
  <2>4. job'[q].end = job[q].end
    BY <1>1, <1>2, Going
  <2>5. ASSUME NEW f \in File, retained'[f] # None, retained'[f].by = q
        PROVE  retained'[f].of = Torn
                 \/ (retained'[f].of = Sha /\ f \in created'[q] /\ job'[q].end # "failed")
    <3>1. CASE f = kind
      <4>1. q = p /\ retained'[f].of = Sha
        BY <1>5, <2>5, <3>1
      <4>2. job[p].end # "failed"
        BY <1>4 DEF Ended
      <4>3. QED
        BY <1>5, <2>4, <3>1, <4>1, <4>2
    <3>2. CASE f # kind
      <4>1. retained'[f] = retained[f] /\ created[q] \subseteq created'[q]
        BY <1>5, <3>2
      <4>2. QED
        BY <1>1, <2>4, <2>5, <4>1 DEF FilesAreOwned
    <3>3. QED
      BY <3>1, <3>2
  <2>6. QED
    BY <2>3, <2>5
<1>8. PICK step \in {"keepArtifact", "keepEvidence"} : At(p, step)
  BY <1>2
<1>9. step \notin Sights \union {"head"}
  BY DEF Sights
<1>10. InspectionHolds' /\ CandidateIsTheCommit' /\ TagIsWatched'
  BY <1>1, <1>3, <1>8, <1>9, InspectionStays, CandidateStays, TagStays
<1>11. QED
  BY <1>1, <1>3, <1>5, <1>6, <1>7, <1>8, <1>10, GoesOn

(***************************************************************************)
(* The end of a command.                                                   *)
(***************************************************************************)

\* A command that ends keeps its place; the others are where they were.
LEMMA Ending ==
  ASSUME NEW p \in Job, CoreTypeOK, NEW end \in {"failed", "done"}, job' = [job EXCEPT ![p].end = end]
  PROVE  /\ \A q \in Job : job'[q].command = job[q].command /\ job'[q].at = job[q].at /\ (q # p => job'[q] = job[q])
         /\ job'[p].end = end /\ Ended(p)'
         /\ \A q \in Job : \A s : After(q, s)' <=> After(q, s)
         /\ \A q \in Job \ {p} : \A s : At(q, s)' <=> At(q, s)
<1>1. \A q \in Job : job'[q].command = job[q].command /\ job'[q].at = job[q].at /\ (q # p => job'[q] = job[q])
  BY DEF CoreTypeOK
<1>2. job'[p].end = end
  BY DEF CoreTypeOK
<1>3. \A q \in Job : Steps(q)' = Steps(q)
  BY <1>1 DEF Steps
<1>4. QED
  BY <1>1, <1>2, <1>3 DEF After, At, Ended

\* Nothing is said of what a command knew once it has ended.
LEMMA EndKeepsKnowledge ==
  ASSUME CoreInv, NEW p \in Job, NEW end \in {"failed", "done"}, job' = [job EXCEPT ![p].end = end],
         \A q \in Job : q # p => saw'[q] = saw[q] /\ source'[q] = source[q] /\ held'[q] = held[q],
         UNCHANGED <<repo, decision, approved>>
  PROVE  InspectionHolds' /\ CandidateIsTheCommit' /\ TagIsWatched'
<1>1. CoreTypeOK /\ InspectionHolds /\ CandidateIsTheCommit /\ TagIsWatched
  BY DEF CoreInv
<1>2. ASSUME NEW q \in Job, ~Ended(q)'
      PROVE  /\ q # p /\ ~Ended(q) /\ job'[q] = job[q]
             /\ saw'[q] = saw[q] /\ source'[q] = source[q] /\ held'[q] = held[q]
             /\ \A s : (After(q, s)' <=> After(q, s)) /\ (At(q, s)' <=> At(q, s))
  <2>1. q # p
    BY <1>1, <1>2, Ending
  <2>2. QED
    BY <1>1, <1>2, <2>1, Ending DEF Ended
<1>3. InspectionHolds'
  <2> SUFFICES ASSUME NEW q \in Job, ~Ended(q)', After(q, "bind")', ~\E sight \in Sights : At(q, sight)'
               PROVE  saw'[q].head = Sha /\ saw'[q].tag = Sha
    BY DEF InspectionHolds, Sights
  <2>1. QED
    BY <1>1, <1>2 DEF InspectionHolds, Sights
<1>4. CandidateIsTheCommit'
  <2> SUFFICES ASSUME NEW q \in Job, ~Ended(q)'
               PROVE  /\ job'[q].command = "prepare" =>
                           /\ After(q, "source")' => source'[q] \in [one : Content, two : {Sha}]
                           /\ After(q, "pack")' => held'[q].artifact = Sha
                           /\ After(q, "build")' => held'[q].evidence = Sha
                      /\ After(q, "bound")' => held'[q].evidence = Sha /\ held'[q].artifact = Sha
    BY DEF CandidateIsTheCommit
  <2>1. QED
    BY <1>1, <1>2 DEF CandidateIsTheCommit
<1>5. TagIsWatched'
  <2> SUFFICES ASSUME NEW q \in Job, ~Ended(q)', After(q, "lookup")', (job[q].at \in DOMAIN Steps(q))'
               PROVE  /\ decision[q] = "publish" /\ (repo.tag = Sha => approved[q])
                      /\ \A next \in {"status", "index", "bind", "bound", "publish"} :
                           At(q, next)' /\ saw'[q].tag = Sha => approved[q]
    BY DEF TagIsWatched
  <2>1. QED
    BY <1>1, <1>2 DEF TagIsWatched, Steps
<1>6. QED
  BY <1>3, <1>4, <1>5

\* What a command has in memory ends with it, and its directories.
LEMMA EndKeepsType ==
  ASSUME CoreTypeOK, NEW p \in Job, NEW end \in {"failed", "done"}, job' = [job EXCEPT ![p].end = end],
         Forgets(p), private' = [private EXCEPT ![p] = {}],
         retained' \in [File -> {None} \union [by : Job \union {"before", "other"}, of : Content]],
         UNCHANGED <<repo, created, decision, approved, faults>>
  PROVE  /\ CoreTypeOK' /\ private'[p] = {}
         /\ \A q \in Job : q # p => /\ saw'[q] = saw[q] /\ source'[q] = source[q]
                                    /\ held'[q] = held[q] /\ private'[q] = private[q]
<1>1. NoSight \in [head : Content, tag : Content, clean : BOOLEAN, index : Content]
        /\ NoFiles \in [evidence : Content, artifact : Content]
  BY DEF NoSight, NoFiles, Content
<1>2. QED
  BY <1>1, JobStays, ZenonT(40) DEF CoreTypeOK, Forgets

\* A failure removes what the command has created; what it leaves of its own is half written.
LEMMA FailureKeepsInv ==
  ASSUME CoreInv, NEW p \in Job, ~Ended(p), job' = [job EXCEPT ![p].end = "failed"],
         Forgets(p), private' = [private EXCEPT ![p] = {}],
         retained' \in [File -> {None} \union [by : Job \union {"before", "other"}, of : Content]],
         \A f \in File : \/ retained'[f] \in {retained[f], None} /\ (f \in created[p] => retained'[f] = None)
                         \/ retained'[f] = [by |-> p, of |-> Torn],
         UNCHANGED <<repo, created, registry, decision, approved, faults>>
  PROVE  CoreInv'
<1>1. CoreTypeOK /\ FilesAreOwned /\ ReleaseIsTheCommit /\ CommandLeavesNothing /\ SkippedIsIdentical
  BY DEF CoreInv
<1>2. /\ CoreTypeOK' /\ private'[p] = {}
      /\ \A q \in Job : q # p => saw'[q] = saw[q] /\ source'[q] = source[q] /\ held'[q] = held[q] /\ private'[q] = private[q]
  BY <1>1, EndKeepsType
<1>3. InspectionHolds' /\ CandidateIsTheCommit' /\ TagIsWatched'
  BY <1>2, EndKeepsKnowledge
<1>4. /\ job'[p].end = "failed" /\ job'[p].command = job[p].command
      /\ \A q \in Job : (q # p => job'[q] = job[q]) /\ KeptBy(q)' = KeptBy(q)
  BY <1>1, Ending DEF KeptBy
<1>5. \A f \in File : retained'[f] # None /\ retained'[f].by = p => retained'[f].of = Torn
  BY <1>1 DEF FilesAreOwned
<1>6. \A q \in Job \ {p}, f \in File : retained'[f] # None /\ retained'[f].by = q =>
        retained'[f] = retained[f]
  OBVIOUS
<1>7. FilesAreOwned'
  <2>1. \A q \in Job : /\ job'[q].command # "prepare" => created[q] = {}
                       /\ job'[q].command = "prepare" /\ ~Ended(q)' => created[q] = KeptBy(q)'
    BY <1>1, <1>4 DEF FilesAreOwned, Ended
  <2>2. \A q \in Job, f \in File : retained'[f] # None /\ retained'[f].by = q =>
          retained'[f].of = Torn \/ (retained'[f].of = Sha /\ f \in created[q] /\ job'[q].end # "failed")
    BY <1>1, <1>4, <1>5, <1>6 DEF FilesAreOwned
  <2>3. QED
    BY <2>1, <2>2 DEF FilesAreOwned
<1>8. SkippedIsIdentical'
  BY <1>1 DEF SkippedIsIdentical
<1>9. ReleaseIsTheCommit'
  BY <1>1, <1>4, <1>7 DEF ReleaseIsTheCommit, FilesAreOwned, File
<1>10. CommandLeavesNothing'
  BY <1>1, <1>2, <1>4, <1>5, <1>6 DEF CommandLeavesNothing, Ended, File
<1>11. QED
  BY <1>2, <1>3, <1>7, <1>8, <1>9, <1>10 DEF CoreInv

\* A step that fails ends the job.
LEMMA FailsKeepsInv ==
  ASSUME CoreInv, NEW p \in Job, Fails(p)
  PROVE  CoreInv'
<1>1. retained \in [File -> {None} \union [by : Job \union {"before", "other"}, of : Content]]
  BY DEF CoreInv, CoreTypeOK
<1>2. retained' = [f \in File |-> IF f \in created[p] THEN None ELSE retained[f]]
  BY DEF Fails, Cleanup, File
<1>3. QED
  BY <1>1, <1>2, FailureKeepsInv DEF Fails, Cleanup

\* A write that fails after it has created the file.
LEMMA KeepHalfKeepsInv ==
  ASSUME CoreInv, NEW p \in Job, KeepHalf(p)
  PROVE  CoreInv'
<1>1. retained \in [File -> {None} \union [by : Job \union {"before", "other"}, of : Content]] /\ Torn \in Content
  BY DEF CoreInv, CoreTypeOK, Content
<1>2. PICK kind \in File :
        /\ At(p, IF kind = "artifact" THEN "keepArtifact" ELSE "keepEvidence")
        /\ retained' = [f \in File |->
                          IF f = kind THEN [by |-> p, of |-> Torn] ELSE IF f \in created[p] THEN None ELSE retained[f]]
  BY DEF KeepHalf, File
<1>3. ~Ended(p)
  BY <1>2 DEF At, Ended
<1>4. [by |-> p, of |-> Torn] \in [by : Job \union {"before", "other"}, of : Content]
  BY <1>1
<1>5. retained' \in [File -> {None} \union [by : Job \union {"before", "other"}, of : Content]]
  BY <1>1, <1>2, <1>4
<1>6. \A f \in File : \/ retained'[f] \in {retained[f], None} /\ (f \in created[p] => retained'[f] = None)
                      \/ retained'[f] = [by |-> p, of |-> Torn]
  BY <1>2
<1>7. QED
  BY <1>3, <1>5, <1>6, FailureKeepsInv DEF KeepHalf

\* A command that is done has kept both its files, if it keeps any.
LEMMA DoneKeepsInv ==
  ASSUME CoreInv, NEW p \in Job, Done(p)
  PROVE  CoreInv'
<1>1. CoreTypeOK /\ FilesAreOwned /\ ReleaseIsTheCommit /\ CommandLeavesNothing /\ SkippedIsIdentical
  BY DEF CoreInv
<1>2. job' = [job EXCEPT ![p].end = "done"] /\ ~Ended(p)
        /\ UNCHANGED <<repo, retained, created, registry, decision, approved, faults>>
  BY DEF Done
<1>3. /\ CoreTypeOK' /\ private'[p] = {}
      /\ \A q \in Job : q # p => saw'[q] = saw[q] /\ source'[q] = source[q] /\ held'[q] = held[q] /\ private'[q] = private[q]
  <2>1. retained' \in [File -> {None} \union [by : Job \union {"before", "other"}, of : Content]]
    BY <1>1, <1>2 DEF CoreTypeOK
  <2>2. QED
    BY <1>1, <1>2, <2>1, EndKeepsType DEF Done
<1>4. InspectionHolds' /\ CandidateIsTheCommit' /\ TagIsWatched'
  BY <1>2, <1>3, EndKeepsKnowledge
<1>5. /\ job'[p].end = "done" /\ job'[p].command = job[p].command
      /\ \A q \in Job : (q # p => job'[q] = job[q]) /\ KeptBy(q)' = KeptBy(q)
  BY <1>1, <1>2, Ending DEF KeptBy
<1>6. job[p].command = "prepare" => created[p] = File
  <2>1. job[p].at \notin DOMAIN Steps(p) /\ job[p].at > 0
    BY <1>1, StepNumbers DEF Done, CoreTypeOK
  <2>2. job[p].command = "prepare" => After(p, "keepArtifact") /\ After(p, "keepEvidence")
    BY <1>1, <2>1, StepsBefore
  <2>3. QED
    BY <1>1, <1>2, <2>2 DEF FilesAreOwned, KeptBy, File
<1>7. FilesAreOwned'
  <2>1. \A q \in Job : job'[q].end = "failed" => job[q].end = "failed"
    BY <1>5
  <2>2. \A q \in Job : /\ job'[q].command # "prepare" => created[q] = {}
                       /\ job'[q].command = "prepare" /\ ~Ended(q)' => created[q] = KeptBy(q)'
    BY <1>1, <1>5 DEF FilesAreOwned, Ended
  <2>3. \A q \in Job, f \in File : retained[f] # None /\ retained[f].by = q =>
          retained[f].of = Torn \/ (retained[f].of = Sha /\ f \in created[q] /\ job'[q].end # "failed")
    BY <1>1, <2>1 DEF FilesAreOwned
  <2>4. QED
    BY <1>2, <2>2, <2>3 DEF FilesAreOwned
<1>8. SkippedIsIdentical'
  BY <1>1, <1>2 DEF SkippedIsIdentical
<1>9. ReleaseIsTheCommit'
  BY <1>1, <1>2, <1>5, <1>6 DEF ReleaseIsTheCommit, SkippedIsIdentical, File
<1>10. CommandLeavesNothing'
  BY <1>1, <1>2, <1>3, <1>5 DEF CommandLeavesNothing, Ended
<1>11. QED
  BY <1>3, <1>4, <1>7, <1>8, <1>9, <1>10 DEF CoreInv

(***************************************************************************)
(* The lookup and the publication.                                         *)
(***************************************************************************)

\* A version that is there has the bound content, and ends the command; else its tag is watched from now on.
LEMMA LookupKeepsInv ==
  ASSUME CoreInv, NEW p \in Job, Lookup(p)
  PROVE  CoreInv'
<1>1. CoreTypeOK /\ CandidateIsTheCommit /\ InspectionHolds /\ FilesAreOwned /\ TagIsWatched
        /\ ReleaseIsTheCommit /\ CommandLeavesNothing /\ SkippedIsIdentical
  BY DEF CoreInv
<1>2. At(p, "lookup") /\ ~Ended(p) /\ approved' = [approved EXCEPT ![p] = (repo.tag = Sha)]
        /\ UNCHANGED <<repo, saw, source, held, retained, created, registry, private, faults>>
  BY DEF Lookup, At, Ended
<1>3. PICK answer \in {registry, None} :
        /\ Decision(p, answer) # "collision"
        /\ decision' = [decision EXCEPT ![p] = Decision(p, answer)]
        /\ job' = [job EXCEPT ![p].at = IF Decision(p, answer) = "publish" THEN @ + 1 ELSE Len(Steps(p)) + 1]
  BY DEF Lookup
<1>4. /\ After(p, "bind") /\ After(p, "bound") /\ job[p].command # "prepare"
      /\ saw[p].head = Sha /\ saw[p].tag = Sha /\ held[p].evidence = Sha /\ held[p].artifact = Sha
  <2>1. After(p, "bound") /\ job[p].command # "prepare"
    BY <1>1, <1>2, StepsBefore, StepsOfPrepare
  <2>2. After(p, "bind")
    BY <1>1, <1>2, StepsBefore
  <2>3. \A sight \in Sights : ~At(p, sight)
    BY <1>2 DEF At, Sights
  <2>4. QED
    BY <1>1, <1>2, <2>1, <2>2, <2>3 DEF CandidateIsTheCommit, InspectionHolds, Sights
<1>5. Decision(p, answer) \in {"publish", "skip-identical"} /\ decision'[p] = Decision(p, answer)
        /\ decision' \in [Job -> {"none", "publish", "skip-identical"}] /\ \A q \in Job : q # p => decision'[q] = decision[q]
  BY <1>1, <1>3 DEF Decision, CoreTypeOK
<1>6. Decision(p, answer) = "skip-identical" => registry # None /\ registry.of = Sha /\ registry.head = Sha
  BY <1>3, <1>4 DEF Decision
<1> DEFINE at == IF Decision(p, answer) = "publish" THEN job[p].at + 1 ELSE Len(Steps(p)) + 1
<1>7. at \in Nat \ {0} /\ job' = [job EXCEPT ![p].at = at]
  <2>1. Len(Steps(p)) \in Nat /\ job[p].at \in Nat
    BY <1>1, StepNumbers DEF CoreTypeOK
  <2>2. QED
    BY <1>1, <1>3, <2>1 DEF CoreTypeOK
<1> HIDE DEF at
<1>8. /\ \A q \in Job : job'[q].command = job[q].command /\ job'[q].end = job[q].end /\ (q # p => job'[q] = job[q])
      /\ job'[p].at = at /\ \A q \in Job : Steps(q)' = Steps(q)
  BY <1>1, <1>7 DEF CoreTypeOK, Steps
<1>9. \A q \in Job \ {p} : \A s : (After(q, s)' <=> After(q, s)) /\ (At(q, s)' <=> At(q, s))
  BY <1>8 DEF After, At
<1>10. approved' \in [Job -> BOOLEAN] /\ (repo.tag = Sha => approved'[p]) /\ \A q \in Job : q # p => approved'[q] = approved[q]
  <2> DEFINE isSha == (repo.tag = Sha)
  <2>1. isSha \in BOOLEAN /\ (repo.tag = Sha => isSha)
    OBVIOUS
  <2>2. approved \in [Job -> BOOLEAN] /\ approved' = [approved EXCEPT ![p] = isSha]
    BY <1>1, <1>2 DEF CoreTypeOK
  <2> HIDE DEF isSha
  <2>3. QED
    BY <2>1, <2>2
<1>11. CoreTypeOK'
  <2>1. job' \in [Job -> [command : DOMAIN Program, at : Nat \ {0}, end : {"running", "failed", "done"}]]
    BY <1>1, <1>7, JobStays
  <2>2. QED
    BY <1>1, <1>2, <1>5, <1>10, <2>1 DEF CoreTypeOK
<1>12. InspectionHolds'
  <2> SUFFICES ASSUME NEW q \in Job, ~Ended(q)', After(q, "bind")', ~\E sight \in Sights : At(q, sight)'
               PROVE  saw[q].head = Sha /\ saw[q].tag = Sha
    BY <1>2 DEF InspectionHolds, Sights
  <2>1. CASE q = p
    BY <1>4, <2>1
  <2>2. CASE q # p
    BY <1>1, <1>8, <1>9, <2>2 DEF InspectionHolds, Sights, Ended
  <2>3. QED
    BY <2>1, <2>2
<1>13. CandidateIsTheCommit'
  <2> SUFFICES ASSUME NEW q \in Job, ~Ended(q)'
               PROVE  /\ job'[q].command = "prepare" =>
                           /\ After(q, "source")' => source[q] \in [one : Content, two : {Sha}]
                           /\ After(q, "pack")' => held[q].artifact = Sha
                           /\ After(q, "build")' => held[q].evidence = Sha
                      /\ After(q, "bound")' => held[q].evidence = Sha /\ held[q].artifact = Sha
    BY <1>2 DEF CandidateIsTheCommit
  <2>1. CASE q = p
    BY <1>4, <1>8, <2>1
  <2>2. CASE q # p
    BY <1>1, <1>8, <1>9, <2>2 DEF CandidateIsTheCommit, Ended
  <2>3. QED
    BY <2>1, <2>2
<1>14. FilesAreOwned'
  <2>1. \A q \in Job : q # p => KeptBy(q)' = KeptBy(q)
    BY <1>9 DEF KeptBy
  <2>2. \A q \in Job : /\ job'[q].command # "prepare" => created[q] = {}
                       /\ job'[q].command = "prepare" /\ ~Ended(q)' => created[q] = KeptBy(q)'
    BY <1>1, <1>4, <1>8, <2>1 DEF FilesAreOwned, Ended
  <2>3. \A q \in Job, f \in File : retained[f] # None /\ retained[f].by = q =>
          retained[f].of = Torn \/ (retained[f].of = Sha /\ f \in created[q] /\ job'[q].end # "failed")
    BY <1>1, <1>8 DEF FilesAreOwned
  <2>4. QED
    BY <1>2, <2>2, <2>3 DEF FilesAreOwned
<1>15. SkippedIsIdentical'
  BY <1>1, <1>2, <1>5, <1>6 DEF SkippedIsIdentical
<1>16. TagIsWatched'
  <2> SUFFICES ASSUME NEW q \in Job, ~Ended(q)', After(q, "lookup")', (job[q].at \in DOMAIN Steps(q))'
               PROVE  /\ decision'[q] = "publish" /\ (repo.tag = Sha => approved'[q])
                      /\ \A next \in {"status", "index", "bind", "bound", "publish"} :
                           At(q, next)' /\ saw[q].tag = Sha => approved'[q]
    BY <1>2 DEF TagIsWatched
  <2>1. CASE q = p
    <3>1. decision'[p] = "publish"
      <4>1. Len(Steps(p)) \in Nat /\ DOMAIN Steps(p) = 1..Len(Steps(p)) /\ at \in DOMAIN Steps(p)
        BY <1>1, <1>8, <2>1, StepNumbers
      <4>2. QED
        BY <1>5, <4>1 DEF at
    <3>2. Goes(p)
      BY <1>1, <1>5, <1>7, <3>1 DEF Goes, CoreTypeOK, at
    <3>3. \A next \in {"status", "index", "bind", "bound", "publish"} : ~At(p, next)'
      BY <1>1, <1>2, <3>2, Going, StepsFollow
    <3>4. QED
      BY <1>10, <2>1, <3>1, <3>3
  <2>2. CASE q # p
    BY <1>1, <1>2, <1>5, <1>8, <1>9, <1>10, <2>2 DEF TagIsWatched, Ended
  <2>3. QED
    BY <2>1, <2>2
<1>17. ReleaseIsTheCommit'
  BY <1>1, <1>2, <1>8, <1>15 DEF ReleaseIsTheCommit, SkippedIsIdentical
<1>18. CommandLeavesNothing'
  BY <1>1, <1>2, <1>8 DEF CommandLeavesNothing, Ended
<1>19. QED
  BY <1>11, <1>12, <1>13, <1>14, <1>15, <1>16, <1>17, <1>18 DEF CoreInv

\* The publication is of what was bound; a lost answer leaves it published.
LEMMA PublishKeepsInv ==
  ASSUME CoreInv, NEW p \in Job, Publish(p)
  PROVE  CoreInv'
<1>1. CoreTypeOK /\ CandidateIsTheCommit /\ InspectionHolds /\ FilesAreOwned /\ TagIsWatched
        /\ ReleaseIsTheCommit /\ CommandLeavesNothing /\ SkippedIsIdentical
  BY DEF CoreInv
<1>2. At(p, "publish") /\ ~Ended(p) /\ registry = None /\ held[p].artifact = Sha /\ held[p].evidence = Sha
  <2>1. At(p, "publish") /\ ~Ended(p) /\ registry = None
    BY DEF Publish, At, Ended
  <2>2. QED
    BY <1>1, <2>1, StepsBefore DEF CandidateIsTheCommit
<1>3. registry' = [by |-> p, of |-> Sha, head |-> Sha] /\ UNCHANGED <<repo, retained, created, decision, approved, faults>>
  BY <1>2 DEF Publish
<1>4. RegistryIsRight'
  BY <1>3 DEF RegistryIsRight
<1>5. SkippedIsIdentical'
  BY <1>1, <1>2, <1>3 DEF SkippedIsIdentical
<1>6. CASE Goes(p) /\ UNCHANGED <<private, saw, source, held>>
  <2>1. CoreTypeOK'
    BY <1>1, <1>3, <1>6, PlaceGoes DEF CoreTypeOK
  <2>2. "publish" \notin Sights \union {"head"}
    BY DEF Sights
  <2>3. InspectionHolds' /\ CandidateIsTheCommit' /\ FilesAreOwned' /\ TagIsWatched'
    BY <1>2, <1>3, <1>6, <2>2, InspectionStays, CandidateStays, FilesStay, TagStays
  <2>4. ReleaseIsTheCommit' /\ CommandLeavesNothing'
    BY <1>2, <1>3, <1>4, <1>5, <1>6, <2>3, EndStays
  <2>5. QED
    BY <1>5, <2>1, <2>3, <2>4 DEF CoreInv
<1>7. CASE job' = [job EXCEPT ![p].end = "failed"] /\ private' = [private EXCEPT ![p] = {}] /\ Forgets(p)
  <2>1. retained' \in [File -> {None} \union [by : Job \union {"before", "other"}, of : Content]]
    BY <1>1, <1>3 DEF CoreTypeOK
  <2>2. /\ CoreTypeOK' /\ private'[p] = {}
        /\ \A q \in Job : q # p => saw'[q] = saw[q] /\ source'[q] = source[q] /\ held'[q] = held[q] /\ private'[q] = private[q]
    BY <1>1, <1>3, <1>7, <2>1, EndKeepsType
  <2>3. InspectionHolds' /\ CandidateIsTheCommit' /\ TagIsWatched'
    BY <1>3, <1>7, <2>2, EndKeepsKnowledge
  <2>4. /\ job'[p].end = "failed" /\ job'[p].command = job[p].command
        /\ \A q \in Job : (q # p => job'[q] = job[q]) /\ KeptBy(q)' = KeptBy(q)
    BY <1>1, <1>7, Ending DEF KeptBy
  <2>5. job[p].command # "prepare"
    BY <1>1, <1>2, StepsOfPrepare
  <2>6. FilesAreOwned'
    <3>1. \A q \in Job : /\ job'[q].command # "prepare" => created[q] = {}
                         /\ job'[q].command = "prepare" /\ ~Ended(q)' => created[q] = KeptBy(q)'
      BY <1>1, <2>4, <2>5 DEF FilesAreOwned, Ended
    <3>2. created[p] = {}
      BY <1>1, <2>5 DEF FilesAreOwned
    <3>3. \A q \in Job, f \in File : retained[f] # None /\ retained[f].by = q =>
            retained[f].of = Torn \/ (retained[f].of = Sha /\ f \in created[q] /\ job'[q].end # "failed")
      BY <1>1, <2>4, <3>2 DEF FilesAreOwned
    <3>4. QED
      BY <1>3, <3>1, <3>3 DEF FilesAreOwned
  <2>7. ReleaseIsTheCommit'
    BY <1>1, <1>3, <1>4, <1>5, <2>4, <2>6
       DEF ReleaseIsTheCommit, FilesAreOwned, SkippedIsIdentical, RegistryIsRight, File
  <2>8. CommandLeavesNothing'
    BY <1>1, <1>3, <2>2, <2>4, <2>6 DEF CommandLeavesNothing, FilesAreOwned, Ended, File
  <2>9. QED
    BY <1>5, <2>2, <2>3, <2>6, <2>7, <2>8 DEF CoreInv
<1>8. QED
  BY <1>6, <1>7 DEF Publish

(***************************************************************************)
(* What others do.                                                         *)
(***************************************************************************)

\* Checkouts and edits touch nothing a command remembers, a moved tag only what it still approves;
\* files and publications of others are not a command's.
LEMMA OthersKeepInv ==
  ASSUME CoreInv, Checkout \/ Edit \/ MoveTag \/ MixFiles \/ OtherPublishes \/ UNCHANGED coreVars
  PROVE  CoreInv'
<1>1. CoreTypeOK /\ CandidateIsTheCommit /\ InspectionHolds /\ FilesAreOwned /\ TagIsWatched
        /\ ReleaseIsTheCommit /\ CommandLeavesNothing /\ SkippedIsIdentical
  BY DEF CoreInv
<1>2. UNCHANGED <<job, saw, source, held, created, decision, private>>
  BY DEF Checkout, Edit, MoveTag, MixFiles, OtherPublishes, coreVars
<1>3. \A q \in Job : Ended(q)' = Ended(q) /\ Steps(q)' = Steps(q)
        /\ \A s : (After(q, s)' <=> After(q, s)) /\ (At(q, s)' <=> At(q, s))
  BY <1>2 DEF Ended, Steps, After, At
<1>4. Commit \union {Torn} \subseteq Content /\ Job \intersect {"before", "other"} = {}
  BY CoreAssumption DEF Content
<1>5. repo \in [head : Content, tag : Content, index : Content, work : Content] /\ approved \in [Job -> BOOLEAN] /\ faults \in Nat
        /\ retained \in [File -> {None} \union [by : Job \union {"before", "other"}, of : Content]]
  BY <1>1 DEF CoreTypeOK
<1>6. /\ repo' \in [head : Content, tag : Content, index : Content, work : Content]
      /\ approved' \in [Job -> BOOLEAN] /\ \A q \in Job : approved[q] => approved'[q]
      /\ repo'.tag = repo.tag \/ (repo'.tag = Sha => \A q \in Job : approved'[q])
      /\ faults' \in Nat
  <2>1. CASE MoveTag
    <3>1. PICK c \in Commit : repo' = [repo EXCEPT !.tag = c] /\ approved' = [q \in Job |-> approved[q] \/ c = Sha]
      BY <2>1 DEF MoveTag
    <3>2. \A q \in Job : approved'[q] \in BOOLEAN /\ (approved[q] => approved'[q]) /\ (c = Sha => approved'[q])
      BY <3>1
    <3>3. approved' \in [Job -> BOOLEAN]
      BY <3>1, <3>2
    <3>4. QED
      BY <1>4, <1>5, <2>1, <3>1, <3>2, <3>3 DEF MoveTag, Fault
  <2>2. CASE Checkout \/ Edit
    <3>1. approved' = approved /\ faults' = faults + 1
      <4>1. CASE Checkout
        BY <4>1 DEF Checkout, Fault
      <4>2. CASE Edit
        BY <4>2 DEF Edit, Fault
      <4>3. QED
        BY <2>2, <4>1, <4>2
    <3> DEFINE Repo == [head : Content, tag : Content, index : Content, work : Content]
    <3>2. ASSUME NEW c \in Commit \union {Torn},
                 \/ repo' = [repo EXCEPT !.head = c, !.index = c, !.work = c]
                 \/ repo' = [repo EXCEPT !.work = c]
                 \/ repo' = [repo EXCEPT !.work = c, !.index = c]
          PROVE  repo' \in Repo /\ repo'.tag = repo.tag
      <4>1. c \in Content /\ repo \in Repo
        BY <1>4, <1>5
      <4>2. QED
        BY <3>2, <4>1
    <3>3. repo' \in Repo /\ repo'.tag = repo.tag
      <4>1. CASE Checkout
        BY <3>2, <4>1 DEF Checkout
      <4>2. CASE Edit
        <5>1. PICK c \in Commit \union {Torn} : repo' = [repo EXCEPT !.work = c] \/ repo' = [repo EXCEPT !.work = c, !.index = c]
          BY <4>2 DEF Edit
        <5>2. QED
          BY <3>2, <5>1
      <4>3. QED
        BY <2>2, <4>1, <4>2
    <3>4. QED
      BY <1>5, <3>1, <3>3
  <2>3. CASE MixFiles \/ OtherPublishes \/ UNCHANGED coreVars
    BY <1>5, <2>3 DEF MixFiles, OtherPublishes, Fault, coreVars
  <2>4. QED
    BY <2>1, <2>2, <2>3
<1>7. /\ retained' \in [File -> {None} \union [by : Job \union {"before", "other"}, of : Content]]
      /\ \A f \in File : retained'[f] = retained[f] \/ retained'[f].by = "other"
  <2>1. CASE MixFiles
    <3>1. PICK kind \in File, c \in Commit \union {Torn} : retained' = [retained EXCEPT ![kind] = [by |-> "other", of |-> c]]
      BY <2>1 DEF MixFiles, File
    <3>2. [by |-> "other", of |-> c] \in [by : Job \union {"before", "other"}, of : Content]
      BY <1>4
    <3>3. QED
      BY <1>5, <3>1, <3>2
  <2>2. CASE ~MixFiles
    BY <1>5, <2>2 DEF Checkout, Edit, MoveTag, OtherPublishes, coreVars
  <2>3. QED
    BY <2>1, <2>2
<1>8. registry' = registry \/ (registry = None /\ registry'.by = "other")
  <2>1. CASE OtherPublishes
    BY <2>1 DEF OtherPublishes
  <2>2. CASE ~OtherPublishes
    BY <2>2 DEF Checkout, Edit, MoveTag, MixFiles, coreVars
  <2>3. QED
    BY <2>1, <2>2
<1>9. CoreTypeOK'
  BY <1>1, <1>2, <1>6, <1>7 DEF CoreTypeOK
<1>10. InspectionHolds' /\ CandidateIsTheCommit'
  BY <1>1, <1>2, <1>3 DEF InspectionHolds, CandidateIsTheCommit
<1>11. FilesAreOwned'
  <2>1. \A q \in Job : KeptBy(q)' = KeptBy(q)
    BY <1>3 DEF KeptBy
  <2>2. QED
    BY <1>1, <1>2, <1>3, <1>4, <1>7, <2>1 DEF FilesAreOwned
<1>12. SkippedIsIdentical'
  BY <1>1, <1>2, <1>8 DEF SkippedIsIdentical
<1>13. TagIsWatched'
  BY <1>1, <1>2, <1>3, <1>6 DEF TagIsWatched
<1>14. ReleaseIsTheCommit'
  BY <1>1, <1>2, <1>4, <1>7, <1>8, <1>12 DEF ReleaseIsTheCommit, SkippedIsIdentical, File
<1>15. CommandLeavesNothing'
  BY <1>1, <1>2, <1>3, <1>4, <1>7 DEF CommandLeavesNothing, File
<1>16. QED
  BY <1>9, <1>10, <1>11, <1>12, <1>13, <1>14, <1>15 DEF CoreInv

(***************************************************************************)
(* The theorems.                                                           *)
(***************************************************************************)

LEMMA InitCoreInv ==
  ASSUME CoreInit
  PROVE  CoreInv
<1>1. PICK command \in [Job -> DOMAIN Program] : job = [p \in Job |-> [command |-> command[p], at |-> 1, end |-> "running"]]
  BY DEF CoreInit
<1>2. \A p \in Job : job[p].at = 1 /\ job[p].end = "running" /\ ~Ended(p)
  BY <1>1 DEF Ended
<1>3. /\ job \in [Job -> [command : DOMAIN Program, at : Nat \ {0}, end : {"running", "failed", "done"}]]
      /\ Sha \in Content /\ None \in Content
  BY <1>1, CoreAssumption DEF Content
<1>4. NoSight \in [head : Content, tag : Content, clean : BOOLEAN, index : Content]
        /\ NoFiles \in [evidence : Content, artifact : Content]
  BY <1>3 DEF NoSight, NoFiles
<1>5. /\ retained \in [File -> {None} \union [by : Job \union {"before", "other"}, of : Content]]
      /\ \A f \in File : retained[f] # None => retained[f].by = "before"
  <2>1. CASE retained = NoFiles
    BY <2>1 DEF NoFiles, File
  <2>2. CASE retained = [evidence |-> [by |-> "before", of |-> Sha], artifact |-> [by |-> "before", of |-> Sha]]
    BY <1>3, <2>2 DEF File
  <2>3. QED
    BY <2>1, <2>2 DEF CoreInit
<1>6. CoreTypeOK
  BY <1>3, <1>4, <1>5 DEF CoreInit, CoreTypeOK
<1>7. \A p \in Job : \A s : ~After(p, s)
  BY <1>2, <1>6, StepNumbers DEF After
<1>8. InspectionHolds /\ CandidateIsTheCommit /\ TagIsWatched
  BY <1>7 DEF InspectionHolds, CandidateIsTheCommit, TagIsWatched
<1>9. FilesAreOwned
  BY <1>5, <1>7, CoreAssumption DEF FilesAreOwned, KeptBy, CoreInit
<1>10. SkippedIsIdentical
  BY DEF SkippedIsIdentical, CoreInit
<1>11. ReleaseIsTheCommit /\ CommandLeavesNothing
  BY <1>2, <1>5, CoreAssumption DEF ReleaseIsTheCommit, CommandLeavesNothing, CoreInit, File
<1>12. QED
  BY <1>6, <1>8, <1>9, <1>10, <1>11 DEF CoreInv

\* Every step keeps the invariant.
LEMMA StepCoreInv ==
  ASSUME CoreInv, [CoreNext]_coreVars
  PROVE  CoreInv'
<1>1. ASSUME NEW p \in Job, Inspects(p) PROVE CoreInv'
  BY <1>1, InspectsKeepsInv
<1>2. ASSUME NEW p \in Job, Prepares(p) PROVE CoreInv'
  <2> DEFINE Plain == Destinations(p) \/ MakeTemp(p) \/ ResolveNpm(p)
  <2>1. CASE Plain
    BY <2>1, PlainPrepareKeepsInv
  <2>2. CASE Materialize(p) \/ Gates(p)
    BY <2>2, SourceKeepsInv
  <2>3. CASE Pack(p) \/ BuildEvidence(p)
    BY <2>3, HeldKeepsInv
  <2>4. CASE KeepArtifact(p) \/ KeepEvidence(p)
    BY <2>4, KeepKeepsInv
  <2>5. CASE KeepHalf(p)
    BY <2>5, KeepHalfKeepsInv
  <2>6. QED
    BY <1>2, <2>1, <2>2, <2>3, <2>4, <2>5 DEF Prepares
<1>3. ASSUME NEW p \in Job, Publishes(p) PROVE CoreInv'
  <2>1. CASE ReadFile(p) \/ Bound(p)
    BY <2>1, HeldKeepsInv
  <2>2. CASE Secure(p) \/ Uses(p)
    BY <2>2, PlainPublishKeepsInv
  <2>3. CASE Lookup(p)
    BY <2>3, LookupKeepsInv
  <2>4. CASE Publish(p)
    BY <2>4, PublishKeepsInv
  <2>5. QED
    BY <1>3, <2>1, <2>2, <2>3, <2>4 DEF Publishes
<1>4. ASSUME NEW p \in Job, Fails(p) PROVE CoreInv'
  BY <1>4, FailsKeepsInv
<1>5. ASSUME NEW p \in Job, Done(p) PROVE CoreInv'
  BY <1>5, DoneKeepsInv
<1>6. CASE Checkout \/ Edit \/ MoveTag \/ MixFiles \/ OtherPublishes \/ UNCHANGED coreVars
  BY <1>6, OthersKeepInv
<1>7. QED
  BY <1>1, <1>2, <1>3, <1>4, <1>5, <1>6 DEF CoreNext, AllEnded

\* What prepare retains and publish publishes is the release's commit, whatever is checked out, tagged,
\* edited or mixed up between the calls that read it, for any number of commands at once; a command that
\* ends leaves none of its directories, and one that fails no whole file.
THEOREM CoreInvariant == CoreSpec => []CoreInv
<1>1. CoreInit => CoreInv
  BY InitCoreInv
<1>2. CoreInv /\ [CoreNext]_coreVars => CoreInv'
  BY StepCoreInv
<1>3. QED
  BY <1>1, <1>2, PTL DEF CoreSpec

\* Only the publisher of this tool makes a publication of its own.
LEMMA PublicationStep ==
  ASSUME CoreInv, [CoreNext]_coreVars, NEW p \in Job, registry' # registry, registry'.by = p
  PROVE  approved[p] /\ decision[p] = "publish"
<1>1. PICK q \in Job : Publish(q)
  <2>1. ~OtherPublishes
    BY CoreAssumption DEF OtherPublishes
  <2>2. QED
    BY <2>1 DEF CoreNext, Inspects, Prepares, Publishes, Destinations, MakeTemp, ResolveNpm, Materialize, Gates, Pack,
                BuildEvidence, KeepArtifact, KeepEvidence, KeepHalf, ReadFile, Bound, Secure, Uses, Lookup, Fails, Done,
                Checkout, Edit, MoveTag, MixFiles, AllEnded, coreVars
<1>2. q = p
  BY <1>1 DEF Publish
<1>3. At(p, "publish") /\ ~Ended(p) /\ CoreTypeOK /\ InspectionHolds /\ TagIsWatched
  BY <1>1, <1>2 DEF Publish, At, Ended, CoreInv
<1>4. After(p, "bind") /\ After(p, "lookup") /\ job[p].at \in DOMAIN Steps(p)
  BY <1>3, StepsBefore DEF At
<1>5. saw[p].tag = Sha
  <2>1. \A sight \in Sights : ~At(p, sight)
    BY <1>3 DEF At, Sights
  <2>2. QED
    BY <1>3, <1>4, <2>1 DEF InspectionHolds, Sights
<1>6. QED
  BY <1>3, <1>4, <1>5 DEF TagIsWatched

\* A command publishes only what its lookup has approved, with the tag at the release's commit at some
\* time since: between them it has bound the release once more.
THEOREM PublicationsAreApproved == CoreSpec => PublicationWasApproved
<1>1. CoreInv /\ [CoreNext]_coreVars =>
        [\A p \in Job : registry' # registry /\ registry'.by = p => approved[p] /\ decision[p] = "publish"]_coreVars
  BY PublicationStep
<1>2. QED
  BY <1>1, CoreInvariant, PTL DEF CoreSpec, PublicationWasApproved

(***************************************************************************)
(* The bounded capture of a file.                                          *)
(***************************************************************************)

\* A buffer is never empty while the capture is within its limit, and never takes it
\* more than one byte beyond.
LEMMA RequestFits ==
  ASSUME size \in Nat, size <= Limit
  PROVE  Request \in Nat /\ Request >= 1 /\ size + Request <= Limit + 1
BY LimitAssumption DEF Request, Smaller

\* A read keeps the capture within its bound.
LEMMA ReadInv == CaptureInv /\ Read => CaptureInv'
<1> SUFFICES ASSUME CaptureInv, Read PROVE CaptureInv'
  OBVIOUS
<1>1. size \in Nat /\ size <= Limit /\ Limit \in Nat
  BY LimitAssumption DEF CaptureInv, TypeOK, Read
<1>2. UNCHANGED Environs
  BY DEF Read
<1>3. CASE size' = size
  BY <1>1, <1>2, <1>3 DEF Read, Leave, Environs, CaptureInv, CaptureIsBounded, TypeOK
<1>4. ASSUME NEW n \in 1..Smaller(Request, length - size), length > size, ~ Inactive,
             size' = size + n,
             IF size' > Limit THEN Leave("code") ELSE UNCHANGED <<pc, verdict, result>>
      PROVE  CaptureInv'
  <2>1. size' \in Nat /\ size' <= Limit + 1
    BY <1>1, <1>4, RequestFits DEF Smaller, CaptureInv, TypeOK
  <2>2. CASE size' > Limit
    BY <1>1, <1>2, <1>4, <2>1, <2>2
       DEF Read, Leave, Environs, CaptureInv, CaptureIsBounded, TypeOK
  <2>3. CASE ~ (size' > Limit)
    BY <1>1, <1>2, <1>4, <2>1, <2>3
       DEF Read, Environs, CaptureInv, CaptureIsBounded, TypeOK
  <2>4. QED
    BY <2>2, <2>3
<1>5. QED
  BY <1>3, <1>4 DEF Read

\* The invariant of the capture holds in every reachable state.
THEOREM CaptureInvariant == Spec => []CaptureInv
<1>1. Init => CaptureInv
  <2> SUFFICES ASSUME Init PROVE CaptureInv
    OBVIOUS
  <2>1. /\ watched \in BOOLEAN /\ silenced \in BOOLEAN
        /\ file \in {"regular", "other", "absent"}
        /\ pc = "idle" /\ verdict = "none" /\ result = "pending"
    BY DEF Init
  <2>2. size = 0 /\ 0 <= Limit /\ length \in Nat
    BY LimitAssumption DEF Init
  <2>3. QED
    BY <2>1, <2>2, LimitAssumption DEF CaptureInv, CaptureIsBounded, TypeOK
<1>2. CaptureInv /\ [Next]_vars => CaptureInv'
  <2> SUFFICES ASSUME CaptureInv, [Next]_vars PROVE CaptureInv'
    OBVIOUS
  <2> USE LimitAssumption DEF CaptureInv, CaptureIsBounded, TypeOK, Environs
  <2>1. CASE Begin
    BY <2>1 DEF Begin
  <2>2. CASE Open
    BY <2>2 DEF Open, Leave
  <2>3. CASE Stat
    BY <2>3 DEF Stat, Leave
  <2>4. CASE Read
    BY <2>4, ReadInv
  <2>5. CASE Close
    BY <2>5 DEF Close
  <2>6. CASE Resize
    BY <2>6 DEF Resize
  <2>7. CASE OutputFails
    BY <2>7 DEF OutputFails
  <2>8. CASE UNCHANGED vars
    BY <2>8 DEF vars
  <2>9. QED
    BY <2>1, <2>2, <2>3, <2>4, <2>5, <2>6, <2>7, <2>8 DEF Next, Step
<1>3. QED
  BY <1>1, <1>2, PTL DEF Spec

\* An accepted capture had reached the end of the file at its last read: the buffer
\* of a read is never empty, so a read without a byte means the end.
THEOREM AcceptedIsWhole == Spec => NeverCutOff
<1>1. CaptureInv /\ [Next]_vars => [verdict' = "bytes" /\ verdict # "bytes" => size >= length]_vars
  <2> SUFFICES ASSUME CaptureInv, Next, verdict' = "bytes", verdict # "bytes"
               PROVE  size >= length
    OBVIOUS
  <2>1. Read
    BY DEF Next, Step, Begin, Open, Stat, Close, Resize, OutputFails, Leave
  <2>2. length <= size \/ Request <= 0
    BY <2>1 DEF Read, Leave
  <2>3. Request >= 1
    BY <2>1, RequestFits DEF CaptureInv, TypeOK, Read
  <2>4. length \in Nat /\ size \in Nat /\ Request \in Int
    BY <2>1, RequestFits DEF CaptureInv, TypeOK, Read
  <2>5. QED
    BY <2>2, <2>3, <2>4
<1>2. QED
  BY CaptureInvariant, <1>1, PTL DEF Spec, NeverCutOff

\* No file operation of a capture starts after an output failure.
THEOREM CaptureStopsSilenced == Spec => NoOperationSilenced
<1>1. [Next]_vars => [Inactive /\ pc' \in {"opening", "stating", "reading"} =>
                       pc' = pc /\ size' = size]_vars
  BY DEF Next, Step, Begin, Open, Stat, Read, Close, Resize, OutputFails, Leave
<1>2. QED
  BY <1>1, PTL DEF Spec, NoOperationSilenced

\* Bytes are not handed over once the output has failed.
THEOREM NothingHandedSilenced == Spec => NoBytesSilenced
<1>1. [Next]_vars => [Inactive /\ verdict # "bytes" => verdict' # "bytes"]_vars
  BY DEF Next, Step, Begin, Open, Stat, Read, Close, Resize, OutputFails, Leave
<1>2. QED
  BY <1>1, PTL DEF Spec, NoBytesSilenced

\* What no step of a capture does, for every limit and every length of the file.
THEOREM CaptureIsDisciplined == Spec => CaptureDiscipline
BY AcceptedIsWhole, CaptureStopsSilenced, NothingHandedSilenced DEF CaptureDiscipline
================================================================================
